SPECIFICATION MCSpec
CONSTANTS
    MaxInput = 5
    ByteBits = 3
    WordBytes = 3
    Widths = {1, 3}
    Kinds = {"unsigned", "signed"}
    FixedByteBits = 2
    FixedWordBytes = 4
    Registers = {1, 2, 4}
INVARIANTS
    AcceptsExactlyShortest
    CanonicalBothWays
    InsufficientIsRecoverable
    WireIsCanonical
    ReadsBack
CHECK_DEADLOCK FALSE
