SPECIFICATION Spec
CONSTANTS
    MaxInput = 5
    ByteBits = 3
    WordBytes = 3
    Widths = {1}
    Kinds = {"bool"}
INVARIANT CanonicalBothWays
CHECK_DEADLOCK FALSE
