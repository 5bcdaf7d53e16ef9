SPECIFICATION MCSpec
CONSTANTS
    Byte = {0, 1, 2}
    Sequences <- MCSequences
    Values = {0, 1}
    MaxRules = 2
    MaxFrame = 3
    MaxEnds = 1
    Sources <- MCSources
    Texts <- MCTexts
INVARIANTS
    RoundTrip
    DelimiterFree
    PassesAgree
    HexRoundTrip
    DecodesExactly
PROPERTIES
    LongestMatch
    EveryCallReturns
CHECK_DEADLOCK FALSE
