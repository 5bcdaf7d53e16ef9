SPECIFICATION Spec
CONSTANTS
    Declared <- MCDeclared
    Types <- MCTypes
    Group = 2
    Default = 7
    Counts = {0, 1, 2}
    MaxLen = 4
    MaxCount = 2
INVARIANT TypeOK
PROPERTIES
    RoundTrip
    CanonicalReads
    FailureKeeps
    OldObjectForgotten
    ParseExact
    TruncationReported
