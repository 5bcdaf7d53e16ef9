SPECIFICATION Spec
CONSTANTS
    Objects = {s1, s2}
    Byte = {0, 1}
    Junk = 2
    MaxSize = 2
INVARIANT TypeOK
PROPERTY ContractSpec
