SPECIFICATION Spec
CONSTANTS
    Heap = 4
    Cont = Cont
    Junk = Junk
    MaxWidth = 2
    MaxGroups = 2
    Ranges <- MCRanges
INVARIANTS
    TypeOK
    NothingUnwritten
PROPERTIES
    AllOrNothing
    FileSpec
