SPECIFICATION Spec
CONSTANTS
  Streams = {s1, s2}
  Size = 2
  Widths = {1, 2}
  MaxFrames = 3
  CopyDuringRead = FALSE
INVARIANTS
  TypeOK
  OwnershipExact
  TransactionsCovered
PROPERTIES
  ContractSpec
