SPECIFICATION Spec
CONSTANTS
  Fields = {0, 1}
  MaxSize = 3
  MaxCount = 2
  Requests = {1, 2}
  MaxFrames = 3
  OwnContainers = {"set", "set_atomic"}
INVARIANTS
  TypeOK
  PrefixesIntact
PROPERTIES
  RollbackExact
  CountAnnounced
  RequestHonoured
  ContractSpec
