SPECIFICATION Spec
CONSTANTS
  Heap = 7
  Byte = {0, 1}
  Junk = Junk
  MaxSize = 4
INVARIANTS
  TypeOK
  BytesOwned
  SourcesJudged
PROPERTIES
  ContentExact
  ForeignUntouched
