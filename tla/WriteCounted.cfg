SPECIFICATION Spec
CONSTANTS
  Fields = {0, 1}
  MaxSize = 4
  MaxCount = 2
  Requests = {0, 1}
  MaxFrames = 2
  OwnContainers = {}
PROPERTIES
  RequestHonoured
