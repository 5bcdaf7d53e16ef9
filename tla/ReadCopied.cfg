SPECIFICATION Spec
CONSTANTS
  Streams = {s1, s2}
  Size = 2
  Widths = {1, 2}
  MaxFrames = 3
  CopyDuringRead = TRUE
PROPERTIES
  OutermostReadRestores
