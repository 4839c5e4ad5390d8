SPECIFICATION Spec
CONSTANTS
  Chars = {a, b}
  NUL = NUL
  MAXLINE = 3
  MaxKeys = 3
  Me = me
  MaxMesgs = 1
  PipeCap = 2
  MaxLines = 1
INVARIANTS
  LineIsEdited
  BufferEnds
  
PROPERTIES
  ClientSteps
  ShutdownRestores
CHECK_DEADLOCK FALSE
