SPECIFICATION ShellSpec
CONSTANTS
  MaxChild = 1
  BufSize = 1
  PipeCap = 1
  MaxProcs = 1
  MaxOut = 2
  MaxEvents = 0
  MaxLines = 1
  BufBytes = 1
  MaxBytes = 1
  Chars = {a}
  NUL = NUL
  Junk = Junk
PROPERTIES
  WaitAllEnds
CHECK_DEADLOCK FALSE
