SPECIFICATION ShellSpec
CONSTANTS
  MaxChild = 2
  BufSize = 1
  PipeCap = 2
  MaxProcs = 2
  MaxOut = 3
  MaxEvents = 1
  MaxLines = 3
  BufBytes = 2
  MaxBytes = 7
  Chars = {a, b}
  NUL = NUL
  Junk = Junk
INVARIANTS
  TypesOK
  OutputKept
  ExitsNoticed
  LinesRunOnce
PROPERTIES
  ResultStays
  ShellsComeBack
CHECK_DEADLOCK FALSE
