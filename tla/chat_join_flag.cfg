SPECIFICATION Spec
CONSTANTS
  c1 = c1
  c2 = c2
  c3 = c3
  NoClient = NoClient
  Clients <- OneClient
  MaxClients = 2
  PipeCap = 1
  MaxLines = 0
  MaxKills = 0
  Signals <- NoSignals
INVARIANTS
  JoinIsAvailable
CHECK_DEADLOCK FALSE
