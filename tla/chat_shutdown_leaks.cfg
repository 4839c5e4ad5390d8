SPECIFICATION Spec
CONSTANTS
  c1 = c1
  c2 = c2
  c3 = c3
  NoClient = NoClient
  Clients <- TwoClients
  MaxClients = 2
  PipeCap = 1
  MaxLines = 0
  MaxKills = 0
  Signals <- OneSignal
INVARIANTS
  ShutdownRemovesClients
CHECK_DEADLOCK FALSE
