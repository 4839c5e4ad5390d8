SPECIFICATION Spec
CONSTANTS
  c1 = c1
  c2 = c2
  c3 = c3
  NoClient = NoClient
  Clients <- TwoClients
  MaxClients = 2
  PipeCap = 2
  MaxLines = 0
  MaxKills = 0
  Signals <- BothSignals
SYMMETRY Alike
INVARIANTS
  EveryoneTold
  ToldInOrder
CHECK_DEADLOCK FALSE
