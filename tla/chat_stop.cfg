SPECIFICATION FairSpec
CONSTANTS
  c1 = c1
  c2 = c2
  c3 = c3
  NoClient = NoClient
  Clients <- OneClient
  MaxClients = 2
  PipeCap = 1
  MaxLines = 2
  MaxKills = 1
  Signals <- BothSignals
PROPERTIES
  SignalStops
  ShutdownEnds
CHECK_DEADLOCK FALSE
