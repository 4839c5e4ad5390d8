SPECIFICATION TwoOrSilent
CONSTANTS
  c1 = c1
  c2 = c2
  c3 = c3
  NoClient = NoClient
  Clients <- ThreeClients
  MaxClients = 2
  PipeCap = 2
  MaxLines = 1
  MaxKills = 1
  Signals <- NoSignals
SYMMETRY Alike
INVARIANTS
  TypeOK
  ReadsDoNotBlock
  ArrayIntact
  FailsAlone
  BreaksAtTheGone
  RefusedWhenFull
  Inv
PROPERTIES
  LeavesByDeparting
  RoomSpec
CHECK_DEADLOCK FALSE
