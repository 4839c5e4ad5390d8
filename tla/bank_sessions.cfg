SPECIFICATION BankSpec
CONSTANTS
  s1 = s1
  s2 = s2
  u1 = u1
  u2 = u2
  a1 = a1
  a2 = a2
  r1 = r1
  r2 = r2
  Nobody = Nobody
  MaxRequests = 3
  Parts = {"sessions", "requests"}
  NoUser = NoUser
  NoDB = NoDB
  Requests <- TwoRequests
  FirstBooks <- NewOrFunded
  Sessions <- TwoSessions
  Users <- TwoUsers
  Accounts <- TwoAccounts
  Types <- TwoTypes
  Amounts <- OneAmount
  Openings <- NoOrOne
  FirstDB <- Founded
  MaxWork = 2
  MaxLosses = 1
SYMMETRY Alike
INVARIANTS
  TypesOK
  
  
  
  AloneIsLedger
PROPERTIES
  FreshForgetsNothing
CHECK_DEADLOCK FALSE
