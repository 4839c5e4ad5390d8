SPECIFICATION BankSpec
CONSTANTS
  s1 = s1
  s2 = s2
  u1 = u1
  u2 = u2
  a1 = a1
  a2 = a2
  r1 = r1
  r2 = r2
  Nobody = Nobody
  MaxRequests = 3
  Parts = {"sessions"}
  NoUser = NoUser
  NoDB = NoDB
  Requests <- TwoRequests
  FirstBooks <- NewOrFunded
  Sessions <- OneSession
  Users <- TwoUsers
  Accounts <- TwoAccounts
  Types <- TwoTypes
  Amounts <- OneAmount
  Openings <- NoOrOne
  FirstDB <- Founded
  MaxWork = 1
  MaxLosses = 1
PROPERTIES
  UsersStay
CHECK_DEADLOCK FALSE
