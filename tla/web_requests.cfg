SPECIFICATION WebSpec
CONSTANTS
  c1 = c1
  c2 = c2
  NoClient = NoClient
  Clients <- TwoClients
  Requests <- FewRequests
  Sent <- OneOrPart
  Paths <- Site
  Kind <- KindOf
  Sizes <- EmptyOrTwo
  Disk <- AllThere
  Disks <- ImageChanges
  MaxConnections = 1
  MaxOpen = 2
  TextCap = 1
  ChunkCap = 1
  MaxLapses = 1
  MaxChanges = 1
  Words = {"word", "other"}
  MaxWords = 4
  Chars = {".", "g", "i", "f", "c"}
  MaxLen = 5
  LogConnections = 2
  BufCap = 2
  Threads = {t1, t2}
  Nobody = Nobody
  DayLength = 2
INVARIANTS
  TypesOK
  OneThreadEach
  OneAnswer
  GraphicsWhole
  TextUnderstood
  LibraryShared

  
CHECK_DEADLOCK FALSE
