SPECIFICATION Spec
CONSTANTS
  c1 = c1
  c2 = c2
  Clients = {c1, c2}
  Names = {"admin", "guest"}
  Passwords = {"p1", "p2"}
  Users <- TwoUsers
  NoOne = NoOne
  MaxNonces = 3
  MaxCommands = 2
  Lists <- SomeLists
  MaxJobs = 4
  Objects <- SomeObjects
  Unknown = "unknown"
  Nothing = Nothing
  MaxDatagrams = 3
  Oids <- TwoOids
  Mapped = {"level"}
  Known = {"level"}
  Thresholds <- SomeThresholds
  Numbers = {0, 1}
  MaxReads = 3
  MaxMinutes = 2
  Blocks <- SomeBlocks
  Mode = "serial"
  Units = {0, 1, 255}
  Addresses = {2}
  Values = {1, 2}
  MaxValues = 2
  MaxWrites = 2
  Nodes <- SomeNodes
  Statuses <- SomeStatuses
  Paths <- SomePaths
  NoNode = NoNode
  GlobalTarpit <- HalfTarpit
  MaxPages = 2
  Tanks = {1, 2}
  MaxLines = 2
  Requests <- SomeRequests
  Number <- Numerals
  MaxRequests = 3
  Reading = 1
  Gain = 1
  MaxLoads = 3
  MaxEnergy = 4
  Connections = {c1}
  Bytes = {0, 1}
  Chunk = 2
  HasDecoder = TRUE
  MaxBytes = 4
  MaxStream = 7
  MaxChunk = 2
INVARIANTS
  BlocksDisjoint
CHECK_DEADLOCK FALSE
