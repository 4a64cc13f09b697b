SPECIFICATION Spec
CONSTANTS
  a = a
  b = b
  Clients = {a, b}
  MsPerSec = 2
  Timeout = 3
  TimeoutIsText = FALSE
  MaxSessions = 3
  MaxEvents = 2
  LastActivity = 5
  MaxNow = 10
  MaxPurges = 1
SYMMETRY ClientSymmetry
INVARIANTS
  DumpIsComplete
  LogIsFaithful
  OneListedPerClient
PROPERTIES
  ExpiresOnlyIdle
CHECK_DEADLOCK FALSE
