SPECIFICATION FairSpec
CONSTANTS
  a = a
  b = b
  Clients = {a, b}
  MsPerSec = 1
  Timeout = 1
  TimeoutIsText = TRUE
  MaxSessions = 2
  MaxEvents = 1
  LastActivity = 1
  MaxNow = 6
  MaxPurges = 0
PROPERTIES
  IdleSessionsExpire
CHECK_DEADLOCK FALSE
