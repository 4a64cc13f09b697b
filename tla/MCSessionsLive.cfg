SPECIFICATION FairSpec
CONSTANTS
  a = a
  b = b
  Clients = {a, b}
  MsPerSec = 1
  Timeout = 1
  TimeoutIsText = FALSE
  MaxSessions = 2
  MaxEvents = 2
  LastActivity = 1
  MaxNow = 6
  MaxPurges = 0
PROPERTIES
  IdleSessionsExpire
  EventsAreLogged
CHECK_DEADLOCK FALSE
