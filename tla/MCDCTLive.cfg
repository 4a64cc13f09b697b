SPECIFICATION FairSpec
CONSTANTS
  poller = poller
  g1 = g1
  g2 = g2
  r12 = r12
  r13 = r13
  Poller = poller
  Callers = {g1, g2}
  Nobody = Nobody
  Routes = {r12}
  NoRoute = NoRoute
  MaxCalls = 2
  MaxFaults = 1
  MaxMoves = 0
  MaxCuts = 0
  Parts = {9}
PROPERTIES
  Reconnects
  CallsReturn
  StopEnds
CHECK_DEADLOCK FALSE
