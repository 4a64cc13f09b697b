SPECIFICATION Spec
CONSTANTS
  poller = poller
  g1 = g1
  g2 = g2
  r12 = r12
  r13 = r13
  Poller = poller
  Callers = {g1}
  Nobody = Nobody
  Routes = {r12}
  NoRoute = NoRoute
  MaxCalls = 1
  MaxFaults = 0
  MaxMoves = 1
  MaxCuts = 0
  Parts = {9}
PROPERTIES
  StartsOnlyStopped
CHECK_DEADLOCK FALSE
