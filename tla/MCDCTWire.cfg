SPECIFICATION Spec
CONSTANTS
  poller = poller
  g1 = g1
  g2 = g2
  r12 = r12
  r13 = r13
  Poller = poller
  Callers = {g1, g2}
  Nobody = Nobody
  Routes = {r12, r13}
  NoRoute = NoRoute
  MaxCalls = 2
  MaxFaults = 1
  MaxMoves = 1
  MaxCuts = 1
  Parts = {4, 9}
INVARIANTS
  ResetBeforeOrder
  AnswersLagBehind
  ConnectDisturbsNobody
SYMMETRY Symmetry
CHECK_DEADLOCK FALSE
