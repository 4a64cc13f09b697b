SPECIFICATION Spec
CONSTANTS
  c1 = c1
  c2 = c2
  Conns = {c1, c2}
  Streams <- SafeStreams
  Address = 63
  Known <- Registers382
  MaxRestarts = 2
SYMMETRY ConnSymmetry
INVARIANTS
  HandledAsSent
  NothingLeft
PROPERTIES
  HangsUpRebootingOnly
CHECK_DEADLOCK FALSE
