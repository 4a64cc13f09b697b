SPECIFICATION Spec
CONSTANTS
  c1 = c1
  c2 = c2
  Conns = {c1}
  Streams <- EnergyStreams
  Address = 63
  Known <- Registers382
  MaxRestarts = 0
INVARIANTS
  NothingLeft
CHECK_DEADLOCK FALSE
