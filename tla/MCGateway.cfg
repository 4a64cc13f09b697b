SPECIFICATION FairSpec
CONSTANTS
  Values = {0, 1}
  Default = 0
  Punctual = TRUE
  MaxWrites = 2
  MaxMoves = 2
  MaxFaults = 2
INVARIANTS
  NoEcho
PROPERTIES
  Settles
  WriteWins
CHECK_DEADLOCK FALSE
