SPECIFICATION FairSpec
CONSTANTS
  q = q
  e0 = e0
  e1 = e1
  c1 = c1
  c2 = c2
  Absent = Absent
  Points <- ListPoints
  Lists <- ListPoints
  Elems = {e0, e1}
  Length = 1
  Callbacks = {c1, c2}
  Written <- ListKeys
  DelayKeys <- ListDelays
  Interest <- ListInterest
  Defaults <- ListDefaults
  MaxSets = 3
  MaxResets = 1
INVARIANTS
  NoLostNotification
PROPERTIES
  ObserversConverge
  ReadsGoForward
  SyncReadsOwnWrite
CHECK_DEADLOCK FALSE
