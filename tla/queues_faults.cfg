SPECIFICATION MCSpec
CONSTANTS
  Domain = {d1, d2}
  MaxKey = 3
  QueueCount = 2
  PageSize = 2
  MaxPending = 3
  CriticalPending = 2
  MaxFaults = 2
  SomeTaskMoves = TRUE
  d1 = d1
  d2 = d2
  d3 = d3
INVARIANTS
  TypeOK
  HeldOnce
  CountersExact
PROPERTIES
  NoTaskLost
SYMMETRY Symmetry
CHECK_DEADLOCK FALSE
