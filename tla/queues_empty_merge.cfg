SPECIFICATION MCSpec
CONSTANTS
  Domain = {d1, d2}
  MaxKey = 3
  QueueCount = 2
  PageSize = 2
  MaxPending = 3
  CriticalPending = 2
  MaxFaults = 0
  SomeTaskMoves = FALSE
  d1 = d1
  d2 = d2
  d3 = d3
PROPERTIES
  NoTaskLost
CHECK_DEADLOCK FALSE
