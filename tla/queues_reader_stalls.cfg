SPECIFICATION FairThreeMovedSpec
CONSTANTS
  Domain = {d1, d2, d3}
  MaxKey = 7
  QueueCount = 2
  PageSize = 2
  MaxPending = 5
  CriticalPending = 3
  MaxFaults = 0
  SomeTaskMoves = TRUE
  d1 = d1
  d2 = d2
  d3 = d3
PROPERTIES
  Processed
CHECK_DEADLOCK FALSE
