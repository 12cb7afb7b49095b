SPECIFICATION ResumedSpec
CONSTANTS
  Domain = {d1, d2, d3}
  MaxKey = 7
  QueueCount = 3
  PageSize = 2
  MaxPending = 5
  CriticalPending = 3
  MaxFaults = 0
  SomeTaskMoves = TRUE
  d1 = d1
  d2 = d2
  d3 = d3
INVARIANTS
  SlicesOrdered
  HeldOnce
  Recoverable
PROPERTIES
  NoStepLosesTask
CHECK_DEADLOCK FALSE
