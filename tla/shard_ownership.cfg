SPECIFICATION MCSpec
CONSTANTS
  Context = {c1, c2}
  RangeSize = 1
  QueueState = {0}
  MaxRangeID = 4
  MaxTasks = 2
  MaxLate = 2
  Scenario = {"lease", "takeover", "restart"}
INVARIANTS
  TypeOK
  OneOwner
  TaskIDsFresh
  OutcomeDecided
  NothingBelowAck
PROPERTIES
  NoLateTask
  NoTaskLost
SYMMETRY Symmetry
CHECK_DEADLOCK FALSE
