SPECIFICATION MCSpec
CONSTANTS
  Context = {c1}
  RangeSize = 1
  QueueState = {0}
  MaxRangeID = 4
  MaxTasks = 2
  MaxLate = 2
  Scenario = {"closed"}
PROPERTIES
  NoTaskLost
CHECK_DEADLOCK FALSE
