SPECIFICATION MCSpec
CONSTANTS
  Manager = {m1}
  Payload = {p1, p2}
  Expiring = {p1, p2}
  RangeSize = 2
  BatchSize = 2
  BufferSize = 1
  ReadRangeSize = 2
  ReadIterations = 1
  WriteBatchSize = 2
  AppendThreshold = 2
  MaxRangeID = 3
  MaxDisturbances = 2
  Scenario = {"batch", "single"}
INVARIANTS
  NoTaskLost
  ReadInOrder
  NothingStranded
SYMMETRY Symmetry
CHECK_DEADLOCK FALSE
