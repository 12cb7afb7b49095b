SPECIFICATION MCSpec
CONSTANTS
  Manager = {m1, m2}
  Payload = {p1, p2}
  Expiring = {}
  RangeSize = 1
  BatchSize = 1
  BufferSize = 1
  ReadRangeSize = 2
  ReadIterations = 1
  WriteBatchSize = 1
  AppendThreshold = 1
  MaxRangeID = 4
  MaxDisturbances = 2
  Scenario = {"takeover", "faults", "retries", "pair"}
INVARIANTS
  TypeOK
  TaskIDsUnique
  AckNeverPassesTask
  NoTaskLost
SYMMETRY Symmetry
CHECK_DEADLOCK FALSE
