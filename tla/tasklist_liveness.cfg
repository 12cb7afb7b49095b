SPECIFICATION MCFairSpec
CONSTANTS
  Manager = {m1}
  Payload = {p1, p2}
  Expiring = {}
  RangeSize = 2
  BatchSize = 1
  BufferSize = 1
  ReadRangeSize = 1
  ReadIterations = 1
  WriteBatchSize = 1
  AppendThreshold = 1
  MaxRangeID = 4
  MaxDisturbances = 1
  Scenario = {"all"}
PROPERTIES
  EventuallyDelivered
CHECK_DEADLOCK FALSE
