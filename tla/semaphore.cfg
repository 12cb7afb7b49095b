SPECIFICATION MCSpec
CONSTANTS
  Owner = {o1, o2}
  Host = {h1, h2}
  Call = {c1, c2}
  Size = 2
  BucketSize = 2
  Bucket = 0
  MaxManagers = 2
  MaxGrantAttempts = 2
  None = None
  FreeToken = FreeToken
  Unavailable = Unavailable
  NoRow = NoRow
  Scenario = {"faults", "lost", "reload", "moves", "release"}
INVARIANTS
  TypeOK
  RowsInverse
  HoldsBacked
  CacheBacked
  ServesRegistered
  NobodyStranded
SYMMETRY Symmetry
CHECK_DEADLOCK FALSE
