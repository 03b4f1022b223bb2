SPECIFICATION Spec
CONSTANTS
  MaxAttempts = 2
  MaxCaptures = 2
  MaxEnds = 1
  MaxWrites = 1
  MaxKeys = 2
  StorageFails = TRUE
INVARIANTS
  DiskUpToDate
  NoDoubleIngest
PROPERTIES
  ShutdownStores
CHECK_DEADLOCK FALSE
