SPECIFICATION Spec
CONSTANTS
  Tab = {t1, t2}
  MaxAttempts = 2
  MaxStored = 1
  StorageFails = TRUE
  MaxCaptures = 2
  MaxKeys = 2
  MaxLoads = 2
SYMMETRY Symmetry
INVARIANTS
  NoDoubleIngest
  Accounted
CHECK_DEADLOCK FALSE
