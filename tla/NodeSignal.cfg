SPECIFICATION FairSpec
CONSTANTS
  Others <- One
  MaxAttempts = 2
  MaxCaptures = 1
  MaxSignals = 1
INVARIANTS
  AppOwnsExit
CHECK_DEADLOCK FALSE
