SPECIFICATION OfflineSpec
CONSTANTS
  MaxItems = 2
  MaxQueueItems = 2
  MaxAttempts = 2
  MaxRetryChunks = 1
  BaseBackoff = 1
  MaxBackoff = 1
  MaxRetryAfter = 1
  ShutdownTimeout = 1
  MaxCaptures = 2
  Captures = {"errors", "events"}
  MaxStored = 2
  Stored <- MCStored
INVARIANTS
  NothingLost
  NothingTwice
PROPERTIES
  KeepsPromise
CHECK_DEADLOCK FALSE
