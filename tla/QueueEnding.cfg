SPECIFICATION EndSpec
CONSTANTS
  MaxItems = 1
  MaxQueueItems = 2
  MaxAttempts = 3
  MaxRetryChunks = 1
  BaseBackoff = 1
  MaxBackoff = 2
  MaxRetryAfter = 1
  ShutdownTimeout = 1
  MaxCaptures = 2
  Captures = {"errors", "events"}
  MaxStored = 0
  Stored <- NoSnapshot
INVARIANTS
  FlushPromise
  SendOrder
  RetryTimerArmed
PROPERTIES
  EverythingSettles
  ShutdownAccounts
  ShutdownReturns
CHECK_DEADLOCK FALSE
