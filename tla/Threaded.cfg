SPECIFICATION FairSpec
CONSTANTS
  a = a
  App = {a}
  Sdks = {"python", "go", "dotnet"}
  Reentering = {}
  MaxItems = 2
  MaxQueueItems = 1
  MaxAttempts = 2
  MaxRetryChunks = 1
  MaxDelay = 1
  Interval = 1
  Timeout = 1
  MaxCaptures = 2
  MaxForks = 1
INVARIANTS
  ItemsOnce
  WorkerNoticesRetry
PROPERTIES
  PromisesKept
  ShutdownReturns
  EverythingSettles
