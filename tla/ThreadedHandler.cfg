SPECIFICATION FairSpec
CONSTANTS
  a = a
  App = {a}
  Sdks = {"python", "go"}
  Reentering = {"python", "go"}
  MaxItems = 2
  MaxQueueItems = 1
  MaxAttempts = 2
  MaxRetryChunks = 1
  MaxDelay = 1
  Interval = 1
  Timeout = 1
  MaxCaptures = 3
  MaxForks = 0
PROPERTY CaptureReturns
CHECK_DEADLOCK FALSE
