SPECIFICATION PartsSpec
CONSTANTS
  MaxBytes = 14
  MaxItems = 2
  Overhead = 2
  MessageCap = 5
  StackCap = 5
  FieldCap = 3
  MessageFinal = 1
  StackFinal = 2
  Marker = 1
  BagMarker = 2
  FlagBytes = 1
  Items <- SomeItems
  MaxPending = 3
  ServerLimit = 17
  ChunkTarget = 14
  CountGuard = 2
  MaxSends = 2
  MaxScript = 1
  c1 = c1
  c2 = c2
  Clients <- TwoClients
  Other = Other
  Page = Page
  MaxBatch = 2
  MaxWraps = 5
  MaxTimers = 1
  MaxViews = 2
  Bucket <- UserBuckets
  PartOf <- Parts
  FlagDefs <- SomeFlags
  FlagContexts <- SomeContexts
  Interval = 2
  Timeout = 2
  MaxAge = 1
  MaxVersions = 2
  MaxAsks = 2
  MaxClock = 4
  Gap = 2
  Window = 3
  Values <- OneValue
  Steps <- ShortLong
  MaxShifts = 3
  MaxHides = 2
  Providers <- TwoClients
  People <- OneUser
  Nobody = Nobody
  MaxBuffered = 2
  MaxCalls = 3
  MaxTraces = 1
  Projects <- SomeProjects
  Arguments <- SomeArguments
  MaxRuns = 2
  MaxEdits = 1
INVARIANTS
  ChunksFit
  ServerAgrees
  CapturedOnce
  ViewsOnce
  StaleBounded
  VitalsReported
  HandlesKeep
  RuntimesAgree
  SetupOnce
  SetupCompletes
PROPERTIES
  PollsInOrder
CHECK_DEADLOCK FALSE
