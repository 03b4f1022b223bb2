SPECIFICATION DocumentedSpec
CONSTANTS
  MaxAttempts = 1
  MaxCaptures = 1
  MaxEnds = 1
  MaxWrites = 1
  MaxKeys = 2
  StorageFails = FALSE
  Tab = {t1}
  MaxStored = 1
  MaxLoads = 1
  r1 = r1
  Shared = shared
  Default = default
  Nobody = nobody
  c1 = c1
  c2 = c2
  Clients <- TwoClients
  Other = Other
  Page = Page
  MaxBatch = 1
  MaxWraps = 5
  MaxTimers = 1
  MaxViews = 0
  Bucket <- UserBuckets
  PartOf = {}
  FlagDefs <- PlanFlag
  FlagContexts <- BooleanPlan
  Interval = 2
  Timeout = 2
  MaxAge = 1
  MaxVersions = 1
  MaxAsks = 0
  MaxClock = 0
  Projects <- ExpressProject
  Arguments <- NextAndReact
  MaxRuns = 3
  MaxEdits = 0
VIEW View
INVARIANT SomeSentenceHolds
CHECK_DEADLOCK FALSE
