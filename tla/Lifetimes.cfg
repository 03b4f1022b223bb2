SPECIFICATION LifetimesSpec
CONSTANTS
  Others <- ZeroOrTwo
  MaxAttempts = 2
  MaxCaptures = 2
  MaxSignals = 2
  Providers = {"page", "modal", "footer"}
  Keys = {"k1", "k2"}
  KeyOf <- MCKeyOf
  MaxClients = 3
INVARIANTS
  OrderlyEnd
  NaturalEndSendsAll
  OneClient
PROPERTIES
  ProcessEnds
  InUseStaysOpen
  IdleIsShutDown
CHECK_DEADLOCK FALSE
