SPECIFICATION RegistrySpec
CONSTANTS
  Providers = {"page", "modal", "footer"}
  Keys = {"k1", "k2"}
  KeyOf <- MCKeyOf
  MaxClients = 3
INVARIANTS
  OneClient
CHECK_DEADLOCK FALSE
