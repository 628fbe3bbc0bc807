CONSTANTS
  a = a
  b = b
  Providers = {a, b}
  ProviderList <- OneProvider
  Honest = {a}
  Hashes = {h1, h2}
  Views = {v1, v2}
  WithEvent = {v1}
  Calldata = {c1}
  MinProviders = 2
  None = None
  FailBound = 1
SPECIFICATION DriverSpec
INVARIANT VerifiedByEnough
CHECK_DEADLOCK FALSE
