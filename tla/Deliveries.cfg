CONSTANTS
  a = a
  b = b
  Providers = {a, b}
  ProviderList <- TwoProviders
  Honest = {a}
  Hashes = {h1, h2}
  Views = {v1, v2}
  WithEvent = {v1}
  Calldata = {c1, c2}
  MinProviders = 2
  None = None
  FailBound = 2
  EventCount = 4
  PayloadHashes = {"MATCH", "MISMATCH", "ABSENT"}
  TamperBound = 2
  Callers = {q1, q2, q3}
SPECIFICATION DeliveriesSpec
INVARIANTS
  JournalIsTrue
  VerifiedIsTrue
  AppliedIsPrefix
PROPERTIES
  JournalIsFinal
  RunDecides
  FeedCompletes
  AloneIsSettled
CHECK_DEADLOCK FALSE
