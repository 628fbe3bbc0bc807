CONSTANTS
  MaxEvidence = 3
  MaxLeaves = 5
  Adapters = {n1}
  MaxSourceChanges = 2
  MaxReleases = 3
  MaxVersion = 2
  MaxCommits = 3
  MaxCalls = 3
  OddPayments = 2
  MaxSwapRuns = 2
  MaxGifts = 1
  MaxStagings = 2
  MaxHeight = 3
  Keys = {k1, k2, k3}
  WindowMs = 1
  MaxEntries = 2
  Skew = 1
  LastTime = 2
  RunBound = 4
SPECIFICATION OperationsSpec
INVARIANTS
  YesIsWhole GrantsWereEarned GreenIsChecked RegistryInstalls PinnedPushSparesBuilds
  ConformingIsInPolicy DexEvidenceIsTrue StagingIsPaidOnce MemoryIsRecent
CHECK_DEADLOCK FALSE
