CONSTANTS
  EventCount = 4
  PayloadHashes = {"MATCH", "MISMATCH", "ABSENT"}
  TamperBound = 2
SPECIFICATION FairConsumerSpec
PROPERTY HeldIsApplied
CHECK_DEADLOCK FALSE
