CONSTANTS MaxSourceChanges = 2
SPECIFICATION GateSpec
INVARIANT ExternalClaimHasSource
CHECK_DEADLOCK FALSE
