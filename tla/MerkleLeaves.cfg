CONSTANTS
 MaxEvidence = 3
 MaxLeaves = 5
SPECIFICATION LevelsSpec
INVARIANT EveryLeafIsProvable
CHECK_DEADLOCK FALSE
