CONSTANT Adapters = {n1}
SPECIFICATION LadderSpec
INVARIANT LevelWasReached
CHECK_DEADLOCK FALSE
