CONSTANTS
  Forks = {f1, f2}
  Unread = Unread
  ReorgBound = 1
SPECIFICATION EvidenceSpec
INVARIANT VerifiedAtOnePin
CHECK_DEADLOCK FALSE
