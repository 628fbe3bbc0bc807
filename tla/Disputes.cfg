CONSTANTS
  Jobs = {j1}
  Scopes = {s1}
  Reservations = {r1, r2, r3}
  Ceilings = {3}
  Amounts = {1, 2}
  EscrowBound = 2
  None = None
  c1 = c1
  c2 = c2
  Challenges = {c1, c2}
  Price <- TwoPrices
  BudgetJob = j1
  BudgetScope = s1
  SignBound = 2
  SettleBound = 1
  FlowJob = j1
  Specs = {{"DIGEST_MATCH", "BUDGET_WITHIN_CEILING"}, {"DIGEST_MATCH", "HUMAN_JUDGMENT"}}
  BudgetCheckJob = j1
  Peers = {p1}
  Spellings = {"mapped", "hex"}
  WindowMs = 2
  MaxRate = 2
  PruneAt = 1
  EndOfTime = 3
  MaxAdmitted = 4
  MaxReading = 1
  OddRecords = 2
  OddEntries = 1
  MaxRuns = 2
SPECIFICATION DisputesSpec
SYMMETRY ReservationSymmetry
INVARIANTS
  PaymentsAreAccounted
  LessThanTwiceTheLimit
  DeliveryIsGrounded
  ReadyIsUnadjudicated
  HalfWrittenIsRefused
PROPERTIES
  EscrowFollowsVerdict
CHECK_DEADLOCK FALSE
