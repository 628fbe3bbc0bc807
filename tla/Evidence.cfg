CONSTANTS
  Forks = {f1, f2}
  Unread = Unread
  ReorgBound = 1
  Nothing = Nothing
  OddBound = 1
  OddInputs = 2
  OddReview = 1
  OddMaterial = 2
  OddStates = 1
  OddFacts = 2
  OddLinks = 1
  Names = {a, b}
  Words = {ZeroWord, w1, w2}
  ZeroWord = ZeroWord
  Verdicts = {0, 2, 3}
  Deployments = {d1, d2}
  IntentIds = {i1}
  ProofIds = {p1, p2}
  Receipts = {Zero, r1}
  Commitments = {k1, k2}
  Contents = {x}
  Results = {0, 3}
  Signers = {s1, s2}
  Zero = Zero
  LastTime = 1
  ApprovalBound = 3
  AnchorBound = 2
  Fees = {0, 2}
  Values = {0, 2, 3}
  FeeTo = treasurer
  Payees = {treasurer, bank}
  CallBound = 2
  Ids = {id1, id2}
  Hashes = {h1, h2}
  None = None
  LastSeq = 3
  MaxScripts = 2
  LastLedger = 2
SPECIFICATION EvidenceRunSpec
SYMMETRY NameSymmetry
INVARIANTS
  IntactVerifiedIsComplete
  BoundIsAuthorised
  ReleasesAreEarned
  ReceiptsAreEvident
  ProvenanceIsGrounded
  TreasuryIsTrue
  ProofsAreGrounded
  AnswersAgree
  InvokedIsAnchored
PROPERTIES
  RecordsAreWriteOnce
CHECK_DEADLOCK FALSE
