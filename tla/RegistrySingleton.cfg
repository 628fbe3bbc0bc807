CONSTANTS
  Deployments = {d1}
  IntentIds = {i1}
  ProofIds = {p1}
  Receipts = {Zero, r1}
  Commitments = {k1, k2}
  Contents = {x}
  Results = {0, 3}
  Signers = {s1, s2}
  Zero = Zero
  LastTime = 1
  ApprovalBound = 3
  AnchorBound = 2
SPECIFICATION RegistrySpec
INVARIANT ProofIdsAreSingletons
CHECK_DEADLOCK FALSE
