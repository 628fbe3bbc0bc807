------------------------- MODULE EvidenceRegistryV1 -------------------------
(***************************************************************************)
(* contracts/EvidenceRegistry.sol, the first registry: intents and proofs  *)
(* share one mapping from ids to commitments, and anyone may write to it.  *)
(* An id counts as committed when its commitment is not zero.  A           *)
(* transaction that reverts is a stuttering step.                          *)
(***************************************************************************)
EXTENDS Naturals

CONSTANTS
  Names,      \* intent and proof ids
  Words,      \* commitments, ZeroWord among them
  ZeroWord,   \* bytes32(0)
  Verdicts    \* result codes callers pass

ASSUME V1Assumption ==
  /\ ZeroWord \in Words /\ Verdicts \subseteq Nat

VARIABLES
  proofCommitments,  \* the mapping
  intentEvents,      \* IntentCommitted events: per id, the commitments
  proofEvents        \* ProofAnchored events: per id, commitment and result

v1Vars == <<proofCommitments, intentEvents, proofEvents>>

V1Init ==
  /\ proofCommitments = [id \in Names |-> ZeroWord]
  /\ intentEvents = [id \in Names |-> {}]
  /\ proofEvents = [id \in Names |-> {}]

CommitIntentV1(id, commitment) ==
  /\ proofCommitments[id] = ZeroWord
  /\ proofCommitments' = [proofCommitments EXCEPT ![id] = commitment]
  /\ intentEvents' = [intentEvents EXCEPT ![id] = @ \cup {commitment}]
  /\ UNCHANGED proofEvents

\* Mutant of AnchorProofV1: only a zero commitment is refused.
AnchorOverIntentV1(id, commitment, result) ==
  /\ commitment # ZeroWord
  /\ result <= 2
  /\ proofCommitments' = [proofCommitments EXCEPT ![id] = commitment]
  /\ proofEvents' = [proofEvents EXCEPT ![id] = @ \cup {<<commitment, result>>}]
  /\ UNCHANGED intentEvents

AnchorProofV1(id, commitment, result) ==
  /\ proofCommitments[id] = ZeroWord
  /\ result <= 2
  /\ proofCommitments' = [proofCommitments EXCEPT ![id] = commitment]
  /\ proofEvents' = [proofEvents EXCEPT ![id] = @ \cup {<<commitment, result>>}]
  /\ UNCHANGED intentEvents

V1Next ==
  \E id \in Names, c \in Words :
    \/ CommitIntentV1(id, c)
    \/ \E n \in Verdicts : AnchorProofV1(id, c, n)

V1Spec == V1Init /\ [][V1Next]_v1Vars

-----------------------------------------------------------------------------
FirstRegistry == INSTANCE WriteOnce WITH
  Ids <- Names, Values <- Words, Unset <- ZeroWord, store <- proofCommitments

\* A commitment is written once, by whichever of the two functions is first:
\* the mapping they share implements WriteOnce.
V1IsWriteOnce == FirstRegistry!Spec
=============================================================================
