------------------------- MODULE EvidenceRegistryV2 -------------------------
(***************************************************************************)
(* contracts/EvidenceRegistryV2.sol: intents are committed before they are *)
(* executed and execution proofs anchored after it, each authorized by the *)
(* signer of the intent.  Anyone may submit the transaction; what counts   *)
(* is the signer's authorization of an EIP-712 digest.  A transaction that *)
(* reverts changes nothing: it is a stuttering step.                       *)
(*                                                                         *)
(* A digest is the record of what it binds; a signature (or what a wallet  *)
(* contract answers, EIP-1271) is its membership in `approved'.  The same  *)
(* contract is deployed more than once: on other chains, or again.  What a *)
(* proof carries beside its receipt (commitment, verifier version) is one  *)
(* value.                                                                  *)
(***************************************************************************)
EXTENDS Naturals, FiniteSets

CONSTANTS
  Deployments,   \* the pairs of chain id and contract address
  IntentIds,
  ProofIds,
  Receipts,      \* receipt ids, Zero among them
  Commitments,   \* intent commitments
  Contents,      \* proof commitment and verifier version
  Results,       \* the uint8 result codes callers pass
  Signers,       \* EOAs and wallet contracts
  Zero,          \* bytes32(0) and address(0)
  LastTime,      \* bound of the model: block timestamps
  ApprovalBound, \* bound of the model: digests signers authorize
  AnchorBound    \* bound of the model: times a proof id is anchored

ASSUME RegistryAssumption ==
  /\ Zero \in Receipts /\ Zero \notin Signers
  /\ Results \subseteq Nat
  /\ {LastTime, ApprovalBound, AnchorBound} \subseteq Nat

VARIABLES
  intentCommits, \* per deployment and intent id
  proofAnchors,  \* per deployment and proof id
  anchorings,    \* the ProofAnchored events of each proof id
  approved,      \* digests with the signer that authorized them
  now            \* block.timestamp

registryVars == <<intentCommits, proofAnchors, anchorings, approved, now>>

Times == 0 .. LastTime

NoIntent == [signer |-> Zero, intentCommitment |-> Zero, validUntil |-> 0]
NoAnchor == [receiptId |-> Zero, intentCommitment |-> Zero, content |-> Zero,
             result |-> 0, anchoredAt |-> 0, signer |-> Zero]

IntentCommit == [signer : Signers, intentCommitment : Commitments, validUntil : Times]
ProofAnchor == [receiptId : Receipts, intentCommitment : Commitments, content : Contents,
                result : 0 .. 2, anchoredAt : Times, signer : Signers]

\* Mutant of AnchorProofDigest: the registry is not bound.
DigestOfAnywhere(d, pid, id, receipt, content, result) ==
  [kind |-> "AnchorProof", domain |-> Zero, proofId |-> pid, intentId |-> id,
   receiptId |-> receipt, content |-> content, result |-> result]

\* commitIntentDigest and anchorProofDigest: what a signature covers.
CommitIntentDigest(d, id, commitment, until, signer) ==
  [kind |-> "CommitIntent", domain |-> d, intentId |-> id,
   intentCommitment |-> commitment, validUntil |-> until, signer |-> signer]

AnchorProofDigest(d, pid, id, receipt, content, result) ==
  [kind |-> "AnchorProof", domain |-> d, proofId |-> pid, intentId |-> id,
   receiptId |-> receipt, content |-> content, result |-> result]

RegistryTypeOK ==
  /\ intentCommits \in [Deployments -> [IntentIds -> IntentCommit \cup {NoIntent}]]
  /\ proofAnchors \in [Deployments -> [ProofIds -> ProofAnchor \cup {NoAnchor}]]
  /\ anchorings \in [Deployments -> [ProofIds -> 0 .. AnchorBound]]
  /\ \A a \in approved : a.by \in Signers
  /\ now \in Times

RegistryInit ==
  /\ intentCommits = [d \in Deployments |-> [i \in IntentIds |-> NoIntent]]
  /\ proofAnchors = [d \in Deployments |-> [p \in ProofIds |-> NoAnchor]]
  /\ anchorings = [d \in Deployments |-> [p \in ProofIds |-> 0]]
  /\ approved = {}
  /\ now = 0

-----------------------------------------------------------------------------
\* The world outside: a signer authorizes a digest, and time passes.
Approve(signer, digest) ==
  /\ Cardinality(approved) < ApprovalBound
  /\ approved' = approved \cup {[by |-> signer, digest |-> digest]}
  /\ UNCHANGED <<intentCommits, proofAnchors, anchorings, now>>

Tick ==
  /\ now < LastTime
  /\ now' = now + 1
  /\ UNCHANGED <<intentCommits, proofAnchors, anchorings, approved>>

\* _authorize: the recovered signer, or the wallet, is the one expected.
Authorized(digest, signer) ==
  /\ signer # Zero
  /\ [by |-> signer, digest |-> digest] \in approved

\* Mutant of CommitIntent: an id that is committed is committed again.
RecommitIntent(d, id, commitment, signer, until) ==
  /\ now <= until
  /\ Authorized(CommitIntentDigest(d, id, commitment, until, signer), signer)
  /\ intentCommits' = [intentCommits EXCEPT ![d][id] =
       [signer |-> signer, intentCommitment |-> commitment, validUntil |-> until]]
  /\ UNCHANGED <<proofAnchors, anchorings, approved, now>>

CommitIntent(d, id, commitment, signer, until) ==
  /\ intentCommits[d][id].signer = Zero
  /\ now <= until
  /\ Authorized(CommitIntentDigest(d, id, commitment, until, signer), signer)
  /\ intentCommits' = [intentCommits EXCEPT ![d][id] =
       [signer |-> signer, intentCommitment |-> commitment, validUntil |-> until]]
  /\ UNCHANGED <<proofAnchors, anchorings, approved, now>>

\* Mutant of CanAnchor: a used proof id is not refused.
AnchorUsedId(d, pid, id, receipt, content, result) ==
  LET intent == intentCommits[d][id]
  IN  /\ result <= 2
      /\ intent.signer # Zero
      /\ now <= intent.validUntil
      /\ Authorized(AnchorProofDigest(d, pid, id, receipt, content, result), intent.signer)

\* anchorProof: a proof id counts as used when its receipt id is not zero.
CanAnchor(d, pid, id, receipt, content, result) ==
  LET intent == intentCommits[d][id]
  IN  /\ proofAnchors[d][pid].receiptId = Zero
      /\ result <= 2
      /\ intent.signer # Zero
      /\ now <= intent.validUntil
      /\ Authorized(AnchorProofDigest(d, pid, id, receipt, content, result), intent.signer)

AnchorProof(d, pid, id, receipt, content, result) ==
  LET intent == intentCommits[d][id]
  IN  /\ CanAnchor(d, pid, id, receipt, content, result)
      /\ anchorings[d][pid] < AnchorBound
      /\ proofAnchors' = [proofAnchors EXCEPT ![d][pid] =
           [receiptId |-> receipt, intentCommitment |-> intent.intentCommitment,
            content |-> content, result |-> result, anchoredAt |-> now,
            signer |-> intent.signer]]
      /\ anchorings' = [anchorings EXCEPT ![d][pid] = @ + 1]
      /\ UNCHANGED <<intentCommits, approved, now>>

\* Signers authorize what the callers of the registry build for them.
Approvals ==
  \/ \E s \in Signers, d \in Deployments, i \in IntentIds, c \in Commitments, u \in Times :
       Approve(s, CommitIntentDigest(d, i, c, u, s))
  \/ \E s \in Signers, d \in Deployments, p \in ProofIds, i \in IntentIds,
        r \in Receipts, c \in Contents, n \in Results :
       Approve(s, AnchorProofDigest(d, p, i, r, c, n))

RegistryNext ==
  \/ Approvals
  \/ Tick
  \/ \E d \in Deployments, i \in IntentIds, c \in Commitments, s \in Signers, u \in Times :
       CommitIntent(d, i, c, s, u)
  \/ \E d \in Deployments, p \in ProofIds, i \in IntentIds, r \in Receipts,
        c \in Contents, n \in Results :
       AnchorProof(d, p, i, r, c, n)

RegistrySpec == RegistryInit /\ [][RegistryNext]_registryVars

-----------------------------------------------------------------------------
Anchored(d, p) == anchorings[d][p] > 0

\* A proof never stands alone: behind every anchored proof is a committed
\* intent of the same registry, with the same commitment and signer, that was
\* still valid when the proof was anchored.  It relates two transactions of
\* different times, and the intent must not have changed since.
AnchorsFollowIntents ==
  \A d \in Deployments, p \in ProofIds : Anchored(d, p) =>
    LET a == proofAnchors[d][p]
    IN  \E i \in IntentIds :
          /\ intentCommits[d][i].signer = a.signer
          /\ intentCommits[d][i].intentCommitment = a.intentCommitment
          /\ a.anchoredAt <= intentCommits[d][i].validUntil

\* An authorization is for one registry: whatever stands in a registry was
\* authorized, by the signer it names, for that registry and no other.
AuthorizedHere ==
  /\ \A d \in Deployments, i \in IntentIds : intentCommits[d][i].signer # Zero =>
       \E a \in approved : /\ a.by = intentCommits[d][i].signer
                           /\ a.digest.kind = "CommitIntent"
                           /\ a.digest.domain = d /\ a.digest.intentId = i
  /\ \A d \in Deployments, p \in ProofIds : Anchored(d, p) =>
       \E a \in approved : /\ a.by = proofAnchors[d][p].signer
                           /\ a.digest.kind = "AnchorProof"
                           /\ a.digest.domain = d /\ a.digest.proofId = p
                           /\ a.digest.receiptId = proofAnchors[d][p].receiptId

\* A proof on record was authorised for this deployment and follows an intent
\* of the same signer that had not expired when the proof was anchored.
ProofsAreGrounded == RegistryTypeOK /\ AuthorizedHere /\ AnchorsFollowIntents

-----------------------------------------------------------------------------
\* "keys are identity-based singletons (intentId/proofId reuse gives
\* AlreadyCommitted)": a proof id is anchored once.  A proof anchored with the
\* receipt id zero does not count as used.
ProofIdsAreSingletons == \A d \in Deployments, p \in ProofIds : anchorings[d][p] <= 1
=============================================================================
