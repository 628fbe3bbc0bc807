--------------------------- MODULE RegistryProofs ---------------------------
(***************************************************************************)
(* What the contracts keep, for any ids, signers, commitments and values.  *)
(***************************************************************************)
EXTENDS Registries, FiniteSetTheorems, TLAPS

-----------------------------------------------------------------------------
\* The Soroban anchor.  Every answer is the anchor of its id, as it still is.
AnchorInv ==
  /\ anchors \in [Ids -> Anchor \cup {Unanchored}]
  /\ seq \in Seqs
  /\ \A id \in Ids : anchors[id].seq <= seq
  /\ \A a \in answers :
       /\ a.id \in Ids /\ anchors[a.id] # Unanchored
       /\ a = [id |-> a.id, hash |-> anchors[a.id].hash, seq |-> anchors[a.id].seq]

LEMMA AnchorInitInv == AnchorInit => AnchorInv
BY AnchorAssumption DEF AnchorInit, AnchorInv, Unanchored, Anchor, Seqs

LEMMA AnchorNextInv == AnchorInv /\ [AnchorNext]_anchorVars => AnchorInv'
<1> SUFFICES ASSUME AnchorInv, [AnchorNext]_anchorVars PROVE AnchorInv'
  OBVIOUS
<1> USE AnchorAssumption DEF AnchorInv, Seqs
<1>1. CASE CloseLedger
  BY <1>1 DEF CloseLedger, Anchor, Unanchored
<1>2. ASSUME NEW id \in Ids, NEW h \in Hashes, FirstCommit(id, h) PROVE AnchorInv'
  <2> DEFINE new == [hash |-> h, seq |-> seq]
  <2>1. new \in Anchor /\ new # Unanchored
    BY DEF Anchor, Unanchored
  <2>2. /\ anchors' = [anchors EXCEPT ![id] = new] /\ seq' = seq /\ anchors[id] = Unanchored
        /\ answers' = answers \cup {[id |-> id, hash |-> h, seq |-> seq]}
    BY <1>2 DEF FirstCommit, Answer
  <2>3. \A a \in answers : a.id # id
    BY <2>2
  <2>4. QED BY <2>1, <2>2, <2>3
<1>3. ASSUME NEW id \in Ids, NEW h \in Hashes, Confirm(id, h) PROVE AnchorInv'
  BY <1>3 DEF Confirm, Answer
<1>4. CASE UNCHANGED anchorVars
  BY <1>4 DEF anchorVars
<1>5. QED BY <1>1, <1>2, <1>3, <1>4 DEF AnchorNext

\* Whoever was told Ok for an id was told the same hash and the same sequence,
\* for any number of writers, ledgers and repeated commits.
THEOREM AnswersHold == AnchorSpec => []AnswersAgree
<1>1. AnchorInv => AnswersAgree
  BY DEF AnchorInv, AnswersAgree
<1>2. QED BY <1>1, AnchorInitInv, AnchorNextInv, PTL DEF AnchorSpec

\* The anchor implements the abstract write-once registry.
THEOREM AnchorImplements == AnchorSpec => Registry!Spec
<1>1. AnchorInit => Registry!Init
  BY DEF AnchorInit, Registry!Init
<1>2. AnchorInv /\ AnchorInv' /\ [AnchorNext]_anchorVars => [Registry!Write]_anchors
  <2> SUFFICES ASSUME AnchorInv, AnchorInv', [AnchorNext]_anchorVars, anchors' # anchors
               PROVE  Registry!Write
    OBVIOUS
  <2>1. PICK id \in Ids, h \in Hashes : FirstCommit(id, h)
    BY DEF AnchorNext, CloseLedger, Confirm, anchorVars
  <2>2. QED BY <2>1 DEF FirstCommit, AnchorInv, Registry!Write
<1>3. QED BY <1>1, <1>2, AnchorInitInv, AnchorNextInv, PTL DEF AnchorSpec, Registry!Spec

-----------------------------------------------------------------------------
\* The first registry implements it too: intents and proofs, which share the
\* mapping, never take each other's ids.
THEOREM V1Implements == V1Spec => FirstRegistry!Spec
<1> DEFINE Typed == proofCommitments \in [Names -> Words]
<1>1. V1Init => Typed /\ FirstRegistry!Init
  BY V1Assumption DEF V1Init, FirstRegistry!Init
<1>2. Typed /\ [V1Next]_v1Vars => Typed' /\ [FirstRegistry!Write]_proofCommitments
  BY DEF V1Next, v1Vars, CommitIntentV1, AnchorProofV1, FirstRegistry!Write
<1>3. QED BY <1>1, <1>2, PTL DEF V1Spec, FirstRegistry!Spec

-----------------------------------------------------------------------------
\* The registry of intents and proofs.  Grounded says of a state of the two
\* mappings what ProofsAreGrounded says of the present one; a registry that
\* undoes what a failed call did returns to an earlier such state.
Grounded(intents, proofs, events, approvals) ==
  /\ intents \in [Deployments -> [IntentIds -> IntentCommit \cup {NoIntent}]]
  /\ proofs \in [Deployments -> [ProofIds -> ProofAnchor \cup {NoAnchor}]]
  /\ events \in [Deployments -> [ProofIds -> 0 .. AnchorBound]]
  /\ \A d \in Deployments, p \in ProofIds : events[d][p] > 0 =>
       /\ proofs[d][p] \in ProofAnchor
       /\ \E i \in IntentIds :
            /\ intents[d][i].signer = proofs[d][p].signer
            /\ intents[d][i].intentCommitment = proofs[d][p].intentCommitment
            /\ proofs[d][p].anchoredAt <= intents[d][i].validUntil
       /\ \E a \in approvals : /\ a.by = proofs[d][p].signer
                               /\ a.digest.kind = "AnchorProof"
                               /\ a.digest.domain = d /\ a.digest.proofId = p
                               /\ a.digest.receiptId = proofs[d][p].receiptId
  /\ \A d \in Deployments, i \in IntentIds : intents[d][i].signer # Zero =>
       \E a \in approvals : /\ a.by = intents[d][i].signer
                            /\ a.digest.kind = "CommitIntent"
                            /\ a.digest.domain = d /\ a.digest.intentId = i

RegistryInv ==
  /\ Grounded(intentCommits, proofAnchors, anchorings, approved)
  /\ \A a \in approved : a.by \in Signers
  /\ now \in Times

\* A further authorization takes no ground away.
LEMMA GroundedGrows ==
  ASSUME NEW intents, NEW proofs, NEW events, NEW A, NEW B, A \subseteq B,
         Grounded(intents, proofs, events, A)
  PROVE  Grounded(intents, proofs, events, B)
BY DEF Grounded

LEMMA RegistryInitInv == RegistryInit => RegistryInv
<1> SUFFICES ASSUME RegistryInit PROVE RegistryInv
  OBVIOUS
<1>1. 0 \in Times /\ 0 \in 0 .. AnchorBound
  BY RegistryAssumption DEF Times
<1>2. Grounded(intentCommits, proofAnchors, anchorings, approved)
  BY <1>1 DEF RegistryInit, Grounded, NoIntent, NoAnchor
<1>3. QED BY <1>1, <1>2 DEF RegistryInit, RegistryInv

LEMMA ApprovalsInv == RegistryInv /\ Approvals => RegistryInv'
<1> SUFFICES ASSUME RegistryInv, NEW s \in Signers, NEW digest, Approve(s, digest) PROVE RegistryInv'
  BY DEF Approvals
<1>1. approved \subseteq approved' /\ \A a \in approved' : a.by \in Signers
  BY DEF RegistryInv, Approve
<1>2. Grounded(intentCommits, proofAnchors, anchorings, approved')
  BY <1>1, GroundedGrows DEF RegistryInv
<1>3. QED BY <1>1, <1>2 DEF RegistryInv, Approve, Grounded

LEMMA TickInv == RegistryInv /\ Tick => RegistryInv'
BY RegistryAssumption DEF RegistryInv, Tick, Times, Grounded

\* An intent is written where none was, so no anchored proof loses its own.
LEMMA CommitIntentInv ==
  ASSUME RegistryInv, NEW d \in Deployments, NEW id \in IntentIds, NEW c \in Commitments,
         NEW s \in Signers, NEW u \in Times, CommitIntent(d, id, c, s, u)
  PROVE  RegistryInv'
<1> DEFINE new == [signer |-> s, intentCommitment |-> c, validUntil |-> u]
<1>1. /\ intentCommits' = [intentCommits EXCEPT ![d][id] = new]
      /\ UNCHANGED <<proofAnchors, anchorings, approved, now>>
      /\ intentCommits[d][id].signer = Zero
      /\ [by |-> s, digest |-> CommitIntentDigest(d, id, c, u, s)] \in approved
  BY DEF CommitIntent, Authorized
<1>2. new \in IntentCommit
  BY DEF IntentCommit
<1>3. intentCommits' \in [Deployments -> [IntentIds -> IntentCommit \cup {NoIntent}]]
  BY <1>1, <1>2 DEF RegistryInv, Grounded
<1>4. \A e \in Deployments, i \in IntentIds :
        IF e = d /\ i = id THEN intentCommits'[e][i] = new
        ELSE intentCommits'[e][i] = intentCommits[e][i]
  BY <1>1 DEF RegistryInv, Grounded
<1>5. ASSUME NEW e \in Deployments, NEW p \in ProofIds, anchorings[e][p] > 0
      PROVE  \E i \in IntentIds :
               /\ intentCommits'[e][i].signer = proofAnchors[e][p].signer
               /\ intentCommits'[e][i].intentCommitment = proofAnchors[e][p].intentCommitment
               /\ proofAnchors[e][p].anchoredAt <= intentCommits'[e][i].validUntil
  <2>1. proofAnchors[e][p].signer \in Signers
    BY <1>5 DEF RegistryInv, Grounded, ProofAnchor
  <2>2. PICK i \in IntentIds :
               /\ intentCommits[e][i].signer = proofAnchors[e][p].signer
               /\ intentCommits[e][i].intentCommitment = proofAnchors[e][p].intentCommitment
               /\ proofAnchors[e][p].anchoredAt <= intentCommits[e][i].validUntil
    BY <1>5 DEF RegistryInv, Grounded
  <2>3. ~(e = d /\ i = id)
    BY <1>1, <2>1, <2>2, RegistryAssumption
  <2>4. QED BY <1>4, <2>2, <2>3
<1>6. \A e \in Deployments, i \in IntentIds : intentCommits[e][i].signer # Zero =>
        \E a \in approved : /\ a.by = intentCommits[e][i].signer
                            /\ a.digest.kind = "CommitIntent"
                            /\ a.digest.domain = e /\ a.digest.intentId = i
  BY DEF RegistryInv, Grounded
<1>7. ASSUME NEW e \in Deployments, NEW i \in IntentIds, intentCommits'[e][i].signer # Zero
      PROVE  \E a \in approved : /\ a.by = intentCommits'[e][i].signer
                                 /\ a.digest.kind = "CommitIntent"
                                 /\ a.digest.domain = e /\ a.digest.intentId = i
  <2>1. CASE e = d /\ i = id
    BY <1>1, <1>4, <2>1 DEF CommitIntentDigest
  <2>2. CASE ~(e = d /\ i = id)
    <3>1. intentCommits'[e][i] = intentCommits[e][i]
      BY <1>4, <2>2, Zenon
    <3>2. intentCommits[e][i].signer # Zero
      BY <1>7, <3>1
    <3>3. \E a \in approved : /\ a.by = intentCommits[e][i].signer
                              /\ a.digest.kind = "CommitIntent"
                              /\ a.digest.domain = e /\ a.digest.intentId = i
      BY <1>6, <3>2
    <3>4. QED BY <3>1, <3>3
  <2>3. QED BY <2>1, <2>2
<1>8. Grounded(intentCommits', proofAnchors, anchorings, approved)
  BY <1>3, <1>5, <1>7 DEF RegistryInv, Grounded
<1>9. QED BY <1>1, <1>8 DEF RegistryInv

\* A proof takes signer and commitment from an intent that has not expired.
LEMMA AnchorProofInv ==
  ASSUME RegistryInv, NEW d \in Deployments, NEW pid \in ProofIds, NEW id \in IntentIds,
         NEW r \in Receipts, NEW c \in Contents, NEW n \in Results,
         AnchorProof(d, pid, id, r, c, n)
  PROVE  RegistryInv'
<1> DEFINE intent == intentCommits[d][id]
           new == [receiptId |-> r, intentCommitment |-> intent.intentCommitment,
                   content |-> c, result |-> n, anchoredAt |-> now, signer |-> intent.signer]
<1>1. /\ proofAnchors' = [proofAnchors EXCEPT ![d][pid] = new]
      /\ anchorings' = [anchorings EXCEPT ![d][pid] = @ + 1]
      /\ UNCHANGED <<intentCommits, approved, now>>
      /\ anchorings[d][pid] < AnchorBound
      /\ n <= 2 /\ intent.signer # Zero /\ now <= intent.validUntil
      /\ [by |-> intent.signer, digest |-> AnchorProofDigest(d, pid, id, r, c, n)] \in approved
  BY DEF AnchorProof, CanAnchor, Authorized
<1>2. intent \in IntentCommit
  BY <1>1 DEF RegistryInv, Grounded, NoIntent
<1>3. new \in ProofAnchor
  BY <1>1, <1>2, RegistryAssumption DEF ProofAnchor, IntentCommit, RegistryInv
<1>4. proofAnchors' \in [Deployments -> [ProofIds -> ProofAnchor \cup {NoAnchor}]]
  BY <1>1, <1>3 DEF RegistryInv, Grounded
<1>5. anchorings' \in [Deployments -> [ProofIds -> 0 .. AnchorBound]]
  <2>1. anchorings[d][pid] + 1 \in 0 .. AnchorBound
    BY <1>1, RegistryAssumption DEF RegistryInv, Grounded
  <2>2. QED BY <1>1, <2>1 DEF RegistryInv, Grounded
<1>6. \A e \in Deployments, p \in ProofIds :
        IF e = d /\ p = pid THEN proofAnchors'[e][p] = new
        ELSE /\ proofAnchors'[e][p] = proofAnchors[e][p]
             /\ anchorings'[e][p] = anchorings[e][p]
  BY <1>1 DEF RegistryInv, Grounded
<1>7. ASSUME NEW e \in Deployments, NEW p \in ProofIds, anchorings'[e][p] > 0
      PROVE  /\ proofAnchors'[e][p] \in ProofAnchor
             /\ \E i \in IntentIds :
                  /\ intentCommits[e][i].signer = proofAnchors'[e][p].signer
                  /\ intentCommits[e][i].intentCommitment = proofAnchors'[e][p].intentCommitment
                  /\ proofAnchors'[e][p].anchoredAt <= intentCommits[e][i].validUntil
             /\ \E a \in approved : /\ a.by = proofAnchors'[e][p].signer
                                    /\ a.digest.kind = "AnchorProof"
                                    /\ a.digest.domain = e /\ a.digest.proofId = p
                                    /\ a.digest.receiptId = proofAnchors'[e][p].receiptId
  <2>1. CASE e = d /\ p = pid
    <3>1. proofAnchors'[e][p] = new
      BY <1>6, <2>1
    <3>2. QED BY <1>1, <1>3, <2>1, <3>1 DEF AnchorProofDigest
  <2>2. CASE ~(e = d /\ p = pid)
    <3>1. proofAnchors'[e][p] = proofAnchors[e][p] /\ anchorings'[e][p] = anchorings[e][p]
      BY <1>6, <2>2, Zenon
    <3>2. anchorings[e][p] > 0
      BY <1>7, <3>1
    <3>3. QED BY <3>1, <3>2 DEF RegistryInv, Grounded
  <2>3. QED BY <2>1, <2>2
<1>8. Grounded(intentCommits, proofAnchors', anchorings', approved)
  BY <1>4, <1>5, <1>7 DEF RegistryInv, Grounded
<1>9. QED BY <1>1, <1>8 DEF RegistryInv

LEMMA RegistryInvGrounds == RegistryInv => ProofsAreGrounded
BY DEF RegistryInv, Grounded, ProofsAreGrounded, RegistryTypeOK, AuthorizedHere,
       AnchorsFollowIntents, Anchored

\* Each operation of the registry, and what the world does meanwhile, keeps it.
LEMMA RegistryNextInv == RegistryInv /\ [RegistryNext]_registryVars => RegistryInv'
<1> SUFFICES ASSUME RegistryInv, [RegistryNext]_registryVars PROVE RegistryInv'
  OBVIOUS
<1>1. CASE UNCHANGED registryVars
  BY <1>1 DEF registryVars, RegistryInv, Grounded
<1>2. QED BY <1>1, ApprovalsInv, TickInv, CommitIntentInv, AnchorProofInv DEF RegistryNext

\* On every deployment, whatever its callers and signers do, a proof on record
\* rests on an intent of the same signer and on an authorization for that very
\* registry.
THEOREM ProofsGrounded == RegistrySpec => []ProofsAreGrounded
BY RegistryNextInv, RegistryInitInv, RegistryInvGrounds, PTL DEF RegistrySpec

-----------------------------------------------------------------------------
\* Every proof that stands on record names a receipt: none was anchored with
\* the receipt id zero, by which anchorProof knows an id that is free.
ReceiptsAreNamed ==
  \A d \in Deployments, p \in ProofIds :
    Anchored(d, p) => proofAnchors[d][p].receiptId # Zero

\* Only an anchoring adds to the events of a proof id, and only to those of an
\* id whose receipt was still zero: the id of a named receipt has no second.
LEMMA NamedStaySingle ==
  RegistryInv /\ ReceiptsAreNamed /\ ProofIdsAreSingletons /\ [RegistryNext]_registryVars
    => ProofIdsAreSingletons'
<1> SUFFICES ASSUME RegistryInv, ReceiptsAreNamed, ProofIdsAreSingletons,
                    [RegistryNext]_registryVars
             PROVE  ProofIdsAreSingletons'
  OBVIOUS
<1>1. CASE UNCHANGED anchorings
  BY <1>1 DEF ProofIdsAreSingletons
<1>2. ASSUME NEW d \in Deployments, NEW pid \in ProofIds, NEW id \in IntentIds,
             NEW r \in Receipts, NEW c \in Contents, NEW n \in Results,
             AnchorProof(d, pid, id, r, c, n)
      PROVE  ProofIdsAreSingletons'
  <2>1. /\ proofAnchors[d][pid].receiptId = Zero
        /\ anchorings' = [anchorings EXCEPT ![d][pid] = @ + 1]
    BY <1>2 DEF AnchorProof, CanAnchor
  <2>2. anchorings \in [Deployments -> [ProofIds -> 0 .. AnchorBound]]
    BY DEF RegistryInv, Grounded
  <2>3. anchorings[d][pid] = 0
    BY <2>1, <2>2, RegistryAssumption DEF ReceiptsAreNamed, Anchored
  <2>4. QED BY <2>1, <2>2, <2>3 DEF ProofIdsAreSingletons
<1>3. QED
  BY <1>1, <1>2 DEF RegistryNext, registryVars, Approvals, Approve, Tick, CommitIntent

\* On every deployment, as long as every anchored proof names a receipt, a
\* proof id is anchored once whatever callers and signers do: the receipt id
\* zero is the one way in which an id is used twice.
THEOREM NamedProofsAreSingletons ==
  RegistrySpec /\ []ReceiptsAreNamed => []ProofIdsAreSingletons
<1>1. RegistryInit => ProofIdsAreSingletons
  BY DEF RegistryInit, ProofIdsAreSingletons
<1>2. QED
  BY <1>1, NamedStaySingle, RegistryInitInv, RegistryNextInv, PTL DEF RegistrySpec

-----------------------------------------------------------------------------
\* The third registry.  MoneyIs says of a state of the books what TreasuryIsTrue
\* says of the present one; every open withdrawal remembers such a state, and a
\* grounded one, so undoing it leads to one.
MoneyIs(fee, events, record, held, income) ==
  /\ record \in Nat /\ held = record /\ income \in Nat
  /\ fee > 0 => income = fee * Cardinality(AnchoringsOf(events))

Frames == [to : Payees, amount : Nat,
           before : [intentCommits : [Deployments -> [IntentIds -> IntentCommit \cup {NoIntent}]],
                     proofAnchors : [Deployments -> [ProofIds -> ProofAnchor \cup {NoAnchor}]],
                     anchorings : [Deployments -> [ProofIds -> 0 .. AnchorBound]],
                     treasuryBalance : Nat, balance : Nat, paid : Nat]]

Sound(frame, fee, approvals) ==
  LET b == frame.before
  IN  /\ Grounded(b.intentCommits, b.proofAnchors, b.anchorings, approvals)
      /\ MoneyIs(fee, b.anchorings, b.treasuryBalance, b.balance, b.paid)

V3Inv ==
  /\ RegistryInv
  /\ feeWei \in Nat
  /\ MoneyIs(feeWei, anchorings, treasuryBalance, balance, paid)
  /\ calls \in Seq(Frames)
  /\ \A i \in 1 .. Len(calls) : Sound(calls[i], feeWei, approved)

LEMMA HereIsOne == Here \in Deployments
BY CommissionAssumption DEF Here

LEMMA EventsAreFinite ==
  ASSUME NEW events PROVE IsFiniteSet(AnchoringsOf(events))
<1>1. IsFiniteSet(1 .. AnchorBound)
  BY RegistryAssumption, FS_Interval
<1>2. IsFiniteSet(ProofIds \X (1 .. AnchorBound))
  BY <1>1, CommissionAssumption, FS_Product
<1>3. AnchoringsOf(events) \subseteq ProofIds \X (1 .. AnchorBound)
  BY DEF AnchoringsOf
<1>4. QED BY <1>2, <1>3, FS_Subset

LEMMA V3InitInv == V3Init => V3Inv
<1> SUFFICES ASSUME V3Init PROVE V3Inv
  OBVIOUS
<1>1. RegistryInv
  BY RegistryInitInv DEF V3Init
<1>2. AnchoringsOf(anchorings) = {}
  BY HereIsOne, RegistryAssumption DEF AnchoringsOf, V3Init, RegistryInit
<1>3. Cardinality(AnchoringsOf(anchorings)) = 0
  BY <1>2, FS_EmptySet
<1>4. feeWei \in Nat
  BY CommissionAssumption DEF V3Init
<1>5. MoneyIs(feeWei, anchorings, treasuryBalance, balance, paid)
  BY <1>3, <1>4 DEF V3Init, MoneyIs
<1>6. QED BY <1>1, <1>4, <1>5 DEF V3Init, V3Inv

\* A step that opens and closes no withdrawal and revokes no authorization.
LEMMA FramesKept ==
  ASSUME V3Inv, UNCHANGED <<calls, feeWei>>, approved \subseteq approved', RegistryInv',
         MoneyIs(feeWei', anchorings', treasuryBalance', balance', paid')
  PROVE  V3Inv'
<1>1. ASSUME NEW i \in 1 .. Len(calls) PROVE Sound(calls[i], feeWei', approved')
  BY GroundedGrows DEF V3Inv, Sound
<1>2. QED BY <1>1 DEF V3Inv

\* The commission of an anchoring is one more event and one more fee.
LEMMA PaidProofInv ==
  ASSUME V3Inv, NEW pid \in ProofIds, NEW id \in IntentIds, NEW r \in Receipts,
         NEW c \in Contents, NEW n \in Results, NEW v \in Values,
         AnchorPaidProof(pid, id, r, c, n, v)
  PROVE  V3Inv'
<1> DEFINE count == anchorings[Here][pid] + 1
           events == AnchoringsOf(anchorings)
<1>1. RegistryInv'
  BY HereIsOne, AnchorProofInv DEF AnchorPaidProof, V3Inv
<1>2. /\ anchorings' = [anchorings EXCEPT ![Here][pid] = @ + 1]
      /\ anchorings[Here][pid] < AnchorBound
      /\ treasuryBalance' = treasuryBalance + v /\ balance' = balance + v /\ paid' = paid + v
      /\ PaysCommission(v)
      /\ UNCHANGED <<feeWei, calls, approved>>
  BY DEF AnchorPaidProof, AnchorProof
<1>3. /\ anchorings \in [Deployments -> [ProofIds -> 0 .. AnchorBound]]
      /\ Here \in Deployments /\ AnchorBound \in Nat /\ v \in Nat
  BY HereIsOne, RegistryAssumption, CommissionAssumption DEF V3Inv, RegistryInv, Grounded
<1>4. /\ anchorings'[Here][pid] = count
      /\ \A p \in ProofIds : p # pid => anchorings'[Here][p] = anchorings[Here][p]
      /\ count \in 1 .. AnchorBound
  BY <1>2, <1>3
<1>5. AnchoringsOf(anchorings') = events \cup {<<pid, count>>}
  <2>1. ASSUME NEW e \in ProofIds \X (1 .. AnchorBound)
        PROVE  e[2] <= anchorings'[Here][e[1]] <=> e[2] <= anchorings[Here][e[1]] \/ e = <<pid, count>>
    <3>1. CASE e[1] = pid
      <4>1. e[2] <= count <=> e[2] <= anchorings[Here][pid] \/ e[2] = count
        BY <1>3
      <4>2. e = <<pid, count>> <=> e[2] = count
        BY <3>1
      <4>3. QED BY <1>4, <3>1, <4>1, <4>2
    <3>2. CASE e[1] # pid
      BY <1>4, <3>2, e[1] \in ProofIds
    <3>3. QED BY <3>1, <3>2
  <2>2. QED BY <1>4, <2>1 DEF AnchoringsOf
<1>6. <<pid, count>> \notin events
  BY <1>3 DEF AnchoringsOf
<1>7. /\ Cardinality(AnchoringsOf(anchorings')) = Cardinality(events) + 1
      /\ Cardinality(events) \in Nat
  BY <1>5, <1>6, EventsAreFinite, FS_AddElement, FS_CardinalityType
<1>8. MoneyIs(feeWei', anchorings', treasuryBalance', balance', paid')
  <2>1. CASE feeWei > 0
    <3>1. v = feeWei /\ paid = feeWei * Cardinality(events) /\ feeWei \in Nat
      BY <1>2, <2>1 DEF PaysCommission, V3Inv, MoneyIs
    <3>2. paid + v = feeWei * (Cardinality(events) + 1)
      BY <1>7, <3>1
    <3>3. QED BY <1>2, <1>3, <1>7, <3>2 DEF V3Inv, MoneyIs
  <2>2. CASE ~(feeWei > 0)
    BY <1>2, <1>3, <2>2 DEF V3Inv, MoneyIs
  <2>3. QED BY <2>1, <2>2
<1>9. QED BY <1>1, <1>2, <1>8, FramesKept

\* A withdrawal remembers the state it begins in.
LEMMA WithdrawInv ==
  ASSUME V3Inv, NEW to \in Payees, WithdrawTreasury(to) PROVE V3Inv'
<1> DEFINE frame == [to |-> to, amount |-> treasuryBalance, before |-> Snapshot]
<1>1. /\ calls' = Append(calls, frame)
      /\ treasuryBalance' = 0 /\ balance' = balance - treasuryBalance
      /\ UNCHANGED <<registryVars, feeWei, paid>>
  BY DEF WithdrawTreasury
<1>2. frame \in Frames
  BY DEF Frames, Snapshot, V3Inv, RegistryInv, Grounded, MoneyIs
<1>3. Sound(frame, feeWei, approved)
  BY DEF Snapshot, Sound, V3Inv, RegistryInv
<1>4. calls' \in Seq(Frames) /\ \A i \in 1 .. Len(calls') : Sound(calls'[i], feeWei, approved)
  BY <1>1, <1>2, <1>3 DEF V3Inv
<1>5. RegistryInv'
  BY <1>1 DEF V3Inv, RegistryInv, registryVars, Grounded
<1>6. MoneyIs(feeWei, anchorings, 0, balance - treasuryBalance, paid)
  BY DEF V3Inv, MoneyIs
<1>7. QED BY <1>1, <1>4, <1>5, <1>6 DEF V3Inv, registryVars

LEMMA PopInv ==
  ASSUME V3Inv, ~Idle
  PROVE  LET rest == SubSeq(calls, 1, Len(calls) - 1)
         IN  /\ rest \in Seq(Frames)
             /\ \A i \in 1 .. Len(rest) : Sound(rest[i], feeWei, approved)
             /\ calls[Len(calls)] \in Frames /\ Sound(calls[Len(calls)], feeWei, approved)
<1>1. calls \in Seq(Frames) /\ Len(calls) \in Nat /\ Len(calls) > 0
  BY DEF V3Inv, Idle
<1>2. QED BY <1>1 DEF V3Inv

LEMMA ReturnsInv == V3Inv /\ WithdrawReturns => V3Inv'
<1> SUFFICES ASSUME V3Inv, WithdrawReturns PROVE V3Inv'
  OBVIOUS
<1>1. ~Idle /\ calls' = SubSeq(calls, 1, Len(calls) - 1) /\ UNCHANGED <<registryVars, treasury>>
  BY DEF WithdrawReturns
<1>2. QED BY <1>1, PopInv DEF V3Inv, RegistryInv, Grounded, registryVars, treasury

LEMMA FailsInv == V3Inv /\ WithdrawFails => V3Inv'
<1> SUFFICES ASSUME V3Inv, WithdrawFails PROVE V3Inv'
  OBVIOUS
<1> DEFINE b == calls[Len(calls)].before
<1>1. /\ ~Idle /\ calls' = SubSeq(calls, 1, Len(calls) - 1)
      /\ intentCommits' = b.intentCommits /\ proofAnchors' = b.proofAnchors
      /\ anchorings' = b.anchorings /\ treasuryBalance' = b.treasuryBalance
      /\ balance' = b.balance /\ paid' = b.paid
      /\ UNCHANGED <<approved, now, feeWei>>
  BY DEF WithdrawFails
<1>2. /\ Grounded(intentCommits', proofAnchors', anchorings', approved)
      /\ MoneyIs(feeWei', anchorings', treasuryBalance', balance', paid')
  BY <1>1, PopInv DEF Sound
<1>3. RegistryInv'
  BY <1>1, <1>2 DEF V3Inv, RegistryInv
<1>4. QED BY <1>1, <1>2, <1>3, PopInv DEF V3Inv, Sound

LEMMA V3NextInv == V3Inv /\ [V3Next]_v3Vars => V3Inv'
<1> SUFFICES ASSUME V3Inv, [V3Next]_v3Vars PROVE V3Inv'
  OBVIOUS
<1>1. CASE V3Approvals \/ V3Tick
  <2>1. RegistryInv' /\ UNCHANGED <<treasury, calls, anchorings>> /\ approved \subseteq approved'
    BY <1>1, ApprovalsInv, TickInv DEF V3Approvals, V3Tick, V3Inv, Approvals, Approve, Tick
  <2>2. QED BY <2>1, FramesKept DEF treasury, V3Inv
<1>2. ASSUME NEW i \in IntentIds, NEW c \in Commitments, NEW s \in Signers, NEW u \in Times,
             V3CommitIntent(i, c, s, u)
      PROVE  V3Inv'
  <2>1. RegistryInv' /\ UNCHANGED <<treasury, calls, anchorings, approved>>
    BY <1>2, HereIsOne, CommitIntentInv DEF V3CommitIntent, V3Inv, CommitIntent
  <2>2. QED BY <2>1, FramesKept DEF treasury, V3Inv
<1>3. CASE UNCHANGED v3Vars
  <2>1. UNCHANGED <<calls, feeWei, approved, anchorings, treasuryBalance, balance, paid>>
    BY <1>3 DEF v3Vars, registryVars, treasury
  <2>2. RegistryInv'
    BY <1>3 DEF v3Vars, registryVars, V3Inv, RegistryInv, Grounded
  <2>3. QED BY <2>1, <2>2, FramesKept DEF V3Inv
<1>4. QED BY <1>1, <1>2, <1>3, PaidProofInv, WithdrawInv, ReturnsInv, FailsInv DEF V3Next

\* The record of the treasury is what the contract holds and every anchoring
\* paid the commission, for any fee and however deep withdrawals nest and fail.
THEOREM TreasuryHolds == V3Spec => []TreasuryIsTrue
<1>1. V3Inv => TreasuryIsTrue
  BY DEF V3Inv, MoneyIs, TreasuryIsTrue, RecordIsMoney, CommissionIsFlat, Anchorings
<1>2. QED BY <1>1, V3InitInv, V3NextInv, PTL DEF V3Spec

\* The third registry's proofs rest on intents and authorizations too, also
\* after a call that anchored some is undone.
THEOREM PaidProofsGrounded == V3Spec => []ProofsAreGrounded
<1>1. V3Inv => ProofsAreGrounded
  BY RegistryInvGrounds DEF V3Inv
<1>2. QED BY <1>1, V3InitInv, V3NextInv, PTL DEF V3Spec

-----------------------------------------------------------------------------
\* What is written once.  A later state of the books keeps what an earlier one
\* gave: its intents, and its proofs with a receipt.  The state every open
\* withdrawal remembers, and the present one, keep what the outermost remembers,
\* so the chain sees nothing taken back whichever of them is undone.
Keeps(a, b) ==
  /\ \A id \in IntentIds : a.intentCommits[Here][id] # NoIntent =>
       b.intentCommits[Here][id] = a.intentCommits[Here][id]
  /\ \A p \in ProofIds : a.proofAnchors[Here][p].receiptId # Zero =>
       /\ b.proofAnchors[Here][p] = a.proofAnchors[Here][p]
       /\ b.anchorings[Here][p] = a.anchorings[Here][p]

KeptInv ==
  ~Idle => /\ Keeps(calls[1].before, Snapshot)
           /\ \A i \in 1 .. Len(calls) : Keeps(calls[1].before, calls[i].before)

LEMMA KeepsItself == ASSUME NEW a PROVE Keeps(a, a)
BY DEF Keeps

LEMMA KeepsOn ==
  ASSUME NEW a, NEW b, NEW c, Keeps(a, b), Keeps(b, c) PROVE Keeps(a, c)
BY DEF Keeps

LEMMA CommitKeeps ==
  ASSUME V3Inv, NEW id \in IntentIds, NEW c \in Commitments, NEW s \in Signers, NEW u \in Times,
         V3CommitIntent(id, c, s, u)
  PROVE  Keeps(Snapshot, Snapshot')
<1>1. /\ intentCommits[Here][id].signer = Zero
      /\ intentCommits' = [intentCommits EXCEPT ![Here][id] =
           [signer |-> s, intentCommitment |-> c, validUntil |-> u]]
      /\ UNCHANGED <<proofAnchors, anchorings>>
  BY DEF V3CommitIntent, CommitIntent
<1>2. intentCommits \in [Deployments -> [IntentIds -> IntentCommit \cup {NoIntent}]] /\ Here \in Deployments
  BY HereIsOne DEF V3Inv, RegistryInv, Grounded
<1>3. intentCommits[Here][id] = NoIntent
  BY <1>1, <1>2, RegistryAssumption DEF IntentCommit
<1>4. ASSUME NEW i \in IntentIds, i # id PROVE intentCommits'[Here][i] = intentCommits[Here][i]
  BY <1>1, <1>2, <1>4
<1> QED BY <1>1, <1>3, <1>4 DEF Keeps, Snapshot

LEMMA AnchorKeeps ==
  ASSUME V3Inv, NEW pid \in ProofIds, NEW id \in IntentIds, NEW r \in Receipts,
         NEW c \in Contents, NEW n \in Results, NEW v \in Values,
         AnchorPaidProof(pid, id, r, c, n, v)
  PROVE  Keeps(Snapshot, Snapshot')
<1>1. PICK a :
        /\ proofAnchors[Here][pid].receiptId = Zero
        /\ proofAnchors' = [proofAnchors EXCEPT ![Here][pid] = a]
        /\ anchorings' = [anchorings EXCEPT ![Here][pid] = @ + 1]
        /\ UNCHANGED intentCommits
  BY DEF AnchorPaidProof, AnchorProof, CanAnchor
<1>2. /\ proofAnchors \in [Deployments -> [ProofIds -> ProofAnchor \cup {NoAnchor}]]
      /\ anchorings \in [Deployments -> [ProofIds -> 0 .. AnchorBound]] /\ Here \in Deployments
  BY HereIsOne DEF V3Inv, RegistryInv, Grounded
<1>3. ASSUME NEW p \in ProofIds, p # pid
      PROVE  proofAnchors'[Here][p] = proofAnchors[Here][p] /\ anchorings'[Here][p] = anchorings[Here][p]
  BY <1>1, <1>2, <1>3
<1> QED BY <1>1, <1>3 DEF Keeps, Snapshot

\* A step within a transaction, or one that is a whole transaction.
LEMMA GrowthKept ==
  ASSUME KeptInv, UNCHANGED calls, Keeps(Snapshot, Snapshot')
  PROVE  KeptInv' /\ Keeps(OnChain, OnChain')
<1>1. CASE Idle
  BY <1>1 DEF KeptInv, OnChain, Idle
<1>2. CASE ~Idle
  <2>1. Keeps(calls[1].before, Snapshot')
    BY <1>2, KeepsOn DEF KeptInv
  <2>2. OnChain' = OnChain
    BY <1>2 DEF OnChain, Idle
  <2> QED BY <1>2, <2>1, <2>2, KeepsItself DEF KeptInv, Idle
<1> QED BY <1>1, <1>2

LEMMA WithdrawKept ==
  ASSUME V3Inv, KeptInv, NEW to \in Payees, WithdrawTreasury(to)
  PROVE  KeptInv' /\ Keeps(OnChain, OnChain')
<1>1. PICK frame : frame.before = Snapshot /\ calls' = Append(calls, frame)
  BY DEF WithdrawTreasury
<1>2. /\ UNCHANGED <<intentCommits, proofAnchors, anchorings>> /\ Len(calls) \in Nat
      /\ \A i \in 1 .. Len(calls) : calls'[i] = calls[i]
      /\ Len(calls') = Len(calls) + 1 /\ calls'[Len(calls) + 1] = frame
  BY <1>1 DEF WithdrawTreasury, registryVars, V3Inv
<1>3. ASSUME NEW a, Keeps(a, Snapshot) PROVE Keeps(a, Snapshot')
  BY <1>2, <1>3 DEF Keeps, Snapshot
<1>4. ~Idle' /\ OnChain' = calls'[1].before
  BY <1>2 DEF OnChain, Idle
<1>5. CASE Idle
  <2>1. Len(calls) = 0
    BY <1>5 DEF Idle
  <2>2. calls'[1].before = Snapshot /\ OnChain = Snapshot
    BY <1>1, <1>2, <1>5, <2>1 DEF OnChain
  <2>3. \A i \in 1 .. Len(calls') : i = 1
    BY <1>2, <2>1
  <2> QED BY <1>3, <1>4, <2>2, <2>3, KeepsItself DEF KeptInv
<1>6. CASE ~Idle
  <2>1. 1 \in 1 .. Len(calls)
    BY <1>2, <1>6 DEF Idle, V3Inv
  <2>2. calls'[1] = calls[1] /\ OnChain = calls[1].before
    BY <1>2, <1>6, <2>1 DEF OnChain
  <2>3. ASSUME NEW i \in 1 .. Len(calls') PROVE Keeps(calls[1].before, calls'[i].before)
    <3>1. CASE i \in 1 .. Len(calls)
      BY <1>2, <1>6, <3>1 DEF KeptInv
    <3>2. CASE i = Len(calls) + 1
      BY <1>1, <1>2, <1>6, <3>2 DEF KeptInv
    <3> QED BY <1>2, <3>1, <3>2
  <2>4. Keeps(calls[1].before, Snapshot')
    BY <1>3, <1>6 DEF KeptInv
  <2> QED BY <1>4, <2>2, <2>3, <2>4, KeepsItself DEF KeptInv
<1> QED BY <1>5, <1>6

LEMMA WithoutLast ==
  ASSUME NEW S, NEW s \in Seq(S), s # <<>>
  PROVE  LET rest == SubSeq(s, 1, Len(s) - 1)
         IN  /\ rest \in Seq(S) /\ Len(s) \in Nat \ {0} /\ Len(rest) = Len(s) - 1
             /\ \A i \in 1 .. Len(s) - 1 : rest[i] = s[i]
<1>1. PICK n : n \in Nat \ {0} /\ n = Len(s)
  OBVIOUS
<1>2. SubSeq(s, 1, n - 1) \in Seq(S)
  BY <1>1
<1>3. Len(SubSeq(s, 1, n - 1)) = n - 1
  BY <1>1
<1>4. \A i \in 1 .. n - 1 : SubSeq(s, 1, n - 1)[i] = s[i]
  BY <1>1
<1> QED BY <1>1, <1>2, <1>3, <1>4

\* The innermost withdrawal ends; what is there afterwards keeps what the
\* outermost remembers.
LEMMA PopKept ==
  ASSUME V3Inv, KeptInv, ~Idle, calls' = SubSeq(calls, 1, Len(calls) - 1), Keeps(calls[1].before, Snapshot')
  PROVE  KeptInv' /\ Keeps(OnChain, OnChain')
<1>1. OnChain = calls[1].before /\ calls \in Seq(Frames) /\ calls # <<>>
  BY DEF V3Inv, Idle, OnChain
<1>2. PICK n \in Nat \ {0} :
        /\ Len(calls) = n /\ Len(calls') = n - 1
        /\ \A i \in 1 .. n - 1 : calls'[i] = calls[i]
  BY <1>1, WithoutLast
<1>3. CASE n = 1
  <2>1. Idle'
    <3>1. calls' \in Seq(Frames)
      BY <1>1, WithoutLast
    <3> QED BY <1>2, <1>3, <3>1 DEF Idle
  <2>2. OnChain' = Snapshot'
    BY <2>1 DEF OnChain
  <2> QED BY <1>1, <2>1, <2>2 DEF KeptInv
<1>4. CASE n # 1
  <2>1. 1 \in 1 .. n - 1 /\ n - 1 # 0
    BY <1>4
  <2>2. calls'[1] = calls[1] /\ ~Idle'
    BY <1>2, <2>1 DEF Idle
  <2>3. OnChain' = calls[1].before
    BY <2>2 DEF OnChain
  <2>4. \A i \in 1 .. Len(calls') : Keeps(calls[1].before, calls'[i].before)
    BY <1>2 DEF KeptInv
  <2> QED BY <1>1, <2>2, <2>3, <2>4, KeepsItself DEF KeptInv
<1> QED BY <1>3, <1>4

LEMMA V3Kept ==
  ASSUME V3Inv, KeptInv, [V3Next]_v3Vars PROVE KeptInv' /\ Keeps(OnChain, OnChain')
<1>1. CASE V3Approvals \/ V3Tick \/ UNCHANGED v3Vars
  <2>1. UNCHANGED <<intentCommits, proofAnchors, anchorings, calls>>
    BY <1>1 DEF V3Approvals, V3Tick, Approvals, Approve, Tick, v3Vars, registryVars
  <2>2. Keeps(Snapshot, Snapshot')
    BY <2>1 DEF Keeps, Snapshot
  <2> QED BY <2>1, <2>2, GrowthKept
<1>2. ASSUME NEW i \in IntentIds, NEW c \in Commitments, NEW s \in Signers, NEW u \in Times,
             V3CommitIntent(i, c, s, u)
      PROVE  KeptInv' /\ Keeps(OnChain, OnChain')
  BY <1>2, CommitKeeps, GrowthKept DEF V3CommitIntent
<1>3. ASSUME NEW p \in ProofIds, NEW i \in IntentIds, NEW r \in Receipts, NEW c \in Contents,
             NEW n \in Results, NEW v \in Values, AnchorPaidProof(p, i, r, c, n, v)
      PROVE  KeptInv' /\ Keeps(OnChain, OnChain')
  BY <1>3, AnchorKeeps, GrowthKept DEF AnchorPaidProof
<1>4. CASE WithdrawReturns
  <2>1. /\ ~Idle /\ calls' = SubSeq(calls, 1, Len(calls) - 1)
        /\ UNCHANGED <<intentCommits, proofAnchors, anchorings>>
    BY <1>4 DEF WithdrawReturns, registryVars
  <2>2. Keeps(calls[1].before, Snapshot')
    BY <2>1 DEF KeptInv, Keeps, Snapshot
  <2> QED BY <2>1, <2>2, PopKept
<1>5. CASE WithdrawFails
  <2> DEFINE b == calls[Len(calls)].before
  <2>1. /\ ~Idle /\ calls' = SubSeq(calls, 1, Len(calls) - 1)
        /\ intentCommits' = b.intentCommits /\ proofAnchors' = b.proofAnchors /\ anchorings' = b.anchorings
    BY <1>5 DEF WithdrawFails
  <2>2. Len(calls) \in 1 .. Len(calls)
    BY <2>1 DEF V3Inv, Idle
  <2>3. Keeps(calls[1].before, b)
    BY <2>1, <2>2 DEF KeptInv
  <2>4. Keeps(calls[1].before, Snapshot')
    BY <2>1, <2>3 DEF Keeps, Snapshot
  <2> QED BY <2>1, <2>4, PopKept
<1> QED BY <1>1, <1>2, <1>3, <1>4, <1>5, WithdrawKept DEF V3Next

LEMMA V3InitKept == V3Init => KeptInv
BY DEF V3Init, KeptInv, Idle

\* A proof anchored with a receipt is final, and so is its event, whatever
\* transactions follow and however their calls nest and fail.
THEOREM ReceiptsStay == V3Spec => ReceiptsAreFinal
<1>1. V3Inv /\ KeptInv /\ [V3Next]_v3Vars =>
        KeptInv' /\ [\A p \in ProofIds : OnChain.proofAnchors[Here][p].receiptId # Zero =>
                       /\ OnChain'.proofAnchors[Here][p] = OnChain.proofAnchors[Here][p]
                       /\ OnChain'.anchorings[Here][p] = OnChain.anchorings[Here][p]]_v3Vars
  BY V3Kept DEF Keeps
<1> QED BY <1>1, V3InitInv, V3InitKept, V3NextInv, PTL DEF V3Spec, ReceiptsAreFinal

\* The intents of the chain implement WriteOnce, whatever is undone.
THEOREM IntentsImplement == V3Spec => IntentsAreWriteOnce
<1>1. V3Init => Intents!Init
  BY HereIsOne DEF V3Init, RegistryInit, Intents!Init, OnChain, Idle, Snapshot
<1> DEFINE Typed == OnChain.intentCommits[Here] \in [IntentIds -> IntentCommit \cup {NoIntent}]
<1>2. V3Inv => Typed
  <2> SUFFICES ASSUME V3Inv PROVE OnChain.intentCommits[Here] \in [IntentIds -> IntentCommit \cup {NoIntent}]
    OBVIOUS
  <2>1. CASE Idle
    BY <2>1, HereIsOne DEF OnChain, Snapshot, V3Inv, RegistryInv, Grounded
  <2>2. CASE ~Idle
    <3>1. 1 \in 1 .. Len(calls)
      BY <2>2 DEF Idle, V3Inv
    <3> QED BY <2>2, <3>1, HereIsOne DEF OnChain, V3Inv, Sound, Grounded
  <2> QED BY <2>1, <2>2
<1>3. V3Inv' => Typed'
  <2> HIDE DEF Typed
  <2> QED BY <1>2, PTL
<1>4. V3Inv /\ V3Inv' /\ KeptInv /\ [V3Next]_v3Vars =>
        KeptInv' /\ [Intents!Write]_(OnChain.intentCommits[Here])
  <2> SUFFICES ASSUME V3Inv, V3Inv', KeptInv, [V3Next]_v3Vars PROVE KeptInv' /\ Intents!Write
    OBVIOUS
  <2>1. (OnChain.intentCommits[Here])' \in [IntentIds -> IntentCommit \cup {NoIntent}]
    BY <1>3
  <2>2. KeptInv' /\ Keeps(OnChain, OnChain')
    BY V3Kept
  <2> QED BY <2>1, <2>2 DEF Keeps, Intents!Write
<1> QED BY <1>1, <1>4, V3InitInv, V3InitKept, V3NextInv, PTL DEF V3Spec, IntentsAreWriteOnce, Intents!Spec

\* Nothing a contract of the three has stored is ever rewritten, whatever their
\* callers do.
THEOREM RecordsHold == RegistriesSpec => RecordsAreWriteOnce
<1>1. RegistriesSpec => V1Spec /\ V3Spec /\ AnchorSpec
  BY DEF RegistriesSpec
<1>2. V1Spec => V1IsWriteOnce
  BY V1Implements DEF V1IsWriteOnce
<1>3. AnchorSpec => AnchorIsWriteOnce
  BY AnchorImplements DEF AnchorIsWriteOnce
<1> QED BY <1>1, <1>2, <1>3, ReceiptsStay, IntentsImplement DEF RecordsAreWriteOnce
=============================================================================
