------------------------- MODULE EvidenceRegistryV3 -------------------------
(***************************************************************************)
(* contracts/EvidenceRegistryV3.sol: the registry of EvidenceRegistryV2    *)
(* with a flat commission per anchored proof and a treasury only feeTo may *)
(* withdraw.                                                               *)
(*                                                                         *)
(* A withdrawal calls the address it pays, and that address may call the   *)
(* registry again before the transaction ends.  A transaction is atomic on *)
(* chain: while a call is open only that callee acts, and if it fails the  *)
(* whole transaction is undone.  One deployment has one treasury.          *)
(***************************************************************************)
EXTENDS EvidenceRegistryV2, Sequences

CONSTANTS
  Fees,       \* the feeWei a registry is constructed with
  Values,     \* the msg.value callers send
  FeeTo,      \* feeTo, fixed at construction
  Payees,     \* the addresses a treasury is withdrawn to, FeeTo among them
  CallBound   \* bound of the model: withdrawals within withdrawals

ASSUME CommissionAssumption ==
  /\ Fees \subseteq Nat /\ Values \subseteq Nat /\ CallBound \in Nat
  /\ FeeTo \in Payees
  /\ Deployments # {} /\ IsFiniteSet(ProofIds)

VARIABLES
  feeWei,           \* fixed at construction
  treasuryBalance,  \* what the contract records
  balance,          \* what the contract's address holds
  paid,             \* what was ever paid in with a proof
  calls             \* the open withdrawals, outermost first

treasury == <<feeWei, treasuryBalance, balance, paid>>
v3Vars == <<registryVars, treasury, calls>>

\* The deployment of the treasury.
Here == CHOOSE d \in Deployments : TRUE

V3Init ==
  /\ RegistryInit
  /\ feeWei \in Fees
  /\ treasuryBalance = 0 /\ balance = 0 /\ paid = 0 /\ calls = <<>>

-----------------------------------------------------------------------------
Idle == calls = <<>>

\* commitIntent and the world outside are those of V2.
V3Approvals == Approvals /\ Idle /\ UNCHANGED <<treasury, calls>>
V3Tick == Tick /\ Idle /\ UNCHANGED <<treasury, calls>>

V3CommitIntent(id, commitment, signer, until) ==
  /\ CommitIntent(Here, id, commitment, signer, until)
  /\ UNCHANGED <<treasury, calls>>

\* Mutant of PaysCommission: an overpayment is taken.
PaysAtLeast(value) == value >= feeWei

\* anchorProof: the commission is checked when there is one; whatever value is
\* sent is added to the treasury.
PaysCommission(value) == feeWei > 0 => value = feeWei

AnchorPaidProof(pid, id, receipt, content, result, value) ==
  /\ PaysCommission(value)
  /\ AnchorProof(Here, pid, id, receipt, content, result)
  /\ treasuryBalance' = treasuryBalance + value
  /\ balance' = balance + value
  /\ paid' = paid + value
  /\ UNCHANGED <<feeWei, calls>>

\* withdrawTreasury: only feeTo.  The recorded amount is zeroed, then the call
\* carries it out; the contract goes on when the callee returns.
Snapshot ==
  [intentCommits |-> intentCommits, proofAnchors |-> proofAnchors,
   anchorings |-> anchorings, treasuryBalance |-> treasuryBalance,
   balance |-> balance, paid |-> paid]

\* Who may be msg.sender now: anyone, or the callee of the innermost call.
MayCall(who) == ~Idle => calls[Len(calls)].to = who

\* Mutant of WithdrawTreasury: the record is not zeroed.
WithdrawKeepsRecord(to) ==
  /\ MayCall(FeeTo)
  /\ Len(calls) < CallBound
  /\ balance >= treasuryBalance
  /\ balance' = balance - treasuryBalance
  /\ calls' = Append(calls, [to |-> to, amount |-> treasuryBalance, before |-> Snapshot])
  /\ UNCHANGED <<registryVars, feeWei, paid, treasuryBalance>>

WithdrawTreasury(to) ==
  /\ MayCall(FeeTo)
  /\ Len(calls) < CallBound
  /\ treasuryBalance' = 0
  /\ balance' = balance - treasuryBalance
  /\ calls' = Append(calls, [to |-> to, amount |-> treasuryBalance, before |-> Snapshot])
  /\ UNCHANGED <<registryVars, feeWei, paid>>

WithdrawReturns ==
  /\ ~Idle
  /\ calls' = SubSeq(calls, 1, Len(calls) - 1)
  /\ UNCHANGED <<registryVars, treasury>>

\* The callee reverts: `require(ok)' undoes everything since the call began.
WithdrawFails ==
  LET b == calls[Len(calls)].before
  IN  /\ ~Idle
      /\ intentCommits' = b.intentCommits
      /\ proofAnchors' = b.proofAnchors
      /\ anchorings' = b.anchorings
      /\ treasuryBalance' = b.treasuryBalance
      /\ balance' = b.balance
      /\ paid' = b.paid
      /\ calls' = SubSeq(calls, 1, Len(calls) - 1)
      /\ UNCHANGED <<approved, now, feeWei>>

V3Next ==
  \/ V3Approvals
  \/ V3Tick
  \/ \E i \in IntentIds, c \in Commitments, s \in Signers, u \in Times :
       V3CommitIntent(i, c, s, u)
  \/ \E p \in ProofIds, i \in IntentIds, r \in Receipts, c \in Contents,
        n \in Results, v \in Values :
       AnchorPaidProof(p, i, r, c, n, v)
  \/ \E to \in Payees : WithdrawTreasury(to)
  \/ WithdrawReturns
  \/ WithdrawFails

V3Spec == V3Init /\ [][V3Next]_v3Vars

-----------------------------------------------------------------------------
\* The ProofAnchored events of the deployment.
AnchoringsOf(events) == {e \in ProofIds \X (1 .. AnchorBound) : e[2] <= events[Here][e[1]]}
Anchorings == AnchoringsOf(anchorings)

\* The record is the money, at every moment: also while a withdrawal's callee
\* runs and calls back in, and after one is undone, what the contract records
\* is what its address holds, so no withdrawal pays another's commission.
RecordIsMoney == treasuryBalance = balance

\* The commission is flat: when there is one, what was ever paid in is the fee
\* times the proofs anchored, undone calls included in neither.
CommissionIsFlat == feeWei > 0 => paid = feeWei * Cardinality(Anchorings)

\* The third registry's books: the record of the treasury is the contract's
\* balance, and every anchoring paid the commission.
TreasuryIsTrue == RecordIsMoney /\ CommissionIsFlat

\* What the chain shows of the registry: what an open transaction did is not
\* there until its outermost call has returned.
OnChain == IF Idle THEN Snapshot ELSE calls[1].before

\* The intents of the chain implement WriteOnce, whatever is undone.
Intents == INSTANCE WriteOnce WITH
  Ids <- IntentIds, Values <- IntentCommit, Unset <- NoIntent,
  store <- OnChain.intentCommits[Here]

IntentsAreWriteOnce == Intents!Spec

\* A proof anchored with a receipt is final, and so is its event: no later
\* transaction, however its calls nest and fail, replaces or withdraws it.
ReceiptsAreFinal ==
  [][\A p \in ProofIds : OnChain.proofAnchors[Here][p].receiptId # Zero =>
       /\ OnChain'.proofAnchors[Here][p] = OnChain.proofAnchors[Here][p]
       /\ OnChain'.anchorings[Here][p] = OnChain.anchorings[Here][p]]_v3Vars
=============================================================================
