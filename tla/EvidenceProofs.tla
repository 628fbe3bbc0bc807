--------------------------- MODULE EvidenceProofs ---------------------------
(***************************************************************************)
(* What the way from an intent to evidence on record guarantees for any    *)
(* number of scripts, forks and odd inputs: the programs that anchor a     *)
(* commitment, the firewall, the engines, the execution evidence, the      *)
(* provenance verdict and the receipt verifier.                            *)
(***************************************************************************)
EXTENDS AnchorFlow, Firewall, VerificationEngines, ExecutionEvidence, ReceiptVerifier, Provenance,
        FiniteSetTheorems, TLAPS

-----------------------------------------------------------------------------
\* Anchoring.  The runner's answer is about its own commit, on the contract it
\* is written for, and a contract never gives up the pair it holds: what a
\* transaction did, once it was applied, stays done.

Txs == [op : {"upload", "create", "commit"}, contract : Contracts \cup {"none"},
        sequence : Nat, until : Nat]

Ledgers == [sequence : Nat, code : BOOLEAN, contracts : SUBSET Contracts,
            record : [Contracts -> {"none", "ours", "another"}]]

Steps == {"idle", "upload sequence", "upload", "poll upload", "create sequence", "create", "poll create",
          "save", "contract id", "commit sequence", "commit", "wait", "submitted"}

Runs == [program : Programs \cup {"none"}, pc : Steps, sequence : Nat,
         tx : Txs \cup {NoDocument}, contract : Contracts \cup {"none"}]

FlowTypeOK ==
  /\ ledger \in Ledgers
  /\ pool \subseteq {tx \in Txs : tx.op = "create" => tx.contract \in Contracts}
  /\ DOMAIN results \subseteq Txs
  /\ closed \in Nat
  /\ run \in Runs

\* A commit that succeeded is on record.
SuccessIsRecorded ==
  \A tx \in DOMAIN results :
     (results[tx] = "SUCCESS" /\ tx.op = "commit") =>
        tx.contract \in Contracts /\ ledger.record[tx.contract] = "ours"

\* The runner only commits, and to its own contract.
RunnerIsAtItsContract ==
  /\ run.program = "runner" =>
       /\ run.contract = "recorded"
       /\ run.pc \in {"commit sequence", "commit", "wait", "submitted"}
  /\ run.pc = "wait" => run.program = "runner" /\ run.tx.op = "commit" /\ run.tx.contract = "recorded"

\* What is submitted as a commit was simulated against a contract.
SubmittedHasContract == run.pc = "submitted" => ledger.contracts # {}

FlowInv ==
  FlowTypeOK /\ SuccessIsRecorded /\ RunnerIsAtItsContract /\ SubmittedHasContract /\ InvokedIsAnchored

LEMMA NoScriptTyped == NoScript \in Runs
<1>1. "none" \in Programs \cup {"none"} /\ "idle" \in Steps
  BY DEF Steps
<1>2. 0 \in Nat /\ NoDocument \in Txs \cup {NoDocument} /\ "none" \in Contracts \cup {"none"}
  OBVIOUS
<1> QED BY <1>1, <1>2, Zenon DEF NoScript, Runs

LEMMA FlowInvInit == ASSUME FlowInit PROVE FlowInv
<1>1. PICK there \in {{}, {"recorded"}} :
        ledger = [sequence |-> 0, code |-> there # {}, contracts |-> there,
                  record |-> [c \in Contracts |-> "none"]]
  BY DEF FlowInit
<1>2. FlowTypeOK
  <2>1. ledger \in Ledgers
    <3>1. there \in SUBSET Contracts /\ (there # {}) \in BOOLEAN
      BY DEF Contracts
    <3> QED BY <1>1, <3>1 DEF Ledgers
  <2>2. run \in Runs
    BY NoScriptTyped DEF FlowInit
  <2> QED BY <2>1, <2>2 DEF FlowInit, FlowTypeOK
<1>3. SuccessIsRecorded
  BY DEF FlowInit, SuccessIsRecorded
<1>4. RunnerIsAtItsContract /\ SubmittedHasContract
  BY DEF FlowInit, RunnerIsAtItsContract, SubmittedHasContract, NoScript
<1>5. InvokedIsAnchored
  BY DEF FlowInit, InvokedIsAnchored
<1> QED BY <1>2, <1>3, <1>4, <1>5 DEF FlowInv

\* The network does not undo: what a contract holds of ours, it keeps.
Kept == /\ ledger' \in Ledgers
        /\ ledger.contracts \subseteq ledger'.contracts
        /\ \A c \in Contracts : ledger.record[c] = "ours" => ledger'.record[c] = "ours"

LEMMA ApplyKeeps ==
  ASSUME FlowTypeOK, NEW tx \in pool, Apply(tx)
  PROVE  Kept
<1> DEFINE n == ledger.sequence + 1
           cs == ledger.contracts \cup {tx.contract}
           rs == [ledger.record EXCEPT ![tx.contract] = "ours"]
<1>1. tx \in Txs /\ (tx.op = "create" => tx.contract \in Contracts)
  BY DEF FlowTypeOK
<1>2. n \in Nat
  BY DEF FlowTypeOK, Ledgers
<1>3. tx.op = "create" => cs \in SUBSET Contracts
  BY <1>1 DEF FlowTypeOK, Ledgers
<1>4. /\ rs \in [Contracts -> {"none", "ours", "another"}]
      /\ \A c \in Contracts : ledger.record[c] = "ours" => rs[c] = "ours"
  BY DEF FlowTypeOK, Ledgers
<1>5. ledger.contracts \subseteq cs
  OBVIOUS
<1>6. CASE ~Succeeds(tx)
  <2>1. ledger' = [ledger EXCEPT !.sequence = n]
    BY <1>6 DEF Apply
  <2> HIDE DEF n
  <2> QED BY <2>1, <1>2 DEF FlowTypeOK, Ledgers, Kept
<1>7. CASE Succeeds(tx) /\ tx.op = "upload"
  <2>1. ledger' = [ledger EXCEPT !.sequence = n, !.code = TRUE]
    BY <1>7 DEF Apply, Effect
  <2> HIDE DEF n
  <2> QED BY <2>1, <1>2 DEF FlowTypeOK, Ledgers, Kept
<1>8. CASE Succeeds(tx) /\ tx.op = "create"
  <2>1. ledger' = [ledger EXCEPT !.sequence = n, !.contracts = cs]
    BY <1>8 DEF Apply, Effect
  <2> HIDE DEF n, cs
  <2> QED BY <2>1, <1>2, <1>3, <1>5, <1>8 DEF FlowTypeOK, Ledgers, Kept
<1>9. CASE Succeeds(tx) /\ tx.op = "commit"
  <2>1. ledger' = [ledger EXCEPT !.sequence = n, !.record = rs]
    BY <1>9 DEF Apply, Effect
  <2> HIDE DEF n, rs
  <2> QED BY <2>1, <1>2, <1>4 DEF FlowTypeOK, Ledgers, Kept
<1> QED BY <1>1, <1>6, <1>7, <1>8, <1>9 DEF Txs

LEMMA LedgerKeeps == ASSUME FlowTypeOK, FlowNext PROVE Kept
<1>1. CASE UNCHANGED ledger
  BY <1>1 DEF FlowTypeOK, Kept
<1>2. ASSUME NEW c \in Contracts, OtherCommits(c) PROVE Kept
  <2> DEFINE rs == [ledger.record EXCEPT ![c] = "another"]
  <2>1. /\ rs \in [Contracts -> {"none", "ours", "another"}]
        /\ \A d \in Contracts : ledger.record[d] = "ours" => rs[d] = "ours"
    BY <1>2 DEF OtherCommits, FlowTypeOK, Ledgers
  <2>2. ledger' = [ledger EXCEPT !.record = rs]
    BY <1>2 DEF OtherCommits
  <2> HIDE DEF rs
  <2> QED BY <2>1, <2>2 DEF FlowTypeOK, Ledgers, Kept
<1>3. CASE \E tx \in pool : Apply(tx)
  BY <1>3, ApplyKeeps
<1>4. CASE \E c \in Contracts : OtherCommits(c)
  BY <1>4, <1>2
<1> QED BY <1>1, <1>3, <1>4
        DEF FlowNext, ExecuteAnchorFlow, GetSequence, Upload, Create, Commit, Submit, ReadContractId,
            ReturnSubmitted, Wait, Poll, SaveDeployment, Crash, NextLedger

\* Where a run may stand, and what stays of it where only it changes.
LEMMA SubmitTyped ==
  ASSUME FlowTypeOK, NEW step, NEW tx \in Txs, NEW next, Submit(step, tx, next),
         next[1] \in Steps, next[2] \in Steps, tx.op = "create" => tx.contract \in Contracts
  PROVE  /\ run' \in Runs
         /\ pool' \subseteq {t \in Txs : t.op = "create" => t.contract \in Contracts}
         /\ \/ run' = NoScript
            \/ /\ run'.program = run.program /\ run'.contract = run.contract /\ run'.tx = tx
               /\ run'.pc = next[1] \/ (run'.pc = next[2] /\ run.program = "deploy")
               /\ Succeeds(tx)
<1> DEFINE to == IF run.program = "deploy" /\ SendStatus(tx) # "PENDING" THEN next[2] ELSE next[1]
<1>1. to \in Steps /\ (to = next[1] \/ (to = next[2] /\ run.program = "deploy"))
  OBVIOUS
<1>2. CASE Return("threw") \/ Return("REJECTED")
  BY <1>2, NoScriptTyped DEF Return, Submit, FlowTypeOK
<1>3. CASE /\ Succeeds(tx)
           /\ pool' = IF SendStatus(tx) = "PENDING" THEN pool \cup {tx} ELSE pool
           /\ run' = [run EXCEPT !.pc = to, !.tx = tx]
  <2>1. pool' \subseteq {t \in Txs : t.op = "create" => t.contract \in Contracts}
    BY <1>3 DEF FlowTypeOK
  <2> HIDE DEF to
  <2>2. /\ run' \in Runs
        /\ run'.program = run.program /\ run'.contract = run.contract /\ run'.tx = tx /\ run'.pc = to
    BY <1>1, <1>3 DEF FlowTypeOK, Runs
  <2> QED BY <2>1, <2>2, <1>1, <1>3
<1>4. Submit(step, tx, next) <=> /\ run.pc = step
         /\ \/ ~Succeeds(tx) /\ Return("threw") /\ UNCHANGED <<pool, artifact>>
            \/ Return("REJECTED") /\ WriteArtifact("REJECTED") /\ UNCHANGED pool
            \/ /\ Succeeds(tx)
               /\ pool' = IF SendStatus(tx) = "PENDING" THEN pool \cup {tx} ELSE pool
               /\ run' = [run EXCEPT !.pc = to, !.tx = tx]
               /\ UNCHANGED <<outcome, artifact>>
         /\ UNCHANGED <<ledger, results, closed, scripts, deployFile>>
  BY DEF Submit
<1> QED BY <1>2, <1>3, <1>4

LEMMA FlowTypeNext == ASSUME FlowTypeOK, FlowNext PROVE FlowTypeOK'
<1> USE LedgerKeeps DEF Kept
<1>1. ledger' \in Ledgers
  OBVIOUS
<1> DEFINE Pooled(p) == p \subseteq {tx \in Txs : tx.op = "create" => tx.contract \in Contracts}
<1>2. ASSUME NEW p \in Programs, NEW r \in FlowRequests, ExecuteAnchorFlow(p, r)
      PROVE  run' \in Runs /\ UNCHANGED <<pool, closed>>
  <2> DEFINE pc == IF p = "runner" THEN "commit sequence" ELSE "upload sequence"
             c == IF p = "runner" THEN "recorded" ELSE "none"
  <2>1. pc \in Steps /\ c \in Contracts \cup {"none"}
    BY DEF Steps, Contracts
  <2>2. run' = IF Gate(r) # "none" THEN NoScript
               ELSE [NoScript EXCEPT !.program = p, !.pc = pc, !.contract = c]
    BY <1>2 DEF ExecuteAnchorFlow
  <2> HIDE DEF pc, c
  <2>3. [NoScript EXCEPT !.program = p, !.pc = pc, !.contract = c] \in Runs
    BY <2>1, NoScriptTyped DEF Runs
  <2> QED BY <2>2, <2>3, <1>2, NoScriptTyped DEF ExecuteAnchorFlow
<1>3. ASSUME NEW step, NEW next \in Steps, GetSequence(step, next)
      PROVE  run' \in Runs /\ UNCHANGED <<pool, closed>>
  BY <1>3 DEF GetSequence, FlowTypeOK, Runs, Ledgers
<1>4. ASSUME NEW op \in {"upload", "create", "commit"}, NEW c \in Contracts \cup {"none"}, NEW n \in Nat
      PROVE  BuildTx(op, c, n) \in Txs /\ BuildTx(op, c, n).op = op /\ BuildTx(op, c, n).contract = c
  BY DEF BuildTx, Txs, FlowTypeOK
<1>5. run.sequence \in Nat /\ run.sequence + 1 \in Nat /\ run.contract \in Contracts \cup {"none"}
  BY DEF FlowTypeOK, Runs
<1>6. ASSUME Upload PROVE run' \in Runs /\ Pooled(pool') /\ UNCHANGED closed
  <2> DEFINE tx == BuildUploadTx(run.sequence)
             next == <<IF run.program = "flow" THEN "create" ELSE "poll upload", "create sequence">>
  <2>1. tx \in Txs /\ tx.op = "upload"
    BY <1>4, <1>5 DEF BuildUploadTx
  <2>2. next[1] \in Steps /\ next[2] \in Steps
    BY DEF Steps
  <2>3. Submit("upload", tx, next)
    BY <1>6 DEF Upload
  <2>4. UNCHANGED closed
    BY <2>3 DEF Submit
  <2> HIDE DEF tx, next
  <2> QED BY <2>1, <2>2, <2>3, <2>4, SubmitTyped
<1>7. ASSUME Create PROVE run' \in Runs /\ Pooled(pool') /\ UNCHANGED closed
  <2>1. CASE run.program = "flow"
    <3>0. PICK salt \in Contracts, n \in Nat : salt = DeriveSalt /\ n = run.sequence + 1
      BY <1>5 DEF DeriveSalt, Contracts
    <3> DEFINE tx == BuildCreateContractTx(salt, n)
               next == <<"contract id", "contract id">>
    <3>1. tx \in Txs /\ tx.op = "create" /\ tx.contract \in Contracts
      BY <1>4 DEF BuildCreateContractTx
    <3>2. next[1] \in Steps /\ next[2] \in Steps
      BY DEF Steps
    <3>3. Submit("create", tx, next)
      BY <1>7, <2>1, <3>0 DEF Create
    <3>4. UNCHANGED closed
      BY <3>3 DEF Submit
    <3> HIDE DEF tx, next
    <3> QED BY <3>1, <3>2, <3>3, <3>4, SubmitTyped
  <2>2. CASE run.program # "flow"
    <3>0. PICK salt \in Contracts : salt = RandomSalt
      BY DEF RandomSalt, Contracts
    <3> DEFINE tx == BuildCreateContractTx(salt, run.sequence)
               next == <<"poll create", "save">>
    <3>1. tx \in Txs /\ tx.op = "create" /\ tx.contract \in Contracts
      BY <1>4, <1>5 DEF BuildCreateContractTx
    <3>2. next[1] \in Steps /\ next[2] \in Steps
      BY DEF Steps
    <3>3. Submit("create", tx, next)
      BY <1>7, <2>2, <3>0 DEF Create
    <3>4. UNCHANGED closed
      BY <3>3 DEF Submit
    <3> HIDE DEF tx, next
    <3> QED BY <3>1, <3>2, <3>3, <3>4, SubmitTyped
  <2> QED BY <2>1, <2>2
<1>8. ASSUME Commit PROVE run' \in Runs /\ Pooled(pool') /\ UNCHANGED closed
  <2> DEFINE tx == BuildInvokeTx(run.contract, run.sequence)
             next == <<IF run.program = "runner" THEN "wait" ELSE "submitted", "submitted">>
  <2>1. tx \in Txs /\ tx.op = "commit"
    BY <1>4, <1>5 DEF BuildInvokeTx
  <2>2. next[1] \in Steps /\ next[2] \in Steps
    BY DEF Steps
  <2>3. Submit("commit", tx, next)
    BY <1>8 DEF Commit
  <2>4. UNCHANGED closed
    BY <2>3 DEF Submit
  <2> HIDE DEF tx, next
  <2> QED BY <2>1, <2>2, <2>3, <2>4, SubmitTyped
<1>9. ASSUME ReadContractId PROVE run' \in Runs /\ UNCHANGED <<pool, closed>>
  <2>1. PICK id \in ParseContractIdFromCreateResult(run.tx) :
          IF id = "none" THEN Return("REJECTED")
          ELSE run' = [run EXCEPT !.pc = "commit sequence", !.contract = id] /\ UNCHANGED outcome
    BY <1>9 DEF ReadContractId
  <2>2. id \in Contracts \cup {"none"}
    BY <2>1 DEF ParseContractIdFromCreateResult, GetTransaction, FlowTypeOK, Txs
  <2>3. "commit sequence" \in Steps
    BY DEF Steps
  <2>4. [run EXCEPT !.pc = "commit sequence", !.contract = id] \in Runs
    BY <2>2, <2>3 DEF FlowTypeOK, Runs
  <2> QED BY <2>1, <2>4, <1>9, NoScriptTyped DEF ReadContractId, Return
<1>10. ASSUME ReturnSubmitted \/ Wait \/ SaveDeployment \/ Crash
       PROVE  run' \in Runs /\ UNCHANGED <<pool, closed>>
  BY <1>10, NoScriptTyped DEF ReturnSubmitted, Wait, SaveDeployment, Crash, Return
<1>11. ASSUME NEW step, NEW next \in Steps, Poll(step, next)
       PROVE  run' \in Runs /\ UNCHANGED <<pool, closed>>
  BY <1>11, NoScriptTyped DEF Poll, Return, FlowTypeOK, Runs
<1>12. ASSUME NEW tx \in pool, Apply(tx)
       PROVE  run' \in Runs /\ Pooled(pool') /\ DOMAIN results' \subseteq Txs /\ UNCHANGED closed
  <2>1. tx \in Txs /\ run' = run /\ pool' = pool \ {tx} /\ UNCHANGED closed
    BY <1>12 DEF Apply, FlowTypeOK
  <2>3. DOMAIN results' = DOMAIN results \cup {tx}
    BY <1>12 DEF Apply
  <2> QED BY <2>1, <2>3 DEF FlowTypeOK
<1>13. ASSUME NextLedger PROVE run' \in Runs /\ Pooled(pool') /\ closed' \in Nat
  BY <1>13 DEF NextLedger, FlowTypeOK
<1>14. ASSUME NEW c \in Contracts, OtherCommits(c)
       PROVE  run' \in Runs /\ UNCHANGED <<pool, closed>>
  BY <1>14 DEF OtherCommits, FlowTypeOK
<1>15. {"upload", "create", "commit", "create sequence", "save"} \subseteq Steps
  BY DEF Steps
<1>16. run' \in Runs /\ Pooled(pool') /\ closed' \in Nat
  BY <1>2, <1>3, <1>6, <1>7, <1>8, <1>9, <1>10, <1>11, <1>12, <1>13, <1>14, <1>15 DEF FlowNext, FlowTypeOK
<1>17. DOMAIN results' \subseteq Txs
  <2>1. CASE UNCHANGED results
    BY <2>1 DEF FlowTypeOK
  <2>2. CASE \E tx \in pool : Apply(tx)
    BY <2>2, <1>12
  <2> QED BY <2>1, <2>2
          DEF FlowNext, ExecuteAnchorFlow, GetSequence, Upload, Create, Commit, Submit, ReadContractId,
              ReturnSubmitted, Wait, Poll, SaveDeployment, Crash, NextLedger, OtherCommits
<1> QED BY <1>1, <1>16, <1>17 DEF FlowTypeOK

LEMMA SuccessNext ==
  ASSUME FlowTypeOK, SuccessIsRecorded, FlowNext
  PROVE  SuccessIsRecorded'
<1> SUFFICES ASSUME NEW tx \in DOMAIN results', results'[tx] = "SUCCESS", tx.op = "commit"
             PROVE  tx.contract \in Contracts /\ ledger'.record[tx.contract] = "ours"
  BY DEF SuccessIsRecorded
<1>1. (tx \in DOMAIN results /\ results[tx] = "SUCCESS") =>
         tx.contract \in Contracts /\ ledger'.record[tx.contract] = "ours"
  <2> SUFFICES ASSUME tx \in DOMAIN results, results[tx] = "SUCCESS"
               PROVE  tx.contract \in Contracts /\ ledger'.record[tx.contract] = "ours"
    OBVIOUS
  <2>1. tx.contract \in Contracts /\ ledger.record[tx.contract] = "ours"
    BY DEF SuccessIsRecorded
  <2> QED BY <2>1, LedgerKeeps DEF Kept
<1>2. CASE UNCHANGED results
  BY <1>1, <1>2
<1>3. ASSUME NEW t \in pool, Apply(t) PROVE tx.contract \in Contracts /\ ledger'.record[tx.contract] = "ours"
  <2>1. CASE t # tx
    BY <1>1, <1>3, <2>1 DEF Apply
  <2>2. CASE t = tx
    <3>1. Succeeds(tx)
      BY <1>3, <2>2 DEF Apply
    <3>2. tx.contract \in Contracts
      BY <3>1 DEF Succeeds, FlowTypeOK, Ledgers
    <3>3. ledger' = [ledger EXCEPT !.sequence = @ + 1, !.record[tx.contract] = "ours"]
      BY <1>3, <2>2, <3>1 DEF Apply, Effect
    <3> QED BY <3>2, <3>3 DEF FlowTypeOK, Ledgers
  <2> QED BY <2>1, <2>2
<1> QED BY <1>2, <1>3
        DEF FlowNext, ExecuteAnchorFlow, GetSequence, Upload, Create, Commit, Submit, ReadContractId,
            ReturnSubmitted, Wait, Poll, SaveDeployment, Crash, NextLedger, OtherCommits

LEMMA RunnerNext ==
  ASSUME FlowTypeOK, RunnerIsAtItsContract, FlowNext
  PROVE  RunnerIsAtItsContract'
<1> USE DEF RunnerIsAtItsContract
<1>0. ASSUME run' = NoScript PROVE RunnerIsAtItsContract'
  BY <1>0 DEF NoScript
<1>1. ASSUME NEW p \in Programs, NEW r \in FlowRequests, ExecuteAnchorFlow(p, r)
      PROVE  RunnerIsAtItsContract'
  <2> DEFINE pc == IF p = "runner" THEN "commit sequence" ELSE "upload sequence"
             c == IF p = "runner" THEN "recorded" ELSE "none"
  <2>1. CASE run' = [NoScript EXCEPT !.program = p, !.pc = pc, !.contract = c]
    <3>1. run'.program = p /\ run'.pc = pc /\ run'.contract = c
      <4> HIDE DEF pc, c
      <4> QED BY <2>1 DEF NoScript
    <3> QED BY <3>1
  <2> QED BY <1>0, <1>1, <2>1 DEF ExecuteAnchorFlow
<1>2. ASSUME NEW step, NEW next, GetSequence(step, next), next # "wait",
             step = "commit sequence" => next = "commit",
             step \in {"upload sequence", "create sequence", "commit sequence"}
      PROVE  RunnerIsAtItsContract'
  <2>1. run'.program = run.program /\ run'.pc = next /\ run'.contract = run.contract /\ run.pc = step
    BY <1>2 DEF GetSequence, FlowTypeOK, Runs
  <2> QED BY <2>1, <1>2
<1>3. ASSUME NEW step \in {"upload", "create"}, NEW tx, NEW next, Submit(step, tx, next),
             next[1] # "wait", next[2] # "wait"
      PROVE  RunnerIsAtItsContract'
  <2> DEFINE to == IF run.program = "deploy" /\ SendStatus(tx) # "PENDING" THEN next[2] ELSE next[1]
  <2>1. CASE run' = [run EXCEPT !.pc = to, !.tx = tx]
    <3>1. to # "wait"
      BY <1>3
    <3>2. run.pc = step
      BY <1>3 DEF Submit
    <3> HIDE DEF to
    <3>3. run'.program = run.program /\ run'.pc = to
      BY <2>1 DEF FlowTypeOK, Runs
    <3> QED BY <3>1, <3>2, <3>3
  <2> QED BY <2>1, <1>0, <1>3 DEF Submit, Return
<1>4. ASSUME Commit PROVE RunnerIsAtItsContract'
  <2> DEFINE tx == BuildInvokeTx(run.contract, run.sequence)
             next == <<IF run.program = "runner" THEN "wait" ELSE "submitted", "submitted">>
             to == IF run.program = "deploy" /\ SendStatus(tx) # "PENDING" THEN next[2] ELSE next[1]
  <2>1. Submit("commit", tx, next)
    BY <1>4 DEF Commit
  <2>2. CASE run' = [run EXCEPT !.pc = to, !.tx = tx]
    <3>1. to = IF run.program = "runner" THEN "wait" ELSE "submitted"
      OBVIOUS
    <3>2. tx.op = "commit" /\ tx.contract = run.contract
      BY DEF BuildInvokeTx, BuildTx
    <3> HIDE DEF to, tx
    <3>3. run'.program = run.program /\ run'.pc = to /\ run'.tx = tx /\ run'.contract = run.contract
      BY <2>2 DEF FlowTypeOK, Runs
    <3> QED BY <3>1, <3>2, <3>3
  <2> QED BY <2>1, <2>2, <1>0 DEF Submit, Return
<1>5. ASSUME Upload PROVE RunnerIsAtItsContract'
  <2> DEFINE next == <<IF run.program = "flow" THEN "create" ELSE "poll upload", "create sequence">>
  <2>1. Submit("upload", BuildUploadTx(run.sequence), next)
    BY <1>5 DEF Upload
  <2>2. next[1] # "wait" /\ next[2] # "wait"
    OBVIOUS
  <2> HIDE DEF next
  <2> QED BY <2>1, <2>2, <1>3
<1>6. ASSUME Create PROVE RunnerIsAtItsContract'
  <2>1. CASE run.program = "flow"
    <3>1. PICK tx, next : Submit("create", tx, next) /\ next = <<"contract id", "contract id">>
      BY <1>6, <2>1 DEF Create
    <3> QED BY <3>1, <1>3
  <2>2. CASE run.program # "flow"
    <3>1. PICK tx, next : Submit("create", tx, next) /\ next = <<"poll create", "save">>
      BY <1>6, <2>2 DEF Create
    <3> QED BY <3>1, <1>3
  <2> QED BY <2>1, <2>2
<1>7. ASSUME ReadContractId PROVE RunnerIsAtItsContract'
  <2>1. PICK id : IF id = "none" THEN Return("REJECTED")
                  ELSE run' = [run EXCEPT !.pc = "commit sequence", !.contract = id] /\ UNCHANGED outcome
    BY <1>7 DEF ReadContractId
  <2>2. run.program # "runner"
    BY <1>7 DEF ReadContractId
  <2>3. CASE run' = [run EXCEPT !.pc = "commit sequence", !.contract = id]
    BY <2>2, <2>3 DEF FlowTypeOK, Runs
  <2> QED BY <2>1, <2>3, <1>0 DEF Return
<1>8. ASSUME NEW step \in {"poll upload", "poll create"}, NEW next, next # "wait", Poll(step, next)
      PROVE  RunnerIsAtItsContract'
  <2>1. CASE run' = [run EXCEPT !.pc = next]
    BY <1>8, <2>1 DEF Poll, FlowTypeOK, Runs
  <2> QED BY <2>1, <1>0, <1>8 DEF Poll, Return
<1>9. ASSUME ReturnSubmitted \/ Wait \/ SaveDeployment \/ Crash PROVE RunnerIsAtItsContract'
  BY <1>9, <1>0 DEF ReturnSubmitted, Wait, SaveDeployment, Crash, Return
<1>10. ASSUME UNCHANGED run PROVE RunnerIsAtItsContract'
  BY <1>10
<1>11. (\E tx \in pool : Apply(tx)) \/ NextLedger \/ (\E c \in Contracts : OtherCommits(c)) => UNCHANGED run
  BY DEF Apply, NextLedger, OtherCommits
<1> QED BY <1>1, <1>2, <1>4, <1>5, <1>6, <1>7, <1>8, <1>9, <1>10, <1>11 DEF FlowNext

\* No step but the simulation of a commit leads to "submitted", and only a run
\* that stands there, or the runner at the end of its wait, has something to say.
LEMMA AnsweredNext ==
  ASSUME FlowInv, FlowNext
  PROVE  SubmittedHasContract' /\ InvokedIsAnchored'
<1> USE DEF FlowInv
<1>0. /\ ledger.contracts # {} => ledger'.contracts # {}
      /\ ledger.record["recorded"] = "ours" => ledger'.record["recorded"] = "ours"
  BY LedgerKeeps DEF Kept, Contracts
<1>1. ASSUME UNCHANGED <<run, outcome, artifact>> PROVE SubmittedHasContract' /\ InvokedIsAnchored'
  BY <1>0, <1>1 DEF SubmittedHasContract, InvokedIsAnchored
<1>2. ASSUME run'.pc # "submitted", outcome' = outcome \/ outcome' # "SUBMITTED", artifact' = artifact
      PROVE  SubmittedHasContract' /\ InvokedIsAnchored'
  BY <1>0, <1>2 DEF SubmittedHasContract, InvokedIsAnchored
<1>3. ASSUME NEW state, Return(state), state # "SUBMITTED", artifact' = artifact
      PROVE  SubmittedHasContract' /\ InvokedIsAnchored'
  BY <1>2, <1>3 DEF Return, NoScript
<1>16. ASSUME Return("REJECTED"), WriteArtifact("REJECTED")
       PROVE  SubmittedHasContract' /\ InvokedIsAnchored'
  <2>1. CASE artifact' = artifact
    BY <1>3, <1>16, <2>1
  <2>2. CASE artifact' = BuildArtifact("REJECTED")
    <3>1. ~artifact'.anchored
      BY <2>2 DEF BuildArtifact
    <3>2. outcome' = "REJECTED" /\ run'.pc = "idle"
      BY <1>16 DEF Return, NoScript
    <3> QED BY <3>1, <3>2 DEF SubmittedHasContract, InvokedIsAnchored
  <2> QED BY <1>16, <2>1, <2>2 DEF WriteArtifact
<1>4. ASSUME NEW p \in Programs, NEW r \in FlowRequests, ExecuteAnchorFlow(p, r)
      PROVE  SubmittedHasContract' /\ InvokedIsAnchored'
  <2>1. outcome' # "SUBMITTED" /\ artifact' = artifact
    <3>1. Gate(r) # "SUBMITTED"
      BY DEF Gate
    <3> QED BY <3>1, <1>4 DEF ExecuteAnchorFlow
  <2> DEFINE pc == IF p = "runner" THEN "commit sequence" ELSE "upload sequence"
             c == IF p = "runner" THEN "recorded" ELSE "none"
  <2>2. CASE run' = [NoScript EXCEPT !.program = p, !.pc = pc, !.contract = c]
    <3>1. run'.pc = pc
      <4> HIDE DEF pc, c
      <4> QED BY <2>2 DEF NoScript
    <3> QED BY <3>1, <2>1, <1>2
  <2>3. CASE run' = NoScript
    BY <2>3, <2>1, <1>2 DEF NoScript
  <2> QED BY <2>2, <2>3, <1>4 DEF ExecuteAnchorFlow
<1>5. ASSUME NEW step, NEW next, next # "submitted", GetSequence(step, next) \/ Poll(step, next)
      PROVE  SubmittedHasContract' /\ InvokedIsAnchored'
  <2>1. CASE run'.pc = next /\ UNCHANGED <<outcome, artifact>>
    BY <2>1, <1>2, <1>5
  <2>2. GetSequence(step, next) => run'.pc = next /\ UNCHANGED <<outcome, artifact>>
    BY DEF GetSequence, FlowTypeOK, Runs
  <2>3. Poll(step, next) => \/ run'.pc = next /\ UNCHANGED <<outcome, artifact>>
                            \/ Return("threw") /\ artifact' = artifact
    BY DEF Poll, FlowTypeOK, Runs
  <2> QED BY <2>1, <2>2, <2>3, <1>3, <1>5
<1>6. ASSUME NEW step, NEW tx, NEW next, Submit(step, tx, next), Succeeds(tx) => ledger.contracts # {}
      PROVE  SubmittedHasContract' /\ InvokedIsAnchored'
  <2>1. CASE Succeeds(tx) /\ UNCHANGED <<outcome, artifact>>
    BY <2>1, <1>0, <1>6 DEF SubmittedHasContract, InvokedIsAnchored
  <2> QED BY <2>1, <1>3, <1>16, <1>6 DEF Submit
<1>7. ASSUME NEW step, NEW tx, NEW next, Submit(step, tx, next), next[1] # "submitted", next[2] # "submitted"
      PROVE  SubmittedHasContract' /\ InvokedIsAnchored'
  <2> DEFINE to == IF run.program = "deploy" /\ SendStatus(tx) # "PENDING" THEN next[2] ELSE next[1]
  <2>1. CASE run' = [run EXCEPT !.pc = to, !.tx = tx] /\ UNCHANGED <<outcome, artifact>>
    <3>1. to # "submitted"
      BY <1>7
    <3> HIDE DEF to
    <3>2. run'.pc = to
      BY <2>1 DEF FlowTypeOK, Runs
    <3> QED BY <3>1, <3>2, <2>1, <1>2
  <2> QED BY <2>1, <1>3, <1>16, <1>7 DEF Submit
<1>8. ASSUME Upload PROVE SubmittedHasContract' /\ InvokedIsAnchored'
  <2>1. PICK tx, next : /\ Submit("upload", tx, next)
                        /\ next = <<IF run.program = "flow" THEN "create" ELSE "poll upload", "create sequence">>
    BY <1>8 DEF Upload
  <2> QED BY <2>1, <1>7
<1>9. ASSUME Create PROVE SubmittedHasContract' /\ InvokedIsAnchored'
  <2>1. CASE run.program = "flow"
    <3>1. PICK tx, next : Submit("create", tx, next) /\ next = <<"contract id", "contract id">>
      BY <1>9, <2>1 DEF Create
    <3> QED BY <3>1, <1>7
  <2>2. CASE run.program # "flow"
    <3>1. PICK tx, next : Submit("create", tx, next) /\ next = <<"poll create", "save">>
      BY <1>9, <2>2 DEF Create
    <3> QED BY <3>1, <1>7
  <2> QED BY <2>1, <2>2
<1>10. ASSUME Commit PROVE SubmittedHasContract' /\ InvokedIsAnchored'
  <2>1. PICK tx, next : Submit("commit", tx, next) /\ tx = BuildInvokeTx(run.contract, run.sequence)
    BY <1>10 DEF Commit
  <2>2. Succeeds(tx) => ledger.contracts # {}
    BY <2>1 DEF Succeeds, BuildInvokeTx, BuildTx
  <2> QED BY <2>1, <2>2, <1>6
<1>11. ASSUME ReadContractId PROVE SubmittedHasContract' /\ InvokedIsAnchored'
  <2>1. PICK id : IF id = "none" THEN Return("REJECTED")
                  ELSE run' = [run EXCEPT !.pc = "commit sequence", !.contract = id] /\ UNCHANGED outcome
    BY <1>11 DEF ReadContractId
  <2>2. CASE run' = [run EXCEPT !.pc = "commit sequence", !.contract = id] /\ UNCHANGED outcome
    BY <1>11, <2>2, <1>2 DEF ReadContractId, FlowTypeOK, Runs
  <2>3. CASE Return("REJECTED")
    BY <1>11, <2>3, <1>3 DEF ReadContractId
  <2> QED BY <2>1, <2>2, <2>3
<1>12. ASSUME ReturnSubmitted PROVE SubmittedHasContract' /\ InvokedIsAnchored'
  <2>1. ledger.contracts # {}
    BY <1>12 DEF ReturnSubmitted, SubmittedHasContract
  <2> QED BY <1>12, <2>1, <1>0 DEF ReturnSubmitted, Return, NoScript, SubmittedHasContract, InvokedIsAnchored
<1>13. ASSUME Wait PROVE SubmittedHasContract' /\ InvokedIsAnchored'
  <2>1. PICK state \in Finality : Return(state) /\ artifact' = BuildArtifact(state)
    BY <1>13 DEF Wait
  <2>2. state # "SUBMITTED" /\ (state = "INVOKED" => GetTransaction(run.tx) = "SUCCESS")
    BY <2>1 DEF Finality
  <2>3. GetTransaction(run.tx) = "SUCCESS" => ledger.record["recorded"] = "ours"
    BY <1>13 DEF Wait, GetTransaction, SuccessIsRecorded, RunnerIsAtItsContract
  <2>4. artifact'.anchored => state = "INVOKED"
    BY <2>1 DEF BuildArtifact
  <2>5. SubmittedHasContract'
    BY <2>1 DEF Return, NoScript, SubmittedHasContract
  <2> QED BY <2>1, <2>2, <2>3, <2>4, <2>5, <1>0 DEF Return, InvokedIsAnchored
<1>14. ASSUME SaveDeployment \/ Crash PROVE SubmittedHasContract' /\ InvokedIsAnchored'
  BY <1>14, <1>3 DEF SaveDeployment, Crash
<1>15. (\E tx \in pool : Apply(tx)) \/ NextLedger \/ (\E c \in Contracts : OtherCommits(c))
         => UNCHANGED <<run, outcome, artifact>>
  BY DEF Apply, NextLedger, OtherCommits
<1> QED BY <1>1, <1>4, <1>5, <1>8, <1>9, <1>10, <1>11, <1>12, <1>13, <1>14, <1>15 DEF FlowNext

\* The runner's artifact and the flow's answer (scripts/stellar-soroban-commit-
\* executed, packages/stellar-soroban): for any number of scripts and ledgers,
\* "anchored" is only said of a pair the contract holds, and "SUBMITTED" only
\* when there is a contract to hold it.
THEOREM AnchorHolds == FlowSpec => []InvokedIsAnchored
<1>1. FlowInit => FlowInv
  BY FlowInvInit
<1>2. FlowInv /\ [FlowNext]_flowVars => FlowInv'
  <2>1. ASSUME FlowInv, FlowNext PROVE FlowInv'
    BY <2>1, FlowTypeNext, SuccessNext, RunnerNext, AnsweredNext DEF FlowInv
  <2>2. ASSUME FlowInv, UNCHANGED flowVars PROVE FlowInv'
    BY <2>2 DEF FlowInv, flowVars, FlowTypeOK, SuccessIsRecorded, RunnerIsAtItsContract,
                SubmittedHasContract, InvokedIsAnchored
  <2> QED BY <2>1, <2>2
<1>3. FlowInv => InvokedIsAnchored
  BY DEF FlowInv
<1> QED BY <1>1, <1>2, <1>3, PTL DEF FlowSpec

-----------------------------------------------------------------------------
\* The firewall.  A decision is as good as what it was computed from: an ALLOW
\* is earned by the inputs on its own record.  The invariant adds to it that
\* records only grow, and that what refers to them came after them.

IsInput(in) == in = [f \in DOMAIN PlainInputs |-> in[f]] /\ \A f \in DOMAIN PlainInputs : in[f] \in InputValues[f]

\* What is enumerated is an input.
LEMMA PlainIsInput == \A f \in DOMAIN PlainInputs : PlainInputs[f] \in InputValues[f]
<1>1. DOMAIN PlainInputs = {"kind", "intent", "declaration", "authority", "services", "policy", "expected", "active",
                            "trust", "action", "amount", "summary", "envelope", "quantity", "gas", "time",
                            "path", "seam"}
  BY DEF PlainInputs
<1>2. /\ PlainInputs.kind \in InputValues.kind /\ PlainInputs.intent \in InputValues.intent
      /\ PlainInputs.declaration \in InputValues.declaration /\ PlainInputs.authority \in InputValues.authority
  BY DEF PlainInputs, InputValues
<1>3. /\ PlainInputs.services \in InputValues.services /\ PlainInputs.policy \in InputValues.policy
      /\ PlainInputs.expected \in InputValues.expected /\ PlainInputs.active \in InputValues.active
  BY DEF PlainInputs, InputValues
<1>4. /\ PlainInputs.trust \in InputValues.trust /\ PlainInputs.action \in InputValues.action
      /\ PlainInputs.summary \in InputValues.summary /\ PlainInputs.envelope \in InputValues.envelope
  BY DEF PlainInputs, InputValues
<1>5. /\ PlainInputs.quantity \in InputValues.quantity /\ PlainInputs.gas \in InputValues.gas
      /\ PlainInputs.time \in InputValues.time /\ PlainInputs.path \in InputValues.path
  BY DEF PlainInputs, InputValues
<1>6. PlainInputs.seam \in InputValues.seam /\ PlainInputs.amount \in InputValues.amount
  BY DEF PlainInputs, InputValues
<1> QED BY <1>1, <1>2, <1>3, <1>4, <1>5, <1>6

LEMMA EnumeratedIsInput == ASSUME NEW n, NEW in \in InputsWith(n) PROVE IsInput(in)
<1> DEFINE odd(F) == {v \in [F -> UNION {InputValues[f] : f \in F}] :
                        \A f \in F : v[f] \in InputValues[f] \ {PlainInputs[f]}}
           with(k, F, v) == [f \in DOMAIN PlainInputs |->
                               IF f = "kind" THEN k ELSE IF f \in F THEN v[f] ELSE PlainInputs[f]]
           some(F) == {with(k, F, v) : k \in InputValues.kind, v \in odd(F)}
           fields == {S \in SUBSET (DOMAIN PlainInputs \ {"kind"}) : Cardinality(S) <= n}
<1>1. InputsWith(n) = UNION {some(F) : F \in fields}
  BY DEF InputsWith
<1>2. PICK F \in fields : in \in some(F)
  <2> HIDE DEF some, fields
  <2> QED BY <1>1
<1>3. PICK k \in InputValues.kind, v \in odd(F) : in = with(k, F, v)
  <2> HIDE DEF with, odd
  <2> QED BY <1>2
<1>4. in = [f \in DOMAIN PlainInputs |-> in[f]]
  BY <1>3
<1>5. ASSUME NEW f \in DOMAIN PlainInputs PROVE in[f] \in InputValues[f]
  <2>1. in[f] = IF f = "kind" THEN k ELSE IF f \in F THEN v[f] ELSE PlainInputs[f]
    BY <1>3
  <2>2. f = "kind" => k \in InputValues[f]
    BY <1>3
  <2>3. f \in F => v[f] \in InputValues[f]
    BY <1>3
  <2> QED BY <2>1, <2>2, <2>3, PlainIsInput
<1> QED BY <1>4, <1>5 DEF IsInput

LEMMA ReviewedIsInput ==
  ASSUME NEW in, IsInput(in), NEW again \in ReviewInputs(in)
  PROVE  IsInput(again)
<1>1. PICK other \in OtherInputs :
        again = [f \in DOMAIN PlainInputs |->
                  IF f \in BelongsToIntent /\ other.intent = in.intent THEN in[f] ELSE other[f]]
  BY DEF ReviewInputs
<1>2. IsInput(other)
  BY EnumeratedIsInput DEF OtherInputs
<1> QED BY <1>1, <1>2 DEF IsInput

\* The fields of an input, one by one.
LEMMA InputFields ==
  ASSUME NEW in, IsInput(in)
  PROVE  /\ in.intent \in InputValues.intent /\ in.declaration \in InputValues.declaration
         /\ in.authority \in InputValues.authority /\ in.policy \in InputValues.policy
         /\ in.active \in InputValues.active /\ in.action \in InputValues.action
         /\ in.summary \in InputValues.summary /\ in.seam \in InputValues.seam
         /\ in.kind \in InputValues.kind /\ in.quantity \in InputValues.quantity
<1>1. {"intent", "declaration", "authority", "policy", "active", "action", "summary", "seam", "kind", "quantity"}
        \subseteq DOMAIN PlainInputs
  BY DEF PlainInputs
<1> QED BY <1>1 DEF IsInput

\* Each of the four terms, where it lets the decision pass.
LEMMA BoundInput ==
  ASSUME NEW in, IsInput(in), EvaluateDeclarationBinding(in) = OK
  PROVE  in.intent # "missing" /\ in.declaration = "bound"
<1>1. in.declaration \in {"bound", "missing", "invalid", "unbound"}
  BY InputFields DEF InputValues
<1> QED BY <1>1 DEF EvaluateDeclarationBinding, OK, Result

LEMMA ApprovedInput ==
  ASSUME NEW in, NEW provider, IsInput(in), EvaluateAuthorityProbe(in, provider) = OK
  PROVE  in.authority = "approved"
<1>1. in.services # "no adapter"
  BY DEF EvaluateAuthorityProbe, OK, Result
<1>2. CASE in.kind = "EOA"
  BY <1>1, <1>2 DEF EvaluateAuthorityProbe, OK, Result
<1>3. CASE in.kind # "EOA"
  BY <1>1, <1>3 DEF EvaluateAuthorityProbe, OK, Result
<1> QED BY <1>2, <1>3

LEMMA SatisfiedInput ==
  ASSUME NEW in, IsInput(in), EvaluatePolicyForDecision(in).status = "SATISFIED", ~HasReviewRule(in)
  PROVE  /\ in.policy \in {"p1 satisfied", "p2 satisfied"} /\ in.active = "listed"
         /\ in.trust # "not reached" /\ in.expected # "other"
<1>1. /\ in.policy \in {"p1 satisfied", "p2 satisfied", "p3 review", "p4 violated", "p5 throws", "missing"}
      /\ in.active \in {"listed", "unlisted", "unknown"}
  BY InputFields DEF InputValues
<1> QED BY <1>1 DEF EvaluatePolicyForDecision, HasReviewRule, Result

LEMMA ConsistentInput ==
  ASSUME NEW in, IsInput(in), EvaluateSimulation(in) \notin {"VIOLATES", "UNMODELABLE"}
  PROVE  /\ in.summary = "given" /\ in.action # "OTHER"
         /\ {in.envelope, in.gas, in.time} \cap {"other", "above", "outside", "absent"} = {}
         /\ AmountCompared(in) => in.quantity = "same"
         /\ in.action = "SWAP" => in.quantity \notin {"absent", "text"}
<1>1. ~Unmodelable(in) /\ Consistent(in)
  BY DEF EvaluateSimulation
<1>2. /\ in.summary \in {"given", "missing"} /\ in.action \in {"TRANSFER", "SWAP", "CUSTOM", "OTHER"}
      /\ in.quantity \in {"same", "other", "text", "absent"}
  BY InputFields DEF InputValues
<1> QED BY <1>1, <1>2 DEF Unmodelable, Consistent, QuantityNeeded, QuantityDiffers

LEMMA AllowedIsEarned ==
  ASSUME NEW in, NEW provider, IsInput(in), ~Throws(in), DecisionOf(in, provider) = "ALLOW"
  PROVE  Earned(in)
<1>1. /\ EvaluateDeclarationBinding(in) = OK /\ EvaluateAuthorityProbe(in, provider) = OK
      /\ EvaluatePolicyForDecision(in).status = "SATISFIED" /\ ~HasReviewRule(in)
      /\ EvaluateSimulation(in) \notin {"VIOLATES", "UNMODELABLE"}
  BY DEF DecisionOf
<1>2. in.seam = "clean"
  BY InputFields DEF Throws, InputValues
<1> QED BY <1>1, <1>2, BoundInput, ApprovedInput, SatisfiedInput, ConsistentInput DEF Earned

\* A decision that was made: what DecisionOf says of its inputs.
Made(d) == \E in, p : IsInput(in) /\ ~Throws(in) /\ d = Record(in, p)

FirewallInv ==
  /\ \/ decided = <<>> /\ resolution = {} /\ annotation = {}
     \/ \E d : Made(d) /\ decided = <<d>> /\ resolution = {}
     \/ \E d, e : Made(d) /\ Made(e) /\ decided = <<d, e>>
  /\ \A g \in guarded : g.label = "ALLOW" => g.status = "OK" /\ decided # <<>> /\ decided[1].decision = "ALLOW"
  /\ ReviewReleasesItsParent

LEMMA MadeIsEarned ==
  ASSUME NEW d, Made(d)
  PROVE  IsInput(d.inputs) /\ (d.decision = "ALLOW" => Earned(d.inputs))
<1>1. PICK in, p : IsInput(in) /\ ~Throws(in) /\ d = Record(in, p)
  BY DEF Made
<1>2. d.inputs = in /\ d.decision = DecisionOf(in, p)
  BY <1>1 DEF Record
<1> QED BY <1>1, <1>2, AllowedIsEarned

\* The first decision, by itself or for the guard.
LEMMA FirstDecision ==
  ASSUME FirewallInv, decided = <<>>, NEW n, NEW in \in InputsWith(n), NEW p,
         DecideFirewall(in, p) \/ Authorize(in, p)
  PROVE  FirewallInv'
<1>1. IsInput(in) /\ resolution = {} /\ annotation = {}
  BY EnumeratedIsInput DEF FirewallInv
<1>2. CASE DecideFirewall(in, p)
  <2>1. Made(Record(in, p)) /\ decided' = <<Record(in, p)>>
    BY <1>1, <1>2 DEF DecideFirewall, Made
  <2>2. \A g \in guarded : g.label # "ALLOW"
    BY DEF FirewallInv
  <2> QED BY <1>1, <1>2, <2>1, <2>2 DEF DecideFirewall, FirewallInv, ReviewReleasesItsParent
<1>3. CASE Authorize(in, p)
  <2> DEFINE missing == \/ in.declaration = "missing" \/ in.policy = "missing"
                        \/ in.active = "unknown" \/ in.services = "no state"
             d == Record(in, p)
  <2>1. CASE Throws(in)
    <3>1. decided' = <<>> /\ guarded' = {Result("NOT_PROVEN", "DENY")}
      BY <1>3, <2>1 DEF Authorize
    <3>2. \A g \in guarded' : g.label # "ALLOW"
      BY <3>1 DEF Result
    <3>3. resolution' = {} /\ annotation' = {}
      BY <1>1, <1>3 DEF Authorize
    <3>4. ReviewReleasesItsParent'
      BY <3>3 DEF ReviewReleasesItsParent
    <3> QED BY <3>1, <3>2, <3>3, <3>4 DEF FirewallInv
  <2>2. CASE ~Throws(in) /\ missing
    <3>1. decided' = <<>> /\ guarded' = {Result("NOT_RUN", "none")}
      BY <1>3, <2>2 DEF Authorize
    <3>2. \A g \in guarded' : g.label # "ALLOW"
      BY <3>1 DEF Result
    <3>3. resolution' = {} /\ annotation' = {}
      BY <1>1, <1>3 DEF Authorize
    <3>4. ReviewReleasesItsParent'
      BY <3>3 DEF ReviewReleasesItsParent
    <3> QED BY <3>1, <3>2, <3>3, <3>4 DEF FirewallInv
  <2>3. CASE ~Throws(in) /\ ~missing
    <3>1. decided' = <<d>> /\ guarded' = {Result("OK", DecisionOf(in, p))}
      BY <1>3, <2>3 DEF Authorize
    <3>2. Made(d) /\ d.decision = DecisionOf(in, p)
      BY <1>1, <2>3 DEF Made, Record
    <3>3. resolution' = {} /\ annotation' = {}
      BY <1>1, <1>3 DEF Authorize
    <3>4. \A g \in guarded' : g.status = "OK" /\ g.label = d.decision
      BY <3>1, <3>2 DEF Result
    <3> HIDE DEF d
    <3>5. decided' # <<>> /\ decided'[1] = d
      BY <3>1
    <3> QED BY <3>1, <3>2, <3>3, <3>4, <3>5 DEF FirewallInv, ReviewReleasesItsParent
  <2> QED BY <2>1, <2>2, <2>3
<1> QED BY <1>2, <1>3

\* A review makes a second decision next to the first.
LEMMA ReviewDecision ==
  ASSUME FirewallInv, NEW p, NEW w, ResolveReview(p, w)
  PROVE  FirewallInv'
<1>1. PICK d : Made(d) /\ decided = <<d>>
  BY DEF FirewallInv, ResolveReview
<1>2. PICK in \in ReviewInputs(d.inputs) :
        /\ ~Throws(in)
        /\ decided' = <<d, Record(in, p)>>
        /\ resolution' = IF SameBinding(d, in) /\ Record(in, p).decision = "ALLOW"
                         THEN {[ref |-> 1, to |-> Record(in, p).decision, writer |-> w]} ELSE {}
  BY <1>1 DEF ResolveReview
<1> DEFINE e == Record(in, p)
<1>3. Made(e) /\ e.inputs = in
  BY <1>1, <1>2, MadeIsEarned, ReviewedIsInput DEF Made, Record
<1>4. d.decision = "REQUIRE_REVIEW" /\ annotation' = {} /\ guarded' = guarded
  BY <1>1 DEF ResolveReview
<1>5. SameBinding(d, in) => e.inputs.intent = d.inputs.intent
  BY <1>3 DEF SameBinding
<1>6. decided' = <<d, e>> /\ \A r \in resolution' : r.ref = 1 /\ r.to = "ALLOW" /\ e.decision = "ALLOW" /\ SameBinding(d, in)
  BY <1>2
<1> HIDE DEF e
<1>7. ReviewReleasesItsParent'
  BY <1>3, <1>4, <1>5, <1>6, MadeIsEarned DEF ReviewReleasesItsParent
<1>8. \A g \in guarded' : g.label # "ALLOW"
  BY <1>1, <1>4 DEF FirewallInv
<1> QED BY <1>1, <1>3, <1>6, <1>7, <1>8 DEF FirewallInv

LEMMA Annotation ==
  ASSUME FirewallInv, NEW i \in DOMAIN decided, NEW o, AnnotateConformance(i, o)
  PROVE  FirewallInv'
<1>1. decided # <<>>
  OBVIOUS
<1>2. \A a \in annotation' : a.ref = i /\ (a.conformance = "CONFORM" => decided[i].decision # "DENY")
  BY DEF AnnotateConformance
<1>3. UNCHANGED <<decided, guarded, resolution>>
  BY DEF AnnotateConformance
<1>4. ReviewReleasesItsParent'
  BY <1>2, <1>3 DEF FirewallInv, ReviewReleasesItsParent
<1> QED BY <1>1, <1>3, <1>4 DEF FirewallInv

\* What the firewall lets happen (packages/firewall: decideFirewall,
\* guard.authorize, resolveReview, annotateConformance): for any number of odd
\* inputs an ALLOW was earned by the inputs it names, and a review releases the
\* intent that was set aside.
THEOREM ReleasesHold == FirewallSpec => []ReleasesAreEarned
<1>1. FirewallInit => FirewallInv
  BY DEF FirewallInit, FirewallInv, ReviewReleasesItsParent
<1>2. FirewallInv /\ [FirewallNext]_firewallVars => FirewallInv'
  <2>1. ASSUME FirewallInv, FirewallNext PROVE FirewallInv'
    <3>1. CASE decided = <<>> /\ \E in \in Inputs, p \in ProviderAnswers : DecideFirewall(in, p) \/ Authorize(in, p)
      BY <2>1, <3>1, FirstDecision DEF Inputs
    <3>2. CASE \E p \in ProviderAnswers, w \in {"listed", "unlisted"} : ResolveReview(p, w)
      BY <2>1, <3>2, ReviewDecision
    <3>3. CASE \E i \in DOMAIN decided, o \in {"same", "other"} : AnnotateConformance(i, o)
      BY <2>1, <3>3, Annotation
    <3> QED BY <2>1, <3>1, <3>2, <3>3 DEF FirewallNext
  <2>2. ASSUME FirewallInv, UNCHANGED firewallVars PROVE FirewallInv'
    BY <2>2 DEF FirewallInv, firewallVars, ReviewReleasesItsParent
  <2> QED BY <2>1, <2>2
<1>3. FirewallInv => ReleasesAreEarned
  <2> SUFFICES ASSUME FirewallInv PROVE ReleasesAreEarned
    OBVIOUS
  <2>1. \A i \in DOMAIN decided : Made(decided[i])
    BY DEF FirewallInv
  <2>2. decided # <<>> => 1 \in DOMAIN decided
    BY DEF FirewallInv
  <2> QED BY <2>1, <2>2, MadeIsEarned DEF FirewallInv, ReleasesAreEarned, AllowIsEarned
<1> QED BY <1>1, <1>2, <1>3, PTL DEF FirewallSpec

-----------------------------------------------------------------------------
\* The engines and their consensus.  An engine that goes on to ask the provider
\* has found everything else in order; the request does not change once it was
\* asked, and an envelope does not change once it is there.

\* The first stage that stops, of two and of four.
LEMMA FirstOfTwo ==
  ASSUME NEW a, NEW b
  PROVE  FirstStop(<<a, b>>) = IF a # Nothing THEN a ELSE b
<1>0. PICK stages : stages = <<a, b>>
  OBVIOUS
<1> DEFINE stopped == {i \in DOMAIN stages : stages[i] # Nothing}
           first == CHOOSE i \in stopped : \A j \in stopped : i <= j
<1>1. DOMAIN stages = {1, 2} /\ stages[1] = a /\ stages[2] = b
  BY <1>0
<1>2. FirstStop(stages) = IF stopped = {} THEN Nothing ELSE stages[first]
  BY DEF FirstStop
<1>3. CASE a # Nothing
  <2>1. 1 \in stopped /\ \A j \in stopped : 1 <= j
    BY <1>1, <1>3
  <2>2. \A i \in stopped : (\A j \in stopped : i <= j) => i = 1
    BY <1>1, <2>1
  <2>3. first = 1
    BY <2>1, <2>2
  <2> QED BY <1>0, <1>1, <1>2, <1>3, <2>1, <2>3
<1>4. CASE a = Nothing /\ b # Nothing
  <2>1. stopped = {2}
    BY <1>1, <1>4
  <2>2. first = 2
    BY <2>1
  <2> QED BY <1>0, <1>1, <1>2, <1>4, <2>1, <2>2
<1>5. CASE a = Nothing /\ b = Nothing
  BY <1>0, <1>1, <1>2, <1>5
<1> QED BY <1>0, <1>3, <1>4, <1>5

LEMMA FirstOfFour ==
  ASSUME NEW a, NEW b, NEW c, NEW d
  PROVE  FirstStop(<<a, b, c, d>>) =
           IF a # Nothing THEN a ELSE IF b # Nothing THEN b ELSE IF c # Nothing THEN c ELSE d
<1>0. PICK stages : stages = <<a, b, c, d>>
  OBVIOUS
<1> DEFINE stopped == {i \in DOMAIN stages : stages[i] # Nothing}
           first == CHOOSE i \in stopped : \A j \in stopped : i <= j
<1>1. DOMAIN stages = {1, 2, 3, 4} /\ stages[1] = a /\ stages[2] = b /\ stages[3] = c /\ stages[4] = d
  BY <1>0
<1>2. FirstStop(stages) = IF stopped = {} THEN Nothing ELSE stages[first]
  BY DEF FirstStop
<1>3. ASSUME NEW i \in {1, 2, 3, 4}, i \in stopped, \A j \in {1, 2, 3, 4} : j < i => j \notin stopped
      PROVE  FirstStop(stages) = stages[i]
  <2>1. \A j \in stopped : i <= j
    BY <1>1, <1>3
  <2>2. \A k \in stopped : (\A j \in stopped : k <= j) => k = i
    BY <1>1, <1>3, <2>1
  <2>3. first = i
    BY <1>3, <2>1, <2>2
  <2> QED BY <1>2, <1>3, <2>3
<1>4. CASE a # Nothing
  BY <1>0, <1>1, <1>3, <1>4
<1>5. CASE a = Nothing /\ b # Nothing
  BY <1>0, <1>1, <1>3, <1>5
<1>6. CASE a = Nothing /\ b = Nothing /\ c # Nothing
  BY <1>0, <1>1, <1>3, <1>6
<1>7. CASE a = Nothing /\ b = Nothing /\ c = Nothing /\ d # Nothing
  BY <1>0, <1>1, <1>3, <1>7
<1>8. CASE a = Nothing /\ b = Nothing /\ c = Nothing /\ d = Nothing
  BY <1>0, <1>1, <1>2, <1>8
<1> QED BY <1>0, <1>4, <1>5, <1>6, <1>7, <1>8

LEMMA StopIsStop ==
  ASSUME NEW status, NEW label, NEW stage, Stop(status, label, stage) \in Stops
  PROVE  Stop(status, label, stage) # Nothing /\ Stop(status, label, stage).status = status
BY EnginesAssumption DEF Stop

\* The fields a verdict depends on are what requests have.
LEMMA RequestFields ==
  ASSUME NEW r \in Requests
  PROVE  /\ r.declaration \in {"bound", "missing", "other version", "unbound"}
         /\ r.decision \in {"frozen", "missing", "altered", "other scope"}
         /\ r.post \in BOOLEAN
<1> DEFINE all(F) == {v \in [F -> UNION {FieldValues[f] : f \in F}] : \A f \in F : v[f] \in FieldValues[f]}
           with(k, F, v) == [f \in DOMAIN Plain |-> IF f = "kind" THEN k ELSE IF f \in F THEN v[f] ELSE Plain[f]]
           some(F) == UNION {{with(k, F, v) : v \in all(F)} : k \in FieldValues.kind}
           fields == {S \in SUBSET (DOMAIN Plain \ {"kind"}) : Cardinality(S) <= OddBound}
<1>1. Requests = UNION {some(F) : F \in fields}
  BY DEF Requests
<1>2. PICK F \in fields : r \in some(F)
  <2> HIDE DEF some, fields
  <2> QED BY <1>1
<1>3. PICK k \in FieldValues.kind, v \in all(F) : r = with(k, F, v)
  <2> HIDE DEF with, all
  <2> QED BY <1>2
<1>4. ASSUME NEW f \in DOMAIN Plain, f # "kind", Plain[f] \in FieldValues[f] PROVE r[f] \in FieldValues[f]
  <2>1. r[f] = IF f \in F THEN v[f] ELSE Plain[f]
    BY <1>3, <1>4
  <2>2. f \in F => v[f] \in FieldValues[f]
    BY <1>3
  <2> QED BY <2>1, <2>2, <1>4
<1>5. /\ {"declaration", "decision", "post"} \subseteq DOMAIN Plain
      /\ Plain.declaration \in FieldValues.declaration /\ Plain.decision \in FieldValues.decision
      /\ Plain.post \in FieldValues.post
  BY DEF Plain, FieldValues
<1>6. /\ r.declaration \in FieldValues.declaration /\ r.decision \in FieldValues.decision
      /\ r.post \in FieldValues.post
  <2> HIDE DEF with, all, some, fields
  <2> QED BY <1>4, <1>5
<1> QED BY <1>6 DEF FieldValues

\* What a stage says when it lets pass, and that it calls nothing bound.
LEMMA BindingStage ==
  ASSUME NEW r, NEW ok
  PROVE  /\ Binding(r, ok) = Nothing => r.declaration \notin {"missing", "other version", "unbound"}
         /\ Binding(r, ok) # Nothing => Binding(r, ok).status # "OK"
<1> DEFINE missing == Stop("NOT_RUN", "DECLARATION_MISSING", "binding")
           invalid == Stop("NOT_PROVEN", "DECLARATION_INVALID", "binding")
           notBound == Stop("NOT_PROVEN", "DECLARATION_NOT_BOUND", "binding")
<1>1. \A stop \in {missing, invalid, notBound} : stop # Nothing /\ stop.status # "OK"
  <2>1. missing \in Stops /\ invalid \in Stops /\ notBound \in Stops
    BY DEF Stop, Stops
  <2> QED BY <2>1, StopIsStop
<1>2. \/ Binding(r, ok) \in {missing, invalid, notBound}
      \/ Binding(r, ok) = Nothing /\ r.declaration \notin {"missing", "other version", "unbound"}
  BY DEF Binding
<1> HIDE DEF missing, invalid, notBound
<1> QED BY <1>1, <1>2

LEMMA ReferenceStage ==
  ASSUME NEW r
  PROVE  /\ Reference(r) = Nothing => r.reference # "other"
         /\ Reference(r) # Nothing => Reference(r).status # "OK"
<1>1. Stop("NOT_PROVEN", "BINDING_REFERENCE_MISMATCH", "reference") \in Stops
  BY DEF Stop, Stops
<1> QED BY <1>1, StopIsStop DEF Reference

LEMMA ScopeStage ==
  ASSUME NEW r, NEW same
  PROVE  /\ FrozenScope(r, same) = Nothing => same
         /\ FrozenScope(r, same) # Nothing => FrozenScope(r, same).status # "OK"
<1>1. /\ Stop("NOT_RUN", "DECISION_RECORD_MISSING", "scope") \in Stops
      /\ Stop("NOT_RUN", "DECISION_RECORD_INVALID", "scope") \in Stops
      /\ Stop("NOT_PROVEN", "SCOPE_MISMATCH", "scope") \in Stops
  BY DEF Stop, Stops
<1> QED BY <1>1, StopIsStop DEF FrozenScope

LEMMA AuthorityStage ==
  ASSUME NEW r
  PROVE  /\ ProbeStart(r) = Nothing => r.kind # "EOA"
         /\ (ProbeStart(r) # Nothing /\ ProbeStart(r).status = "OK") =>
              ProbeStart(r) = Bound /\ r.kind = "EOA" /\ r.signature = "signer"
<1>1. /\ Stop("NOT_PROVEN", "SIGNER_MISMATCH", "authority") \in Stops
      /\ Stop("NOT_PROVEN", "SIG_MALFORMED", "authority") \in Stops
      /\ Stop("NOT_RUN", "NO_PROVIDERS", "authority") \in Stops
      /\ Stop("NOT_RUN", "NO_AUTHORITY_STATE", "authority") \in Stops
      /\ Stop("OK", "BOUND", "none") \in Stops
  BY DEF Stop, Stops
<1> DEFINE noProviders == Stop("NOT_RUN", "NO_PROVIDERS", "authority")
           noState == Stop("NOT_RUN", "NO_AUTHORITY_STATE", "authority")
<1>2. \/ ProbeStart(r) = Recover(r) /\ r.kind = "EOA"
      \/ ProbeStart(r) \in {noProviders, noState}
      \/ ProbeStart(r) = Nothing /\ r.kind # "EOA"
  BY DEF ProbeStart, Authority
<1>3. /\ Recover(r) # Nothing
      /\ Recover(r).status = "OK" => Recover(r) = Bound /\ r.signature = "signer"
  BY <1>1, StopIsStop DEF Recover, Bound, Authority
<1>4. \A stop \in {noProviders, noState} : stop # Nothing /\ stop.status # "OK"
  BY <1>1, StopIsStop
<1> HIDE DEF noProviders, noState
<1> QED BY <1>2, <1>3, <1>4

\* All that is checked before the provider is asked.
StagesPassed(r) == r.declaration = "bound" /\ r.decision = "frozen" /\ r.reference # "other" /\ ~r.post

\* Four stages, whichever engine they are of: what passes all of them, or the
\* last one alone calls bound, was checked by each.
LEMMA StagesSound ==
  ASSUME NEW r \in Requests, NEW ok, NEW same, same => r.decision = "frozen",
         NEW probe, NEW x,
         x = FirstStop(<<Binding(r, ok), Reference(r), FrozenScope(r, same), probe>>)
  PROVE  /\ x = Nothing =>
              r.declaration = "bound" /\ r.decision = "frozen" /\ r.reference # "other" /\ probe = Nothing
         /\ (x # Nothing /\ x.status = "OK") =>
              r.declaration = "bound" /\ r.decision = "frozen" /\ r.reference # "other" /\ probe = x
<1>1. PICK b, f, s : b = Binding(r, ok) /\ f = Reference(r) /\ s = FrozenScope(r, same)
  OBVIOUS
<1>2. x = IF b # Nothing THEN b ELSE IF f # Nothing THEN f ELSE IF s # Nothing THEN s ELSE probe
  BY <1>1, FirstOfFour
<1>3. /\ b = Nothing => r.declaration = "bound"
      /\ b # Nothing => b.status # "OK"
  BY <1>1, BindingStage, RequestFields
<1>4. /\ f = Nothing => r.reference # "other"
      /\ f # Nothing => f.status # "OK"
  BY <1>1, ReferenceStage
<1>5. /\ s = Nothing => r.decision = "frozen"
      /\ s # Nothing => s.status # "OK"
  BY <1>1, ScopeStage
<1> QED BY <1>2, <1>3, <1>4, <1>5

LEMMA OutcomeSound ==
  ASSUME NEW e \in Engines, NEW r \in Requests
  PROVE  /\ Outcome(e, r) = Nothing => StagesPassed(r) /\ r.kind # "EOA"
         /\ (Outcome(e, r) # Nothing /\ Outcome(e, r).status = "OK") =>
              Outcome(e, r) = Bound /\ StagesPassed(r) /\ r.kind = "EOA" /\ r.signature = "signer"
<1>0. PICK x : x = CASE e = "A" -> VerifyBinding(r) [] e = "B" -> PipelineB(r) [] e = "C" -> PipelineC(r)
  OBVIOUS
<1>1. Outcome(e, r) = IF GuardSeam(r) # Nothing THEN GuardSeam(r) ELSE x
  <2>1. Outcome(e, r) = FirstStop(<<GuardSeam(r), x>>)
    BY <1>0 DEF Outcome
  <2> QED BY <2>1, FirstOfTwo
<1>2. r.post => GuardSeam(r) # Nothing /\ GuardSeam(r).status # "OK"
  <2>1. Stop("THROWN", "TypeError", "seam") \in Stops
    BY DEF Stop, Stops
  <2> QED BY <2>1, StopIsStop DEF GuardSeam
<1>3. ~r.post => GuardSeam(r) = Nothing
  BY DEF GuardSeam
<1> DEFINE Sound(probe) ==
      /\ x = Nothing =>
           r.declaration = "bound" /\ r.decision = "frozen" /\ r.reference # "other" /\ probe = Nothing
      /\ (x # Nothing /\ x.status = "OK") =>
           r.declaration = "bound" /\ r.decision = "frozen" /\ r.reference # "other" /\ probe = x
<1>4. CASE e = "A"
  <2>1. x = VerifyBinding(r)
    BY <1>0, <1>4
  <2>2. Sound(ProbeAuthorizationA(r))
    <3>1. PICK ok, same : /\ same => r.decision = "frozen"
                          /\ x = FirstStop(<<Binding(r, ok), Reference(r), FrozenScope(r, same), ProbeAuthorizationA(r)>>)
      BY <2>1 DEF VerifyBinding, BuildAuthorizationA, ScopeFromFrozenRecordA, ScopeOfIntentA
    <3> QED BY <3>1, StagesSound
  <2>3. r.evm \/ (ProbeAuthorizationA(r) # Nothing /\ ProbeAuthorizationA(r).status # "OK")
    <3>1. Stop("NOT_RUN", "EVM_ADAPTER_UNAVAILABLE", "authority") \in Stops
      BY DEF Stop, Stops
    <3> QED BY <3>1, StopIsStop DEF ProbeAuthorizationA, Authority
  <2>4. r.evm => ProbeAuthorizationA(r) = ProbeStart(r)
    BY DEF ProbeAuthorizationA
  <2> QED BY <1>1, <1>2, <1>3, <2>2, <2>3, <2>4, AuthorityStage DEF StagesPassed
<1>5. CASE e = "B"
  <2>1. x = PipelineB(r)
    BY <1>0, <1>5
  <2>2. Sound(ProbeStart(r))
    <3>1. PICK ok, same : /\ same => r.decision = "frozen"
                          /\ x = FirstStop(<<Binding(r, ok), Reference(r), FrozenScope(r, same), ProbeStart(r)>>)
      BY <2>1 DEF PipelineB, BuildAuthorizationB, ScopeFromFrozenRecordB, ScopeOfIntentB, ProbeAuthorityB
    <3> QED BY <3>1, StagesSound
  <2> QED BY <1>1, <1>2, <1>3, <2>2, AuthorityStage DEF StagesPassed
<1>6. CASE e = "C"
  <2>1. x = PipelineC(r)
    BY <1>0, <1>6
  <2>2. Sound(ProbeStart(r))
    <3>1. PICK ok, same : /\ same => r.decision = "frozen"
                          /\ x = FirstStop(<<Binding(r, ok), Reference(r), FrozenScope(r, same), ProbeStart(r)>>)
      BY <2>1 DEF PipelineC, BuildAuthorizationC, ScopeFromFrozenRecordC, ScopeOfIntentC, ProbeAuthorityC
    <3> QED BY <3>1, StagesSound
  <2> QED BY <1>1, <1>2, <1>3, <2>2, AuthorityStage DEF StagesPassed
<1> QED BY <1>4, <1>5, <1>6 DEF Engines

\* An engine that asks has found the rest in order, what it finds bound is
\* authorised, and a consensus that verified is of engines that are done.
AskingHasPassed ==
  \A e \in Engines : engine[e] \in {"getCode", "ethCall"} => StagesPassed(request) /\ request.kind # "EOA"
EnvelopesAreSound ==
  \A e \in Engines :
    /\ engine[e] = "idle" => envelope[e] = Nothing
    /\ engine[e] = "done" => envelope[e] # Nothing
    /\ (envelope[e] # Nothing /\ envelope[e].status = "OK") =>
          engine[e] = "done" /\ envelope[e] = Bound /\ Authorised
ConsensusIsSound ==
  (consensus # Nothing /\ consensus.combined = "VERIFIED") =>
     /\ consensus.paths \in SUBSET Engines /\ consensus.paths # {}
     /\ \A e \in consensus.paths : engine[e] = "done" /\ envelope[e] = Bound

EnginesInv ==
  /\ engine \in [Engines -> {"idle", "getCode", "ethCall", "done"}]
  /\ envelope = [e \in Engines |-> envelope[e]]
  /\ request = Nothing => \A e \in Engines : engine[e] = "idle"
  /\ request # Nothing => request \in Requests
  /\ AskingHasPassed /\ EnvelopesAreSound /\ ConsensusIsSound

LEMMA BoundIsOK == Bound # Nothing /\ Bound.status = "OK"
<1>1. Stop("OK", "BOUND", "none") \in Stops
  BY DEF Stop, Stops
<1> QED BY <1>1, StopIsStop DEF Bound

\* What an engine finds must be right: then nothing else is disturbed.
LEMMA ProceedSound ==
  ASSUME EnginesInv, NEW e \in Engines, engine[e] # "done", request # Nothing,
         NEW result, NEW next \in {"getCode", "ethCall", "done"}, Proceed(e, result, next),
         result = Nothing => next # "done" /\ StagesPassed(request) /\ request.kind # "EOA",
         (result # Nothing /\ result.status = "OK") => result = Bound /\ Authorised
  PROVE  EnginesInv'
<1> DEFINE to == IF result = Nothing THEN next ELSE "done"
<1>1. /\ engine' = [engine EXCEPT ![e] = to] /\ envelope' = [envelope EXCEPT ![e] = result]
      /\ UNCHANGED <<request, wallet, consensus>>
  BY DEF Proceed
<1>2. /\ to \in {"getCode", "ethCall", "done"}
      /\ to = "done" <=> result # Nothing
  OBVIOUS
<1> HIDE DEF to
<1>3. /\ engine' \in [Engines -> {"idle", "getCode", "ethCall", "done"}]
      /\ envelope' = [d \in Engines |-> envelope'[d]]
      /\ engine'[e] = to /\ envelope'[e] = result
      /\ \A d \in Engines \ {e} : engine'[d] = engine[d] /\ envelope'[d] = envelope[d]
  BY <1>1, <1>2 DEF EnginesInv
<1>4. Authorised' = Authorised /\ StagesPassed(request)' = StagesPassed(request)
  BY <1>1 DEF Authorised, StagesPassed
<1>5. AskingHasPassed'
  BY <1>1, <1>2, <1>3, <1>4 DEF EnginesInv, AskingHasPassed
<1>6. EnvelopesAreSound'
  BY <1>2, <1>3, <1>4 DEF EnginesInv, EnvelopesAreSound
<1>7. ConsensusIsSound'
  BY <1>1, <1>3 DEF EnginesInv, ConsensusIsSound
<1> QED BY <1>1, <1>3, <1>5, <1>6, <1>7 DEF EnginesInv

LEMMA RunSound == ASSUME EnginesInv, NEW e \in Engines, Run(e) PROVE EnginesInv'
<1>1. request \in Requests /\ request # Nothing /\ engine[e] # "done"
  BY DEF Run, EnginesInv
<1>2. PICK x : x = Outcome(e, request)
  OBVIOUS
<1>3. Proceed(e, x, "getCode")
  BY <1>2 DEF Run
<1>4. /\ x = Nothing => StagesPassed(request) /\ request.kind # "EOA"
      /\ (x # Nothing /\ x.status = "OK") => x = Bound /\ Authorised
  BY <1>1, <1>2, OutcomeSound DEF StagesPassed, Authorised
<1> QED BY <1>1, <1>3, <1>4, ProceedSound

LEMMA GetCodeSound == ASSUME EnginesInv, NEW e \in Engines, GetCode(e) PROVE EnginesInv'
<1>1. PICK answer : Proceed(e, CodeAnswer(answer), "ethCall")
  BY DEF GetCode
<1>2. PICK x : x = CodeAnswer(answer)
  OBVIOUS
<1>3. x # Nothing => x.status # "OK"
  <2>1. Authority("NOT_RUN", "CODE_LOOKUP_ERROR") \in Stops /\ Authority("NOT_PROVEN", "NO_CODE_AT_STATE") \in Stops
    BY DEF Stop, Stops, Authority
  <2> QED BY <1>2, <2>1, StopIsStop DEF CodeAnswer, Authority
<1>4. request # Nothing /\ engine[e] # "done" /\ StagesPassed(request) /\ request.kind # "EOA"
  BY DEF GetCode, EnginesInv, AskingHasPassed
<1> QED BY <1>1, <1>2, <1>3, <1>4, ProceedSound

LEMMA EthCallSound == ASSUME EnginesInv, NEW e \in Engines, EthCall(e) PROVE EnginesInv'
<1>1. PICK answer : /\ Proceed(e, ProcessEthCall(e, answer), "done")
                    /\ answer = "magic" => wallet.approves
  BY DEF EthCall
<1>2. PICK x : x = ProcessEthCall(e, answer)
  OBVIOUS
<1>3. x = EthCallAnswer(answer)
  BY <1>2 DEF ProcessEthCall, ProcessEthCallB, ProcessEthCallC, Engines
<1>4. x # Nothing /\ (x.status = "OK" => x = Bound /\ answer = "magic")
  <2> DEFINE others == {Authority("NOT_PROVEN", "NOT_MAGIC"), Authority("NOT_PROVEN", "REVERTED"),
                        Authority("NOT_RUN", "HISTORICAL_STATE_UNAVAILABLE"), Authority("NOT_RUN", "PROVIDER_ERROR")}
  <2>1. \/ x = Bound /\ answer = "magic"
        \/ x \in others
    BY <1>3 DEF EthCallAnswer
  <2>2. \A stop \in others : stop # Nothing /\ stop.status # "OK"
    <3>1. others \subseteq Stops
      BY DEF Stop, Stops, Authority
    <3> QED BY <3>1, StopIsStop DEF Authority
  <2> QED BY <2>1, <2>2, BoundIsOK
<1>5. request # Nothing /\ engine[e] # "done" /\ StagesPassed(request) /\ request.kind # "EOA"
  BY DEF EthCall, EnginesInv, AskingHasPassed
<1>6. x.status = "OK" => Authorised
  BY <1>1, <1>4, <1>5 DEF StagesPassed, Authorised
<1> QED BY <1>1, <1>2, <1>4, <1>5, <1>6, ProceedSound

LEMMA ConsensusSound ==
  ASSUME EnginesInv, NEW paths \in SUBSET Engines, RunConsensus(paths)
  PROVE  EnginesInv'
<1>1. PICK token \in [paths -> {"VERIFIED", "INVALID", "UNVERIFIED"}] :
        /\ \A e \in paths : token[e] \in Tokens(e)
        /\ consensus' = [paths |-> paths, combined |-> CombineConsensus(token)]
  BY DEF RunConsensus
<1>2. UNCHANGED <<request, wallet, engine, envelope>> /\ \A e \in paths : engine[e] = "done"
  BY DEF RunConsensus
<1>3. ASSUME NEW e \in paths, token[e] = "VERIFIED" PROVE envelope[e] = Bound
  <2>1. envelope[e].status = "OK"
    BY <1>1, <1>3 DEF Tokens
  <2> QED BY <1>2, <2>1 DEF EnginesInv, EnvelopesAreSound
<1>4. CombineConsensus(token) = "VERIFIED" => paths # {} /\ \A e \in paths : token[e] = "VERIFIED"
  BY <1>1 DEF CombineConsensus
<1>5. ConsensusIsSound'
  BY <1>1, <1>2, <1>3, <1>4 DEF ConsensusIsSound
<1>6. AskingHasPassed' /\ EnvelopesAreSound'
  BY <1>2 DEF EnginesInv, AskingHasPassed, EnvelopesAreSound, Authorised, StagesPassed
<1> QED BY <1>2, <1>5, <1>6 DEF EnginesInv

LEMMA AskSound ==
  ASSUME EnginesInv, request = Nothing, NEW r \in Requests, NEW c, NEW a, Ask(r, c, a)
  PROVE  EnginesInv'
<1>1. request' = r /\ UNCHANGED <<engine, envelope, consensus>>
  BY DEF Ask
<1>2. \A e \in Engines : engine[e] = "idle" /\ envelope[e] = Nothing
  BY DEF EnginesInv, EnvelopesAreSound
<1>3. AskingHasPassed' /\ EnvelopesAreSound' /\ ConsensusIsSound'
  BY <1>1, <1>2 DEF EnginesInv, AskingHasPassed, EnvelopesAreSound, ConsensusIsSound
<1> QED BY <1>1, <1>2, <1>3 DEF EnginesInv

\* The three engines and their consensus (verify-binding.js, the Rust and the
\* Python engine, runConsensus): whatever the requests and however the
\* provider answers or fails, who calls an intent bound is right.
THEOREM BoundHolds == EnginesSpec => []BoundIsAuthorised
<1>1. EnginesInit => EnginesInv
  BY DEF EnginesInit, EnginesInv, AskingHasPassed, EnvelopesAreSound, ConsensusIsSound
<1>2. EnginesInv /\ [EnginesNext]_engineVars => EnginesInv'
  <2>1. ASSUME EnginesInv, EnginesNext PROVE EnginesInv'
    BY <2>1, AskSound, RunSound, GetCodeSound, EthCallSound, ConsensusSound DEF EnginesNext
  <2>2. ASSUME EnginesInv, UNCHANGED engineVars PROVE EnginesInv'
    BY <2>2 DEF EnginesInv, engineVars, AskingHasPassed, EnvelopesAreSound, ConsensusIsSound, Authorised, StagesPassed
  <2> QED BY <2>1, <2>2
<1>3. EnginesInv => BoundIsAuthorised
  <2> SUFFICES ASSUME EnginesInv PROVE BoundIsAuthorised
    OBVIOUS
  <2>1. (consensus # Nothing /\ consensus.combined = "VERIFIED") => Authorised
    BY BoundIsOK DEF EnginesInv, ConsensusIsSound, EnvelopesAreSound
  <2> QED BY <2>1 DEF EnginesInv, EnvelopesAreSound, ConsensusIsSound, BoundIsAuthorised
<1> QED BY <1>1, <1>2, <1>3, PTL DEF EnginesSpec

-----------------------------------------------------------------------------
\* Execution evidence.  Once the binding is done nothing is read any more, so
\* what the verdict was computed from is what a reader of the attestation sees;
\* its reference is the hash of what the verdict was, however it is rewritten.

ReadOK ==
  /\ read = [chainId |-> read.chainId, tx |-> read.tx, receipt |-> read.receipt, block |-> read.block,
             trace |-> read.trace]
  /\ read.tx \in Transactions \cup {Unread} /\ read.trace \in BOOLEAN

\* While the chain has not switched, what was read is of its one fork.
OfOneFork ==
  /\ reorgs \in Nat
  /\ reorgs = 0 => /\ {read.receipt, read.block} \subseteq {fork, Unread}
                   /\ read.tx # Unread => read.tx.block \in {fork, Unread}

\* What a VERIFIED verdict was computed from.
Complete ==
  /\ {read.chainId, read.tx.shape.target, read.tx.shape.selector, read.tx.shape.from} = {"same"}
  /\ read.receipt # Unread /\ read.block # Unread
  /\ reorgs = 0 => read.receipt = read.block /\ read.tx.block \in {read.block, Unread}
  /\ verdict.checks["DECISION"] = "PASS" /\ verdict.checks["VALUE"] = "PASS"
  /\ wanted.level = "TRACE_LEVEL" => read.trace

BodyOf(v) == [status |-> v.status, checks |-> v.checks, evidence |-> v.items, path |-> v.path]

EvidenceInv ==
  /\ ReadOK /\ OfOneFork
  /\ (phase = "DONE" /\ verdict.status = "VERIFIED") => Complete
  /\ record # Unread => phase = "DONE" /\ record = [body |-> record.body, ref |-> BodyOf(verdict)]
  /\ judged = "INTACT" => record # Unread /\ record.body = record.ref

LEMMA ShapesAreCompared ==
  ASSUME NEW t \in Transactions
  PROVE  t.shape.target \in Comparisons /\ t.shape.selector \in Comparisons /\ t.shape.from \in Comparisons
BY DEF Transactions, Shapes

LEMMA AskedIsRead ==
  ASSUME EvidenceInv, ReadChainId \/ ReadTransaction \/ ReadReceipt \/ ReadBlock \/ ReadTrace
  PROVE  EvidenceInv'
<1>1. phase # "DONE" /\ phase' # "DONE" /\ UNCHANGED <<wanted, verdict, record, judged>>
  BY DEF ReadChainId, ReadTransaction, ReadReceipt, ReadBlock, ReadTrace, AskProvider
<1>2. ReadOK'
  <2>1. CASE ReadChainId
    BY <2>1 DEF ReadChainId, AskProvider, EvidenceInv, ReadOK
  <2>2. CASE ReadTransaction
    BY <2>2 DEF ReadTransaction, AskProvider, EvidenceInv, ReadOK
  <2>3. CASE ReadReceipt
    BY <2>3 DEF ReadReceipt, AskProvider, EvidenceInv, ReadOK
  <2>4. CASE ReadBlock
    BY <2>4 DEF ReadBlock, AskProvider, EvidenceInv, ReadOK
  <2>5. CASE ReadTrace
    <3>1. PICK frames \in BOOLEAN : AskProvider("TRACE", "trace", frames /\ read.tx # Unread /\ read.receipt # Unread, "BIND")
      BY <2>5 DEF ReadTrace
    <3>2. PICK answer \in BOOLEAN : answer = (frames /\ read.tx # Unread /\ read.receipt # Unread)
      OBVIOUS
    <3>3. read' = [read EXCEPT !["trace"] = answer]
      BY <3>1, <3>2 DEF AskProvider
    <3> QED BY <3>3 DEF EvidenceInv, ReadOK
  <2> QED BY <2>1, <2>2, <2>3, <2>4, <2>5
<1>3. record = Unread /\ judged # "INTACT"
  BY <1>1 DEF EvidenceInv
<1>4. OfOneFork'
  <2>1. UNCHANGED <<fork, reorgs>>
    BY DEF ReadChainId, ReadTransaction, ReadReceipt, ReadBlock, ReadTrace, AskProvider
  <2>2. CASE ReadChainId
    BY <2>1, <2>2 DEF ReadChainId, AskProvider, EvidenceInv, ReadOK, OfOneFork
  <2>3. CASE ReadTransaction
    <3>1. PICK answer \in {Unread} \cup {t \in Transactions : t.block \in {fork, Unread}} :
            read' = [read EXCEPT !["tx"] = answer]
      BY <2>3 DEF ReadTransaction, AskProvider
    <3> QED BY <2>1, <3>1 DEF EvidenceInv, ReadOK, OfOneFork
  <2>4. CASE ReadReceipt
    BY <2>1, <2>4 DEF ReadReceipt, AskProvider, EvidenceInv, ReadOK, OfOneFork
  <2>5. CASE ReadBlock
    BY <2>1, <2>5 DEF ReadBlock, AskProvider, EvidenceInv, ReadOK, OfOneFork
  <2>6. CASE ReadTrace
    <3>1. PICK frames : read' = [read EXCEPT !["trace"] = frames]
      BY <2>6 DEF ReadTrace, AskProvider
    <3> QED BY <2>1, <3>1 DEF EvidenceInv, ReadOK, OfOneFork
  <2> QED BY <2>2, <2>3, <2>4, <2>5, <2>6
<1> QED BY <1>1, <1>2, <1>3, <1>4 DEF EvidenceInv

\* A binding is VERIFIED only when each of the five checks passed.
LEMMA VerifiedPassed ==
  ASSUME NEW p, NEW d, BindingStatus(p, d) = "VERIFIED"
  PROVE  /\ ChainCheck = "PASS" /\ TargetSelectorCheck = "PASS" /\ CallerCheck = "PASS"
         /\ ValueCheck(p) = "PASS" /\ DecisionCheck(d) = "PASS" /\ ~ValueThrows(p)
<1>1. ~ValueThrows(p) /\ AggregateChecks(Checks(p, d)) = "VERIFIED"
  BY DEF BindingStatus
<1>2. PICK checks : checks = Checks(p, d)
  OBVIOUS
<1>3. checks = [c \in CheckNames |->
                CASE c = "CHAIN"           -> ChainCheck
                  [] c = "TARGET_SELECTOR" -> TargetSelectorCheck
                  [] c = "VALUE"           -> ValueCheck(p)
                  [] c = "CALLER"          -> CallerCheck
                  [] c = "DECISION"        -> DecisionCheck(d)]
  BY <1>1, <1>2 DEF Checks
<1>4. /\ {ChainCheck, TargetSelectorCheck, ValueCheck(p), CallerCheck, DecisionCheck(d)}
           \subseteq {checks[c] : c \in DOMAIN checks}
  BY <1>3 DEF CheckNames
<1>5. {"FAIL", "NOT_PROVEN", "NOT_RUN"} \cap {checks[c] : c \in DOMAIN checks} = {}
  BY <1>1, <1>2 DEF AggregateChecks, ResultsOf
<1>6. /\ ChainCheck \in {"PASS", "NOT_PROVEN", "NOT_RUN"} /\ TargetSelectorCheck \in {"PASS", "NOT_PROVEN", "NOT_RUN"}
      /\ ValueCheck(p) \in {"PASS", "NOT_PROVEN", "NOT_RUN"} /\ CallerCheck \in {"PASS", "NOT_PROVEN", "NOT_RUN"}
      /\ DecisionCheck(d) \in {"PASS", "FAIL", "NOT_RUN"}
  BY DEF ChainCheck, TargetSelectorCheck, ValueCheck, CallerCheck, DecisionCheck
<1> QED BY <1>1, <1>4, <1>5, <1>6

LEMMA VerdictSound ==
  ASSUME EvidenceInv, NEW p, NEW d, VerifyEvidence(p, d)
  PROVE  EvidenceInv'
<1>1. /\ verdict'.status = StatusOf(p, d)
      /\ verdict'.checks = IF NoTrace THEN <<>> ELSE Checks(p, d)
      /\ UNCHANGED <<read, wanted, record, judged>> /\ phase = "BIND" /\ phase' = "DONE"
  BY DEF VerifyEvidence
<1>2. record = Unread /\ judged # "INTACT"
  BY <1>1 DEF EvidenceInv
<1>3. ASSUME StatusOf(p, d) = "VERIFIED" PROVE Complete'
  <2>1. ~NoTrace /\ MissingRequired = {} /\ BindingStatus(p, d) = "VERIFIED"
    BY <1>3 DEF StatusOf
  <2>2. read.chainId # Unread /\ read.block # Unread /\ read.tx # Unread /\ read.receipt # Unread
    BY <2>1 DEF MissingRequired, RequiredKinds
  <2>3. /\ ChainCheck = "PASS" /\ TargetSelectorCheck = "PASS" /\ CallerCheck = "PASS"
        /\ ValueCheck(p) = "PASS" /\ DecisionCheck(d) = "PASS" /\ ~ValueThrows(p)
    BY <2>1, VerifiedPassed
  <2>4. /\ read.tx.shape.target \in Comparisons /\ read.tx.shape.selector \in Comparisons
    BY <2>2, ShapesAreCompared DEF EvidenceInv, ReadOK
  <2>5. read.tx.shape.target = "same" /\ read.tx.shape.selector = "same"
    BY <2>3, <2>4 DEF TargetSelectorCheck, Comparisons
  <2>6. read.chainId = "same" /\ read.tx.shape.from = "same"
    BY <2>3 DEF ChainCheck, CallerCheck
  <2>7. verdict'.checks["DECISION"] = "PASS" /\ verdict'.checks["VALUE"] = "PASS"
    <3>1. verdict'.checks = [c \in CheckNames |->
                CASE c = "CHAIN"           -> ChainCheck
                  [] c = "TARGET_SELECTOR" -> TargetSelectorCheck
                  [] c = "VALUE"           -> ValueCheck(p)
                  [] c = "CALLER"          -> CallerCheck
                  [] c = "DECISION"        -> DecisionCheck(d)]
      BY <1>1, <2>1, <2>3 DEF Checks
    <3> QED BY <3>1, <2>3 DEF CheckNames
  <2>8. wanted.level = "TRACE_LEVEL" => read.trace
    BY <2>1 DEF NoTrace
  <2>9. reorgs = 0 => read.receipt = read.block /\ read.tx.block \in {read.block, Unread}
    BY <2>2 DEF EvidenceInv, OfOneFork
  <2>10. UNCHANGED <<fork, reorgs>>
    BY DEF VerifyEvidence
  <2> QED BY <1>1, <2>2, <2>5, <2>6, <2>7, <2>8, <2>9, <2>10 DEF Complete
<1>4. ReadOK' /\ OfOneFork'
  <2>1. UNCHANGED <<fork, reorgs>>
    BY DEF VerifyEvidence
  <2> QED BY <1>1, <2>1 DEF EvidenceInv, ReadOK, OfOneFork
<1> QED BY <1>1, <1>2, <1>3, <1>4 DEF EvidenceInv

\* What travels is the record; the verdict stays what it was.
LEMMA RecordSound ==
  ASSUME EvidenceInv, NEW status,
         BuildExecutionAttestation \/ Rewrite(status) \/ VerifyExecutionAttestation
  PROVE  EvidenceInv'
<1>1. UNCHANGED <<fork, reorgs, wanted, phase, read, verdict>>
  BY DEF BuildExecutionAttestation, Rewrite, VerifyExecutionAttestation
<1>2. /\ ReadOK' /\ OfOneFork'
      /\ (phase = "DONE" /\ verdict.status = "VERIFIED")' => Complete'
  BY <1>1 DEF EvidenceInv, ReadOK, OfOneFork, Complete
<1>3. CASE BuildExecutionAttestation
  <2>1. record' = [body |-> BodyOf(verdict), ref |-> BodyOf(verdict)] /\ phase = "DONE" /\ judged' = judged
    BY <1>3 DEF BuildExecutionAttestation, BodyOf
  <2>2. judged # "INTACT"
    BY <1>3 DEF BuildExecutionAttestation, EvidenceInv
  <2>3. BodyOf(verdict)' = BodyOf(verdict)
    BY <1>1 DEF BodyOf
  <2> QED BY <1>1, <1>2, <2>1, <2>2, <2>3 DEF EvidenceInv
<1>4. CASE Rewrite(status)
  <2>1. record # Unread /\ judged = Unread /\ judged' = judged
    BY <1>4 DEF Rewrite
  <2>2. PICK body : record' = [record EXCEPT !.body = body]
    BY <1>4 DEF Rewrite
  <2>3. record' = [body |-> record'.body, ref |-> BodyOf(verdict)] /\ phase = "DONE"
    BY <2>1, <2>2 DEF EvidenceInv
  <2>4. judged # "INTACT"
    BY <2>1, EvidenceAssumption
  <2>5. BodyOf(verdict)' = BodyOf(verdict)
    BY <1>1 DEF BodyOf
  <2> QED BY <1>1, <1>2, <2>1, <2>3, <2>4, <2>5 DEF EvidenceInv
<1>5. CASE VerifyExecutionAttestation
  <2>1. record' = record /\ record # Unread /\ (judged' = "INTACT" => record.body = record.ref)
    BY <1>5 DEF VerifyExecutionAttestation, Recomputes
  <2>2. BodyOf(verdict)' = BodyOf(verdict)
    BY <1>1 DEF BodyOf
  <2> QED BY <1>1, <1>2, <2>1, <2>2 DEF EvidenceInv
<1> QED BY <1>3, <1>4, <1>5

\* What an attestation is worth to its reader (packages/execution: the reads,
\* the binding, buildExecutionAttestation, verifyExecutionAttestation): for any
\* number of forks and switches between the reads, an intact VERIFIED one is of
\* a transaction that was read and matched in every respect, and without a
\* switch all that was read is of one fork.
THEOREM AttestationHolds == EvidenceSpec => []IntactVerifiedIsComplete
<1>1. EvidenceInit => EvidenceInv
  BY EvidenceAssumption DEF EvidenceInit, EvidenceInv, ReadOK, OfOneFork, NothingRead
<1>2. EvidenceInv /\ [EvidenceNext]_evidenceVars => EvidenceInv'
  <2>1. ASSUME EvidenceInv, Reorg PROVE EvidenceInv'
    <3>1. phase # "DONE" /\ phase' = phase /\ UNCHANGED <<wanted, read, verdict, record, judged>>
      BY <2>1 DEF Reorg
    <3>2. OfOneFork'
      BY <2>1 DEF Reorg, EvidenceInv, OfOneFork
    <3>3. ReadOK'
      BY <2>1, <3>1 DEF EvidenceInv, ReadOK
    <3> QED BY <2>1, <3>1, <3>2, <3>3 DEF EvidenceInv, BodyOf
  <2>2. ASSUME EvidenceInv, NEW p, NEW l, Request(p, l) PROVE EvidenceInv'
    <3>1. phase = "REQUEST" /\ phase' = "CHAIN_ID" /\ UNCHANGED <<fork, reorgs, read, record, judged>>
      BY <2>2 DEF Request
    <3>2. ReadOK' /\ OfOneFork'
      BY <2>2, <3>1 DEF EvidenceInv, ReadOK, OfOneFork
    <3> QED BY <2>2, <3>1, <3>2 DEF EvidenceInv
  <2>3. ASSUME EvidenceInv, EvidenceNext PROVE EvidenceInv'
    BY <2>1, <2>2, <2>3, AskedIsRead, VerdictSound, RecordSound DEF EvidenceNext
  <2>4. ASSUME EvidenceInv, UNCHANGED evidenceVars PROVE EvidenceInv'
    BY <2>4 DEF EvidenceInv, evidenceVars, ReadOK, OfOneFork, Complete, BodyOf
  <2> QED BY <2>3, <2>4
<1>3. EvidenceInv => IntactVerifiedIsComplete
  <2> SUFFICES ASSUME EvidenceInv, judged = "INTACT", record.body.status = "VERIFIED" PROVE Complete
    BY DEF IntactVerifiedIsComplete, Complete
  <2>1. phase = "DONE" /\ record.body = BodyOf(verdict)
    BY DEF EvidenceInv
  <2>2. verdict.status = "VERIFIED"
    BY <2>1 DEF BodyOf
  <2> QED BY <2>1, <2>2 DEF EvidenceInv
<1> QED BY <1>1, <1>2, <1>3, PTL DEF EvidenceSpec

-----------------------------------------------------------------------------
\* Provenance.  A verdict is a function of the manifest, so what it grounds is
\* settled record by record: of any record with the fields of a manifest, and
\* then of the one verdict there is.

DelegationLinks == Links("a1", "a2") \cup Links("a2", "a3")
ManifestOK(m) ==
  /\ DOMAIN m = DOMAIN PlainManifest
  /\ m.chain \in Seq(DelegationLinks)
  /\ m.attestations \in Seq(Attested)
  /\ m.identity \in [Fields -> {"value", "null", "absent", "malformed"}]
  /\ m.block \in Nat /\ m.revocation \in Nat
  /\ m.code \in {"present", "empty", "throws"}

LEMMA LinkFields ==
  ASSUME NEW l \in DelegationLinks PROVE l.after \in Nat /\ l.until \in Nat /\ l.revokedAt \in Nat
<1>1. PICK a, g : l \in AllBut(Link(a, g), OddLink, OddLinks)
  BY DEF DelegationLinks, Links
<1> DEFINE plain == Link(a, g)
<1>2. plain = [f \in DOMAIN plain |-> plain[f]]
  BY DEF Link
<1>3. \A f \in DOMAIN plain : l[f] = plain[f] \/ (f \in DOMAIN OddLink /\ l[f] \in OddLink[f])
  BY <1>1, <1>2, VariantFields
<1>4. l["after"] = 0 \/ l["after"] \in {2}
  BY <1>3 DEF Link, OddLink
<1>5. l["until"] = 0 \/ l["until"] \in {1, 2}
  BY <1>3 DEF Link, OddLink
<1>6. l["revokedAt"] = NoBlock \/ l["revokedAt"] \in {1, 2}
  BY <1>3 DEF Link, OddLink
<1> QED BY <1>4, <1>5, <1>6 DEF NoBlock

LEMMA AttestationFields ==
  ASSUME NEW a \in Attested PROVE a.issued \in Nat /\ a.until \in Nat /\ a.claims \in {"these", "others"}
<1>1. CASE a \in AllBut(PlainAttestation, OddAttestation, OddLinks)
  <2>1. PlainAttestation = [f \in DOMAIN PlainAttestation |-> PlainAttestation[f]]
    BY DEF PlainAttestation
  <2>2. \A f \in DOMAIN PlainAttestation :
          a[f] = PlainAttestation[f] \/ (f \in DOMAIN OddAttestation /\ a[f] \in OddAttestation[f])
    BY <1>1, <2>1, VariantFields
  <2>3. a["issued"] = 0 \/ a["issued"] \in {2}
    BY <2>2 DEF PlainAttestation, OddAttestation
  <2>4. a["until"] = 2 \/ a["until"] \in {0}
    BY <2>2 DEF PlainAttestation, OddAttestation
  <2>5. a["claims"] = "these" \/ a["claims"] \in {"others"}
    BY <2>2 DEF PlainAttestation, OddAttestation
  <2> QED BY <2>3, <2>4, <2>5
<1>2. CASE a = FirstForm \/ a = [FirstForm EXCEPT !.until = 0]
  <2>1. /\ DOMAIN FirstForm = DOMAIN PlainAttestation
        /\ \A f \in DOMAIN PlainAttestation \ {"version", "signed"} : FirstForm[f] = PlainAttestation[f]
    BY DEF FirstForm, PlainAttestation
  <2>2. FirstForm.issued = 0 /\ FirstForm.until = 2 /\ FirstForm.claims = "these"
    BY <2>1 DEF PlainAttestation
  <2>3. "until" \in DOMAIN FirstForm /\ "issued" \in DOMAIN FirstForm /\ "claims" \in DOMAIN FirstForm
    BY <2>1 DEF PlainAttestation
  <2>4. a.issued = 0 /\ a.until \in {0, 2} /\ a.claims = "these"
    BY <1>2, <2>2, <2>3
  <2> QED BY <2>4
<1> QED BY <1>1, <1>2 DEF Attested

LEMMA ShortSeqs ==
  ASSUME NEW S PROVE <<>> \in Seq(S) /\ \A x, y \in S : <<x>> \in Seq(S) /\ <<x, y>> \in Seq(S)
OBVIOUS

LEMMA ChainsAreSeqs == ASSUME NEW c \in Chains PROVE c \in Seq(DelegationLinks)
<1>1. CASE c \in {<<l>> : l \in Links("a1", "a2")}
  <2>1. PICK l \in DelegationLinks : c = <<l>>
    BY <1>1 DEF DelegationLinks
  <2> QED BY <2>1, ShortSeqs
<1>2. CASE c \in Links("a1", "a2") \X Links("a2", "a3")
  <2>1. PICK l \in DelegationLinks, m \in DelegationLinks : c = <<l, m>>
    BY <1>2 DEF DelegationLinks
  <2> QED BY <2>1, ShortSeqs
<1>3. CASE c \in {<<>>}
  BY <1>3, ShortSeqs
<1> QED BY <1>1, <1>2, <1>3 DEF Chains

LEMMA AttestationsAreSeqs == ASSUME NEW c \in Attestations PROVE c \in Seq(Attested)
<1>1. PlainAttestation \in Attested /\ FirstForm \in Attested
  BY DEF Attested, AllBut
<1>2. CASE c \in {<<a>> : a \in Attested}
  <2>1. PICK a \in Attested : c = <<a>>
    BY <1>2
  <2> QED BY <2>1, ShortSeqs
<1>3. CASE c \in {<<PlainAttestation, a>> : a \in Attested} \cup {<<a, FirstForm>> : a \in Attested}
  <2>1. PICK a \in Attested, b \in Attested : c = <<a, b>>
    BY <1>1, <1>3
  <2> QED BY <2>1, ShortSeqs
<1> QED BY <1>2, <1>3, ShortSeqs DEF Attestations

LEMMA ManifestsOK == ASSUME NEW m \in Manifests PROVE ManifestOK(m)
<1>1. PICK plain \in {PlainManifest, [PlainManifest EXCEPT !.binding = "EIP1271"]},
         some \in SUBSET DOMAIN OddManifest :
           m \in AllBut(plain, [f \in some |-> OddManifest[f]], OddFacts)
  <2>1. CASE m \in AllBut(PlainManifest, [f \in DOMAIN OddManifest \ ContractOnly |-> OddManifest[f]], OddFacts)
    BY <2>1
  <2>2. CASE m \in AllBut([PlainManifest EXCEPT !.binding = "EIP1271"],
                          [f \in DOMAIN OddManifest \ AccountOnly |-> OddManifest[f]], OddFacts)
    BY <2>2
  <2> QED BY <2>1, <2>2 DEF Manifests
<1>2. /\ DOMAIN plain = DOMAIN PlainManifest
      /\ plain = [f \in DOMAIN plain |-> plain[f]]
      /\ \A f \in DOMAIN plain \ {"binding"} : plain[f] = PlainManifest[f]
  BY DEF PlainManifest
<1>3. /\ DOMAIN m = DOMAIN PlainManifest
      /\ \A f \in DOMAIN plain : m[f] = plain[f] \/ (f \in some /\ m[f] \in OddManifest[f])
  BY <1>1, <1>2, VariantFields
<1>4. \A f \in DOMAIN PlainManifest \ {"binding"} :
         m[f] = PlainManifest[f] \/ (f \in DOMAIN OddManifest /\ m[f] \in OddManifest[f])
  BY <1>1, <1>2, <1>3
<1>5. m["chain"] = <<>> \/ m["chain"] \in Chains
  BY <1>4 DEF PlainManifest, OddManifest
<1>6. m["attestations"] = <<>> \/ m["attestations"] \in Attestations
  BY <1>4 DEF PlainManifest, OddManifest
<1>7. m["identity"] = [f \in Fields |-> "value"] \/ m["identity"] \in [Fields -> {"value", "null", "absent", "malformed"}]
  BY <1>4 DEF PlainManifest, OddManifest
<1>8. m["block"] = 1 \/ m["block"] \in {2, NoBlock}
  BY <1>4 DEF PlainManifest, OddManifest
<1>9. m["revocation"] = 0 \/ m["revocation"] \in 1..3
  BY <1>4 DEF PlainManifest, OddManifest
<1>10. m["code"] = "present" \/ m["code"] \in {"empty", "throws"}
  BY <1>4 DEF PlainManifest, OddManifest
<1>11. m.chain \in Seq(DelegationLinks)
  <2>1. m.chain \in Chains
    BY <1>5 DEF Chains
  <2> QED BY <2>1, ChainsAreSeqs
<1>12. m.attestations \in Seq(Attested)
  <2>1. m.attestations \in Attestations
    BY <1>6 DEF Attestations
  <2> QED BY <2>1, AttestationsAreSeqs
<1> QED BY <1>3, <1>7, <1>8, <1>9, <1>10, <1>11, <1>12 DEF ManifestOK, NoBlock

\* A delegation that verifies begins at the declared account and breaks nowhere.
LEMMA DelegationReaches ==
  ASSUME NEW k, ManifestOK(k), Delegation(k) = "OK", Last(k.chain).grantedTo = k.from
  PROVE  Reaches(k)
<1> DEFINE c == k.chain
           n == Len(c)
<1>1. c \in Seq(DelegationLinks) /\ c # <<>> /\ VerifyDelegationChain(k) = "OK"
  BY DEF Delegation, ManifestOK
<1>2. n \in Nat \ {0} /\ DOMAIN c = 1..n /\ Last(c) = c[n] /\ Head(c) = c[1]
  BY <1>1 DEF Last
<1>3. /\ Head(c).authority = Declared
      /\ \A i \in DOMAIN c :
           /\ VerifyDelegationLinkSignature(c[i], k.adapter) = "OK" /\ OpenAt(c[i], k.block)
           /\ i > 1 => c[i - 1].grantedTo = c[i].authority
  BY <1>1 DEF VerifyDelegationChain
<1>4. ASSUME NEW i \in 1..n
      PROVE  LET l == c[i] IN
             /\ l.signedBy = l.authority
             /\ i < n => l.grantedTo = c[i + 1].authority
             /\ k.block # NoBlock => l.after <= k.block /\ l.revokedAt > k.block /\ (l.until = 0 \/ k.block <= l.until)
  <2>1. c[i] \in DelegationLinks
    BY <1>1, <1>2
  <2>2. c[i].after \in Nat /\ c[i].until \in Nat /\ c[i].revokedAt \in Nat
    BY <2>1, LinkFields
  <2>3. c[i].signedBy = c[i].authority
    BY <1>2, <1>3 DEF VerifyDelegationLinkSignature
  <2>4. ASSUME i < n PROVE c[i].grantedTo = c[i + 1].authority
    <3>1. i + 1 \in DOMAIN c /\ i + 1 > 1 /\ (i + 1) - 1 = i
      BY <2>4, <1>2
    <3> QED BY <3>1, <1>3
  <2>5. ASSUME k.block # NoBlock
        PROVE  c[i].after <= k.block /\ c[i].revokedAt > k.block /\ (c[i].until = 0 \/ k.block <= c[i].until)
    <3>1. OpenAt(c[i], k.block) /\ k.block \in Nat
      BY <1>2, <1>3 DEF ManifestOK
    <3> QED BY <3>1, <2>2, <2>5 DEF OpenAt
  <2> QED BY <2>3, <2>4, <2>5
<1>5. n \in 1..Len(k.chain) /\ k.chain[n].grantedTo = k.from /\ k.chain[1].authority = Declared
  BY <1>2, <1>3
<1> QED BY <1>4, <1>5 DEF Reaches

\* What a summary other than FAIL_CLOSED rests on.
BoundIn(k) ==
  /\ k.schema = "valid" /\ k.id = "matches"
  /\ k.binding = "EOA" => k.recovered = k.signer /\ (k.kind = "STAMP" => k.from = Declared \/ Reaches(k))
  /\ k.binding = "EIP1271" =>
       /\ k.code = "present" /\ k.answer = "magic" /\ k.block # NoBlock
       /\ k.rule = "TRACE_CALLER" => k.path[1][1] = k.from /\ \E i \in DOMAIN k.path : k.path[i][1] = Declared

LEMMA ProvenIsBoundIn ==
  ASSUME NEW k, ManifestOK(k), Proven(VerifyProvenance(k)) PROVE BoundIn(k)
<1>1. k.schema = "valid"
  BY DEF VerifyProvenance, ValidateManifest, Proven
<1>2. Summary(k) # "FAIL_CLOSED"
  BY <1>1 DEF VerifyProvenance, ValidateManifest, Proven
<1>3. /\ "NOT_PROVEN" \notin {ManifestSignature(k), EvaluateContractAuthorization(k),
                              EvaluateContractExecutionBinding(k), DeclarerBinding(k), Commitment(k)}
      /\ "NOT_RUN" \notin {ManifestSignature(k), EvaluateContractAuthorization(k), DeclarerBinding(k), Delegation(k)}
  BY <1>2 DEF Summary
<1>4. k.id = "matches"
  BY <1>3 DEF Commitment
<1>5. ASSUME k.binding = "EOA"
      PROVE  k.recovered = k.signer /\ (k.kind = "STAMP" => k.from = Declared \/ Reaches(k))
  <2>1. ~OnContract(k)
    BY <1>5 DEF OnContract
  <2>2. k.recovered = k.signer
    BY <1>3, <2>1 DEF ManifestSignature
  <2>3. ASSUME k.kind = "STAMP" PROVE k.from = Declared \/ Reaches(k)
    <3>1. Declared = k.from \/ (Delegation(k) = "OK" /\ Last(k.chain).grantedTo = k.from)
      BY <1>3, <2>1, <2>3 DEF DeclarerBinding
    <3> QED BY <3>1, DelegationReaches
  <2> QED BY <2>2, <2>3
<1>6. ASSUME k.binding = "EIP1271"
      PROVE  /\ k.code = "present" /\ k.answer = "magic" /\ k.block # NoBlock
             /\ k.rule = "TRACE_CALLER" => k.path[1][1] = k.from /\ \E i \in DOMAIN k.path : k.path[i][1] = Declared
  <2>1. OnContract(k)
    BY <1>6 DEF OnContract
  <2>2. k.code = "present" /\ k.answer = "magic" /\ k.block # NoBlock
    BY <1>3, <2>1 DEF EvaluateContractAuthorization, ManifestOK
  <2>3. ASSUME k.rule = "TRACE_CALLER"
        PROVE  k.path[1][1] = k.from /\ \E i \in DOMAIN k.path : k.path[i][1] = Declared
    BY <1>3, <2>1, <2>3 DEF EvaluateContractExecutionBinding
  <2> QED BY <2>2, <2>3
<1> QED BY <1>1, <1>4, <1>5, <1>6 DEF BoundIn

\* What a claim that is repeated as declared rests on.
ClaimedIn(k, v, f) ==
  /\ v.signature = "OK" /\ v.declarer = "OK" /\ k.identity[f] = "value"
  /\ \A i \in Covering(k) : LET a == k.attestations[i] IN
       /\ a.subject = Declared /\ a.signed = a.version
       /\ a.trusted /\ k.block # NoBlock => a.issued <= k.block /\ k.block <= a.until /\ k.revocation # i
       /\ a.trusted /\ a.version = "v2" => a.claims = "these"

LEMMA DeclaredIsClaimedIn ==
  ASSUME NEW k, ManifestOK(k), NEW f \in Fields, VerifyProvenance(k).claims[f] = "DECLARED"
  PROVE  ClaimedIn(k, VerifyProvenance(k), f)
<1> DEFINE value == ValidateIdentity(k)[f]
           outcomes == {AttestationOutcome(k, i) : i \in Covering(k)}
<1>1. ValidateManifest(k) = "valid"
  BY DEF VerifyProvenance, Unstated
<1>2. /\ VerifyProvenance(k).signature = ManifestSignature(k) /\ VerifyProvenance(k).declarer = DeclarerBinding(k)
      /\ Claim(k, f) = "DECLARED"
  <2>1. /\ VerifyProvenance(k).signature = ManifestSignature(k) /\ VerifyProvenance(k).declarer = DeclarerBinding(k)
        /\ VerifyProvenance(k).claims = IF Commitment(k) = "OK" THEN ResolveIdentityClaims(k)
                                        ELSE [g \in Fields |-> Unstated]
    BY <1>1 DEF VerifyProvenance
  <2>2. CASE Commitment(k) = "OK"
    BY <2>1, <2>2 DEF ResolveIdentityClaims
  <2>3. CASE Commitment(k) # "OK"
    BY <2>1, <2>3 DEF Unstated
  <2> QED BY <2>1, <2>2, <2>3
<1>3. /\ value # "malformed" /\ value # "absent"
      /\ value # "null" => ManifestSignature(k) = "OK" /\ DeclarerBinding(k) = "OK"
      /\ outcomes = {} => value # "null"
      /\ outcomes # {} => ApplyOutcomesToField(outcomes, value) = "DECLARED"
  BY <1>2 DEF Claim
<1>4. outcomes # {} => value # "null" /\ outcomes \cap {"INPUT_ERROR", "NOT_PROVEN", "NULL_CLAIM_FORBIDDEN"} = {}
  BY <1>3 DEF ApplyOutcomesToField
<1>5. value # "null" /\ k.identity[f] = "value"
  <2>1. value # "null"
    BY <1>3, <1>4
  <2>2. value = k.identity[f]
    BY <1>3 DEF ValidateIdentity
  <2> QED BY <1>3, <2>1, <2>2 DEF ManifestOK
<1>6. ASSUME NEW i \in Covering(k)
      PROVE  LET a == k.attestations[i] IN
             /\ a.subject = Declared /\ a.signed = a.version
             /\ a.trusted /\ k.block # NoBlock => a.issued <= k.block /\ k.block <= a.until /\ k.revocation # i
             /\ a.trusted /\ a.version = "v2" => a.claims = "these"
  <2> DEFINE a == k.attestations[i]
  <2>1. AttestationOutcome(k, i) \notin {"INPUT_ERROR", "NOT_PROVEN", "NULL_CLAIM_FORBIDDEN"}
    BY <1>4
  <2>2. i \in DOMAIN k.attestations /\ a \in Attested /\ i \in Nat \ {0}
    BY DEF Covering, ManifestOK
  <2>3. a.issued \in Nat /\ a.until \in Nat /\ a.claims \in {"these", "others"} /\ k.block \in Nat
    BY <2>2, AttestationFields DEF ManifestOK
  <2>4. a.subject = Declared /\ a.signed = a.version
    BY <2>1 DEF AttestationOutcome
  <2>5. ASSUME a.trusted
        PROVE  /\ k.block # NoBlock => ~(k.block < a.issued \/ k.block > a.until)
               /\ ~RevocationStatus(k, i)
               /\ a.version = "v2" => a.claims # "others"
    BY <2>1, <2>5 DEF AttestationOutcome
  <2>6. ASSUME a.trusted PROVE k.revocation # i
    BY <2>2, <2>5, <2>6 DEF RevocationStatus
  <2> QED BY <2>3, <2>4, <2>5, <2>6
<1> QED BY <1>2, <1>3, <1>5, <1>6 DEF ClaimedIn

\* The exit code is 0 of what is proven, and of nothing else.
LEMMA ExitCodeIsTheVerdict ==
  ASSUME NEW k PROVE ExitCodeForProvenance(k, VerifyProvenance(k)) = 0 <=> Proven(VerifyProvenance(k))
<1> DEFINE v == VerifyProvenance(k)
<1> SUFFICES ExitCodeForProvenance(k, v) = 0 <=> Proven(v)
  OBVIOUS
<1>1. CASE ValidateManifest(k) # "valid"
  <2>1. ~Proven(v)
    BY <1>1 DEF VerifyProvenance, Proven
  <2> QED BY <2>1 DEF ExitCodeForProvenance
<1>2. CASE ValidateManifest(k) = "valid"
  <2>1. /\ v.summary = Summary(k) /\ v.signature = ManifestSignature(k) /\ v.approval = EvaluateContractAuthorization(k)
        /\ v.acted = EvaluateContractExecutionBinding(k) /\ v.declarer = DeclarerBinding(k) /\ v.delegation = Delegation(k)
    BY <1>2 DEF VerifyProvenance
  <2>2. ASSUME Summary(k) # "FAIL_CLOSED"
        PROVE  /\ "NOT_RUN" \notin {v.signature, v.approval, v.declarer, v.delegation}
               /\ "NOT_PROVEN" \notin {v.signature, v.approval, v.acted} /\ k.id = "matches"
    BY <2>1, <2>2 DEF Summary, Commitment
  <2>3. k.schema = "valid"
    BY <1>2 DEF ValidateManifest
  <2> HIDE DEF v
  <2> QED BY <2>1, <2>2, <2>3 DEF ExitCodeForProvenance, Proven
<1> QED BY <1>1, <1>2

\* What the state holds: nothing yet, or one manifest with the verdict on it as
\* it is, or as the command line sees it.
Asked(m) == [m EXCEPT !.providers = "none"]
ProvenanceInv ==
  \/ manifest = {} /\ verified = {} /\ shown = {}
  \/ \E m \in Manifests :
       /\ manifest = {m}
       /\ \/ verified = {VerifyProvenance(m)} /\ shown = {}
          \/ /\ verified = {VerifyProvenance(Asked(m))}
             /\ \A s \in shown : s.exit = ExitCodeForProvenance(Asked(m), VerifyProvenance(Asked(m)))

LEMMA ProvenanceInvStep == ASSUME ProvenanceInv, [ProvenanceNext]_provenanceVars PROVE ProvenanceInv'
<1>1. ASSUME manifest = {}, NEW m \in Manifests, Verify(m) PROVE ProvenanceInv'
  BY <1>1 DEF Verify, ProvenanceInv
<1>2. ASSUME NEW m \in manifest, RunVerifyProvenanceCli(m) PROVE ProvenanceInv'
  <2>1. m \in Manifests
    BY DEF ProvenanceInv
  <2>2. /\ manifest' = {m} /\ verified' = {VerifyProvenance(Asked(m))}
        /\ \A s \in shown' : s.exit = ExitCodeForProvenance(Asked(m), VerifyProvenance(Asked(m)))
    BY <1>2 DEF RunVerifyProvenanceCli, Asked
  <2> QED BY <2>1, <2>2 DEF ProvenanceInv
<1>3. CASE UNCHANGED provenanceVars
  BY <1>3 DEF provenanceVars, ProvenanceInv
<1> QED BY <1>1, <1>2, <1>3 DEF ProvenanceNext

LEMMA GroundedFromInv == ASSUME ProvenanceInv PROVE ProvenanceIsGrounded
<1> SUFFICES ASSUME NEW m \in manifest, NEW v \in verified
             PROVE  /\ Proven(v) => BoundIn(m)
                    /\ \A s \in shown : s.exit = 0 <=> Proven(v)
                    /\ \A f \in Fields : v.claims[f] = "DECLARED" => ClaimedIn(m, v, f)
  BY DEF ProvenanceIsGrounded, ProvenIsBound, OneRefusalSpoilsTheClaim, BoundIn, ClaimedIn
<1>1. m \in Manifests /\ ManifestOK(m)
  BY ManifestsOK DEF ProvenanceInv
<1>2. PICK k \in {m, Asked(m)} :
        v = VerifyProvenance(k) /\ \A s \in shown : s.exit = ExitCodeForProvenance(k, VerifyProvenance(k))
  BY DEF ProvenanceInv
<1>3. \A f \in DOMAIN PlainManifest \ {"providers"} : k[f] = m[f]
  BY <1>1 DEF Asked, ManifestOK
<1>4. DOMAIN k = DOMAIN PlainManifest
  BY <1>1 DEF Asked, ManifestOK
<1>5. /\ k.chain = m.chain /\ k.attestations = m.attestations /\ k.identity = m.identity /\ k.block = m.block
      /\ k.revocation = m.revocation /\ k.code = m.code /\ k.wellFormed = m.wellFormed /\ k.schema = m.schema
      /\ k.id = m.id /\ k.binding = m.binding /\ k.recovered = m.recovered /\ k.signer = m.signer /\ k.kind = m.kind
      /\ k.from = m.from /\ k.answer = m.answer /\ k.rule = m.rule /\ k.path = m.path
  BY <1>3 DEF PlainManifest
<1>6. ManifestOK(k)
  BY <1>1, <1>4, <1>5 DEF ManifestOK
<1>7. Proven(v) => BoundIn(m)
  <2>1. Proven(v) => BoundIn(k)
    BY <1>2, <1>6, ProvenIsBoundIn
  <2>2. BoundIn(k) => BoundIn(m)
    BY <1>5 DEF BoundIn, Reaches
  <2> QED BY <2>1, <2>2
<1>8. \A s \in shown : s.exit = 0 <=> Proven(v)
  BY <1>2, ExitCodeIsTheVerdict
<1>9. ASSUME NEW f \in Fields, v.claims[f] = "DECLARED" PROVE ClaimedIn(m, v, f)
  <2>1. ClaimedIn(k, v, f)
    BY <1>2, <1>6, <1>9, DeclaredIsClaimedIn
  <2> QED BY <2>1, <1>5 DEF ClaimedIn, Covering
<1> QED BY <1>7, <1>8, <1>9

\* PROVEN provenance is bound to the account that signed it or the wallet that
\* approved it, along a chain that breaks nowhere, and a claim that is repeated
\* has no bad attestation about it: for any number of odd facts, links and
\* attestations.
THEOREM ProvenanceHolds == ProvenanceSpec => []ProvenanceIsGrounded
<1>1. ProvenanceInit => ProvenanceInv
  BY DEF ProvenanceInit, ProvenanceInv
<1> QED BY <1>1, ProvenanceInvStep, GroundedFromInv, PTL DEF ProvenanceSpec

-----------------------------------------------------------------------------
\* Receipts.  A verdict is kept with the checks it was drawn from, of the receipt
\* that is held; deriving another receipt drops the verdicts on the first.

\* A field of the material is one of these.
MaterialOK(m) ==
  /\ DOMAIN PlainMaterial \subseteq DOMAIN m
  /\ m.intent \in {"same", "other", "absent"} /\ m.policy \in {"same", "other", "absent"}
  /\ m.trace \in {"same", "other", "absent"}
  /\ \A f \in BoundFields : m[f] \in {"agrees", "differs", "absent"}

LEMMA MaterialFields == ASSUME NEW m \in Material PROVE MaterialOK(m)
<1>1. PlainMaterial = [f \in DOMAIN PlainMaterial |-> PlainMaterial[f]]
  BY DEF PlainMaterial
<1>2. /\ DOMAIN m = DOMAIN PlainMaterial
      /\ \A f \in DOMAIN PlainMaterial :
           m[f] = PlainMaterial[f] \/ (f \in DOMAIN OtherMaterial /\ m[f] \in OtherMaterial[f])
  BY <1>1, VariantFields DEF Material
<1>3. ASSUME NEW f \in {"intent", "policy", "trace"} PROVE m[f] \in {"same", "other", "absent"}
  <2>1. f \in DOMAIN PlainPieces /\ f \notin BoundFields \cup ChainFields /\ f \in DOMAIN OtherPieces
    BY DEF PlainPieces, OtherPieces, BoundFields, ChainFields
  <2>2. PlainMaterial[f] = PlainPieces[f] /\ OtherMaterial[f] = OtherPieces[f]
    BY <2>1 DEF PlainMaterial, OtherMaterial
  <2>3. f \in DOMAIN PlainMaterial
    BY <2>1 DEF PlainMaterial
  <2>4. PlainPieces[f] = "same" /\ OtherPieces[f] = {"other", "absent"}
    <3>1. CASE f = "intent"
      BY <3>1 DEF PlainPieces, OtherPieces
    <3>2. CASE f = "policy"
      BY <3>2 DEF PlainPieces, OtherPieces
    <3>3. CASE f = "trace"
      BY <3>3 DEF PlainPieces, OtherPieces
    <3> QED BY <3>1, <3>2, <3>3
  <2> QED BY <1>2, <2>2, <2>3, <2>4
<1>4. ASSUME NEW f \in BoundFields PROVE m[f] \in {"agrees", "differs", "absent"}
  BY <1>2 DEF PlainMaterial, OtherMaterial
<1> QED BY <1>2, <1>3, <1>4 DEF MaterialOK

LEMMA DerivedFields == ASSUME NEW m, MaterialOK(m) PROVE MaterialOK(Derived(m))
<1> DEFINE c == [m EXCEPT !.id = "recomputes", !.available = "undeclared"]
<1>1. DOMAIN c = DOMAIN m /\ \A f \in DOMAIN m \ {"id", "available"} : c[f] = m[f]
  OBVIOUS
<1>2. {"id", "available", "level", "intent", "policy", "trace", "evidence", "pinning"} \subseteq DOMAIN PlainMaterial
  <2>1. {"id", "available", "level", "intent", "policy", "trace", "evidence", "pinning"} \subseteq DOMAIN PlainPieces
    BY DEF PlainPieces
  <2> QED BY <2>1 DEF PlainMaterial
<1> HIDE DEF c
<1> DEFINE e == IF c.evidence = "absent" THEN "absent" ELSE "other"
           d == [c EXCEPT !.level = "L2", !.intent = "same", !.policy = "same", !.trace = "same",
                          !.evidence = e, !.pinning = "both"]
<1>3. Derived(m) = d
  BY DEF Derived, CreateReceipt, c
<1> HIDE DEF e
<1>4. DOMAIN d = DOMAIN m
  BY <1>1
<1>5. d.intent = "same" /\ d.policy = "same" /\ d.trace = "same"
  BY <1>1, <1>2 DEF MaterialOK
<1>6. ASSUME NEW f \in BoundFields PROVE d[f] = m[f]
  <2>1. f \in DOMAIN c
    BY <1>1 DEF MaterialOK, PlainMaterial
  <2>2. f \notin {"id", "available", "level", "intent", "policy", "trace", "evidence", "pinning"}
    BY DEF BoundFields
  <2>3. d[f] = c[f]
    BY <2>1, <2>2
  <2> QED BY <1>1, <2>1, <2>2, <2>3
<1> QED BY <1>3, <1>4, <1>5, <1>6 DEF MaterialOK

ChecksOf(by, m) == IF by = "runVerification" THEN BoundChecks(m) ELSE EngineChecks(m)
ReceiptInv ==
  /\ held = {} => verdicts = {}
  /\ \A m, n \in held : m = n
  /\ \A m \in held : MaterialOK(m)
  /\ \A v \in verdicts, m \in held : v = Verdict(v.by, m, ChecksOf(v.by, m))
  /\ \A a \in anchored : a.verdict = EvaluateVerdict(a.level, a.states) /\ a.failing = Failing(NormalizeStates(a.states))

LEMMA ReceiptInvStep == ASSUME ReceiptInv, [ReceiptNext]_receiptVars PROVE ReceiptInv'
<1>1. ASSUME held = {}, NEW m \in Material, Bring(m) PROVE ReceiptInv'
  BY <1>1, MaterialFields DEF Bring, ReceiptInv
<1>2. ASSUME NEW m \in held, VerifyReceipt(m) PROVE ReceiptInv'
  <2>1. PICK v : /\ v = Verdict("verifyReceipt", m, EngineChecks(m)) /\ v.by = "verifyReceipt"
                 /\ verdicts' = verdicts \cup {v}
    BY <1>2 DEF VerifyReceipt, Verdict
  <2>2. v = Verdict(v.by, m, ChecksOf(v.by, m))
    BY <2>1 DEF ChecksOf
  <2>3. UNCHANGED <<held, derived, plans, anchored>>
    BY <1>2 DEF VerifyReceipt
  <2> QED BY <2>1, <2>2, <2>3 DEF ReceiptInv
<1>3. ASSUME NEW m \in held, RunVerification(m) PROVE ReceiptInv'
  <2>1. PICK v : /\ v = Verdict("runVerification", m, BoundChecks(m)) /\ v.by = "runVerification"
                 /\ verdicts' = verdicts \cup {v}
    BY <1>3 DEF RunVerification, Verdict
  <2>2. v = Verdict(v.by, m, ChecksOf(v.by, m))
    BY <2>1 DEF ChecksOf
  <2>3. UNCHANGED <<held, derived, plans, anchored>>
    BY <1>3 DEF RunVerification
  <2> QED BY <2>1, <2>2, <2>3 DEF ReceiptInv
<1>4. ASSUME NEW m \in held, GuardVerify(m) PROVE ReceiptInv'
  <2>1. MaterialOK(Derived(m))
    BY DerivedFields DEF ReceiptInv
  <2>2. PICK d, v : /\ d = Derived(m) /\ v = Verdict("guard.verify", d, EngineChecks(d)) /\ v.by = "guard.verify"
                    /\ held' = {d} /\ verdicts' = {v}
    BY <1>4 DEF GuardVerify, Verdict
  <2>3. v = Verdict(v.by, d, ChecksOf(v.by, d))
    BY <2>2 DEF ChecksOf
  <2>4. UNCHANGED anchored
    BY <1>4 DEF GuardVerify
  <2> QED BY <2>1, <2>2, <2>3, <2>4 DEF ReceiptInv
<1>5. ASSUME NEW m \in held, GuardAnchor(m) PROVE ReceiptInv'
  BY <1>5 DEF GuardAnchor, ReceiptInv
<1>6. ASSUME NEW m \in held, NEW s \in AnchorStates, JudgeAnchor(m, s) PROVE ReceiptInv'
  BY <1>6 DEF JudgeAnchor, ReceiptInv
<1>7. CASE UNCHANGED receiptVars
  BY <1>7 DEF receiptVars, ReceiptInv
<1> QED BY <1>1, <1>2, <1>3, <1>4, <1>5, <1>6, <1>7 DEF ReceiptNext

\* What a VERIFIED of any set of checks says of the checks.
LEMMA VerifiedMeansPassed ==
  ASSUME NEW level, NEW checks, EvaluateCheckVerdict(level, checks) = "VERIFIED"
  PROVE  /\ \A c \in DOMAIN checks : checks[c] # "FAIL"
         /\ level \in {"L0", "L1", "L2"}
         /\ \A c \in RequiredByLevel[level] : c \in DOMAIN checks /\ checks[c] = "PASS"
<1>1. Failing(checks) = {} /\ level \in DOMAIN RequiredByLevel /\ Missing(RequiredByLevel[level], checks) = {}
  BY DEF EvaluateCheckVerdict
<1>2. level \in {"L0", "L1", "L2"}
  BY <1>1 DEF RequiredByLevel
<1> QED BY <1>1, <1>2 DEF Failing, Missing

\* A check of the engine that did not fail, or that passed, says this.
LEMMA CheckSays ==
  ASSUME NEW m, MaterialOK(m), NEW c \in RequiredChecks \cup OptionalChecks(m)
  PROVE  /\ EngineCheck(m, c) # "FAIL" =>
              /\ c = "RECEIPT_COMMITMENT" => m.id = "recomputes"
              /\ c = "INTENT_HASH" => m.intent # "other"
              /\ c = "POLICY_HASH" => m.policy # "other"
              /\ c = "TRACE_HASH" => m.trace # "other"
              /\ c = "STATE_PINNING" => m.pinning = "both"
              /\ c = "EVIDENCE_COMMITMENT" => m.evidence = "same"
              /\ c = "POLICY_EVAL" => m.observed # "beyond"
              /\ c = "SIGNER_AUTHENTICATION" => m.signature = "valid"
              /\ c = "REPLAY_CONSISTENCY" => m.frames = "coherent"
              /\ c = "TRACE_AVAILABILITY" => m.available \in {"frames", "reason"}
         /\ EngineCheck(m, c) = "PASS" =>
              /\ c = "INTENT_HASH" => m.intent = "same"
              /\ c = "POLICY_HASH" => m.policy = "same"
              /\ c = "TRACE_HASH" => m.trace = "same"
              /\ c = "INTENT_EXECUTION_BINDING" => \A f \in BoundFields : Compared(m, f) => m[f] = "agrees"
<1>1. CASE c \in {"RECEIPT_COMMITMENT", "STATE_PINNING"}
  BY <1>1 DEF EngineCheck, Passed, VerifyStatePinning
<1>2. CASE c \in {"INTENT_HASH", "POLICY_HASH", "TRACE_HASH"}
  BY <1>2 DEF EngineCheck, Passed, Compare
<1>3. CASE c \in {"EVIDENCE_COMMITMENT", "SIGNER_AUTHENTICATION", "TRACE_AVAILABILITY"}
  BY <1>3 DEF EngineCheck, Passed
<1>4. CASE c = "POLICY_EVAL"
  <2>1. EngineCheck(m, c) # "FAIL" => PolicySatisfied(m)
    BY <1>4 DEF EngineCheck, Passed
  <2>2. PolicySatisfied(m) => m.observed # "beyond"
    BY DEF PolicySatisfied, RuleHolds
  <2> QED BY <1>4, <2>1, <2>2
<1>5. CASE c = "REPLAY_CONSISTENCY"
  <2>1. EngineCheck(m, c) # "FAIL" => PlanTraceReplay(m)
    BY <1>5 DEF EngineCheck, Passed
  <2> QED BY <1>5, <2>1 DEF PlanTraceReplay
<1>6. CASE c = "INTENT_EXECUTION_BINDING"
  <2>1. EngineCheck(m, c) = "PASS" => VerifyIntentExecutionBinding(m)
    BY <1>6 DEF EngineCheck, Passed
  <2>2. ASSUME VerifyIntentExecutionBinding(m), NEW f \in BoundFields, Compared(m, f) PROVE m[f] = "agrees"
    BY <2>2 DEF VerifyIntentExecutionBinding, Compared, MaterialOK
  <2> QED BY <1>6, <2>1, <2>2
<1>7. CASE c = "STATE_DELTA_CANONICAL"
  BY <1>7
<1> QED BY <1>1, <1>2, <1>3, <1>4, <1>5, <1>6, <1>7 DEF RequiredChecks, OptionalChecks

LEMMA VerifiedReceiptIsCommitted ==
  ASSUME NEW m, MaterialOK(m), NEW by, EvaluateCheckVerdict(m.level, ChecksOf(by, m)) = "VERIFIED"
  PROVE  /\ ~Contradicted(m)
         /\ m.level = "L1" => {m.intent, m.policy} = {"same"}
         /\ m.level = "L2" => /\ {m.intent, m.policy, m.trace} = {"same"}
                              /\ \A f \in BoundFields : Compared(m, f) => m[f] = "agrees"
         /\ by = "runVerification" => \A f \in ChainFields : m[f] \in {"unasked", "same"}
<1> DEFINE checks == ChecksOf(by, m)
           ran == RequiredChecks \cup OptionalChecks(m)
<1>1. \A c \in ran : c \in DOMAIN checks /\ checks[c] = EngineCheck(m, c)
  <2>1. ASSUME NEW c \in ran PROVE c \notin ChainFields
    BY DEF RequiredChecks, OptionalChecks, ChainFields
  <2>2. CASE by = "runVerification"
    BY <2>1, <2>2 DEF ChecksOf, BoundChecks
  <2>3. CASE by # "runVerification"
    BY <2>3 DEF ChecksOf, EngineChecks
  <2> QED BY <2>2, <2>3
<1>2. /\ \A c \in DOMAIN checks : checks[c] # "FAIL"
      /\ m.level \in {"L0", "L1", "L2"}
      /\ \A c \in RequiredByLevel[m.level] : c \in DOMAIN checks /\ checks[c] = "PASS"
  BY VerifiedMeansPassed
<1>3. by = "runVerification" => \A f \in ChainFields : m[f] \in {"unasked", "same"}
  <2> SUFFICES ASSUME by = "runVerification", NEW f \in ChainFields PROVE m[f] \in {"unasked", "same"}
    OBVIOUS
  <2>1. f \in DOMAIN checks /\ checks[f] = DeriveRpcBindings(m)[f]
    BY DEF ChecksOf, BoundChecks
  <2> QED BY <1>2, <2>1 DEF DeriveRpcBindings, Passed
<1> HIDE DEF checks
<1>4. \A c \in ran : EngineCheck(m, c) # "FAIL"
  BY <1>1, <1>2
<1>5. /\ m.id = "recomputes" /\ m.intent # "other" /\ m.policy # "other" /\ m.trace # "other" /\ m.pinning = "both"
  <2>1. RequiredChecks \subseteq ran
    OBVIOUS
  <2> QED BY <1>4, CheckSays DEF RequiredChecks
<1>6. /\ m.evidence # "absent" => m.evidence = "same"
      /\ m.policy # "absent" /\ m.trace # "absent" => m.observed # "beyond"
      /\ m.intent # "absent" /\ m.signature # "none" => m.signature = "valid"
      /\ m.trace # "absent" => m.frames = "coherent"
      /\ m.available # "undeclared" => m.available \in {"frames", "reason"}
  <2>1. /\ m.evidence # "absent" => "EVIDENCE_COMMITMENT" \in ran
        /\ m.policy # "absent" /\ m.trace # "absent" => "POLICY_EVAL" \in ran
        /\ m.intent # "absent" /\ m.signature # "none" => "SIGNER_AUTHENTICATION" \in ran
        /\ m.trace # "absent" => "REPLAY_CONSISTENCY" \in ran
        /\ m.available # "undeclared" => "TRACE_AVAILABILITY" \in ran
    BY DEF OptionalChecks
  <2> QED BY <1>4, <2>1, CheckSays
<1>7. ~Contradicted(m)
  BY <1>5, <1>6 DEF Contradicted
<1>8. m.level = "L1" => m.intent = "same" /\ m.policy = "same"
  <2> SUFFICES ASSUME m.level = "L1" PROVE m.intent = "same" /\ m.policy = "same"
    OBVIOUS
  <2>1. "INTENT_HASH" \in RequiredByLevel[m.level] /\ "POLICY_HASH" \in RequiredByLevel[m.level]
    BY DEF RequiredByLevel
  <2>2. "INTENT_HASH" \in ran /\ "POLICY_HASH" \in ran
    BY DEF RequiredChecks
  <2> QED BY <1>1, <1>2, <2>1, <2>2, CheckSays
<1>9. m.level = "L2" =>
        /\ m.intent = "same" /\ m.policy = "same" /\ m.trace = "same"
        /\ \A f \in BoundFields : Compared(m, f) => m[f] = "agrees"
  <2> SUFFICES ASSUME m.level = "L2"
               PROVE  /\ m.intent = "same" /\ m.policy = "same" /\ m.trace = "same"
                      /\ \A f \in BoundFields : Compared(m, f) => m[f] = "agrees"
    OBVIOUS
  <2>1. {"INTENT_HASH", "POLICY_HASH", "TRACE_HASH", "INTENT_EXECUTION_BINDING"} \subseteq RequiredByLevel[m.level]
    BY DEF RequiredByLevel
  <2>2. "INTENT_HASH" \in ran /\ "POLICY_HASH" \in ran /\ "TRACE_HASH" \in ran
    BY DEF RequiredChecks
  <2>3. m.intent = "same" /\ m.policy = "same" /\ m.trace = "same"
    BY <1>1, <1>2, <2>1, <2>2, CheckSays
  <2>4. "INTENT_EXECUTION_BINDING" \in ran
    BY <2>3 DEF OptionalChecks
  <2> QED BY <1>1, <1>2, <2>1, <2>3, <2>4, CheckSays
<1> QED BY <1>3, <1>7, <1>8, <1>9

LEMMA EvidentFromInv == ASSUME ReceiptInv PROVE ReceiptsAreEvident
<1>1. VerifiedIsCommitted
  <2> SUFFICES ASSUME NEW v \in verdicts, NEW m \in held, v.verdict = "VERIFIED"
               PROVE  /\ ~Contradicted(m)
                      /\ m.level = "L1" => {m.intent, m.policy} = {"same"}
                      /\ m.level = "L2" => /\ {m.intent, m.policy, m.trace} = {"same"}
                                           /\ \A f \in BoundFields : Compared(m, f) => m[f] = "agrees"
                      /\ v.by = "runVerification" => \A f \in ChainFields : m[f] \in {"unasked", "same"}
    BY DEF VerifiedIsCommitted
  <2>1. MaterialOK(m) /\ v = Verdict(v.by, m, ChecksOf(v.by, m))
    BY DEF ReceiptInv
  <2>2. v.verdict = EvaluateCheckVerdict(m.level, ChecksOf(v.by, m))
    BY <2>1 DEF Verdict
  <2> QED BY <2>1, <2>2, VerifiedReceiptIsCommitted
<1>2. AnchorIsEvident
  <2> SUFFICES ASSUME NEW a \in anchored, a.verdict = "VERIFIED"
               PROVE  a.failing = {} /\ \A c \in AnchorProfile[a.level] : a.states[c] = "PASS"
    BY DEF AnchorIsEvident
  <2> DEFINE states == NormalizeStates(a.states)
  <2>1. Failing(states) = {} /\ Missing(AnchorProfile[a.level], states) = {} /\ a.failing = Failing(states)
    BY DEF ReceiptInv, EvaluateVerdict
  <2>2. ASSUME NEW c \in AnchorProfile[a.level] PROVE a.states[c] = "PASS"
    <3>1. c \in DOMAIN states /\ states[c] = "PASS"
      BY <2>1 DEF Missing
    <3> QED BY <3>1 DEF NormalizeStates
  <2> QED BY <2>1, <2>2
<1> QED BY <1>1, <1>2 DEF ReceiptsAreEvident

\* A receipt is VERIFIED on what it commits to, with nothing that was brought
\* against it, and an anchor only with every read of its level made: for any
\* number of odd pieces and of checks that did not pass.
THEOREM ReceiptsHold == ReceiptSpec => []ReceiptsAreEvident
<1>1. ReceiptInit => ReceiptInv
  BY DEF ReceiptInit, ReceiptInv
<1> QED BY <1>1, ReceiptInvStep, EvidentFromInv, PTL DEF ReceiptSpec
=============================================================================
