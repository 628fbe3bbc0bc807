----------------------------- MODULE AnchorFlow -----------------------------
(***************************************************************************)
(* How commitments reach Stellar: executeAnchorFlow of                     *)
(* packages/stellar-soroban with its two legs (upload, create, commit; or  *)
(* the commit alone), the runner that calls the second one                 *)
(* (scripts/stellar-soroban-commit-executed) and the script that deploys   *)
(* the contract (scripts/deploy-soroban-mainnet).  Each is a sequence of   *)
(* transactions of one account over a network that applies one of them at  *)
(* a time, by its sequence number, later or never.                         *)
(***************************************************************************)
EXTENDS Naturals, FiniteSets

CONSTANTS
  MaxScripts,   \* bound of the model: scripts started
  LastLedger    \* bound of the model: how long the network runs

ASSUME AnchorFlowAssumption == {MaxScripts, LastLedger} \subseteq Nat

VARIABLES
  ledger,      \* the account's sequence, the code, the contracts and what each recorded
  pool,        \* the transactions that were accepted and not applied
  results,     \* of the applied ones: how they ended
  closed,      \* ledgers closed: the clock of the network
  run,         \* the program that runs, and where it is
  scripts,     \* scripts started so far
  outcome,     \* what the last run returned
  deployFile,  \* .stellar-soroban-deploy.json
  artifact     \* docs/evidence/stellar-soroban-commit-executed.json

flowVars == <<ledger, pool, results, closed, run, scripts, outcome, deployFile, artifact>>

NoDocument == [is |-> "nothing"]
NoScript == [program |-> "none", pc |-> "idle", sequence |-> 0, tx |-> NoDocument, contract |-> "none"]

\* The runner's contract is a constant of it; the flow's address follows from
\* the deployer and the code, the script's from a random salt.
Contracts == {"recorded", "derived"} \cup {"random 1", "random 2"}
DeriveSalt == "derived"
RandomSalt == CASE scripts = 1 -> "random 1" [] OTHER -> "random 2"

FlowInit ==
  /\ \E there \in {{}, {"recorded"}} :
       ledger = [sequence |-> 0, code |-> there # {}, contracts |-> there,
                 record |-> [c \in Contracts |-> "none"]]
  /\ pool = {} /\ results = << >> /\ closed = 0
  /\ run = NoScript /\ scripts = 0 /\ outcome = "none" /\ deployFile = NoDocument /\ artifact = NoDocument

-----------------------------------------------------------------------------
\* The network.  An operation succeeds or fails where it is applied; both take
\* its sequence number.
Succeeds(tx) ==
  CASE tx.op = "upload" -> TRUE
    [] tx.op = "create" -> ledger.code /\ tx.contract \notin ledger.contracts
    [] tx.op = "commit" -> tx.contract \in ledger.contracts /\ ledger.record[tx.contract] \in {"none", "ours"}

Effect(tx) ==
  CASE tx.op = "upload" -> [ledger EXCEPT !.sequence = @ + 1, !.code = TRUE]
    [] tx.op = "create" -> [ledger EXCEPT !.sequence = @ + 1, !.contracts = @ \cup {tx.contract}]
    [] tx.op = "commit" -> [ledger EXCEPT !.sequence = @ + 1, !.record[tx.contract] = "ours"]

Apply(tx) ==
  /\ tx.sequence = ledger.sequence + 1
  /\ ledger' = IF Succeeds(tx) THEN Effect(tx) ELSE [ledger EXCEPT !.sequence = @ + 1]
  /\ results' = [t \in DOMAIN results \cup {tx} |->
                   IF t # tx THEN results[t] ELSE IF Succeeds(tx) THEN "SUCCESS" ELSE "FAILED"]
  /\ pool' = pool \ {tx}
  /\ UNCHANGED <<closed, run, scripts, outcome, deployFile, artifact>>

\* What has waited past its time bounds is dropped.
NextLedger ==
  /\ closed < LastLedger /\ closed' = closed + 1
  /\ pool' = {tx \in pool : tx.until > closed}
  /\ UNCHANGED <<ledger, results, run, scripts, outcome, deployFile, artifact>>

\* Anyone may commit to a contract that is there.
OtherCommits(c) ==
  /\ c \in ledger.contracts /\ ledger.record[c] = "none"
  /\ ledger' = [ledger EXCEPT !.record[c] = "another"]
  /\ UNCHANGED <<pool, results, closed, run, scripts, outcome, deployFile, artifact>>

\* sendTransaction: one transaction of an account waits at a time.
SendStatus(tx) == IF pool # {} THEN "TRY_AGAIN_LATER"
                  ELSE IF tx.sequence # ledger.sequence + 1 THEN "ERROR"
                  ELSE "PENDING"

-----------------------------------------------------------------------------
\* The builders, and what each sequence number makes of them: the builder adds
\* one to the number it is given.
BuildTx(op, contract, sequence) ==
  [op |-> op, contract |-> contract, sequence |-> sequence + 1, until |-> closed + 1]
BuildUploadTx(sequence) == BuildTx("upload", "none", sequence)
BuildCreateContractTx(salt, sequence) == BuildTx("create", salt, sequence)
BuildInvokeTx(contract, sequence) == BuildTx("commit", contract, sequence)

\* The builders refuse what the flow refuses first: a network that is not
\* authorised or not known, missing inputs.
FlowRequests == [network : {"testnet", "mainnet", "unknown"}, ownerAuthorization : BOOLEAN,
             submitter : BOOLEAN, inputs : {"given", "missing"}]
AuthorisedFlow == [network |-> "mainnet", ownerAuthorization |-> TRUE, submitter |-> TRUE, inputs |-> "given"]
Gate(r) ==
  IF r.network = "mainnet" /\ ~r.ownerAuthorization THEN "NOT_AUTHORIZED"
  ELSE IF ~r.submitter THEN "NOT_PERFORMED"
  ELSE IF r.inputs = "missing" \/ r.network = "unknown" THEN "GATED"
  ELSE "none"

Programs == {"flow", "runner", "deploy"}

ExecuteAnchorFlow(program, r) ==
  /\ run = NoScript /\ scripts < MaxScripts
  /\ program # "flow" => r = AuthorisedFlow
  /\ scripts' = scripts + 1 /\ outcome' = Gate(r)
  /\ run' = IF Gate(r) # "none" THEN NoScript
            ELSE [NoScript EXCEPT !.program = program, !.pc = IF program = "runner" THEN "commit sequence" ELSE "upload sequence",
                              !.contract = IF program = "runner" THEN "recorded" ELSE "none"]
  /\ UNCHANGED <<ledger, pool, results, closed, deployFile, artifact>>

Return(state) == run' = NoScript /\ outcome' = state

\* The sequence of the last ledger: what waits in the pool is not in it.
GetSequence(step, next) ==
  /\ run.pc = step
  /\ run' = [run EXCEPT !.pc = next, !.sequence = ledger.sequence]
  /\ UNCHANGED <<ledger, pool, results, closed, scripts, outcome, deployFile, artifact>>

\* What the runner writes of the flow's answer, a rejection too; an exception
\* leaves the file as it was.
BuildArtifact(state) == [state |-> state, anchored |-> state = "INVOKED"]
WriteArtifact(state) == artifact' = IF run.program = "runner" THEN BuildArtifact(state) ELSE artifact

\* submit: simulated first, and sent when the simulation succeeds.  Whatever
\* the network answered, an answer with a hash is SUBMITTED.
Submit(step, tx, next) ==
  /\ run.pc = step
  /\ \/ /\ ~Succeeds(tx) /\ Return("threw") /\ UNCHANGED <<pool, artifact>>
     \/ /\ Return("REJECTED") /\ WriteArtifact("REJECTED") /\ UNCHANGED pool
     \/ /\ Succeeds(tx)
        /\ pool' = IF SendStatus(tx) = "PENDING" THEN pool \cup {tx} ELSE pool
        /\ run' = [run EXCEPT !.pc = IF run.program = "deploy" /\ SendStatus(tx) # "PENDING" THEN next[2] ELSE next[1],
                              !.tx = tx]
        /\ UNCHANGED <<outcome, artifact>>
  /\ UNCHANGED <<ledger, results, closed, scripts, deployFile>>

\* The flow signs its second transaction before it submits the first.
Upload == Submit("upload", BuildUploadTx(run.sequence), <<IF run.program = "flow" THEN "create" ELSE "poll upload", "create sequence">>)
Create ==
  IF run.program = "flow"
  THEN Submit("create", BuildCreateContractTx(DeriveSalt, run.sequence + 1), <<"contract id", "contract id">>)
  ELSE Submit("create", BuildCreateContractTx(RandomSalt, run.sequence), <<"poll create", "save">>)
Commit == Submit("commit", BuildInvokeTx(run.contract, run.sequence),
                 <<IF run.program = "runner" THEN "wait" ELSE "submitted", "submitted">>)

GetTransaction(tx) == IF tx \in DOMAIN results THEN results[tx] ELSE "NOT_FOUND"

\* The contract id is read from the meta of the applied transaction, if the
\* submitter hands it over.
ParseContractIdFromCreateResult(tx) == IF GetTransaction(tx) = "SUCCESS" THEN {tx.contract, "none"} ELSE {"none"}
ReadContractId ==
  /\ run.pc = "contract id"
  /\ \E id \in ParseContractIdFromCreateResult(run.tx) :
       IF id = "none" THEN Return("REJECTED")
       ELSE run' = [run EXCEPT !.pc = "commit sequence", !.contract = id] /\ UNCHANGED outcome
  /\ UNCHANGED <<ledger, pool, results, closed, scripts, deployFile, artifact>>
ReturnSubmitted ==
  /\ run.pc = "submitted" /\ Return("SUBMITTED")
  /\ UNCHANGED <<ledger, pool, results, closed, scripts, deployFile, artifact>>

-----------------------------------------------------------------------------
\* The runner waits for the end of its commit and gives up after a while; then
\* it writes what it saw.
\* A runner that takes an accepted transaction for an executed one.
SubmittedIsEnough == IF GetTransaction(run.tx) = "FAILED" THEN {"REJECTED"} ELSE {"INVOKED"}
Finality == CASE GetTransaction(run.tx) = "SUCCESS" -> {"INVOKED"}
              [] OTHER                              -> {"REJECTED"}     \* FAILED, or the finality timeout
Wait ==
  /\ run.pc = "wait"
  /\ \E state \in Finality : Return(state) /\ artifact' = BuildArtifact(state)
  /\ UNCHANGED <<ledger, pool, results, closed, scripts, deployFile>>

\* The script polls while the status is PENDING: the status of a transaction
\* that is not applied yet is NOT_FOUND, and ends the loop like SUCCESS.
Poll(step, next) ==
  /\ run.pc = step
  /\ IF GetTransaction(run.tx) = "FAILED" THEN Return("threw")
     ELSE run' = [run EXCEPT !.pc = next] /\ UNCHANGED outcome
  /\ UNCHANGED <<ledger, pool, results, closed, scripts, deployFile, artifact>>
SaveDeployment ==
  /\ run.pc = "save" /\ Return("deployed")
  /\ deployFile' = [is |-> "deployment", contractId |-> run.tx]     \* the hash that createContract returned
  /\ UNCHANGED <<ledger, pool, results, closed, scripts, artifact>>

Crash ==
  /\ run # NoScript /\ Return("stopped")
  /\ UNCHANGED <<ledger, pool, results, closed, scripts, deployFile, artifact>>

FlowNext ==
  \/ \E p \in Programs, r \in FlowRequests : ExecuteAnchorFlow(p, r)
  \/ GetSequence("upload sequence", "upload") \/ GetSequence("create sequence", "create")
  \/ GetSequence("commit sequence", "commit")
  \/ Upload \/ Create \/ Commit \/ ReadContractId \/ ReturnSubmitted
  \/ Wait \/ Poll("poll upload", "create sequence") \/ Poll("poll create", "save") \/ SaveDeployment
  \/ Crash
  \/ \E tx \in pool : Apply(tx)
  \/ NextLedger
  \/ \E c \in Contracts : OtherCommits(c)

FlowSpec == FlowInit /\ [][FlowNext]_flowVars

-----------------------------------------------------------------------------
\* The artifact says "anchored" only of a pair the contract holds, whatever was
\* dropped, repeated after a crash or committed by others before.
InvokedIsAnchored ==
  /\ (artifact # NoDocument /\ artifact.anchored) => ledger.record["recorded"] = "ours"
  /\ (outcome = "SUBMITTED") => ledger.contracts # {}
=============================================================================
