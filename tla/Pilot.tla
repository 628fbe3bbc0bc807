-------------------------------- MODULE Pilot -------------------------------
(***************************************************************************)
(* examples/pilot: one payment of an agent on the main network, declared,  *)
(* staged, broadcast by an operator who confirms it twice, and captured.   *)
(* Every command is a process of its own: what one leaves to the next are  *)
(* the files of artifacts/.  The environment, which names recipient and    *)
(* amount, may differ from one command to the next.                        *)
(***************************************************************************)
EXTENDS Naturals, FiniteSets

CONSTANTS
  MaxStagings,  \* bound of the model: runs of staged
  MaxHeight     \* bound of the model: blocks

VARIABLES
  chain,        \* the head, the account's nonce and balance, its transactions in blocks
  mempool,         \* transactions sent and not in a block
  declared,     \* intent.json, policy.json, declaration.json: written together
  stage,        \* stage.json
  stagings,     \* runs of staged, with what each signed
  sending,      \* the broadcast under way
  captured      \* capture.json

pilotVars == <<chain, mempool, declared, stage, stagings, sending, captured>>

Mainnet == 1116
GasCost == 1
Amounts == {1, 2}
Recipients == {"agent", "payee"}
Scenarios == [amount : Amounts, to : Recipients, until : {2, MaxHeight}]
NoFile == [is |-> "absent"]

PilotInit ==
  /\ chain \in [height : {1}, nonce : {0}, balance : {0, 5}, blocks : {{}}]
  /\ mempool = {} /\ stagings = {}
  /\ declared = NoFile /\ stage = NoFile /\ captured = NoFile
  /\ sending = [pc |-> "idle"]

-----------------------------------------------------------------------------
\* The network: a block, with a payment of the agent, with one of another account
\* that has the declared recipient and amount, or with neither; funds for the agent.  A payment to an account
\* that is a contract may revert: it takes its fee and its nonce and moves nothing.
Landed(tx, by, ok) == [tx |-> tx, by |-> by, ok |-> ok, number |-> chain.height + 1]

EmptyBlock ==
  /\ chain' = [chain EXCEPT !.height = @ + 1]
  /\ UNCHANGED mempool

ForeignBlock ==
  /\ declared.is = "declaration" /\ \A b \in chain.blocks : b.by = "agent"
  /\ LET tx == [staging |-> 0, nonce |-> 0, amount |-> declared.amount, to |-> declared.to]
     IN  chain' = [chain EXCEPT !.height = @ + 1, !.blocks = @ \cup {Landed(tx, "other", TRUE)}]
  /\ UNCHANGED mempool

AgentBlock ==
  \E tx \in mempool, ok \in BOOLEAN :
    /\ tx.nonce = chain.nonce /\ chain.balance >= tx.amount + GasCost /\ (tx.to = "agent" => ok)
    /\ LET moved == IF ok /\ tx.to # "agent" THEN tx.amount ELSE 0
       IN  chain' = [chain EXCEPT !.height = @ + 1, !.nonce = @ + 1, !.balance = @ - moved - GasCost,
                                  !.blocks = @ \cup {Landed(tx, "agent", ok)}]
    /\ mempool' = {t \in mempool : t.nonce > tx.nonce}

Block ==
  /\ chain.height < MaxHeight
  /\ EmptyBlock \/ ForeignBlock \/ AgentBlock
  /\ UNCHANGED <<declared, stage, stagings, sending, captured>>

Fund ==
  /\ chain.balance = 0 /\ chain' = [chain EXCEPT !.balance = 5]
  /\ UNCHANGED <<mempool, declared, stage, stagings, sending, captured>>

-----------------------------------------------------------------------------
\* The declaration of what is to be done, bound and signed before it is.
DeclarationOf(s) == [is |-> "declaration", nonce |-> chain.nonce, amount |-> s.amount, to |-> s.to, until |-> s.until]

Plan(s, chainId) ==
  /\ chainId = Mainnet /\ sending.pc = "idle"
  /\ declared' = DeclarationOf(s)
  /\ UNCHANGED <<chain, mempool, stage, stagings, sending, captured>>

\* eth_call at the head, pinned by number; what it answers is kept as it is.
RunPreflight(s) ==
  {[pin |-> chain.height, ok |-> ok] : ok \in {FALSE} \cup {b \in {TRUE} : chain.balance >= s.amount + GasCost}}
Funded(s) == chain.balance >= s.amount + GasCost

\* Signed only when funded and not refused; the account's nonce of now.
StageExecution(s, n) ==
  [staging |-> n, nonce |-> chain.nonce, amount |-> s.amount, to |-> s.to]

Staged(s, chainId) ==
  /\ chainId = Mainnet /\ sending.pc = "idle" /\ Cardinality(stagings) < MaxStagings
  /\ LET n == Cardinality(stagings) + 1
     IN  \E preflight \in RunPreflight(s) :
           LET signed == IF preflight.ok /\ Funded(s) THEN {StageExecution(s, n)} ELSE {}
           IN  /\ stage' = [is |-> "stage", preflight |-> preflight, signed |-> signed, sent |-> FALSE]
               /\ stagings' = stagings \cup {[staging |-> n, preflight |-> preflight, signed |-> signed]}
  /\ declared' = DeclarationOf(s)
  /\ UNCHANGED <<chain, mempool, sending, captured>>

-----------------------------------------------------------------------------
\* Mutant of RawTx: what is sent is signed when it is sent.
RawTxSignedAnew(tx) == [tx EXCEPT !.nonce = chain.nonce]

\* What is sent is what was signed at staging.
RawTx(tx) == tx

BroadcastGates(allowed, confirms, chainId) ==
  /\ stage.is = "stage" /\ ~stage.sent /\ allowed /\ chainId = Mainnet
  /\ stage.signed # {} /\ confirms >= 2
  /\ \A tx \in stage.signed : chain.balance >= tx.amount + GasCost

\* The node refuses a used nonce; one that is sent again is the one it holds.
Broadcast(allowed, confirms, chainId) ==
  /\ sending.pc = "idle"
  /\ BroadcastGates(allowed, confirms, chainId)
  /\ \E tx \in stage.signed :
       /\ RawTx(tx).nonce >= chain.nonce
       /\ mempool' = mempool \cup {RawTx(tx)}
       /\ sending' = [pc |-> "sent", tx |-> RawTx(tx)]
  /\ UNCHANGED <<chain, declared, stage, stagings, captured>>

\* The receipt, or none after thirty polls: either way the stage says sent, and
\* nothing is said when the process ends before.
RecordSent ==
  /\ sending.pc = "sent"
  /\ stage' = [stage EXCEPT !.sent = TRUE]
  /\ sending' = [pc |-> "idle"]
  /\ UNCHANGED <<chain, mempool, declared, stagings, captured>>

BroadcastDies ==
  /\ sending.pc = "sent"
  /\ sending' = [pc |-> "idle"]
  /\ UNCHANGED <<chain, mempool, declared, stage, stagings, captured>>

-----------------------------------------------------------------------------
\* Capture of a transaction that is in a block, or of one that is not.  Bound:
\* caller, target and value are those declared; neither the nonce nor the
\* receipt's status is looked at, so a payment that reverted counts.

\* Mutant of Bound: whoever sent it.
BoundOfAnyone(b) == b.tx.to = declared.to /\ b.tx.amount = declared.amount

Bound(b) == b.by = "agent" /\ b.tx.to = declared.to /\ b.tx.amount = declared.amount
PolicySatisfied(b) == b.tx.amount <= declared.amount /\ b.tx.to = declared.to /\ b.number <= declared.until
SimPin == IF stage.is = "stage" THEN {stage.preflight.pin} ELSE {}
Compliant(b) == SimPin # {} /\ PolicySatisfied(b) /\ Bound(b)

\* No receipt for what does not comply; some checks are never run, so that
\* without one the best status is NOT_RUN.
CaptureOf(b) ==
  LET receipt == IF Compliant(b) THEN SimPin ELSE {}
  IN  [is |-> "capture", tx |-> b.tx, receipt |-> receipt,
       declared |-> [amount |-> declared.amount, to |-> declared.to],
       status |-> IF receipt # {} THEN "VALID"
                  ELSE IF ~PolicySatisfied(b) \/ ~Bound(b) THEN "INVALID"
                  ELSE "NOT_RUN"]

\* A capture without the evidence it needs leaves the files as they are.
Capture ==
  /\ sending.pc = "idle" /\ declared.is = "declaration"
  /\ \E b \in chain.blocks : captured' = CaptureOf(b)
  /\ UNCHANGED <<chain, mempool, declared, stage, stagings, sending>>

PilotNext ==
  \/ Block \/ Fund \/ RecordSent \/ BroadcastDies \/ Capture
  \/ \E s \in Scenarios, chainId \in {Mainnet, 1115} : Plan(s, chainId) \/ Staged(s, chainId)
  \/ \E allowed \in BOOLEAN, confirms \in 0 .. 2, chainId \in {Mainnet, 1115} : Broadcast(allowed, confirms, chainId)

PilotSpec == PilotInit /\ [][PilotNext]_pilotVars

-----------------------------------------------------------------------------
\* However often the commands are run, repeated after a crash or after a receipt
\* that did not come, a staging is in one block at most, and what the agent sent is
\* what a staging signed, funded and after a preflight that did not refuse it; a
\* capture says VALID only of a transaction of the agent with the declared recipient
\* and amount, never of another account's that looks like it.
StagingIsPaidOnce ==
  /\ \A b \in chain.blocks : b.by = "agent" =>
       /\ \E g \in stagings : g.preflight.ok /\ b.tx \in g.signed
       /\ \A c \in chain.blocks : c.by = "agent" /\ c.tx.staging = b.tx.staging => c = b
  /\ captured.is = "capture" /\ captured.status = "VALID" =>
       /\ captured.tx.amount = captured.declared.amount /\ captured.tx.to = captured.declared.to
       /\ \E b \in chain.blocks : b.tx = captured.tx /\ b.by = "agent"
=============================================================================
