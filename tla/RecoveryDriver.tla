--------------------------- MODULE RecoveryDriver ---------------------------
(***************************************************************************)
(* runRecovery of packages/recovery/index.js: declare the intent, send,    *)
(* read a receipt from each provider in order, decide.  The process that   *)
(* runs it may crash between any two steps, and while it writes the        *)
(* journal; its caller starts it again on the same file.                   *)
(*                                                                         *)
(* _persist writes a temporary file and then overwrites the journal in     *)
(* place: a crash during the second write leaves a file that JSON.parse    *)
(* refuses, and every later start throws.  The variable journal then       *)
(* keeps the entries that were lost with it.                               *)
(***************************************************************************)
EXTENDS RecoveryRun

CONSTANTS
  ProviderList,  \* the providers argument, a sequence
  Honest,        \* the providers that report what the chain holds, or fail
  FailBound      \* bound of the model: crashes and failed broadcasts

ASSUME DriverAssumption ==
  /\ ProviderList \in Seq(Providers)
  /\ Honest \subseteq Providers
  /\ FailBound \in Nat

VARIABLES
  pc,       \* where runRecovery is; DOWN when no process runs
  next,     \* the provider read next
  got,      \* the hash broadcast() returned, not recorded yet
  sent,     \* the network: the transactions broadcast so far
  outcome,  \* the chain: what becomes of each transaction sent
  torn,     \* the journal file was left half written
  failures  \* crashes and failed broadcasts so far

driverVars == <<runVars, pc, next, got, sent, outcome, torn, failures>>
process == <<pc, next, got>>
world == <<sent, outcome>>
faults == <<torn, failures>>

Steps == {"DOWN", "DECLARE", "BROADCAST", "RECORD", "READ", "DONE"}
Outcomes == Views \cup {"0x0", "NONE"}

DriverTypeOK ==
  /\ RunTypeOK
  /\ pc \in Steps
  /\ next \in 1 .. Len(ProviderList) + 1
  /\ got \in Hashes \cup {None}
  /\ sent \in Seq(Hashes)
  /\ outcome \in [Hashes -> Outcomes]
  /\ torn \in BOOLEAN /\ failures \in 0 .. FailBound

DriverInit ==
  /\ RunInit
  /\ pc = "DOWN" /\ next = 1 /\ got = None
  /\ sent = <<>> /\ outcome = [tx \in Hashes |-> "NONE"]
  /\ torn = FALSE /\ failures = 0

-----------------------------------------------------------------------------
\* createRecoveryRun and the entry of runRecovery: a journal that is terminal
\* returns its verdict.  _load throws on a torn file: there is no start.
Start(c) ==
  /\ pc = "DOWN" /\ ~torn
  /\ Reopen(c)
  /\ pc' = IF IsTerminal THEN "DONE" ELSE "DECLARE"
  /\ UNCHANGED <<next, got, world, faults>>

\* Mutants of Declare: the intent is not written; a hash that is recorded is
\* not looked for; an intent that is there is an error.
DeclareNothing ==
  /\ pc = "DECLARE"
  /\ pc' = IF Has("SEND_RESULT") THEN "READ" ELSE "BROADCAST"
  /\ UNCHANGED <<runVars, next, got, world, faults>>

DeclareThenSend ==
  /\ pc = "DECLARE"
  /\ DeclareSendIntent
  /\ pc' = "BROADCAST"
  /\ UNCHANGED <<next, got, world, faults>>

DeclareOnlyOnce ==
  /\ pc = "DECLARE" /\ ~Has("SEND_INTENT")
  /\ DeclareSendIntent
  /\ pc' = "BROADCAST"
  /\ UNCHANGED <<next, got, world, faults>>

Declare ==
  /\ pc = "DECLARE"
  /\ DeclareSendIntent
  /\ pc' = IF Has("SEND_RESULT") THEN "READ" ELSE "BROADCAST"
  /\ UNCHANGED <<next, got, world, faults>>

\* A transaction reaches the network; what becomes of it is settled then.
Send(tx) ==
  /\ sent' = Append(sent, tx)
  /\ IF \E i \in 1 .. Len(sent) : sent[i] = tx THEN UNCHANGED outcome
     ELSE \E o \in Outcomes : outcome' = [outcome EXCEPT ![tx] = o]

\* await broadcast(): the transaction is out when the hash comes back.
Broadcast(tx) ==
  /\ pc = "BROADCAST"
  /\ Send(tx)
  /\ got' = tx
  /\ pc' = "RECORD"
  /\ UNCHANGED <<runVars, next, faults>>

\* The holder of the run marks it as reconstructed before it is driven on.
Mark ==
  /\ pc = "DECLARE"
  /\ MarkReconstruction
  /\ UNCHANGED <<process, world, faults>>

\* Mutant of BroadcastFails: the run goes on without a hash.
FailureIgnored(tx) ==
  /\ pc = "BROADCAST" /\ failures < FailBound
  /\ Send(tx) \/ UNCHANGED world
  /\ pc' = "RECORD"
  /\ failures' = failures + 1
  /\ UNCHANGED <<runVars, next, got, torn>>

\* broadcast() throws or returns no hash, with or without having sent: the
\* promise of runRecovery is rejected.
BroadcastFails(tx) ==
  /\ pc = "BROADCAST" /\ failures < FailBound
  /\ Send(tx) \/ UNCHANGED world
  /\ pc' = "DOWN"
  /\ failures' = failures + 1
  /\ UNCHANGED <<runVars, next, got, torn>>

Record ==
  /\ pc = "RECORD"
  /\ RecordSendResult(got)
  /\ pc' = "READ"
  /\ UNCHANGED <<next, got, world, faults>>

\* What a provider may answer: an honest one what the chain holds, or an error
\* (no receipt is an error too); another one anything.
MayAnswer(p, a) ==
  p \in Honest =>
    \/ a.error
    \/ a.status = "0x1" /\ a.view = outcome[SentTx]
    \/ a.status = "0x0" /\ outcome[SentTx] = "0x0"

\* Mutant of Read: the receipt is asked for by the hash this process got.
ReadOwnHash(a) ==
  /\ pc = "READ" /\ next <= Len(ProviderList)
  /\ MayAnswer(ProviderList[next], a)
  /\ RecordReceiptRead(ProviderList[next], got, a)
  /\ next' = next + 1
  /\ UNCHANGED <<pc, got, world, faults>>

Read(a) ==
  /\ pc = "READ" /\ next <= Len(ProviderList)
  /\ MayAnswer(ProviderList[next], a)
  /\ RecordReceiptRead(ProviderList[next], SentTx, a)
  /\ next' = next + 1
  /\ UNCHANGED <<pc, got, world, faults>>

Decide ==
  /\ pc = "READ" /\ next > Len(ProviderList)
  /\ ResolveVerdict(SentTx)
  /\ pc' = "DONE"
  /\ UNCHANGED <<next, got, world, faults>>

\* The process dies between two steps, or is simply started again when done.
Crash ==
  /\ pc # "DOWN" /\ failures < FailBound
  /\ pc' = "DOWN" /\ next' = 1 /\ got' = None
  /\ failures' = failures + 1
  /\ UNCHANGED <<runVars, world, torn>>

\* The process dies inside _persist, its journal half overwritten: that of any
\* of the pushes, the mark of a reconstruction included.
CrashInPersist ==
  /\ failures < FailBound
  /\ \/ pc = "DECLARE" /\ ~(Has("SEND_INTENT") /\ Has("RECONSTRUCTION"))
     \/ pc \in {"RECORD", "READ"}
  /\ pc' = "DOWN" /\ next' = 1 /\ got' = None
  /\ torn' = TRUE
  /\ failures' = failures + 1
  /\ UNCHANGED <<runVars, world>>

Work ==
  \/ Declare \/ Record \/ Decide
  \/ \E tx \in Hashes : Broadcast(tx)
  \/ \E a \in Answer : Read(a)

DriverNext ==
  \/ \E c \in Calldata : Start(c)
  \/ Work
  \/ \E tx \in Hashes : BroadcastFails(tx)
  \/ Mark \/ Crash \/ CrashInPersist

DriverSpec == DriverInit /\ [][DriverNext]_driverVars

\* The process takes its next step, and its caller restarts it after a crash.
Restart == \E c \in Calldata : Start(c)
DriverFairness == WF_driverVars(Work) /\ WF_driverVars(Restart)

FairDriverSpec == DriverSpec /\ DriverFairness

-----------------------------------------------------------------------------
Verified == IsTerminal /\ First("VERDICT").state = "VERIFIED"

\* Write-ahead: nothing reaches the network before the intent is journaled,
\* through every crash, and a transaction whose hash is journaled is one that
\* was sent.
WriteAhead ==
  /\ sent # <<>> => Has("SEND_INTENT")
  /\ Has("SEND_RESULT") => \E i \in 1 .. Len(sent) : sent[i] = SentTx

\* Once the hash is journaled no restart sends again, and whatever was read or
\* decided after it is about that hash.
RecordedSendIsFinal ==
  [][Has("SEND_RESULT") => sent' = sent /\ SentTx' = SentTx]_driverVars

ReadsAreOfSentTx ==
  \A i \in 1 .. Len(journal) :
    journal[i].event \in {"RECEIPT_READ", "VERDICT"} => journal[i].tx = SentTx

\* At any crash the journal says what happened on the network: an intent is
\* written before the first broadcast, a recorded hash was sent, and every read
\* and the verdict are of that hash.
JournalIsTrue == DriverTypeOK /\ WriteAhead /\ ReadsAreOfSentTx

\* Nothing that is written is taken back: the journal only grows, over restarts
\* too, and after a recorded send nothing more is sent.
JournalIsFinal == HistoryKept /\ RecordedSendIsFinal

\* A liar cannot verify: with an honest provider in the list, VERIFIED means
\* the transaction succeeded on chain with its expected events, whatever the
\* others answer and wherever the process crashed.
VerifiedIsTrue ==
  Verified /\ (\E i \in 1 .. Len(ProviderList) : ProviderList[i] \in Honest)
    => outcome[SentTx] \in WithEvent

\* A verdict is reached and stays, unless a crash tore the journal: no crash
\* between two steps leaves a run that restarts for ever or stops undecided.
EventuallyDecided == <>[](torn \/ IsTerminal)

-----------------------------------------------------------------------------
\* What the header of the file says and the code does not do.

\* "Success requires agreement across >= 2 independent RPC providers": reads
\* are counted, not the providers they are of.
VerifiedByEnough ==
  Verified =>
    Cardinality({p \in Providers : \E i \in 1 .. Len(journal) :
      /\ journal[i].event = "RECEIPT_READ"
      /\ journal[i].provider = p /\ journal[i].answer.status = "0x1"}) >= MinProviders
=============================================================================
