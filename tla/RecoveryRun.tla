---------------------------- MODULE RecoveryRun ----------------------------
(***************************************************************************)
(* A recovery run and its journal, packages/recovery/index.js              *)
(* (CGEP/1:RECOVERY): the journal of one on-chain send, appended to by the *)
(* methods of the object createRecoveryRun returns.                        *)
(*                                                                         *)
(* Every push writes the whole journal to its file before it returns, so   *)
(* the entries in memory are those of the file, and one variable stands    *)
(* for both.  A run is created again on the same file after a restart; it  *)
(* is then given its calldata again.  What it journals and never reads     *)
(* again (evidence hashes, the hash of a reconstruction, log topics) is    *)
(* left out.  This module has the methods; RecoveryDriver models           *)
(* runRecovery, which calls them.                                          *)
(***************************************************************************)
EXTENDS Naturals, Sequences, FiniteSets

CONSTANTS
  Providers,      \* RPC providers a receipt is read from
  Hashes,         \* transaction hashes
  Views,          \* what a successful receipt shows: blockNumber | logsHash
  WithEvent,      \* the views whose logs hold the expected events
  Calldata,       \* the calldata runs are created with
  MinProviders,   \* minProviders
  None            \* no hash, no view, no run

ASSUME RecoveryAssumption ==
  /\ MinProviders \in Nat \ {0}
  /\ WithEvent \subseteq Views
  /\ None \notin Hashes \cup Views \cup Calldata

VARIABLES
  journal,  \* the journal's entries
  calldata  \* what the current run was created with, None before the first

runVars == <<journal, calldata>>

\* A provider's answer, as recordReceiptRead keeps it.  OTHER is a receipt
\* whose status is neither a success nor a revert, or no receipt.
Answer == [status : {"0x1"}, view : Views, error : {FALSE}]
     \cup [status : {"0x0", "OTHER"}, view : {None}, error : {FALSE}]
     \cup [status : {"OTHER"}, view : {None}, error : {TRUE}]

TerminalStates == {"AUTHORIZED", "EXECUTED", "VERIFIED", "NOT_PROVEN",
                   "CONTRADICTED", "INCONCLUSIVE"}

Entry ==
       [event : {"SEND_INTENT"}, calldata : Calldata]
  \cup [event : {"RECONSTRUCTION"}]
  \cup [event : {"SEND_RESULT"}, tx : Hashes]
  \cup [event : {"RECEIPT_READ"}, tx : Hashes, provider : Providers, answer : Answer]
  \cup [event : {"VERDICT"}, state : TerminalStates, tx : Hashes \cup {None}]

RunTypeOK ==
  /\ journal \in Seq(Entry)
  /\ calldata \in Calldata \cup {None}

RunInit ==
  /\ journal = <<>>
  /\ calldata = None

-----------------------------------------------------------------------------
\* journal.last: where the entries of one kind are, and the oldest of them.
Entries(event) == {i \in 1 .. Len(journal) : journal[i].event = event}
Has(event) == Entries(event) # {}
First(event) == journal[CHOOSE i \in Entries(event) : \A j \in Entries(event) : i <= j]

IsTerminal == Has("VERDICT")
SentTx == IF Has("SEND_RESULT") THEN First("SEND_RESULT").tx ELSE None

\* push: throws after a VERDICT, in a journal of two entries or more.
Push(entry) ==
  /\ ~(Len(journal) >= 2 /\ journal[Len(journal)].event = "VERDICT")
  /\ journal' = Append(journal, entry)

\* Mutant of Reopen: a run begins with an empty journal.
ReopenAfresh(c) == calldata' = c /\ journal' = <<>>

\* createRecoveryRun, on a journal file that exists or not.
Reopen(c) == calldata' = c /\ UNCHANGED journal

DeclareSendIntent ==
  /\ IF Has("SEND_INTENT") THEN UNCHANGED journal
     ELSE Push([event |-> "SEND_INTENT", calldata |-> calldata])
  /\ UNCHANGED calldata

\* recordSendResult: throws when another hash is recorded.
RecordSendResult(tx) ==
  /\ IF Has("SEND_RESULT") THEN SentTx = tx /\ UNCHANGED journal
     ELSE Push([event |-> "SEND_RESULT", tx |-> tx])
  /\ UNCHANGED calldata

RecordReceiptRead(provider, tx, answer) ==
  /\ Push([event |-> "RECEIPT_READ", tx |-> tx, provider |-> provider, answer |-> answer])
  /\ UNCHANGED calldata

MarkReconstruction ==
  /\ IF Has("RECONSTRUCTION") THEN UNCHANGED journal
     ELSE Push([event |-> "RECONSTRUCTION"])
  /\ UNCHANGED calldata

\* resolveVerdict, on a run that knows the hash tx or none.  All the reads of
\* the journal count, whichever provider or hash they are of.
Answers == {journal[i].answer : i \in Entries("RECEIPT_READ")}
SeenViews == {a.view : a \in {b \in Answers : b.status = "0x1"}}

\* Mutant of VerdictState: errored reads do not stand in the way.
ErrorsIgnored(tx) ==
  IF tx = None THEN "INCONCLUSIVE"
  ELSE IF Has("SEND_INTENT") /\ First("SEND_INTENT").calldata # calldata
  THEN "CONTRADICTED"
  ELSE IF \E a \in Answers : a.status = "0x0" THEN "CONTRADICTED"
  ELSE IF SeenViews = {} THEN "NOT_PROVEN"
  ELSE IF Cardinality(Entries("RECEIPT_READ")) < MinProviders THEN "INCONCLUSIVE"
  ELSE IF ~(SeenViews \subseteq WithEvent) \/ Cardinality(SeenViews) # 1 THEN "CONTRADICTED"
  ELSE "VERIFIED"

VerdictState(tx) ==
  IF tx = None THEN "INCONCLUSIVE"
  ELSE IF Has("SEND_INTENT") /\ First("SEND_INTENT").calldata # calldata
  THEN "CONTRADICTED"
  ELSE IF \E a \in Answers : a.status = "0x0" THEN "CONTRADICTED"
  ELSE IF SeenViews = {} THEN "NOT_PROVEN"
  ELSE IF Cardinality(Entries("RECEIPT_READ")) < MinProviders THEN "INCONCLUSIVE"
  ELSE IF ~(SeenViews \subseteq WithEvent) THEN "CONTRADICTED"
  ELSE IF (\E a \in Answers : a.error) \/ Cardinality(SeenViews) # 1 THEN "CONTRADICTED"
  ELSE "VERIFIED"

\* _writeVerdict: a verdict that is there stays; another one throws.
ResolveVerdict(intended) ==
  LET tx == IF Has("SEND_RESULT") THEN SentTx ELSE intended
  IN  /\ IF IsTerminal
         THEN First("VERDICT").state = VerdictState(tx) /\ UNCHANGED journal
         ELSE Push([event |-> "VERDICT", state |-> VerdictState(tx), tx |-> tx])
      /\ UNCHANGED calldata

-----------------------------------------------------------------------------
\* History is not rewritten: through every crash and restart, whatever the run
\* is created with, the journal keeps every entry it has.
HistoryKept ==
  [][/\ Len(journal') >= Len(journal)
     /\ SubSeq(journal', 1, Len(journal)) = journal]_runVars
=============================================================================
