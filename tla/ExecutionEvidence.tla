------------------------- MODULE ExecutionEvidence --------------------------
(***************************************************************************)
(* Execution evidence and attestations, packages/execution/index.js.       *)
(* verifyExecutionEvidence asks a provider five questions one after the    *)
(* other and awaits each answer, while the chain behind the provider may   *)
(* switch to another fork; it then binds what was read to the frozen       *)
(* decision and the intent.  A block is named by the fork that holds it;   *)
(* a hash is the thing hashed.  An answer that throws, is null or cannot   *)
(* be normalised leaves the item out, so all of these are Unread here.       *)
(***************************************************************************)
EXTENDS Integers, FiniteSets

CONSTANTS
  Forks,        \* forks of the chain, each with its own block for the transaction
  Unread,         \* null
  ReorgBound    \* bound of the model: how often the chain switches

ASSUME EvidenceAssumption == Unread \notin Forks \cup {"INTACT", "TAMPERED"} /\ ReorgBound \in Nat

VARIABLES
  fork,      \* the fork the provider follows now
  reorgs,    \* how often it has switched
  wanted,    \* the request: the caller's block pin and the level of conformance
  phase,     \* the question asked next
  read,      \* the items read so far
  verdict,   \* what verifyExecutionEvidence returned
  record,    \* the attestation built from it, wherever it travelled
  judged     \* what verifyExecutionAttestation says of it

evidenceVars == <<fork, reorgs, wanted, phase, read, verdict, record, judged>>

Comparisons == {"same", "other", "none"}
\* The transaction against the intent: its target, selector and sender each
\* match, differ or are not there.  Bound of the model: one of them is odd.
Shapes == {s \in [target : Comparisons, selector : Comparisons, from : Comparisons] :
             Cardinality({f \in DOMAIN s : s[f] # "same"}) <= 1}
Transactions == [block : Forks \cup {Unread}, shape : Shapes]

NothingRead == [chainId |-> Unread, tx |-> Unread, receipt |-> Unread, block |-> Unread, trace |-> FALSE]

CheckNames == {"CHAIN", "TARGET_SELECTOR", "VALUE", "CALLER", "DECISION"}

EvidenceInit ==
  /\ fork = CHOOSE f \in Forks : TRUE
  /\ reorgs = 0 /\ phase = "REQUEST"
  /\ wanted = [pin |-> Unread, level |-> "RECEIPT_LEVEL"]
  /\ read = NothingRead
  /\ verdict = Unread /\ record = Unread /\ judged = Unread

-----------------------------------------------------------------------------
\* The chain: another fork becomes the longest, before one of the reads that
\* depend on it.
Reorg ==
  /\ reorgs < ReorgBound /\ phase \in {"TRANSACTION", "RECEIPT", "BLOCK"}
  /\ reorgs' = reorgs + 1
  /\ fork' \in Forks \ {fork}
  /\ UNCHANGED <<wanted, phase, read, verdict, record, judged>>

Request(pin, level) ==
  /\ phase = "REQUEST"
  /\ wanted' = [pin |-> pin, level |-> level]
  /\ phase' = "CHAIN_ID"
  /\ UNCHANGED <<fork, reorgs, read, verdict, record, judged>>

\* One await of extractExecutionEvidence.
AskProvider(question, item, answer, next) ==
  /\ phase = question
  /\ read' = [read EXCEPT ![item] = answer]
  /\ phase' = next
  /\ UNCHANGED <<fork, reorgs, wanted, verdict, record, judged>>

ReadChainId == \E id \in {"same", "other", Unread} : AskProvider("CHAIN_ID", "chainId", id, "TRANSACTION")

\* A transaction that waits in the pool names no block.
ReadTransaction ==
  \E answer \in {Unread} \cup {t \in Transactions : t.block \in {fork, Unread}} :
     AskProvider("TRANSACTION", "tx", answer, "RECEIPT")

ReadReceipt == \E answer \in {fork, Unread} : AskProvider("RECEIPT", "receipt", answer, "BLOCK")

\* The block to ask for: the caller's pin, else the transaction's own block.
BlockPin == IF wanted.pin # Unread THEN wanted.pin
            ELSE IF read.tx # Unread THEN read.tx.block ELSE Unread

\* The provider answers with the block at that height on the fork it follows.
ReadBlock ==
  \E answer \in IF BlockPin = Unread THEN {Unread} ELSE {fork, Unread} :
     AskProvider("BLOCK", "block", answer, "TRACE")

\* Frames are kept only with a transaction and a receipt to normalise them with.
ReadTrace ==
  \E frames \in BOOLEAN :
     AskProvider("TRACE", "trace", frames /\ read.tx # Unread /\ read.receipt # Unread, "BIND")

-----------------------------------------------------------------------------
\* B-EXEC-1 to B-EXEC-5 of bindExecutionEvidence.
ChainCheck == CASE read.chainId = Unread   -> "NOT_RUN"
                [] read.chainId = "same" -> "PASS"
                [] OTHER                 -> "NOT_PROVEN"

TargetSelectorCheck ==
  IF read.tx = Unread THEN "NOT_RUN"
  ELSE LET parts == {read.tx.shape.target, read.tx.shape.selector}
       IN  IF "other" \in parts THEN "NOT_PROVEN"
           ELSE IF "none" \in parts THEN "NOT_RUN"
           ELSE "PASS"

ValueCheck(predicate) ==
  IF predicate = "absent" \/ read.tx = Unread THEN "NOT_RUN"
  ELSE IF predicate = "accepts" THEN "PASS"
  ELSE "NOT_PROVEN"

CallerCheck ==
  IF read.tx = Unread \/ read.tx.shape.from = "none" THEN "NOT_RUN"
  ELSE IF read.tx.shape.from = "same" THEN "PASS" ELSE "NOT_PROVEN"

DecisionCheck(decision) == CASE decision = "absent" -> "NOT_RUN"
                             [] decision = "intact" -> "PASS"
                             [] OTHER               -> "FAIL"

\* A value predicate that throws ends the binding where it stands.
ValueThrows(predicate) == predicate = "throws" /\ read.tx # Unread

Checks(predicate, decision) ==
  LET all == [c \in CheckNames |->
                CASE c = "CHAIN"           -> ChainCheck
                  [] c = "TARGET_SELECTOR" -> TargetSelectorCheck
                  [] c = "VALUE"           -> ValueCheck(predicate)
                  [] c = "CALLER"          -> CallerCheck
                  [] c = "DECISION"        -> DecisionCheck(decision)]
  IN  IF ValueThrows(predicate) THEN [c \in {"CHAIN", "TARGET_SELECTOR"} |-> all[c]] ELSE all

ResultsOf(checks) == {checks[c] : c \in DOMAIN checks}

AggregateChecks(checks) ==
  IF "FAIL" \in ResultsOf(checks) THEN "INVALID"
  ELSE IF "NOT_PROVEN" \in ResultsOf(checks) THEN "NOT_PROVEN"
  ELSE IF "NOT_RUN" \in ResultsOf(checks) THEN "NOT_RUN"
  ELSE "VERIFIED"

BindingStatus(predicate, decision) ==
  IF ValueThrows(predicate) THEN "NOT_RUN" ELSE AggregateChecks(Checks(predicate, decision))

\* A mutant: the receipt is not required.
RequiredWithoutReceipt == {"chainId", "block", "tx"}
RequiredKinds == {"chainId", "block", "tx", "receipt"}
MissingRequired == {k \in RequiredKinds : read[k] = Unread}

\* verifyExecutionEvidence, after the extraction.
NoTrace == wanted.level = "TRACE_LEVEL" /\ ~read.trace

StatusOf(predicate, decision) ==
  IF NoTrace THEN "TRACE_UNAVAILABLE"
  ELSE IF MissingRequired # {} THEN "UNVERIFIED"
  ELSE BindingStatus(predicate, decision)

VerifyEvidence(predicate, decision) ==
  /\ phase = "BIND"
  /\ verdict' = [status |-> StatusOf(predicate, decision),
                 checks |-> IF NoTrace THEN <<>> ELSE Checks(predicate, decision),
                 path   |-> IF read.trace THEN "TRACE_LEVEL" ELSE "RECEIPT_LEVEL",
                 items  |-> read]
  /\ phase' = "DONE"
  /\ UNCHANGED <<fork, reorgs, wanted, read, record, judged>>

-----------------------------------------------------------------------------
\* buildExecutionAttestation: the reference is the hash of the whole body.
BuildExecutionAttestation ==
  /\ phase = "DONE" /\ record = Unread
  /\ LET body == [status |-> verdict.status, checks |-> verdict.checks,
                  evidence |-> verdict.items, path |-> verdict.path]
     IN  record' = [body |-> body, ref |-> body]
  /\ UNCHANGED <<fork, reorgs, wanted, phase, read, verdict, judged>>

\* On its way to a reader the status of a record is rewritten, to a better or a
\* worse one.
Rewrite(status) ==
  /\ record # Unread /\ judged = Unread /\ record.body = record.ref
  /\ record' = [record EXCEPT !.body.status = status]
  /\ UNCHANGED <<fork, reorgs, wanted, phase, read, verdict, judged>>

Recomputes(r) == r.body = r.ref

VerifyExecutionAttestation ==
  /\ record # Unread /\ judged = Unread
  /\ judged' = IF Recomputes(record) THEN "INTACT" ELSE "TAMPERED"
  /\ UNCHANGED <<fork, reorgs, wanted, phase, read, verdict, record>>

EvidenceNext ==
  \/ Reorg
  \/ \E p \in Forks \cup {Unread}, l \in {"RECEIPT_LEVEL", "TRACE_LEVEL"} : Request(p, l)
  \/ ReadChainId \/ ReadTransaction \/ ReadReceipt \/ ReadBlock \/ ReadTrace
  \/ \E p \in {"absent", "accepts", "rejects", "throws"}, d \in {"absent", "intact", "altered"} :
       VerifyEvidence(p, d)
  \/ BuildExecutionAttestation
  \/ \E s \in {"VERIFIED", "INVALID"} : Rewrite(s)
  \/ VerifyExecutionAttestation

EvidenceSpec == EvidenceInit /\ [][EvidenceNext]_evidenceVars

-----------------------------------------------------------------------------
\* An attestation its reader finds intact says VERIFIED only of a transaction
\* that was read with all its required items, matches the intent in every
\* respect and carries the decision that was frozen before, with a trace where
\* one was asked for: over the reads, the aggregation and the record together.
\* What was read is of one fork unless the chain switched between the reads.
IntactVerifiedIsComplete ==
  (judged = "INTACT" /\ record.body.status = "VERIFIED") =>
     /\ {read.chainId, read.tx.shape.target, read.tx.shape.selector, read.tx.shape.from} = {"same"}
     /\ read.receipt # Unread /\ read.block # Unread
     /\ reorgs = 0 => read.receipt = read.block /\ read.tx.block \in {read.block, Unread}
     /\ verdict.checks["DECISION"] = "PASS" /\ verdict.checks["VALUE"] = "PASS"
     /\ wanted.level = "TRACE_LEVEL" => read.trace

\* The block a verified execution is pinned to: the caller's, else the one that
\* was read.
PinnedBlock == IF wanted.pin # Unread THEN wanted.pin ELSE read.block

\* "pinned `{number, hash}` enforced": transaction, receipt and block of a VERIFIED
\* attestation, where they name a block, are of the pinned one, whatever the chain
\* did between the reads.  The code hands the pin to the provider and compares the
\* hash of no answer with it or with another answer.
VerifiedAtOnePin ==
  (judged = "INTACT" /\ record.body.status = "VERIFIED") =>
     {read.tx.block, read.receipt, read.block} \ {Unread} = {PinnedBlock}
=============================================================================
