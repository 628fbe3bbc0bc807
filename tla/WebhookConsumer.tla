-------------------------- MODULE WebhookConsumer ---------------------------
(***************************************************************************)
(* The consumer of the People's Court event feed,                          *)
(* packages/peoples-court-adapter/webhook-consumer.mjs.  Upstream numbers  *)
(* its events 1, 2, 3, ... and delivers each at least once, in any order.  *)
(* An event is named by its sequence number.  A copy of it may carry no    *)
(* payloadHash, or one that its payload does not have.                     *)
(***************************************************************************)
EXTENDS Naturals, Sequences, FiniteSets

CONSTANTS
  EventCount,    \* events upstream ever emits
  PayloadHashes,        \* what copies carry: MATCH, MISMATCH, ABSENT
  TamperBound    \* bound of the model: mismatches recorded

ASSUME ConsumerAssumption ==
  /\ EventCount \in Nat /\ TamperBound \in Nat
  /\ PayloadHashes \subseteq {"MATCH", "MISMATCH", "ABSENT"}

VARIABLES
  nextSequence,  \* the sequence expected next; the cursor is one behind
  applied,       \* the events applied, in the order they were
  hashOf,        \* what the applied copy carried
  acked,         \* ackedByEventId: applied, or recorded as out of order
  outOfOrder,    \* the events recorded as out of order
  tampered       \* how many mismatches were recorded

consumerVars == <<nextSequence, applied, hashOf, acked, outOfOrder, tampered>>

Events == 1 .. EventCount

ConsumerInit ==
  /\ nextSequence = 1 /\ applied = <<>>
  /\ hashOf = [e \in Events |-> "NONE"]
  /\ acked = {} /\ outOfOrder = <<>> /\ tampered = 0

-----------------------------------------------------------------------------
\* Dedup comes first; then integrity, when the copy carries a hash.
Fresh(e) == e \notin acked
Intact(hash) == hash # "MISMATCH"

\* Mutant of Tampered: a bad copy is acked.
TamperedIsAcked(e, hash) ==
  /\ Fresh(e) /\ ~Intact(hash)
  /\ tampered < TamperBound
  /\ tampered' = tampered + 1
  /\ acked' = acked \cup {e}
  /\ UNCHANGED <<nextSequence, applied, hashOf, outOfOrder>>

Tampered(e, hash) ==
  /\ Fresh(e) /\ ~Intact(hash)
  /\ tampered < TamperBound
  /\ tampered' = tampered + 1
  /\ UNCHANGED <<nextSequence, applied, hashOf, acked, outOfOrder>>

\* An event that is not the next one is recorded and acked, not kept.
OutOfOrder(e, hash) ==
  /\ Fresh(e) /\ Intact(hash) /\ e # nextSequence
  /\ outOfOrder' = Append(outOfOrder, e)
  /\ acked' = acked \cup {e}
  /\ UNCHANGED <<nextSequence, applied, hashOf, tampered>>

\* Mutant of Apply: a gap is skipped.
ApplyOverGap(e, hash) ==
  /\ Fresh(e) /\ Intact(hash) /\ e >= nextSequence
  /\ applied' = Append(applied, e)
  /\ hashOf' = [hashOf EXCEPT ![e] = hash]
  /\ acked' = acked \cup {e}
  /\ nextSequence' = e + 1
  /\ UNCHANGED <<outOfOrder, tampered>>

Apply(e, hash) ==
  /\ Fresh(e) /\ Intact(hash) /\ e = nextSequence
  /\ applied' = Append(applied, e)
  /\ hashOf' = [hashOf EXCEPT ![e] = hash]
  /\ acked' = acked \cup {e}
  /\ nextSequence' = e + 1
  /\ UNCHANGED <<outOfOrder, tampered>>

\* consumeEvent; a DUPLICATE changes nothing and is a stuttering step.
ConsumeEvent(e, hash) == Tampered(e, hash) \/ OutOfOrder(e, hash) \/ Apply(e, hash)

ConsumerNext == \E e \in Events, h \in PayloadHashes : ConsumeEvent(e, h)

ConsumerSpec == ConsumerInit /\ [][ConsumerNext]_consumerVars

\* At least once: an intact copy of every event keeps being delivered.
FeedFairness == \A e \in Events : WF_consumerVars(ConsumeEvent(e, "MATCH"))

FairConsumerSpec == ConsumerSpec /\ FeedFairness

-----------------------------------------------------------------------------
\* The ledger is a gapless prefix: through duplicates, reordering and bad
\* copies, what was applied is 1, 2, ... up to the cursor, each once and in
\* order, and an event is acked exactly when it was applied or set aside.
AppliedIsPrefix ==
  /\ applied = [i \in 1 .. nextSequence - 1 |-> i]
  /\ acked = {applied[i] : i \in 1 .. Len(applied)}
               \cup {outOfOrder[i] : i \in 1 .. Len(outOfOrder)}

\* In-order delivery is enough: as long as nothing came out of order, fair
\* redelivery gets every event applied, whatever bad copies come between.
InOrderCompletes == <>(outOfOrder # <<>> \/ nextSequence = EventCount + 1)

-----------------------------------------------------------------------------
\* "OUT_OF_ORDER: inbound sequence # cursor + 1: held": what is held is applied
\* when its turn comes or when it is delivered again.  It is acked, so each
\* later copy is a duplicate, and the cursor never passes it.
HeldIsApplied == <>(nextSequence = EventCount + 1)
=============================================================================
