-------------------------- MODULE WebhookReceiver ---------------------------
(***************************************************************************)
(* The receiver of signed webhooks, packages/webhook/index.mjs (CG-WH/1).  *)
(* A sender stamps a delivery with its own clock and an idempotency key    *)
(* and may stamp and send it again; the network delivers what was sent any *)
(* number of times, at any later time: at any moment a delivery may arrive *)
(* with any stamp the sender's clock has shown so far.  handle is          *)
(* synchronous.  A delivery it rejects (no or wrong signature, no key, too *)
(* large, out of the replay window) and a duplicate change nothing: they   *)
(* are stuttering steps.                                                   *)
(***************************************************************************)
EXTENDS Integers, Sequences

CONSTANTS
  Keys,         \* idempotency keys
  WindowMs,     \* windowMs
  MaxEntries,   \* maxEntries of the idempotency Map
  Skew,         \* how far the sender's clock may be off
  LastTime,     \* bound of the model: the receiver's clock
  RunBound      \* bound of the model: deliveries the receiver goes through with

ASSUME ReceiverAssumption ==
  /\ WindowMs \in Nat \ {0} /\ MaxEntries \in Nat \ {0}
  /\ {Skew, LastTime, RunBound} \subseteq Nat

VARIABLES
  mode,   \* DRY_RUN or LIVE, fixed when the receiver is created
  now,    \* clock()
  seen,   \* the Map: keys with their first outcome, oldest first
  log     \* history: what it went through with since the last reset

receiverVars == <<mode, now, seen, log>>

WebhookStates == {"ACCEPTED", "NOT_PERFORMED", "UNKNOWN"}
Stamps == -Skew .. LastTime + Skew

ReceiverTypeOK ==
  /\ mode \in {"DRY_RUN", "LIVE"}
  /\ now \in 0 .. LastTime
  /\ seen \in Seq([key : Keys, state : WebhookStates]) /\ Len(seen) <= MaxEntries
  /\ log \in Seq([key : Keys, sentAt : Stamps, at : 0 .. LastTime, state : WebhookStates])

ReceiverInit ==
  /\ mode \in {"DRY_RUN", "LIVE"}
  /\ now = 0 /\ seen = <<>> /\ log = <<>>

-----------------------------------------------------------------------------
Tick ==
  /\ now < LastTime
  /\ now' = now + 1
  /\ UNCHANGED <<mode, seen, log>>

\* What may arrive now, and what is in the window of the receiver's clock.
MayArrive(sentAt) == sentAt <= now + Skew
InWindow(sentAt) == now - sentAt \in -WindowMs .. WindowMs

Seen(key) == \E i \in 1 .. Len(seen) : seen[i].key = key

\* Mutants of Remember: the newest key is forgotten; a key too many is.
ForgetNewest(key, state) ==
  seen' = Append(IF Len(seen) >= MaxEntries THEN SubSeq(seen, 1, Len(seen) - 1) ELSE seen,
                 [key |-> key, state |-> state])

RememberFewer(key, state) ==
  seen' = Append(IF Len(seen) >= MaxEntries - 1 THEN Tail(seen) ELSE seen,
                 [key |-> key, state |-> state])

\* remember: a full Map forgets its oldest key first.
Remember(key, state) ==
  seen' = Append(IF Len(seen) >= MaxEntries THEN Tail(seen) ELSE seen,
                 [key |-> key, state |-> state])

\* handle of a delivery that is neither rejected nor a duplicate.  In LIVE the
\* handler runs first; when it throws the outcome is UNKNOWN, and remembered.
Handle(key, sentAt, state) ==
  /\ MayArrive(sentAt) /\ InWindow(sentAt) /\ ~Seen(key)
  /\ Len(log) < RunBound
  /\ state \in IF mode = "DRY_RUN" THEN {"NOT_PERFORMED"} ELSE {"ACCEPTED", "UNKNOWN"}
  /\ Remember(key, state)
  /\ log' = Append(log, [key |-> key, sentAt |-> sentAt, at |-> now, state |-> state])
  /\ UNCHANGED <<mode, now>>

\* reset: the integrator clears the Map, and history starts again.
Reset ==
  /\ seen' = <<>> /\ log' = <<>>
  /\ UNCHANGED <<mode, now>>

ReceiverNext ==
  \/ Tick
  \/ \E k \in Keys, t \in Stamps, s \in WebhookStates : Handle(k, t, s)
  \/ Reset

ReceiverSpec == ReceiverInit /\ [][ReceiverNext]_receiverVars

-----------------------------------------------------------------------------
\* How far the deduplication reaches: between two runs for one key the
\* receiver went through at least MaxEntries deliveries of other keys.
\* Redelivery, retries with a new stamp and skewed clocks do not shorten it.
RerunsAreFarApart ==
  \A i, j \in 1 .. Len(log) :
    i < j /\ log[i].key = log[j].key => j - i > MaxEntries

\* The oldest is forgotten first: what the receiver remembers is exactly the
\* latest of what it went through, with the outcome each had.
RemembersTheLatest ==
  \A i \in 1 .. Len(seen) :
    LET entry == log[Len(log) - Len(seen) + i]
    IN  seen[i] = [key |-> entry.key, state |-> entry.state]

\* The receiver's Map holds the latest outcomes of a bounded number of keys, so
\* a key is handled again only after that many others were.
MemoryIsRecent == ReceiverTypeOK /\ RerunsAreFarApart /\ RemembersTheLatest
=============================================================================
