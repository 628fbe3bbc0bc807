--------------------------- MODULE WebhookProofs ----------------------------
(***************************************************************************)
(* What the feed consumer applies, for any number of events and any mix of *)
(* copies: the cursor is never ahead of, nor behind, what was applied, and *)
(* every acked event was applied or set aside.  And what the receiver      *)
(* remembers, for any keys, clocks and size of its Map.                    *)
(***************************************************************************)
EXTENDS WebhookReceiver, WebhookConsumer, SequenceTheorems, TLAPS

\* What a sequence holds.
Held(s) == {s[i] : i \in 1 .. Len(s)}

\* AppliedIsPrefix with the types its sequences need.
FeedInv ==
  /\ nextSequence \in Nat \ {0}
  /\ applied \in Seq(Nat)
  /\ outOfOrder \in Seq(Events)
  /\ AppliedIsPrefix

\* Appending an element adds it, and nothing else, to what a sequence holds.
LEMMA AppendHolds ==
  ASSUME NEW S, NEW s \in Seq(S), NEW e \in S
  PROVE  Held(Append(s, e)) = Held(s) \cup {e}
<1>1. Len(Append(s, e)) = Len(s) + 1 /\ Len(s) \in Nat
  BY AppendProperties, LenProperties
<1>2. Append(s, e)[Len(s) + 1] = e
  BY AppendProperties
<1>3. \A i \in 1 .. Len(s) : Append(s, e)[i] = s[i]
  BY AppendProperties
<1>4. 1 .. (Len(s) + 1) = (1 .. Len(s)) \cup {Len(s) + 1}
  BY <1>1
<1>5. QED BY <1>1, <1>2, <1>3, <1>4 DEF Held

\* The next event extends the prefix by one.
LEMMA PrefixExtends ==
  ASSUME NEW n \in Nat \ {0}
  PROVE  Append([i \in 1 .. n - 1 |-> i], n) = [i \in 1 .. (n + 1) - 1 |-> i]
<1> DEFINE s == [i \in 1 .. n - 1 |-> i]
<1>1. s \in Seq(Nat) /\ Len(s) = n - 1
  OBVIOUS
<1>2. Append(s, n) = [i \in 1 .. (Len(s) + 1) |-> IF i <= Len(s) THEN s[i] ELSE n]
  BY <1>1
<1>3. QED BY <1>1, <1>2

LEMMA FeedInit == ConsumerInit => FeedInv
<1> SUFFICES ASSUME ConsumerInit PROVE FeedInv
  OBVIOUS
<1>1. applied = [i \in 1 .. nextSequence - 1 |-> i]
  BY DEF ConsumerInit
<1>2. QED BY <1>1 DEF ConsumerInit, FeedInv, AppliedIsPrefix

LEMMA FeedNext == FeedInv /\ [ConsumerNext]_consumerVars => FeedInv'
<1> SUFFICES ASSUME FeedInv, [ConsumerNext]_consumerVars PROVE FeedInv'
  OBVIOUS
<1>t. nextSequence \in Nat \ {0} /\ applied \in Seq(Nat) /\ outOfOrder \in Seq(Events)
  BY DEF FeedInv
<1>p. /\ applied = [i \in 1 .. nextSequence - 1 |-> i]
      /\ acked = Held(applied) \cup Held(outOfOrder)
  BY DEF FeedInv, AppliedIsPrefix, Held
<1>1. ASSUME NEW e \in Events, NEW h \in PayloadHashes, Tampered(e, h) PROVE FeedInv'
  BY <1>1 DEF Tampered, FeedInv, AppliedIsPrefix
<1>2. ASSUME NEW e \in Events, NEW h \in PayloadHashes, OutOfOrder(e, h) PROVE FeedInv'
  <2>1. outOfOrder' = Append(outOfOrder, e) /\ acked' = acked \cup {e}
        /\ UNCHANGED <<nextSequence, applied>>
    BY <1>2 DEF OutOfOrder
  <2>2. Held(Append(outOfOrder, e)) = Held(outOfOrder) \cup {e}
    BY <1>t, AppendHolds
  <2>3. outOfOrder' \in Seq(Events)
    BY <2>1, <1>t, AppendProperties
  <2>4. acked' = Held(applied') \cup Held(outOfOrder')
    BY <1>p, <2>1, <2>2
  <2>5. QED BY <1>t, <1>p, <2>1, <2>3, <2>4 DEF FeedInv, AppliedIsPrefix, Held
<1>3. ASSUME NEW e \in Events, NEW h \in PayloadHashes, Apply(e, h) PROVE FeedInv'
  <2>1. /\ e = nextSequence /\ nextSequence' = e + 1 /\ applied' = Append(applied, e)
        /\ acked' = acked \cup {e} /\ outOfOrder' = outOfOrder
    BY <1>3 DEF Apply
  <2>2. e \in Nat
    BY <1>t, <2>1
  <2>3. applied' = [i \in 1 .. nextSequence' - 1 |-> i]
    BY <1>t, <1>p, <2>1, PrefixExtends
  <2>4. Held(Append(applied, e)) = Held(applied) \cup {e}
    BY <1>t, <2>2, AppendHolds
  <2>5. applied' \in Seq(Nat) /\ nextSequence' \in Nat \ {0}
    BY <1>t, <2>1, <2>2, AppendProperties
  <2>6. acked' = Held(applied') \cup Held(outOfOrder')
    BY <1>p, <2>1, <2>4
  <2>7. QED BY <1>t, <2>1, <2>3, <2>5, <2>6 DEF FeedInv, AppliedIsPrefix, Held
<1>4. CASE UNCHANGED consumerVars
  BY <1>4 DEF consumerVars, FeedInv, AppliedIsPrefix
<1>5. QED BY <1>1, <1>2, <1>3, <1>4 DEF ConsumerNext, ConsumeEvent

\* What is applied is 1, 2, ... up to the cursor, and what is acked is what was
\* applied or set aside, for any number of events and copies.
THEOREM PrefixHolds == ConsumerSpec => []AppliedIsPrefix
<1>1. FeedInv => AppliedIsPrefix
  BY DEF FeedInv
<1>2. QED BY <1>1, FeedInit, FeedNext, PTL DEF ConsumerSpec

\* What was set aside is not behind the cursor: when it came it was neither the
\* next event nor an earlier one, which are all acked.
AsideIsAhead == \A e \in Held(outOfOrder) : nextSequence <= e

\* What was applied is everything before the cursor.
LEMMA AppliedAreBehind == FeedInv => Held(applied) = 1 .. nextSequence - 1
BY DEF FeedInv, AppliedIsPrefix, Held

LEMMA AsideNext ==
  FeedInv /\ AsideIsAhead /\ [ConsumerNext]_consumerVars => AsideIsAhead'
<1> SUFFICES ASSUME FeedInv, AsideIsAhead, [ConsumerNext]_consumerVars PROVE AsideIsAhead'
  OBVIOUS
<1>1. /\ nextSequence \in Nat \ {0} /\ outOfOrder \in Seq(Events)
      /\ acked = (1 .. nextSequence - 1) \cup Held(outOfOrder)
  BY AppliedAreBehind DEF FeedInv, AppliedIsPrefix, Held
<1>2. Events \subseteq Nat \ {0} /\ Held(outOfOrder) \subseteq Events
  BY <1>1, ConsumerAssumption DEF Events, Held
<1>3. CASE UNCHANGED <<nextSequence, outOfOrder>>
  BY <1>3 DEF AsideIsAhead, Held
<1>4. ASSUME NEW e \in Events, NEW h \in PayloadHashes, OutOfOrder(e, h) PROVE AsideIsAhead'
  <2>1. /\ outOfOrder' = Append(outOfOrder, e) /\ nextSequence' = nextSequence
        /\ e \notin acked /\ e # nextSequence
    BY <1>4 DEF OutOfOrder, Fresh
  <2>2. Held(outOfOrder') = Held(outOfOrder) \cup {e}
    BY <1>1, <2>1, AppendHolds
  <2>3. Held(outOfOrder)' = Held(outOfOrder) \cup {e}
    BY <2>2 DEF Held
  <2>4. nextSequence <= e
    BY <1>1, <1>2, <2>1
  <2>5. QED BY <2>1, <2>3, <2>4 DEF AsideIsAhead
<1>5. ASSUME NEW e \in Events, NEW h \in PayloadHashes, Apply(e, h) PROVE AsideIsAhead'
  <2>1. /\ e = nextSequence /\ e \notin acked /\ nextSequence' = e + 1 /\ outOfOrder' = outOfOrder
    BY <1>5 DEF Apply, Fresh
  <2>2. nextSequence \notin Held(outOfOrder)
    BY <1>1, <2>1
  <2>3. \A x \in Held(outOfOrder) : nextSequence + 1 <= x
    <3> SUFFICES ASSUME NEW x \in Held(outOfOrder) PROVE nextSequence + 1 <= x
      OBVIOUS
    <3>1. x \in Nat /\ x # nextSequence /\ nextSequence <= x
      BY <1>2, <2>2 DEF AsideIsAhead
    <3>2. QED BY <1>1, <3>1
  <2>4. QED BY <2>1, <2>3 DEF AsideIsAhead, Held
<1>6. QED
  BY <1>3, <1>4, <1>5 DEF ConsumerNext, ConsumeEvent, Tampered, consumerVars

\* An event that came out of order is never applied (consumeEvent acks it and
\* keeps no copy): for any number of events and copies the cursor stays at or
\* before the first event that was set aside, for ever.
THEOREM CursorStopsAtGap == ConsumerSpec => [](AsideIsAhead /\ Held(outOfOrder) \cap Held(applied) = {})
<1>1. ConsumerInit => AsideIsAhead
  <2> SUFFICES ASSUME ConsumerInit, NEW i \in 1 .. Len(outOfOrder) PROVE FALSE
    BY DEF AsideIsAhead, Held
  <2> QED BY DEF ConsumerInit
<1>2. FeedInv /\ AsideIsAhead => Held(outOfOrder) \cap Held(applied) = {}
  <2> SUFFICES ASSUME FeedInv, AsideIsAhead, NEW e \in Held(outOfOrder), e \in Held(applied)
               PROVE  FALSE
    OBVIOUS
  <2>1. nextSequence \in Nat \ {0} /\ nextSequence <= e /\ e \in 1 .. nextSequence - 1
    BY AppliedAreBehind DEF AsideIsAhead, FeedInv
  <2> QED BY <2>1
<1>3. QED BY <1>1, <1>2, AsideNext, FeedInit, FeedNext, PTL DEF ConsumerSpec

-----------------------------------------------------------------------------
\* The receiver.  Its Map is as long as its history, until it is full.
MapInv ==
  /\ MemoryIsRecent
  /\ Len(seen) = IF Len(log) <= MaxEntries THEN Len(log) ELSE MaxEntries

LEMMA MapInit == ReceiverInit => MapInv
<1> SUFFICES ASSUME ReceiverInit PROVE MapInv
  OBVIOUS
<1>1. seen = <<>> /\ log = <<>> /\ Len(seen) = 0 /\ Len(log) = 0
  BY DEF ReceiverInit
<1>2. ReceiverTypeOK
  BY <1>1, ReceiverAssumption DEF ReceiverInit, ReceiverTypeOK
<1>3. QED BY <1>1, <1>2, ReceiverAssumption
          DEF MapInv, MemoryIsRecent, RerunsAreFarApart, RemembersTheLatest

\* A key that is handled is none of those remembered, and these are the latest.
LEMMA HandleInv ==
  ASSUME MapInv, NEW key \in Keys, NEW t \in Stamps, NEW state \in WebhookStates,
         Handle(key, t, state)
  PROVE  MapInv'
<1> DEFINE entry == [key |-> key, sentAt |-> t, at |-> now, state |-> state]
           kept == IF Len(seen) >= MaxEntries THEN Tail(seen) ELSE seen
           d == IF Len(seen) >= MaxEntries THEN 1 ELSE 0
           lag == Len(log) - Len(seen)
           M == [key : Keys, state : WebhookStates]
           H == [key : Keys, sentAt : Stamps, at : 0 .. LastTime, state : WebhookStates]
<1>1. /\ seen' = Append(kept, [key |-> key, state |-> state])
      /\ log' = Append(log, entry) /\ ~Seen(key) /\ UNCHANGED <<mode, now>>
  BY DEF Handle, Remember
<1>2. /\ seen \in Seq(M) /\ log \in Seq(H) /\ mode \in {"DRY_RUN", "LIVE"} /\ now \in 0 .. LastTime
      /\ Len(seen) \in Nat /\ Len(log) \in Nat /\ MaxEntries \in Nat \ {0}
      /\ Len(seen) = IF Len(log) <= MaxEntries THEN Len(log) ELSE MaxEntries
  BY ReceiverAssumption DEF MapInv, MemoryIsRecent, ReceiverTypeOK
<1>3. entry \in H /\ [key |-> key, state |-> state] \in M
  BY <1>2
<1>4. /\ log' \in Seq(H) /\ Len(log') = Len(log) + 1 /\ log'[Len(log) + 1] = entry
      /\ \A i \in 1 .. Len(log) : log'[i] = log[i]
  BY <1>1, <1>2, <1>3, AppendProperties
<1>5. /\ kept \in Seq(M) /\ Len(kept) \in Nat /\ d \in Nat
      /\ Len(kept) = IF Len(log) < MaxEntries THEN Len(log) ELSE MaxEntries - 1
      /\ Len(seen) = Len(kept) + d
      /\ \A i \in 1 .. Len(kept) : kept[i] = seen[i + d]
  <2>1. CASE Len(seen) >= MaxEntries
    <3>1. seen # <<>>
      BY <1>2, <2>1
    <3>2. /\ Tail(seen) \in Seq(M) /\ Len(Tail(seen)) = Len(seen) - 1
          /\ \A i \in 1 .. Len(Tail(seen)) : Tail(seen)[i] = seen[i + 1]
      BY <1>2, <3>1, HeadTailProperties
    <3>3. kept = Tail(seen) /\ d = 1
      BY <2>1
    <3>4. Len(seen) = MaxEntries /\ ~(Len(log) < MaxEntries)
      BY <1>2, <2>1
    <3>5. QED BY <1>2, <3>2, <3>3, <3>4
  <2>2. CASE ~(Len(seen) >= MaxEntries)
    <3>1. kept = seen /\ d = 0
      BY <2>2
    <3>2. Len(log) < MaxEntries /\ Len(seen) = Len(log)
      BY <1>2, <2>2
    <3>3. \A i \in 1 .. Len(seen) : i + 0 = i
      BY <1>2
    <3>4. QED BY <1>2, <3>1, <3>2, <3>3
  <2>3. QED BY <2>1, <2>2
<1> HIDE DEF kept, d, entry, M, H
<1>6. /\ seen' \in Seq(M) /\ Len(seen') = Len(kept) + 1
      /\ seen'[Len(kept) + 1] = [key |-> key, state |-> state]
      /\ \A i \in 1 .. Len(kept) : seen'[i] = kept[i]
  BY <1>1, <1>3, <1>5, AppendProperties
<1>7. Len(seen') = IF Len(log') <= MaxEntries THEN Len(log') ELSE MaxEntries
  BY <1>2, <1>4, <1>5, <1>6
<1>8. ReceiverTypeOK'
  BY <1>1, <1>2, <1>4, <1>6, <1>7 DEF ReceiverTypeOK, M, H
<1>9. /\ \A i \in 1 .. Len(seen) :
           seen[i] = [key |-> log[lag + i].key, state |-> log[lag + i].state]
      /\ lag \in Nat /\ Len(log) = lag + Len(seen)
      /\ lag' = lag + d
  <2>1. RemembersTheLatest
    BY DEF MapInv, MemoryIsRecent
  <2>2. lag \in Nat /\ Len(log) = lag + Len(seen)
    BY <1>2
  <2>3. lag' = lag + d
    <3>1. Len(log') = Len(log) + 1 /\ Len(seen') = Len(kept) + 1 /\ Len(seen) = Len(kept) + d
      BY <1>4, <1>5, <1>6
    <3>2. Len(log) \in Nat /\ Len(kept) \in Nat /\ d \in Nat
      BY <1>2, <1>5
    <3>3. QED BY <3>1, <3>2
  <2>4. QED BY <2>1, <2>2, <2>3 DEF RemembersTheLatest
<1>10. /\ lag \in Nat /\ Len(log) = lag + Len(seen) /\ lag' = lag + d
      /\ Len(seen) = Len(kept) + d /\ d \in Nat /\ Len(kept) \in Nat /\ Len(seen) \in Nat
      /\ Len(log') = Len(log) + 1 /\ Len(log) \in Nat
  BY <1>2, <1>4, <1>5, <1>9
<1> HIDE DEF lag
<1>11. lag > 0 => Len(seen) = MaxEntries /\ MaxEntries \in Nat
  <2>1. /\ MaxEntries \in Nat
        /\ Len(seen) = IF Len(log) <= MaxEntries THEN Len(log) ELSE MaxEntries
    BY <1>2
  <2>2. QED BY <1>10, <2>1
<1>12. \A i \in 1 .. Len(seen') :
         seen'[i] = [key |-> log'[lag' + i].key, state |-> log'[lag' + i].state]
  <2>1. ASSUME NEW i \in 1 .. Len(seen')
        PROVE  seen'[i] = [key |-> log'[lag' + i].key, state |-> log'[lag' + i].state]
    <3>1. CASE i = Len(kept) + 1
      <4>1. lag' + i = Len(log) + 1
        BY <1>10, <3>1
      <4>2. QED BY <1>4, <1>6, <3>1, <4>1 DEF entry
    <3>2. CASE i # Len(kept) + 1
      <4>1. i \in 1 .. Len(kept) /\ i + d \in 1 .. Len(seen)
        BY <1>2, <1>5, <1>6, <3>2
      <4>2. seen'[i] = seen[i + d]
        BY <1>5, <1>6, <4>1
      <4>3. lag' + i = lag + (i + d) /\ lag' + i \in 1 .. Len(log)
        BY <1>10, <4>1
      <4>4. log'[lag' + i] = log[lag + (i + d)]
        BY <1>4, <4>3
      <4>5. QED BY <1>9, <4>1, <4>2, <4>4
    <3>3. QED BY <3>1, <3>2
  <2>2. QED BY <2>1
<1>13. RemembersTheLatest'
  BY <1>12 DEF RemembersTheLatest, lag
<1>14. RerunsAreFarApart'
  <2>1. ASSUME NEW i \in 1 .. Len(log'), NEW j \in 1 .. Len(log'), i < j, log'[i].key = log'[j].key
        PROVE  j - i > MaxEntries
    <3>1. CASE j \in 1 .. Len(log)
      <4>1. i \in 1 .. Len(log)
        BY <1>2, <2>1, <3>1
      <4>2. log[i].key = log[j].key
        BY <1>4, <2>1, <3>1, <4>1
      <4>3. QED BY <2>1, <3>1, <4>1, <4>2 DEF MapInv, MemoryIsRecent, RerunsAreFarApart
    <3>2. CASE j = Len(log) + 1
      <4>1. i \in 1 .. Len(log) /\ log[i].key = key
        BY <1>2, <1>4, <2>1, <3>2 DEF entry
      <4>2. i <= lag
        <5>1. ASSUME NEW m \in 1 .. Len(seen), i = lag + m PROVE FALSE
          <6>1. seen[m] = [key |-> log[i].key, state |-> log[i].state]
            BY <1>9, <5>1
          <6>2. seen[m].key = key
            BY <4>1, <6>1
          <6>3. QED BY <1>1, <6>2 DEF Seen
        <5>2. i > lag => i - lag \in 1 .. Len(seen) /\ i = lag + (i - lag)
          BY <1>10, <4>1
        <5>3. QED BY <1>10, <4>1, <5>1, <5>2
      <4>3. lag > 0
        BY <1>10, <4>1, <4>2
      <4>4. QED BY <1>10, <1>11, <3>2, <4>1, <4>2, <4>3
    <3>3. QED BY <1>2, <1>4, <3>1, <3>2
  <2>2. QED BY <2>1 DEF RerunsAreFarApart
<1>15. QED BY <1>7, <1>8, <1>13, <1>14 DEF MapInv, MemoryIsRecent

LEMMA MapNext == MapInv /\ [ReceiverNext]_receiverVars => MapInv'
<1> SUFFICES ASSUME MapInv, [ReceiverNext]_receiverVars PROVE MapInv'
  OBVIOUS
<1>1. CASE Tick
  <2>1. UNCHANGED <<mode, seen, log>> /\ now' \in 0 .. LastTime
    BY <1>1, ReceiverAssumption DEF Tick, MapInv, MemoryIsRecent, ReceiverTypeOK
  <2>2. QED BY <2>1 DEF MapInv, MemoryIsRecent, ReceiverTypeOK, RerunsAreFarApart, RemembersTheLatest
<1>2. CASE Reset
  <2>1. seen' = <<>> /\ log' = <<>> /\ Len(seen') = 0 /\ Len(log') = 0 /\ UNCHANGED <<mode, now>>
    BY <1>2 DEF Reset
  <2>2. ReceiverTypeOK'
    BY <2>1, ReceiverAssumption DEF MapInv, MemoryIsRecent, ReceiverTypeOK
  <2>3. QED BY <2>1, <2>2, ReceiverAssumption
            DEF MapInv, MemoryIsRecent, RerunsAreFarApart, RemembersTheLatest
<1>3. CASE UNCHANGED receiverVars
  BY <1>3 DEF receiverVars, MapInv, MemoryIsRecent, ReceiverTypeOK, RerunsAreFarApart,
              RemembersTheLatest
<1>4. QED BY <1>1, <1>2, <1>3, HandleInv DEF ReceiverNext

\* What the receiver remembers is what it handled last, and a key it handles
\* twice had more than MaxEntries others between, for any clocks and skews.
THEOREM MemoryHolds == ReceiverSpec => []MemoryIsRecent
<1>1. MapInv => MemoryIsRecent
  BY DEF MapInv
<1>2. QED BY <1>1, MapInit, MapNext, PTL DEF ReceiverSpec
=============================================================================
