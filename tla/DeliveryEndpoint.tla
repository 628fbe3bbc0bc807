-------------------------- MODULE DeliveryEndpoint --------------------------
(***************************************************************************)
(* The HTTP endpoint of delivery evidence, packages/delivery/http.js.  The *)
(* first guards of a request run in one turn; its body comes in later, one *)
(* chunk at a time, while other requests are received.  The report on a    *)
(* fixture is DeliveryEvidence's: here a fixture is one that verifies, one *)
(* that is rejected, one that the gate throws on, or no JSON.              *)
(***************************************************************************)
EXTENDS Naturals, FiniteSets, Sequences

CONSTANTS
  Peers,        \* addresses of clients
  Spellings,    \* of those a dual-stack listener uses: see NormalizeRemoteAddress
  WindowMs,     \* rateLimit.windowMs
  MaxRate,      \* rateLimit.max
  PruneAt,      \* rateLimit.pruneAt
  EndOfTime,    \* bound of the model: the clock stops here
  MaxAdmitted,  \* bound of the model: so many requests pass the limiter
  MaxReading    \* bound of the model: and so many bodies are read at a time

ASSUME EndpointAssumption ==
  /\ Spellings \subseteq {"plain", "mapped", "hex"}
  /\ {WindowMs, MaxRate, PruneAt, EndOfTime, MaxAdmitted, MaxReading} \subseteq Nat \ {0}

VARIABLES
  ended,        \* "no" while the process runs, or what ended it
  now,          \* its clock
  listed,       \* what allowAddresses was set to: {} for none, or {its set}
  buckets,      \* the limiter's: from a raw address to [start, count]
  checkedAt,    \* when the limiter was asked last
  reading,      \* the requests whose body is being read
  answered,     \* the status of the last answer
  admitted      \* the addresses and times of the admitted, oldest first

endpointVars == <<ended, now, listed, buckets, checkedAt, reading, answered, admitted>>

\* A dual-stack listener may spell an address as it is, mapped with dots, or
\* mapped in hex, which is left as it is.  The allowlist and the classes of
\* clients work on the normalized one, the limiter on the raw.
RawAddresses == Peers \X Spellings
NormalizeRemoteAddress(raw) == IF raw[2] = "mapped" THEN <<raw[1], "plain">> ELSE raw

NoBuckets == [k \in {} |-> 0]
EndpointInit ==
  /\ ended = "no" /\ now = 0 /\ checkedAt = 0 /\ answered = 0
  /\ listed = {} /\ buckets = NoBuckets /\ reading = {} /\ admitted = <<>>

\* The operator may have given a list of addresses; an empty one is accepted,
\* and it filters nothing.
CreateAddressGate(addresses) ==
  /\ now = 0 /\ answered = 0 /\ reading = {} /\ listed = {}
  /\ listed' = {{NormalizeRemoteAddress(raw) : raw \in addresses}}
  /\ UNCHANGED <<ended, now, buckets, checkedAt, reading, answered, admitted>>
Allowed(raw) == \A set \in listed : set = {} \/ NormalizeRemoteAddress(raw) \in set

-----------------------------------------------------------------------------
\* The limiter: a window per raw address; buckets that ran out are swept when
\* there are many.
\* A mutant: a window ends a moment early.
RunsOutEarly(b) == now - b.start >= WindowMs - 1
RanOut(b) == now - b.start >= WindowMs
\* Mutant of Sweep: it drops whatever it finds.
SweepAll == NoBuckets
Sweep == [k \in {k \in DOMAIN buckets : ~RanOut(buckets[k])} |-> buckets[k]]
Kept == IF Cardinality(DOMAIN buckets) >= PruneAt THEN Sweep ELSE buckets
Bucket(raw) ==
  IF raw \in DOMAIN Kept /\ ~RanOut(Kept[raw]) THEN Kept[raw] ELSE [start |-> now, count |-> 0]
WithinRate(raw) == Bucket(raw).count < MaxRate
Check(raw) ==
  LET counted == [Bucket(raw) EXCEPT !.count = IF WithinRate(raw) THEN @ + 1 ELSE @]
  IN  /\ buckets' = [k \in DOMAIN Kept \cup {raw} |-> IF k = raw THEN counted ELSE Kept[k]]
      /\ checkedAt' = now
      /\ admitted' = IF WithinRate(raw) THEN Append(admitted, [raw |-> raw, at |-> now]) ELSE admitted

\* The two urls that take a fixture differ in the report only.
Bodies == {"verifies", "rejected", "throws", "garbled", "overlong", "declared overlong"}
Requests ==
  [url : {"POST"}, body : Bodies]
    \cup [url : {"GET /health", "other"}, body : {"unread", "declared overlong"}]
\* The guards, in their order, and what they answer; a body is waited for.
Guarded(raw, url, body) ==
  IF ~Allowed(raw) THEN 403
  ELSE IF url # "GET /health" /\ ~WithinRate(raw) THEN 429
  ELSE IF body = "declared overlong" THEN 413
  ELSE IF url = "GET /health" THEN 200
  ELSE IF url = "other" THEN 404
  ELSE 0     \* none yet: the body is read

Receive(raw, url, body) ==
  /\ ended = "no"
  /\ LET status == Guarded(raw, url, body)
     IN  IF status = 0
         THEN /\ Cardinality(reading) < MaxReading
              /\ reading' = reading \cup {[raw |-> raw, body |-> body]} /\ UNCHANGED answered
         ELSE answered' = status /\ UNCHANGED reading
  /\ IF Allowed(raw) /\ url # "GET /health" THEN Len(admitted) < MaxAdmitted /\ Check(raw)
     ELSE UNCHANGED <<buckets, checkedAt, admitted>>
  /\ UNCHANGED <<ended, now, listed>>

\* The last chunk, or the one that is too many; the fixture is parsed and goes
\* through the gate.  Nothing catches what the gate throws, or the connection.
Status == [verifies |-> 200, rejected |-> 422, garbled |-> 400, overlong |-> 413]
FinishBody(r) ==
  /\ ended = "no"
  /\ IF r.body \in DOMAIN Status THEN answered' = Status[r.body] /\ UNCHANGED ended
     ELSE ended' = "by a fixture" /\ UNCHANGED answered
  /\ reading' = reading \ {r}
  /\ UNCHANGED <<now, listed, buckets, checkedAt, admitted>>
LoseConnection(r) ==
  /\ ended = "no" /\ ended' = "by a lost connection"
  /\ reading' = reading \ {r}
  /\ UNCHANGED <<now, listed, buckets, checkedAt, answered, admitted>>

Tick == /\ ended = "no" /\ now < EndOfTime /\ now' = now + 1
        /\ UNCHANGED <<ended, listed, buckets, checkedAt, reading, answered, admitted>>

EndpointNext ==
  \/ \E a \in SUBSET (RawAddresses \cup {<<"another host", "plain">>}) : CreateAddressGate(a)
  \/ \E raw \in RawAddresses, r \in Requests : Receive(raw, r.url, r.body)
  \/ \E r \in reading : FinishBody(r) \/ LoseConnection(r)
  \/ Tick

EndpointSpec == EndpointInit /\ [][EndpointNext]_endpointVars

-----------------------------------------------------------------------------
\* The limit holds across the turns of a window too: a window starts with the
\* first it lets through, so that two of them that touch let through less than
\* twice the limit in any time that is shorter than one of them.
LessThanTwiceTheLimit ==
  \A i \in DOMAIN admitted :
    LET soon == {j \in i..Len(admitted) : /\ admitted[j].raw = admitted[i].raw
                                          /\ admitted[j].at - admitted[i].at < WindowMs}
    IN  Cardinality(soon) < 2 * MaxRate
=============================================================================
