--------------------------- MODULE RecoveryProofs ---------------------------
(***************************************************************************)
(* What a recovery run keeps through crashes and restarts, for any list of *)
(* providers, any hashes, receipts and calldata, and any number of faults: *)
(* the journal tells the truth about the network, nothing is sent twice    *)
(* once a hash is journaled, and VERIFIED is true when one provider is     *)
(* honest.                                                                 *)
(***************************************************************************)
EXTENDS RecoveryDriver, FiniteSetTheorems, TLAPS

HonestListed == \E k \in 1 .. Len(ProviderList) : ProviderList[k] \in Honest

\* What holds of the journal and the network, wherever the process is.  A hash
\* and a verdict are journaled once, the hash before anything that was read by
\* it; and an honest answer stays what the chain shows.
JournalInv ==
  /\ \A event \in {"SEND_RESULT", "VERDICT"} : \A i, j \in Entries(event) : i = j
  /\ Has("RECEIPT_READ") \/ IsTerminal => Has("SEND_RESULT")
  /\ WriteAhead
  /\ ReadsAreOfSentTx
  /\ \A i \in Entries("RECEIPT_READ") : MayAnswer(journal[i].provider, journal[i].answer)
  /\ \A i \in Entries("VERDICT") :
       journal[i].state = "VERIFIED" /\ HonestListed => outcome[SentTx] \in WithEvent

\* What a process that runs knows of them.
ProcessInv ==
  /\ pc # "DOWN" => calldata \in Calldata
  /\ pc \in {"DECLARE", "BROADCAST", "RECORD", "READ"} => ~IsTerminal
  /\ pc \in {"DOWN", "DECLARE", "BROADCAST", "RECORD"} => next = 1
  /\ pc \in {"BROADCAST", "RECORD"} => Has("SEND_INTENT") /\ ~Has("SEND_RESULT")
  /\ pc = "RECORD" => \E i \in 1 .. Len(sent) : sent[i] = got
  /\ pc = "READ" =>
       /\ Has("SEND_RESULT")
       /\ \A k \in 1 .. next - 1 :
            \E i \in Entries("RECEIPT_READ") : journal[i].provider = ProviderList[k]

DriverInv == DriverTypeOK /\ JournalInv /\ ProcessInv

-----------------------------------------------------------------------------
\* What an append does to the positions of the entries of each kind.
LEMMA AppendedAt ==
  ASSUME journal \in Seq(Entry), NEW e \in Entry, journal' = Append(journal, e)
  PROVE  /\ journal' \in Seq(Entry)
         /\ Len(journal) \in Nat /\ Len(journal') = Len(journal) + 1
         /\ journal'[Len(journal) + 1] = e
         /\ \A i \in 1 .. Len(journal) : journal'[i] = journal[i]
         /\ \A event : event # e.event => Entries(event)' = Entries(event)
         /\ Entries(e.event)' = Entries(e.event) \cup {Len(journal) + 1}
         /\ \A event : Entries(event) \subseteq 1 .. Len(journal)
<1>1. /\ journal' \in Seq(Entry)
      /\ Len(journal) \in Nat /\ Len(journal') = Len(journal) + 1
      /\ journal'[Len(journal) + 1] = e
      /\ \A i \in 1 .. Len(journal) : journal'[i] = journal[i]
  OBVIOUS
<1>2. 1 .. Len(journal') = (1 .. Len(journal)) \cup {Len(journal) + 1}
  BY <1>1
<1>3. \A event : Entries(event)' = {i \in 1 .. Len(journal') : journal'[i].event = event}
  BY DEF Entries
<1>4. QED BY <1>1, <1>2, <1>3 DEF Entries

\* The oldest of one entry is that entry.
LEMMA OldestOfOne ==
  ASSUME NEW S \in SUBSET Nat, NEW k \in S, \A i, j \in S : i = j
  PROVE  (CHOOSE i \in S : \A j \in S : i <= j) = k
<1>1. \A j \in S : k <= j
  OBVIOUS
<1>2. QED BY <1>1

LEMMA SentTxIs ==
  ASSUME JournalInv, NEW k \in Entries("SEND_RESULT") PROVE SentTx = journal[k].tx
<1>1. Entries("SEND_RESULT") \in SUBSET Nat
  BY DEF Entries
<1>2. (CHOOSE i \in Entries("SEND_RESULT") : \A j \in Entries("SEND_RESULT") : i <= j) = k
  BY <1>1, OldestOfOne DEF JournalInv
<1>3. QED BY <1>2 DEF SentTx, Has, First

\* The same entries of that kind mean the same hash, if there is one or not.
LEMMA SameSentTx ==
  ASSUME JournalInv, Entries("SEND_RESULT")' = Entries("SEND_RESULT"),
         \A i \in Entries("SEND_RESULT") : journal'[i] = journal[i]
  PROVE  SentTx' = SentTx
<1>1. CASE Entries("SEND_RESULT") = {}
  BY <1>1 DEF SentTx, Has
<1>2. ASSUME NEW k \in Entries("SEND_RESULT") PROVE SentTx' = SentTx
  <2>1. (CHOOSE i \in Entries("SEND_RESULT") : \A j \in Entries("SEND_RESULT") : i <= j) = k
    <3>1. Entries("SEND_RESULT") \in SUBSET Nat
      BY DEF Entries
    <3>2. QED BY <3>1, OldestOfOne DEF JournalInv
  <2>2. First("SEND_RESULT")' = journal'[k] /\ First("SEND_RESULT") = journal[k]
    BY <2>1 DEF First
  <2>3. QED BY <2>2 DEF SentTx, Has
<1>3. QED BY <1>1, <1>2

\* An entry of another kind leaves the hash as it was.
LEMMA SentTxStays ==
  ASSUME JournalInv, journal \in Seq(Entry), NEW e \in Entry, journal' = Append(journal, e),
         e.event # "SEND_RESULT"
  PROVE  SentTx' = SentTx
<1>1. /\ Entries("SEND_RESULT")' = Entries("SEND_RESULT")
      /\ Entries("SEND_RESULT") \subseteq 1 .. Len(journal)
      /\ \A i \in 1 .. Len(journal) : journal'[i] = journal[i]
  BY AppendedAt
<1>2. QED BY <1>1, SameSentTx

-----------------------------------------------------------------------------
\* JournalInv through the ways the journal and the network change.
LEMMA Quiet ==
  ASSUME JournalInv, UNCHANGED <<journal, sent, outcome>>
  PROVE  JournalInv' /\ SentTx' = SentTx /\ \A event : Entries(event)' = Entries(event)
<1>1. \A event : Entries(event)' = Entries(event)
  BY DEF Entries
<1>2. SentTx' = SentTx
  BY <1>1, SameSentTx
<1>3. WriteAhead' /\ ReadsAreOfSentTx'
  BY <1>1, <1>2 DEF JournalInv, WriteAhead, ReadsAreOfSentTx, Has
<1>4. (\A i \in Entries("RECEIPT_READ") : MayAnswer(journal[i].provider, journal[i].answer))'
  BY <1>1, <1>2 DEF JournalInv, MayAnswer
<1>5. QED BY <1>1, <1>2, <1>3, <1>4 DEF JournalInv, Has, IsTerminal

\* A broadcast comes before the hash is journaled, so nothing was read yet.
LEMMA SendInv ==
  ASSUME DriverTypeOK, JournalInv, NEW tx \in Hashes, Send(tx), UNCHANGED journal,
         Has("SEND_INTENT"), ~Has("SEND_RESULT")
  PROVE  /\ JournalInv'
         /\ sent' \in Seq(Hashes) /\ outcome' \in [Hashes -> Outcomes]
         /\ \E i \in 1 .. Len(sent') : sent'[i] = tx
<1>1. \A event : Entries(event)' = Entries(event)
  BY DEF Entries
<1>2. Entries("SEND_RESULT") = {} /\ Entries("RECEIPT_READ") = {} /\ Entries("VERDICT") = {}
  BY DEF JournalInv, Has, IsTerminal
<1>3. /\ sent' \in Seq(Hashes) /\ outcome' \in [Hashes -> Outcomes]
      /\ \E i \in 1 .. Len(sent') : sent'[i] = tx
  <2>1. sent \in Seq(Hashes) /\ sent' = Append(sent, tx)
    BY DEF Send, DriverTypeOK
  <2>2. /\ sent' \in Seq(Hashes) /\ Len(sent) \in Nat /\ Len(sent') = Len(sent) + 1
        /\ sent'[Len(sent) + 1] = tx
    BY <2>1
  <2>3. outcome' \in [Hashes -> Outcomes]
    BY DEF Send, DriverTypeOK
  <2>4. QED BY <2>2, <2>3
<1>4. WriteAhead' /\ ReadsAreOfSentTx'
  BY <1>1, <1>2 DEF WriteAhead, ReadsAreOfSentTx, Has, Entries
<1>5. QED BY <1>1, <1>2, <1>3, <1>4 DEF JournalInv, Has, IsTerminal

LEMMA NoteInv ==
  ASSUME DriverTypeOK, JournalInv, NEW e \in Entry, journal' = Append(journal, e),
         e.event \in {"SEND_INTENT", "RECONSTRUCTION"}, UNCHANGED <<sent, outcome>>
  PROVE  JournalInv'
<1>1. SentTx' = SentTx
  BY SentTxStays DEF DriverTypeOK, RunTypeOK
<1>2. /\ \A event \in {"SEND_RESULT", "VERDICT", "RECEIPT_READ"} : Entries(event)' = Entries(event)
      /\ Entries("SEND_INTENT") \subseteq Entries("SEND_INTENT")'
      /\ Len(journal) \in Nat /\ Len(journal') = Len(journal) + 1
      /\ journal'[Len(journal) + 1] = e
      /\ \A i \in 1 .. Len(journal) : journal'[i] = journal[i]
      /\ \A event : Entries(event) \subseteq 1 .. Len(journal)
  BY AppendedAt DEF DriverTypeOK, RunTypeOK
<1>3. WriteAhead'
  BY <1>1, <1>2 DEF JournalInv, WriteAhead, Has
<1>4. ReadsAreOfSentTx'
  BY <1>1, <1>2 DEF JournalInv, ReadsAreOfSentTx
<1>5. (\A i \in Entries("RECEIPT_READ") : MayAnswer(journal[i].provider, journal[i].answer))'
  BY <1>1, <1>2 DEF JournalInv, MayAnswer
<1>6. QED BY <1>1, <1>2, <1>3, <1>4, <1>5 DEF JournalInv, Has, IsTerminal

\* The first hash: nothing was read or decided before it.
LEMMA HashInv ==
  ASSUME DriverTypeOK, JournalInv, NEW tx \in Hashes, ~Has("SEND_RESULT"),
         journal' = Append(journal, [event |-> "SEND_RESULT", tx |-> tx]),
         \E i \in 1 .. Len(sent) : sent[i] = tx, UNCHANGED <<sent, outcome>>
  PROVE  JournalInv' /\ SentTx' = tx /\ Has("SEND_RESULT")'
<1> DEFINE e == [event |-> "SEND_RESULT", tx |-> tx]
           n == Len(journal) + 1
<1>1. e \in Entry /\ e.event = "SEND_RESULT"
  BY DEF Entry
<1>2. Entries("SEND_RESULT") = {} /\ Entries("RECEIPT_READ") = {} /\ Entries("VERDICT") = {}
  BY DEF JournalInv, Has, IsTerminal
<1>3. /\ Entries("SEND_RESULT")' = {n}
      /\ Entries("RECEIPT_READ")' = {} /\ Entries("VERDICT")' = {}
      /\ Entries("SEND_INTENT")' = Entries("SEND_INTENT")
      /\ n \in Nat /\ journal'[n] = e
  <2>1. journal \in Seq(Entry)
    BY DEF DriverTypeOK, RunTypeOK
  <2>2. Entries(e.event)' = Entries(e.event) \cup {n}
    BY <1>1, <2>1, AppendedAt
  <2>3. /\ \A event : event # e.event => Entries(event)' = Entries(event)
        /\ n \in Nat /\ journal'[n] = e
    BY <1>1, <2>1, AppendedAt
  <2>4. QED BY <1>1, <1>2, <2>2, <2>3
<1>4. SentTx' = tx
  <2>1. (CHOOSE i \in {n} : \A j \in {n} : i <= j) = n
    BY <1>3, OldestOfOne
  <2>2. First("SEND_RESULT")' = e
    BY <1>3, <2>1 DEF First
  <2>3. QED BY <1>3, <2>2 DEF SentTx, Has
<1>5. WriteAhead'
  BY <1>3, <1>4 DEF JournalInv, WriteAhead, Has
<1>6. ReadsAreOfSentTx'
  <2>1. \A i \in 1 .. Len(journal') :
          journal'[i].event = "RECEIPT_READ" => i \in Entries("RECEIPT_READ")'
    BY DEF Entries
  <2>2. \A i \in 1 .. Len(journal') : journal'[i].event = "VERDICT" => i \in Entries("VERDICT")'
    BY DEF Entries
  <2>3. QED BY <1>3, <2>1, <2>2 DEF ReadsAreOfSentTx
<1>7. QED BY <1>3, <1>5, <1>6, <1>4 DEF JournalInv, Has, IsTerminal

LEMMA ReadInv ==
  ASSUME DriverTypeOK, JournalInv, Has("SEND_RESULT"), ~IsTerminal,
         NEW p \in Providers, NEW a \in Answer, MayAnswer(p, a),
         journal' = Append(journal, [event |-> "RECEIPT_READ", tx |-> SentTx,
                                     provider |-> p, answer |-> a]),
         [event |-> "RECEIPT_READ", tx |-> SentTx, provider |-> p, answer |-> a] \in Entry,
         UNCHANGED <<sent, outcome>>
  PROVE  JournalInv'
<1> DEFINE e == [event |-> "RECEIPT_READ", tx |-> SentTx, provider |-> p, answer |-> a]
           n == Len(journal) + 1
<1>1. SentTx' = SentTx
  BY SentTxStays DEF DriverTypeOK, RunTypeOK
<1>2. /\ \A event \in {"SEND_RESULT", "VERDICT", "SEND_INTENT"} : Entries(event)' = Entries(event)
      /\ Entries("RECEIPT_READ")' = Entries("RECEIPT_READ") \cup {n}
      /\ Len(journal) \in Nat /\ Len(journal') = n
      /\ journal'[n] = e
      /\ \A i \in 1 .. Len(journal) : journal'[i] = journal[i]
      /\ \A event : Entries(event) \subseteq 1 .. Len(journal)
  BY AppendedAt DEF DriverTypeOK, RunTypeOK
<1>3. WriteAhead'
  BY <1>1, <1>2 DEF JournalInv, WriteAhead, Has
<1>4. ReadsAreOfSentTx'
  BY <1>1, <1>2 DEF JournalInv, ReadsAreOfSentTx
<1>5. (\A i \in Entries("RECEIPT_READ") : MayAnswer(journal[i].provider, journal[i].answer))'
  BY <1>1, <1>2 DEF JournalInv, MayAnswer
<1>6. QED BY <1>1, <1>2, <1>3, <1>4, <1>5 DEF JournalInv, Has, IsTerminal

\* An honest provider was read without an error, so a verified view is its own.
LEMMA VerifiedMeans ==
  ASSUME DriverTypeOK, JournalInv, VerdictState(SentTx) = "VERIFIED", HonestListed,
         \A k \in 1 .. Len(ProviderList) :
           \E i \in Entries("RECEIPT_READ") : journal[i].provider = ProviderList[k]
  PROVE  outcome[SentTx] \in WithEvent
<1>1. PICK i \in Entries("RECEIPT_READ") : journal[i].provider \in Honest
  BY DEF HonestListed
<1>2. MayAnswer(journal[i].provider, journal[i].answer) /\ journal[i].answer \in Answers
  BY <1>1 DEF JournalInv, Answers
<1>3. /\ ~\E a \in Answers : a.status = "0x0"
      /\ ~\E a \in Answers : a.error
      /\ SeenViews \subseteq WithEvent
  BY DEF VerdictState
<1>4. /\ journal[i].answer.status = "0x1"
      /\ journal[i].answer.view = outcome[SentTx]
  BY <1>1, <1>2, <1>3 DEF MayAnswer
<1>5. QED BY <1>2, <1>3, <1>4 DEF SeenViews

LEMMA VerdictInv ==
  ASSUME DriverTypeOK, JournalInv, Has("SEND_RESULT"), ~IsTerminal,
         \A k \in 1 .. Len(ProviderList) :
           \E i \in Entries("RECEIPT_READ") : journal[i].provider = ProviderList[k],
         NEW v \in Entry, v.event = "VERDICT", v.state = VerdictState(SentTx), v.tx = SentTx,
         journal' = Append(journal, v), UNCHANGED <<sent, outcome>>
  PROVE  JournalInv'
<1> DEFINE n == Len(journal) + 1
<1>1. SentTx' = SentTx
  BY SentTxStays DEF DriverTypeOK, RunTypeOK
<1>2. /\ \A event \in {"SEND_RESULT", "RECEIPT_READ", "SEND_INTENT"} : Entries(event)' = Entries(event)
      /\ Entries("VERDICT")' = Entries("VERDICT") \cup {n}
      /\ Len(journal) \in Nat /\ Len(journal') = n
      /\ journal'[n] = v
      /\ \A i \in 1 .. Len(journal) : journal'[i] = journal[i]
      /\ \A event : Entries(event) \subseteq 1 .. Len(journal)
  BY AppendedAt DEF DriverTypeOK, RunTypeOK
<1>3. Entries("VERDICT") = {}
  BY DEF IsTerminal, Has
<1>4. WriteAhead'
  BY <1>1, <1>2 DEF JournalInv, WriteAhead, Has
<1>5. ReadsAreOfSentTx'
  BY <1>1, <1>2 DEF JournalInv, ReadsAreOfSentTx
<1>6. (\A i \in Entries("RECEIPT_READ") : MayAnswer(journal[i].provider, journal[i].answer))'
  BY <1>1, <1>2 DEF JournalInv, MayAnswer
<1>7. (\A i \in Entries("VERDICT") :
         journal[i].state = "VERIFIED" /\ HonestListed => outcome[SentTx] \in WithEvent)'
  BY <1>1, <1>2, <1>3, VerifiedMeans DEF HonestListed
<1>8. QED BY <1>2, <1>3, <1>4, <1>5, <1>6, <1>7 DEF JournalInv, Has, IsTerminal

-----------------------------------------------------------------------------
LEMMA DriverInitInv == DriverInit => DriverInv
<1> SUFFICES ASSUME DriverInit PROVE DriverInv
  OBVIOUS
<1>1. \A event : Entries(event) = {}
  BY DEF DriverInit, RunInit, Entries
<1>2. DriverTypeOK
  <2>1. 1 \in 1 .. Len(ProviderList) + 1 /\ 0 \in 0 .. FailBound
    BY DriverAssumption
  <2>2. <<>> \in Seq(Entry) /\ <<>> \in Seq(Hashes)
    OBVIOUS
  <2>3. [tx \in Hashes |-> "NONE"] \in [Hashes -> Outcomes]
    BY DEF Outcomes
  <2>4. QED BY <2>1, <2>2, <2>3 DEF DriverInit, RunInit, DriverTypeOK, RunTypeOK, Steps
<1>3. JournalInv
  BY <1>1 DEF DriverInit, RunInit, JournalInv, Has, IsTerminal, WriteAhead, ReadsAreOfSentTx
<1>4. ProcessInv
  BY <1>1 DEF DriverInit, ProcessInv, Has, IsTerminal
<1>5. QED BY <1>2, <1>3, <1>4 DEF DriverInv

\* Steps of the process that leave the journal and the network alone.
LEMMA StartInv == ASSUME DriverInv, NEW c \in Calldata, Start(c) PROVE DriverInv'
<1>1. UNCHANGED <<journal, next, got, sent, outcome, torn, failures>> /\ calldata' = c
  BY DEF Start, Reopen, world, faults
<1>2. /\ pc = "DOWN" /\ pc' = IF IsTerminal THEN "DONE" ELSE "DECLARE"
  BY DEF Start
<1>3. JournalInv' /\ \A event : Entries(event)' = Entries(event)
  BY <1>1, Quiet DEF DriverInv
<1>4. DriverTypeOK'
  BY <1>1, <1>2 DEF DriverInv, DriverTypeOK, RunTypeOK, Steps
<1>5. ProcessInv'
  BY <1>1, <1>2, <1>3 DEF DriverInv, ProcessInv, IsTerminal, Has
<1>6. QED BY <1>3, <1>4, <1>5 DEF DriverInv

LEMMA CrashInv == DriverInv /\ (Crash \/ CrashInPersist) => DriverInv'
<1> SUFFICES ASSUME DriverInv, Crash \/ CrashInPersist PROVE DriverInv'
  OBVIOUS
<1>1. /\ UNCHANGED <<journal, calldata, sent, outcome>>
      /\ pc' = "DOWN" /\ next' = 1 /\ got' = None
      /\ failures < FailBound /\ failures' = failures + 1 /\ torn' \in BOOLEAN
  BY DEF Crash, CrashInPersist, runVars, world, DriverInv, DriverTypeOK
<1>2. JournalInv'
  BY <1>1, Quiet DEF DriverInv
<1>3. DriverTypeOK'
  BY <1>1, DriverAssumption DEF DriverInv, DriverTypeOK, RunTypeOK, Steps
<1>4. ProcessInv'
  BY <1>1 DEF ProcessInv
<1>5. QED BY <1>2, <1>3, <1>4 DEF DriverInv

\* The intent, or the mark of a reconstruction.
LEMMA NotesInv == DriverInv /\ (Declare \/ Mark) => DriverInv'
<1> SUFFICES ASSUME DriverInv, Declare \/ Mark PROVE DriverInv'
  OBVIOUS
<1>1. /\ pc = "DECLARE" /\ UNCHANGED <<calldata, next, got, sent, outcome, torn, failures>>
      /\ pc' \in {"DECLARE", IF Has("SEND_RESULT") THEN "READ" ELSE "BROADCAST"}
  BY DEF Declare, Mark, DeclareSendIntent, MarkReconstruction, process, world, faults
<1>2. ~IsTerminal /\ next = 1 /\ calldata \in Calldata /\ journal \in Seq(Entry)
  BY <1>1 DEF DriverInv, ProcessInv, DriverTypeOK, RunTypeOK
<1>3. CASE UNCHANGED journal
  <2>1. JournalInv' /\ \A event : Entries(event)' = Entries(event)
    BY <1>1, <1>3, Quiet DEF DriverInv
  <2>2. pc' # "DECLARE" => Has("SEND_INTENT")
    <3>1. CASE Declare
      <4>1. CASE Has("SEND_INTENT")
        BY <4>1
      <4>2. CASE ~Has("SEND_INTENT")
        <5>1. journal' = Append(journal, [event |-> "SEND_INTENT", calldata |-> calldata])
          BY <3>1, <4>2 DEF Declare, DeclareSendIntent, Push
        <5>2. Len(journal') # Len(journal)
          BY <1>2, <5>1
        <5>3. QED BY <1>3, <5>2
      <4>3. QED BY <4>1, <4>2
    <3>2. CASE Mark
      BY <3>2, <1>1 DEF Mark, process
    <3>3. QED BY <3>1, <3>2
  <2>3. DriverTypeOK'
    BY <1>1, <1>2, <1>3 DEF DriverInv, DriverTypeOK, RunTypeOK, Steps
  <2>4. ProcessInv'
    BY <1>1, <1>2, <2>1, <2>2 DEF DriverInv, ProcessInv, IsTerminal, Has
  <2>5. QED BY <2>1, <2>3, <2>4 DEF DriverInv
<1>4. ASSUME NEW e \in Entry, e.event \in {"SEND_INTENT", "RECONSTRUCTION"},
             journal' = Append(journal, e), pc' # "DECLARE" => e.event = "SEND_INTENT"
      PROVE  DriverInv'
  <2>1. JournalInv'
    BY <1>1, <1>4, NoteInv DEF DriverInv
  <2>2. /\ \A event \in {"SEND_RESULT", "VERDICT", "RECEIPT_READ"} : Entries(event)' = Entries(event)
        /\ e.event = "SEND_INTENT" => Entries("SEND_INTENT")' # {}
        /\ journal' \in Seq(Entry)
    BY <1>2, <1>4, AppendedAt
  <2>3. DriverTypeOK'
    BY <1>1, <1>2, <2>2 DEF DriverInv, DriverTypeOK, RunTypeOK, Steps
  <2>4. ProcessInv'
    BY <1>1, <1>2, <1>4, <2>2 DEF DriverInv, ProcessInv, IsTerminal, Has
  <2>5. QED BY <2>1, <2>3, <2>4 DEF DriverInv
<1>5. \/ UNCHANGED journal
      \/ \E e \in Entry : /\ e.event \in {"SEND_INTENT", "RECONSTRUCTION"}
                          /\ journal' = Append(journal, e)
                          /\ pc' # "DECLARE" => e.event = "SEND_INTENT"
  <2>1. [event |-> "SEND_INTENT", calldata |-> calldata] \in Entry
    BY <1>2 DEF Entry
  <2>2. [event |-> "RECONSTRUCTION"] \in Entry
    BY DEF Entry
  <2>3. CASE Declare
    BY <2>1, <2>3 DEF Declare, DeclareSendIntent, Push
  <2>4. CASE Mark
    BY <1>1, <2>2, <2>4 DEF Mark, MarkReconstruction, Push, process
  <2>5. QED BY <2>3, <2>4
<1>6. QED BY <1>3, <1>4, <1>5

\* A transaction goes out, whether its hash comes back or not.
LEMMA BroadcastsInv ==
  ASSUME DriverInv, NEW tx \in Hashes, Broadcast(tx) \/ BroadcastFails(tx) PROVE DriverInv'
<1>1. /\ pc = "BROADCAST" /\ UNCHANGED <<journal, calldata, next, torn>>
      /\ \/ Send(tx) /\ got' = tx /\ pc' = "RECORD" /\ UNCHANGED failures
         \/ /\ Send(tx) \/ UNCHANGED <<sent, outcome>>
            /\ pc' = "DOWN" /\ UNCHANGED got /\ failures < FailBound /\ failures' = failures + 1
  BY DEF Broadcast, BroadcastFails, runVars, world, faults
<1>2. /\ Has("SEND_INTENT") /\ ~Has("SEND_RESULT") /\ ~IsTerminal /\ next = 1
      /\ calldata \in Calldata /\ DriverTypeOK /\ JournalInv
  BY <1>1 DEF DriverInv, ProcessInv
<1>3. \A event : Entries(event)' = Entries(event)
  BY <1>1 DEF Entries
<1>4. CASE Send(tx)
  <2>1. /\ JournalInv' /\ sent' \in Seq(Hashes) /\ outcome' \in [Hashes -> Outcomes]
        /\ \E i \in 1 .. Len(sent') : sent'[i] = tx
    BY <1>1, <1>2, <1>4, SendInv
  <2>2. DriverTypeOK'
    BY <1>1, <1>2, <2>1, DriverAssumption DEF DriverTypeOK, RunTypeOK, Steps
  <2>3. ProcessInv'
    BY <1>1, <1>2, <1>3, <2>1 DEF ProcessInv, IsTerminal, Has
  <2>4. QED BY <2>1, <2>2, <2>3 DEF DriverInv
<1>5. CASE UNCHANGED <<sent, outcome>> /\ pc' = "DOWN" /\ UNCHANGED got
  <2>1. JournalInv'
    BY <1>1, <1>2, <1>5, Quiet
  <2>2. DriverTypeOK'
    BY <1>1, <1>2, <1>5, DriverAssumption DEF DriverTypeOK, RunTypeOK, Steps
  <2>3. ProcessInv'
    BY <1>1, <1>2, <1>5 DEF ProcessInv
  <2>4. QED BY <2>1, <2>2, <2>3 DEF DriverInv
<1>6. QED BY <1>1, <1>4, <1>5

LEMMA RecordInv == DriverInv /\ Record => DriverInv'
<1> SUFFICES ASSUME DriverInv, Record PROVE DriverInv'
  OBVIOUS
<1>1. pc = "RECORD" /\ pc' = "READ" /\ UNCHANGED <<calldata, next, got, sent, outcome, torn, failures>>
  BY DEF Record, RecordSendResult, world, faults
<1>2. /\ ~Has("SEND_RESULT") /\ ~IsTerminal /\ next = 1 /\ calldata \in Calldata
      /\ \E i \in 1 .. Len(sent) : sent[i] = got
      /\ DriverTypeOK /\ JournalInv
  BY <1>1 DEF DriverInv, ProcessInv
<1>3. got \in Hashes /\ [event |-> "SEND_RESULT", tx |-> got] \in Entry
  BY <1>2 DEF DriverTypeOK, Entry
<1>4. journal' = Append(journal, [event |-> "SEND_RESULT", tx |-> got])
  BY <1>2 DEF Record, RecordSendResult, Push
<1>5. JournalInv' /\ Has("SEND_RESULT")'
  BY <1>1, <1>2, <1>3, <1>4, HashInv
<1>6. Entries("VERDICT")' = Entries("VERDICT") /\ journal' \in Seq(Entry)
  BY <1>2, <1>3, <1>4, AppendedAt DEF DriverTypeOK, RunTypeOK
<1>7. DriverTypeOK'
  BY <1>1, <1>2, <1>6 DEF DriverTypeOK, RunTypeOK, Steps
<1>8. ProcessInv'
  BY <1>1, <1>2, <1>5, <1>6 DEF ProcessInv, IsTerminal, Has
<1>9. QED BY <1>5, <1>7, <1>8 DEF DriverInv

\* The journaled hash is one of the hashes.
LEMMA SentTxType ==
  ASSUME DriverTypeOK, JournalInv, Has("SEND_RESULT") PROVE SentTx \in Hashes
<1>1. PICK k \in Entries("SEND_RESULT") : TRUE
  BY DEF Has
<1>2. SentTx = journal[k].tx
  BY SentTxIs
<1>3. journal[k] \in Entry /\ journal[k].event = "SEND_RESULT"
  BY DEF Entries, DriverTypeOK, RunTypeOK
<1>4. QED BY <1>2, <1>3 DEF Entry

LEMMA ReadsInv == ASSUME DriverInv, NEW a \in Answer, Read(a) PROVE DriverInv'
<1> DEFINE p == ProviderList[next]
           e == [event |-> "RECEIPT_READ", tx |-> SentTx, provider |-> p, answer |-> a]
           n == Len(journal) + 1
<1>1. /\ pc = "READ" /\ next <= Len(ProviderList) /\ MayAnswer(p, a)
      /\ journal' = Append(journal, e) /\ next' = next + 1
      /\ UNCHANGED <<calldata, pc, got, sent, outcome, torn, failures>>
  BY DEF Read, RecordReceiptRead, Push, world, faults
<1>2. /\ Has("SEND_RESULT") /\ ~IsTerminal /\ calldata \in Calldata /\ DriverTypeOK /\ JournalInv
      /\ \A k \in 1 .. next - 1 :
           \E i \in Entries("RECEIPT_READ") : journal[i].provider = ProviderList[k]
  BY <1>1 DEF DriverInv, ProcessInv
<1>3. next \in Nat /\ next >= 1 /\ Len(ProviderList) \in Nat /\ p \in Providers
  BY <1>1, <1>2, DriverAssumption DEF DriverTypeOK
<1>4. e \in Entry
  BY <1>2, <1>3, SentTxType DEF Entry
<1>5. JournalInv'
  BY <1>1, <1>2, <1>3, <1>4, ReadInv
<1>6. /\ \A event \in {"SEND_RESULT", "VERDICT"} : Entries(event)' = Entries(event)
      /\ Entries("RECEIPT_READ")' = Entries("RECEIPT_READ") \cup {n}
      /\ Entries("RECEIPT_READ") \subseteq 1 .. Len(journal)
      /\ journal' \in Seq(Entry) /\ journal'[n] = e
      /\ \A i \in 1 .. Len(journal) : journal'[i] = journal[i]
  BY <1>1, <1>2, <1>4, AppendedAt DEF DriverTypeOK, RunTypeOK
<1>7. DriverTypeOK'
  BY <1>1, <1>2, <1>3, <1>6 DEF DriverTypeOK, RunTypeOK, Steps
<1>8. \A k \in 1 .. next' - 1 :
        \E i \in Entries("RECEIPT_READ")' : journal'[i].provider = ProviderList[k]
  <2>1. ASSUME NEW k \in 1 .. next' - 1
        PROVE  \E i \in Entries("RECEIPT_READ")' : journal'[i].provider = ProviderList[k]
    <3>1. CASE k = next
      BY <1>6, <3>1
    <3>2. CASE k # next
      <4>1. k \in 1 .. next - 1
        BY <1>1, <1>3, <3>2
      <4>2. QED BY <1>2, <1>6, <4>1
    <3>3. QED BY <3>1, <3>2
  <2>2. QED BY <2>1
<1>9. ProcessInv'
  BY <1>1, <1>2, <1>6, <1>8 DEF ProcessInv, IsTerminal, Has
<1>10. QED BY <1>5, <1>7, <1>9 DEF DriverInv

LEMMA DecideInv == DriverInv /\ Decide => DriverInv'
<1> SUFFICES ASSUME DriverInv, Decide PROVE DriverInv'
  OBVIOUS
<1> DEFINE v == [event |-> "VERDICT", state |-> VerdictState(SentTx), tx |-> SentTx]
<1>1. /\ pc = "READ" /\ pc' = "DONE" /\ next > Len(ProviderList)
      /\ UNCHANGED <<calldata, next, got, sent, outcome, torn, failures>>
  BY DEF Decide, ResolveVerdict, world, faults
<1>2. /\ Has("SEND_RESULT") /\ ~IsTerminal /\ calldata \in Calldata /\ DriverTypeOK /\ JournalInv
      /\ \A k \in 1 .. next - 1 :
           \E i \in Entries("RECEIPT_READ") : journal[i].provider = ProviderList[k]
  BY <1>1 DEF DriverInv, ProcessInv
<1>3. \A k \in 1 .. Len(ProviderList) :
        \E i \in Entries("RECEIPT_READ") : journal[i].provider = ProviderList[k]
  BY <1>1, <1>2, DriverAssumption DEF DriverTypeOK
<1>4. journal' = Append(journal, v)
  BY <1>2 DEF Decide, ResolveVerdict, Push
<1>5. VerdictState(SentTx) \in TerminalStates
  BY DEF VerdictState, TerminalStates
<1>6. v \in Entry
  BY <1>2, <1>5, SentTxType DEF Entry
<1>7. JournalInv'
  BY <1>1, <1>2, <1>3, <1>4, <1>6, VerdictInv
<1>8. journal' \in Seq(Entry)
  BY <1>2, <1>4, <1>6, AppendedAt DEF DriverTypeOK, RunTypeOK
<1>9. DriverTypeOK'
  BY <1>1, <1>2, <1>8 DEF DriverTypeOK, RunTypeOK, Steps
<1>10. ProcessInv'
  BY <1>1, <1>2 DEF ProcessInv
<1>11. QED BY <1>7, <1>9, <1>10 DEF DriverInv

LEMMA DriverNextInv == DriverInv /\ [DriverNext]_driverVars => DriverInv'
<1> SUFFICES ASSUME DriverInv, [DriverNext]_driverVars PROVE DriverInv'
  OBVIOUS
<1>1. CASE UNCHANGED driverVars
  <2>1. UNCHANGED <<journal, calldata, pc, next, got, sent, outcome, torn, failures>>
    BY <1>1 DEF driverVars, runVars
  <2>2. JournalInv' /\ \A event : Entries(event)' = Entries(event)
    BY <2>1, Quiet DEF DriverInv
  <2>3. DriverTypeOK'
    BY <2>1 DEF DriverInv, DriverTypeOK, RunTypeOK
  <2>4. ProcessInv'
    BY <2>1, <2>2 DEF DriverInv, ProcessInv, IsTerminal, Has
  <2>5. QED BY <2>2, <2>3, <2>4 DEF DriverInv
<1>2. QED BY <1>1, StartInv, CrashInv, NotesInv, BroadcastsInv, RecordInv, ReadsInv, DecideInv
          DEF DriverNext, Work

-----------------------------------------------------------------------------
\* The journal says what happened on the network, through any crashes.
THEOREM JournalTold == DriverSpec => []JournalIsTrue
<1>1. DriverInv => JournalIsTrue
  BY DEF DriverInv, JournalInv, JournalIsTrue
<1>2. QED BY <1>1, DriverInitInv, DriverNextInv, PTL DEF DriverSpec

\* With one honest provider VERIFIED means that the transaction succeeded with
\* its events, whatever the others say.
THEOREM VerifiedTold == DriverSpec => []VerifiedIsTrue
<1>1. DriverInv => VerifiedIsTrue
  <2> SUFFICES ASSUME DriverInv, Verified, HonestListed PROVE outcome[SentTx] \in WithEvent
    BY DEF VerifiedIsTrue, HonestListed
  <2>1. PICK k \in Entries("VERDICT") : TRUE
    BY DEF Verified, IsTerminal, Has
  <2>2. (CHOOSE i \in Entries("VERDICT") : \A j \in Entries("VERDICT") : i <= j) = k
    <3>1. Entries("VERDICT") \in SUBSET Nat
      BY DEF Entries
    <3>2. QED BY <3>1, OldestOfOne DEF DriverInv, JournalInv
  <2>3. journal[k].state = "VERIFIED"
    BY <2>2 DEF Verified, First
  <2>4. QED BY <2>3 DEF DriverInv, JournalInv
<1>2. QED BY <1>1, DriverInitInv, DriverNextInv, PTL DEF DriverSpec

\* A step leaves the journal alone or appends one entry, and no hash to one
\* that has a hash.
LEMMA StepAppends ==
  ASSUME DriverInv, [DriverNext]_driverVars
  PROVE  /\ \/ UNCHANGED journal
            \/ \E e \in Entry : /\ journal' = Append(journal, e)
                                /\ Has("SEND_RESULT") => e.event # "SEND_RESULT"
         /\ Has("SEND_RESULT") => UNCHANGED sent
<1> DEFINE Claim == /\ \/ UNCHANGED journal
                       \/ \E e \in Entry : /\ journal' = Append(journal, e)
                                           /\ Has("SEND_RESULT") => e.event # "SEND_RESULT"
                    /\ Has("SEND_RESULT") => UNCHANGED sent
<1>1. CASE UNCHANGED driverVars \/ Crash \/ CrashInPersist \/ \E c \in Calldata : Start(c)
  BY <1>1 DEF driverVars, runVars, world, Crash, CrashInPersist, Start, Reopen
<1>2. CASE Declare \/ Mark
  <2>1. UNCHANGED sent
    BY <1>2 DEF Declare, Mark, world
  <2>2. pc = "DECLARE" /\ calldata \in Calldata
    BY <1>2 DEF Declare, Mark, DriverInv, ProcessInv
  <2>3. [event |-> "SEND_INTENT", calldata |-> calldata] \in Entry
    BY <2>2 DEF Entry
  <2>4. [event |-> "RECONSTRUCTION"] \in Entry
    BY DEF Entry
  <2>5. QED BY <1>2, <2>1, <2>3, <2>4 DEF Declare, Mark, DeclareSendIntent, MarkReconstruction, Push
<1>3. ASSUME NEW tx \in Hashes, Broadcast(tx) \/ BroadcastFails(tx) PROVE Claim
  BY <1>3 DEF Broadcast, BroadcastFails, runVars, DriverInv, ProcessInv
<1>4. CASE Record
  <2>1. ~Has("SEND_RESULT") /\ got \in Hashes
    BY <1>4 DEF Record, DriverInv, ProcessInv, DriverTypeOK
  <2>2. [event |-> "SEND_RESULT", tx |-> got] \in Entry
    BY <2>1 DEF Entry
  <2>3. QED BY <1>4, <2>1, <2>2 DEF Record, RecordSendResult, Push
<1>5. ASSUME NEW a \in Answer, Read(a) PROVE Claim
  <2>1. Has("SEND_RESULT") /\ ProviderList[next] \in Providers /\ UNCHANGED sent
    BY <1>5, DriverAssumption DEF Read, DriverInv, ProcessInv, DriverTypeOK, world
  <2>2. [event |-> "RECEIPT_READ", tx |-> SentTx, provider |-> ProviderList[next], answer |-> a] \in Entry
    BY <2>1, SentTxType DEF Entry, DriverInv
  <2>3. QED BY <1>5, <2>1, <2>2 DEF Read, RecordReceiptRead, Push
<1>6. CASE Decide
  <2>1. Has("SEND_RESULT") /\ ~IsTerminal /\ UNCHANGED sent
    BY <1>6 DEF Decide, DriverInv, ProcessInv, world
  <2>2. VerdictState(SentTx) \in TerminalStates
    BY DEF VerdictState, TerminalStates
  <2>3. [event |-> "VERDICT", state |-> VerdictState(SentTx), tx |-> SentTx] \in Entry
    BY <2>1, <2>2, SentTxType DEF Entry, DriverInv
  <2>4. QED BY <1>6, <2>1, <2>3 DEF Decide, ResolveVerdict, Push
<1>7. QED BY <1>1, <1>2, <1>3, <1>4, <1>5, <1>6 DEF DriverNext, Work

\* What is journaled stays, and once a hash is, nothing more is sent and no other
\* hash takes its place, for any number of restarts.
THEOREM JournalKept == DriverSpec => JournalIsFinal
<1>1. DriverInv /\ [DriverNext]_driverVars =>
        [/\ Len(journal') >= Len(journal)
         /\ SubSeq(journal', 1, Len(journal)) = journal]_runVars
  <2> SUFFICES ASSUME DriverInv, [DriverNext]_driverVars
               PROVE  Len(journal') >= Len(journal) /\ SubSeq(journal', 1, Len(journal)) = journal
    OBVIOUS
  <2>1. journal \in Seq(Entry)
    BY DEF DriverInv, DriverTypeOK, RunTypeOK
  <2>2. QED BY <2>1, StepAppends
<1>2. DriverInv /\ [DriverNext]_driverVars =>
        [Has("SEND_RESULT") => sent' = sent /\ SentTx' = SentTx]_driverVars
  <2> SUFFICES ASSUME DriverInv, [DriverNext]_driverVars, Has("SEND_RESULT")
               PROVE  sent' = sent /\ SentTx' = SentTx
    OBVIOUS
  <2>1. JournalInv /\ journal \in Seq(Entry)
    BY DEF DriverInv, DriverTypeOK, RunTypeOK
  <2>2. CASE UNCHANGED journal
    <3>1. Entries("SEND_RESULT")' = Entries("SEND_RESULT")
      BY <2>2 DEF Entries
    <3>2. SentTx' = SentTx
      BY <2>1, <2>2, <3>1, SameSentTx
    <3>3. QED BY <3>2, StepAppends
  <2>3. CASE \E e \in Entry : journal' = Append(journal, e) /\ e.event # "SEND_RESULT"
    BY <2>1, <2>3, SentTxStays, StepAppends
  <2>4. QED BY <2>2, <2>3, StepAppends
<1>3. QED BY <1>1, <1>2, DriverInitInv, DriverNextInv, PTL
          DEF DriverSpec, JournalIsFinal, HistoryKept, RecordedSendIsFinal
-----------------------------------------------------------------------------
\* What VERIFIED means without an honest provider, and when it takes as many
\* providers as the header of the file says.
Listed == {ProviderList[k] : k \in 1 .. Len(ProviderList)}
Reads == {journal[i] : i \in Entries("RECEIPT_READ")}
Succeeded == {p \in Providers : \E r \in Reads : r.provider = p /\ r.answer.status = "0x1"}

\* Every listed provider was read, over all restarts no read failed or showed a
\* revert, and the successes, of which there is one, show the same events.
Unanimous ==
  /\ \A p \in Listed : \E r \in Reads : r.provider = p
  /\ \A r \in Reads : r.answer.status # "0x0" /\ ~r.answer.error
  /\ Succeeded # {}
  /\ \E v \in WithEvent : \A r \in Reads : r.answer.status = "0x1" => r.answer.view = v

\* A receipt read is a success, a revert or an error, and no other status.
PlainReads == \A r \in Reads : r.answer.error \/ r.answer.status \in {"0x0", "0x1"}

UnanimousInv == \A i \in Entries("VERDICT") : journal[i].state = "VERIFIED" => Unanimous

\* A journal with a verdict is closed, and before it gets one it is appended to
\* by Decide only with one.
LEMMA OpenAppends ==
  ASSUME DriverInv, [DriverNext]_driverVars, journal' # journal
  PROVE  Decide \/ Entries("VERDICT")' = {}
<1>1. journal \in Seq(Entry) /\ DriverInv
  BY DEF DriverInv, DriverTypeOK, RunTypeOK
<1>2. ASSUME NEW e \in Entry, journal' = Append(journal, e), e.event # "VERDICT", ~IsTerminal
      PROVE  Entries("VERDICT")' = {}
  <2>1. Entries("VERDICT") = {}
    BY <1>2 DEF IsTerminal, Has
  <2> QED BY <1>1, <1>2, <2>1, AppendedAt
<1>3. CASE Declare \/ Mark
  <2>1. pc = "DECLARE" /\ calldata \in Calldata /\ ~IsTerminal
    BY <1>1, <1>3 DEF Declare, Mark, DriverInv, ProcessInv
  <2>2. [event |-> "SEND_INTENT", calldata |-> calldata] \in Entry
    BY <2>1 DEF Entry
  <2>3. [event |-> "RECONSTRUCTION"] \in Entry
    BY DEF Entry
  <2> QED BY <1>2, <1>3, <2>1, <2>2, <2>3
          DEF Declare, Mark, DeclareSendIntent, MarkReconstruction, Push
<1>4. CASE Record
  <2>1. ~IsTerminal /\ got \in Hashes
    BY <1>1, <1>4 DEF Record, DriverInv, ProcessInv, DriverTypeOK
  <2>2. [event |-> "SEND_RESULT", tx |-> got] \in Entry
    BY <2>1 DEF Entry
  <2> QED BY <1>2, <1>4, <2>1, <2>2 DEF Record, RecordSendResult, Push
<1>5. ASSUME NEW a \in Answer, Read(a) PROVE Entries("VERDICT")' = {}
  <2>1. ~IsTerminal /\ Has("SEND_RESULT") /\ ProviderList[next] \in Providers
    BY <1>1, <1>5, DriverAssumption DEF Read, DriverInv, ProcessInv, DriverTypeOK
  <2>2. [event |-> "RECEIPT_READ", tx |-> SentTx, provider |-> ProviderList[next], answer |-> a] \in Entry
    BY <2>1, SentTxType DEF Entry, DriverInv
  <2> QED BY <1>2, <1>5, <2>1, <2>2 DEF Read, RecordReceiptRead, Push
<1>6. UNCHANGED journal \/ Decide \/ Declare \/ Mark \/ Record \/ \E a \in Answer : Read(a)
  BY DEF DriverNext, Work, driverVars, runVars, Start, Reopen, Crash, CrashInPersist, Broadcast, BroadcastFails
<1> QED BY <1>3, <1>4, <1>5, <1>6

\* One view is left when there is one at all and they number one.
LEMMA OneView ==
  ASSUME DriverTypeOK, Cardinality(SeenViews) = 1 PROVE \E v : SeenViews = {v}
<1> DEFINE S == {i \in Entries("RECEIPT_READ") : journal[i].answer.status = "0x1"}
           f == [i \in S |-> journal[i].answer.view]
<1>1. S \subseteq 1 .. Len(journal) /\ Len(journal) \in Nat
  BY DEF Entries, DriverTypeOK, RunTypeOK
<1>2. IsFiniteSet(S)
  <2>1. IsFiniteSet(1 .. Len(journal))
    BY <1>1, FS_Interval
  <2> HIDE DEF S
  <2> QED BY <1>1, <2>1, FS_Subset
<1>3. SeenViews = {f[i] : i \in S}
  BY DEF SeenViews, Answers
<1>4. f \in Surjection(S, SeenViews)
  <2> HIDE DEF S
  <2>1. f \in [S -> SeenViews]
    BY <1>3
  <2> QED BY <1>3, <2>1 DEF Surjection
<1>5. IsFiniteSet(SeenViews)
  BY <1>2, <1>4, FS_Surjection
<1> QED BY <1>5, FS_Singleton

LEMMA VerifiedIs ==
  ASSUME DriverInv, Decide, VerdictState(SentTx) = "VERIFIED" PROVE Unanimous
<1>1. \A k \in 1 .. Len(ProviderList) :
        \E i \in Entries("RECEIPT_READ") : journal[i].provider = ProviderList[k]
  BY DriverAssumption DEF Decide, DriverInv, ProcessInv, DriverTypeOK
<1>2. /\ \A a \in Answers : a.status # "0x0" /\ ~a.error
      /\ SeenViews # {} /\ SeenViews \subseteq WithEvent /\ Cardinality(SeenViews) = 1
  BY DEF VerdictState
<1>3. PICK v : SeenViews = {v}
  BY <1>2, OneView DEF DriverInv
<1>4. \A r \in Reads : r.answer \in Answers
  BY DEF Reads, Answers
<1>5. \A r \in Reads : r.answer.status = "0x1" => r.answer.view = v
  BY <1>3, <1>4 DEF SeenViews
<1>6. Succeeded # {}
  <2>1. PICK i \in Entries("RECEIPT_READ") : journal[i].answer.status = "0x1"
    BY <1>2 DEF SeenViews, Answers
  <2>2. journal[i] \in Entry /\ journal[i].event = "RECEIPT_READ"
    BY DEF Entries, DriverInv, DriverTypeOK, RunTypeOK
  <2>3. journal[i].provider \in Providers
    BY <2>2 DEF Entry
  <2> QED BY <2>1, <2>3 DEF Succeeded, Reads
<1> QED BY <1>1, <1>2, <1>3, <1>4, <1>5, <1>6 DEF Unanimous, Listed, Reads

LEMMA UnanimousNext ==
  ASSUME DriverInv, UnanimousInv, [DriverNext]_driverVars PROVE UnanimousInv'
<1>1. CASE UNCHANGED journal
  <2>1. Unanimous' <=> Unanimous
    BY <1>1 DEF Unanimous, Reads, Succeeded, Entries
  <2> QED BY <1>1, <2>1 DEF UnanimousInv, Entries
<1>2. CASE Decide
  <2> DEFINE v == [event |-> "VERDICT", state |-> VerdictState(SentTx), tx |-> SentTx]
  <2>1. Has("SEND_RESULT") /\ ~IsTerminal /\ journal \in Seq(Entry)
    BY <1>2 DEF Decide, DriverInv, ProcessInv, DriverTypeOK, RunTypeOK
  <2>2. v \in Entry /\ journal' = Append(journal, v)
    <3>1. VerdictState(SentTx) \in TerminalStates
      BY DEF VerdictState, TerminalStates
    <3>2. v \in Entry
      BY <2>1, <3>1, SentTxType DEF Entry, DriverInv
    <3> QED BY <1>2, <2>1, <3>2 DEF Decide, ResolveVerdict, Push
  <2>3. /\ Entries("RECEIPT_READ")' = Entries("RECEIPT_READ")
        /\ Entries("VERDICT")' = {Len(journal) + 1} /\ journal'[Len(journal) + 1] = v
        /\ \A i \in Entries("RECEIPT_READ") : journal'[i] = journal[i]
    <3>1. Entries("VERDICT") = {} /\ v.event = "VERDICT"
      BY <2>1 DEF IsTerminal, Has
    <3> HIDE DEF v
    <3> QED BY <2>1, <2>2, <3>1, AppendedAt
  <2>4. Reads' = Reads
    BY <2>3 DEF Reads
  <2>5. Unanimous' <=> Unanimous
    BY <2>4 DEF Unanimous, Succeeded
  <2>6. v.state = "VERIFIED" => Unanimous
    BY <1>2, VerifiedIs
  <2> QED BY <2>3, <2>5, <2>6 DEF UnanimousInv
<1>3. CASE Entries("VERDICT")' = {}
  BY <1>3 DEF UnanimousInv
<1> QED BY <1>1, <1>2, <1>3, OpenAppends

\* VERIFIED is the word of the whole list (resolveVerdict): through any crashes,
\* every listed provider was read, and no read, by whichever process, failed,
\* showed a revert or other events; honest or not.
THEOREM VerifiedByAll == DriverSpec => [](Verified => Unanimous)
<1>1. DriverInit => UnanimousInv
  BY DEF DriverInit, RunInit, UnanimousInv, Entries
<1>2. DriverInv /\ UnanimousInv => (Verified => Unanimous)
  <2> SUFFICES ASSUME DriverInv, UnanimousInv, Verified PROVE Unanimous
    OBVIOUS
  <2>1. PICK k \in Entries("VERDICT") : TRUE
    BY DEF Verified, IsTerminal, Has
  <2>2. (CHOOSE i \in Entries("VERDICT") : \A j \in Entries("VERDICT") : i <= j) = k
    <3>1. Entries("VERDICT") \in SUBSET Nat
      BY DEF Entries
    <3> QED BY <3>1, OldestOfOne DEF DriverInv, JournalInv
  <2>3. journal[k].state = "VERIFIED"
    BY <2>2 DEF Verified, First
  <2> QED BY <2>3 DEF UnanimousInv
<1>3. DriverInv /\ UnanimousInv /\ [DriverNext]_driverVars => UnanimousInv'
  BY UnanimousNext
<1> QED BY <1>1, <1>2, <1>3, DriverInitInv, DriverNextInv, PTL DEF DriverSpec

\* The successes are of finitely many providers.
LEMMA SucceededFinite == ASSUME DriverTypeOK PROVE IsFiniteSet(Succeeded)
<1> DEFINE S == Entries("RECEIPT_READ")
           f == [i \in S |-> journal[i].provider]
           T == {f[i] : i \in S}
<1>1. S \subseteq 1 .. Len(journal) /\ Len(journal) \in Nat
  BY DEF Entries, DriverTypeOK, RunTypeOK
<1>2. IsFiniteSet(S)
  <2>1. IsFiniteSet(1 .. Len(journal))
    BY <1>1, FS_Interval
  <2> HIDE DEF S
  <2> QED BY <1>1, <2>1, FS_Subset
<1>3. f \in Surjection(S, T)
  BY DEF Surjection
<1>4. IsFiniteSet(T)
  BY <1>2, <1>3, FS_Surjection
<1>5. Succeeded \subseteq T
  BY DEF Succeeded, Reads
<1> QED BY <1>4, <1>5, FS_Subset

\* "Success requires agreement across >= 2 independent RPC providers" holds of
\* runs that are given that many: with minProviders different providers in the
\* list, and receipts of plain status, VERIFIED takes a success of as many.
\* Where it fails, the list is shorter or a status is neither 0x1 nor 0x0.
THEOREM VerifiedByEnoughListed ==
  DriverSpec => [](Cardinality(Listed) >= MinProviders /\ PlainReads => VerifiedByEnough)
<1>1. DriverInv /\ (Verified => Unanimous)
        => (Cardinality(Listed) >= MinProviders /\ PlainReads => VerifiedByEnough)
  <2> SUFFICES ASSUME DriverInv, Unanimous, PlainReads, Cardinality(Listed) >= MinProviders
               PROVE  VerifiedByEnough
    BY DEF VerifiedByEnough
  <2>1. Listed \subseteq Succeeded
    <3>1. Listed \subseteq Providers
      BY DriverAssumption DEF Listed
    <3> QED BY <3>1 DEF Unanimous, PlainReads, Succeeded
  <2>2. IsFiniteSet(Succeeded)
    BY SucceededFinite DEF DriverInv
  <2>3. Cardinality(Listed) <= Cardinality(Succeeded) /\ IsFiniteSet(Listed)
    BY <2>1, <2>2, FS_Subset
  <2>4. Cardinality(Listed) \in Nat /\ Cardinality(Succeeded) \in Nat /\ MinProviders \in Nat
    BY <2>2, <2>3, FS_CardinalityType, RecoveryAssumption
  <2>5. Cardinality(Succeeded) >= MinProviders
    BY <2>3, <2>4
  <2>6. Succeeded = {p \in Providers : \E i \in 1 .. Len(journal) :
                       /\ journal[i].event = "RECEIPT_READ"
                       /\ journal[i].provider = p /\ journal[i].answer.status = "0x1"}
    BY DEF Succeeded, Reads, Entries
  <2> QED BY <2>5, <2>6 DEF VerifiedByEnough
<1>2. DriverSpec => []DriverInv
  BY DriverInitInv, DriverNextInv, PTL DEF DriverSpec
<1> QED BY <1>1, <1>2, VerifiedByAll, PTL
=============================================================================
