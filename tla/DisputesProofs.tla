--------------------------- MODULE DisputesProofs ---------------------------
(***************************************************************************)
(* What a paid piece of work guarantees, for any number of challenges,     *)
(* prices, reservations and deliveries, and for any clients, limits,       *)
(* clocks, fixtures and packages: the ledger keeps all of its promises     *)
(* although two parties spend on it, the harness and the ledger agree on   *)
(* every payment, and escrow moves on the verdict that allows it; the      *)
(* limiter of the endpoint holds across its windows; a payment is released *)
(* on records that hold; and what the tools of a dispute leave behind when *)
(* they stop, or the package changes under them, is refused.               *)
(*                                                                         *)
(* What the harness holds is backed by the ledger only as long as nobody   *)
(* else settles its reservations; the inductive invariant says whose they  *)
(* are (HeldIsMine) and has the ledger's own invariant as a part.          *)
(***************************************************************************)
EXTENDS JobFlow, DeliveryEndpoint, DeliveryEvidence, DisputeIntake,
        BudgetLedgerProofs, SequenceTheorems


\* What the Map holds are reservations the harness made.
HeldIsMine == \A c \in Challenges : held[c] # None => held[c] \in mine

PaidInv ==
  /\ IInv /\ FlowTypeOK /\ HarnessTypeOK
  /\ HeldIsMine /\ HeldIsBacked /\ NoLeak /\ CommitsAreSettled

-----------------------------------------------------------------------------
\* Creating the flow opens the job and may lock an amount at once: the job's
\* shares and draws are as they were, which is none.
LEMMA CreateJobFlowInv ==
  ASSUME IInv, NEW c \in Ceilings, NEW n \in Amounts \cup {None}, CreateJobFlow(c, n)
  PROVE  IInv'
<1> DEFINE fits == n # None /\ n <= c
           st == IF fits THEN "HELD" ELSE "OPEN"
           locked == IF fits THEN n ELSE 0
           after == [jobs[FlowJob] EXCEPT !.state = st, !.ceiling = c, !.held = locked]
<1>1. /\ c \in Nat /\ FlowJob \in Jobs
      /\ jobs \in [Jobs -> Job] /\ jobs[FlowJob] \in Job
      /\ jobs[FlowJob].state = "NONE" /\ jobs[FlowJob].ceiling = 0
      /\ jobs' = [jobs EXCEPT ![FlowJob] = after]
      /\ UNCHANGED <<scopes, reservations>>
  BY FlowAssumption, AmountsAssumption DEF IInv, TypeOK, CreateJobFlow, IsOpen, Placed
<1>2. /\ locked \in Nat
      /\ st \in JobStates /\ st # "NONE" /\ (st = "HELD" <=> locked > 0)
  <2>1. fits => n \in Nat /\ n > 0
    BY AmountsAssumption
  <2>2. QED BY <2>1 DEF JobStates
<1> HIDE DEF fits, st, locked
<1>3. /\ after \in Job
      /\ after.childShares = jobs[FlowJob].childShares
      /\ after.reserved = jobs[FlowJob].reserved /\ after.committed = jobs[FlowJob].committed
      /\ after.ceiling = c /\ after.state # "NONE"
      /\ after.state = "HELD" <=> after.held > 0
  BY <1>1, <1>2 DEF Job
<1> HIDE DEF after
<1>4. /\ jobs' \in [Jobs -> Job] /\ jobs'[FlowJob] = after
      /\ \A k \in Jobs \ {FlowJob} : jobs'[k] = jobs[k]
  BY <1>1, <1>3
<1>5. \A k \in Jobs :
        /\ jobs'[k].childShares = jobs[k].childShares
        /\ jobs'[k].reserved = jobs[k].reserved
        /\ jobs'[k].committed = jobs[k].committed
        /\ jobs'[k].ceiling >= jobs[k].ceiling
        /\ jobs'[k].state = "NONE" => jobs'[k].ceiling = 0
  BY <1>1, <1>3, <1>4 DEF Job, IInv, Placed
<1>6. HeldIffLocked'
  BY <1>3, <1>4 DEF IInv, HeldIffLocked
<1>7. QED BY <1>1, <1>4, <1>5, <1>6, JobOnlyInv

\* What is left alone keeps the ledger's invariant.
LEMMA IdleInv == ASSUME IInv, UNCHANGED vars PROVE IInv'
BY NextInv

LEMMA SpendInv == ASSUME IInv, Spend PROVE IInv'
BY FlowAssumption, OpenRootScopeInv, OpenSubScopeInv, ReserveInv, MeterInv, CommitInv, ReleaseInv, HoldInv
DEF Spend

\* deliver: what the verdict asks for is a disposition of all that is held.
LEMMA DeliverDisposes ==
  ASSUME NEW spec, NEW evidence, Deliver(spec, evidence)
  PROVE  /\ last'.spec = spec
         /\ last'.state = StateOf({EvaluateCheck(k, evidence) : k \in spec})
         /\ last'.state \in States /\ last'.applied \in BOOLEAN
         /\ last' = [spec |-> spec, state |-> last'.state, applied |-> last'.applied]
         /\ \/ UNCHANGED vars
            \/ last'.state = "ACCEPTED" /\ DisposeAll(FlowJob, "RELEASED")
            \/ last'.state = "REJECTED" /\ DisposeAll(FlowJob, "REFUNDED")
<1> DEFINE state == StateOf({EvaluateCheck(k, evidence) : k \in spec})
<1>1. state \in States
  BY DEF StateOf, States
<1>2. last' = [spec |-> spec, state |-> state, applied |-> jobs[FlowJob].held > 0]
  BY DEF Deliver
<1>3. \/ UNCHANGED vars
      \/ DispositionOf(state) # "HELD" /\ DisposeAll(FlowJob, DispositionOf(state))
  BY DEF Deliver
<1> HIDE DEF state
<1>4. \/ UNCHANGED vars
      \/ state = "ACCEPTED" /\ DisposeAll(FlowJob, "RELEASED")
      \/ state = "REJECTED" /\ DisposeAll(FlowJob, "REFUNDED")
  BY <1>1, <1>3 DEF DispositionOf, States
<1>5. QED BY <1>1, <1>2, <1>4 DEF state

LEMMA DisposeAllInv ==
  ASSUME IInv, NEW to \in Dispositions, DisposeAll(FlowJob, to)
  PROVE  IInv'
<1>1. FlowJob \in Jobs /\ jobs[FlowJob].held \in Nat /\ jobs[FlowJob].held > 0
  BY FlowAssumption DEF DisposeAll, Dispose, IInv, TypeOK, Job
<1>2. QED BY <1>1, DisposeInv DEF DisposeAll

LEMMA FlowStepInv ==
  ASSUME IInv, FlowTypeOK, FlowStep
  PROVE  IInv' /\ FlowTypeOK'
<1>1. ASSUME NEW c \in Ceilings, NEW n \in Amounts \cup {None}, CreateJobFlow(c, n)
      PROVE  IInv' /\ FlowTypeOK'
  BY <1>1, CreateJobFlowInv DEF CreateJobFlow, FlowTypeOK
<1>2. CASE Spend
  BY <1>2, SpendInv DEF Spend, FlowTypeOK
<1>3. ASSUME NEW spec \in Specs, NEW e, Deliver(spec, e)
      PROVE  IInv' /\ FlowTypeOK'
  <2>1. IInv'
    BY <1>3, DeliverDisposes, IdleInv, DisposeAllInv DEF Dispositions
  <2>2. /\ last' = [spec |-> spec, state |-> last'.state, applied |-> last'.applied]
        /\ last'.state \in States /\ last'.applied \in BOOLEAN
    BY <1>3, DeliverDisposes
  <2> DEFINE st == last'.state
             ap == last'.applied
  <2>3. st \in States /\ ap \in BOOLEAN /\ last' = [spec |-> spec, state |-> st, applied |-> ap]
    BY <2>2
  <2> HIDE DEF st, ap
  <2>4. FlowTypeOK'
    BY <2>3 DEF FlowTypeOK
  <2>5. QED BY <2>1, <2>4
<1>4. QED BY <1>1, <1>2, <1>3 DEF FlowStep

-----------------------------------------------------------------------------
\* Prices are amounts the ledger accepts.
LEMMA PriceIsNat == ASSUME NEW c \in Challenges PROVE Price[c] \in Nat
<1> DEFINE p == Price[c]
<1>1. p \in Amounts
  BY HarnessAssumption
<1> HIDE DEF p
<1>2. p \in Nat
  BY <1>1, AmountsAssumption
<1>3. QED BY <1>2 DEF p

\* Every amount the payments sum up is a natural number.
LEMMA PaymentsTyped ==
  ASSUME reservations \in [Reservations -> Reservation], HarnessTypeOK, NEW state
  PROVE  /\ MineIn(state) \in [Reservations -> Nat] /\ Mine(state) \in Nat
         /\ SettledFor \in [Challenges -> Nat] /\ SettledCents \in Nat
<1>1. MineIn(state) \in [Reservations -> Nat]
  BY DEF MineIn, Reservation
<1>2. \A c \in Challenges : settled[c] \in Nat /\ Price[c] \in Nat
  <2> SUFFICES ASSUME NEW c \in Challenges PROVE settled[c] \in Nat /\ Price[c] \in Nat
    OBVIOUS
  <2>1. settled[c] \in 0 .. SettleBound
    BY DEF HarnessTypeOK
  <2>2. SettleBound \in Nat
    BY HarnessAssumption
  <2>3. QED BY <2>1, <2>2, PriceIsNat
<1>3. \A c \in Challenges : settled[c] * Price[c] \in Nat
  BY <1>2
<1>4. SettledFor \in [Challenges -> Nat]
  BY <1>3 DEF SettledFor
<1>5. QED BY <1>1, <1>4, CentsFinite, IdsAssumption, HarnessAssumption DEF Mine, SettledCents

LEMMA PaymentsTypedNext ==
  ASSUME reservations' \in [Reservations -> Reservation], HarnessTypeOK', NEW state
  PROVE  /\ MineIn(state)' \in [Reservations -> Nat] /\ Mine(state)' \in Nat
         /\ SettledFor' \in [Challenges -> Nat] /\ SettledCents' \in Nat
<1>1. MineIn(state)' \in [Reservations -> Nat]
  BY DEF MineIn, Reservation
<1>2. SettledFor' \in [Challenges -> Nat]
  <2> SUFFICES ASSUME NEW c \in Challenges PROVE settled'[c] * Price[c] \in Nat
    BY DEF SettledFor
  <2>1. settled'[c] \in 0 .. SettleBound /\ SettleBound \in Nat
    BY HarnessAssumption DEF HarnessTypeOK
  <2>2. settled'[c] \in Nat /\ Price[c] \in Nat
    BY <2>1, PriceIsNat
  <2>3. QED BY <2>2
<1>3. QED BY <1>1, <1>2, CentsFinite, IdsAssumption, HarnessAssumption DEF Mine, SettledCents

\* The harness's own calls on the ledger keep the ledger's invariant.
LEMMA HarnessLedgerInv == ASSUME IInv, HarnessTypeOK, HarnessStep PROVE IInv'
<1>1. ASSUME NEW c \in Challenges, NEW r \in Reservations, Sign(c, r) PROVE IInv'
  <2>1. /\ BudgetJob \in Jobs /\ BudgetScope \in Scopes \cup {None} /\ Price[c] \in Amounts
        /\ Reserve(BudgetJob, BudgetScope, r, Price[c])
    BY <1>1, HarnessAssumption DEF Sign
  <2>2. QED BY <2>1, ReserveInv
<1>2. ASSUME NEW c \in Challenges, CommitHeld(c) \/ ReleaseHeld(c) PROVE IInv'
  <2>1. CASE UNCHANGED vars
    BY <2>1, IdleInv
  <2>2. CASE ~UNCHANGED vars
    <3>1. held[c] # None /\ held[c] \in Reservations
      BY <1>2, <2>2 DEF CommitHeld, ReleaseHeld, HarnessTypeOK
    <3>2. Commit(held[c]) \/ Release(held[c])
      BY <1>2, <3>1 DEF CommitHeld, ReleaseHeld
    <3>3. QED BY <3>1, <3>2, CommitInv, ReleaseInv
  <2>3. QED BY <2>1, <2>2
<1>3. QED
  BY <1>1, <1>2 DEF HarnessStep, SettleDryRun, SettleBadEnvelope, SettleUnknown, SettleDone

\* What the harness knows of its payments.
Payments == HarnessTypeOK /\ HeldIsMine /\ HeldIsBacked /\ NoLeak /\ CommitsAreSettled

\* A step of the flow that touches no reservation of the harness.
LEMMA IdlePayments ==
  ASSUME Payments, reservations \in [Reservations -> Reservation],
         reservations' \in [Reservations -> Reservation], HarnessIdle
  PROVE  Payments'
<1> USE DEF Payments
<1>1. /\ UNCHANGED <<mode, held, mine, signed, settled>>
      /\ \A r \in mine : reservations'[r] = reservations[r]
      /\ mine \subseteq Reservations
  BY DEF HarnessIdle, harnessVars, HarnessTypeOK
<1>2. HarnessTypeOK' /\ HeldIsMine'
  BY <1>1 DEF HarnessTypeOK, HeldIsMine
<1>3. HeldIsBacked'
  BY <1>1 DEF HeldIsMine, HeldIsBacked
<1>4. NoLeak'
  BY <1>1 DEF NoLeak
<1>5. Mine("COMMITTED")' = Mine("COMMITTED") /\ SettledCents' = SettledCents
  <2>1. \A r \in Reservations : MineIn("COMMITTED")'[r] = MineIn("COMMITTED")[r]
    BY <1>1 DEF MineIn
  <2>2. /\ MineIn("COMMITTED") \in [Reservations -> Nat]
        /\ MineIn("COMMITTED")' \in [Reservations -> Nat]
    BY DEF MineIn, Reservation
  <2>3. Total(MineIn("COMMITTED")') = Total(MineIn("COMMITTED"))
    BY <2>1, <2>2, TotalSame, IdsAssumption
  <2>4. SettledFor' = SettledFor
    BY <1>1 DEF SettledFor
  <2>5. QED BY <2>3, <2>4 DEF Mine, SettledCents
<1>6. QED BY <1>2, <1>3, <1>4, <1>5 DEF CommitsAreSettled

\* sign: a reservation of its own, which nothing in the Map stands for yet.
LEMMA SignPayments ==
  ASSUME Payments, reservations \in [Reservations -> Reservation],
         reservations' \in [Reservations -> Reservation],
         NEW c \in Challenges, NEW r \in Reservations, Sign(c, r)
  PROVE  Payments'
<1> USE DEF Payments
<1>1. /\ held[c] = None /\ reservations[r].state = "NONE" /\ r # None
      /\ reservations' = [reservations EXCEPT ![r] =
           [state |-> "RESERVED", job |-> BudgetJob, scope |-> BudgetScope, amount |-> Price[c]]]
      /\ held' = [held EXCEPT ![c] = r] /\ mine' = mine \cup {r}
      /\ signed' = [signed EXCEPT ![c] = @ + 1] /\ signed[c] < SignBound
      /\ UNCHANGED <<mode, settled>>
  BY HarnessAssumption DEF Sign, Reserve
<1>2. HarnessTypeOK'
  <2>1. signed[c] + 1 \in 0 .. SignBound
    BY <1>1, HarnessAssumption DEF HarnessTypeOK
  <2>2. QED BY <1>1, <2>1 DEF HarnessTypeOK
<1>3. held'[c] = r /\ \A d \in Challenges \ {c} : held'[d] = held[d]
  BY <1>1 DEF HarnessTypeOK
<1>4. /\ reservations'[r] = [state |-> "RESERVED", job |-> BudgetJob,
                             scope |-> BudgetScope, amount |-> Price[c]]
      /\ \A q \in Reservations \ {r} : reservations'[q] = reservations[q]
  BY <1>1
<1>5. HeldIsMine'
  BY <1>1, <1>3 DEF HeldIsMine
<1>6. \A d \in Challenges : held[d] # r
  <2> SUFFICES ASSUME NEW d \in Challenges, held[d] = r PROVE FALSE
    OBVIOUS
  <2>1. reservations[r] =
          [state |-> "RESERVED", job |-> BudgetJob, scope |-> BudgetScope, amount |-> Price[d]]
    BY <1>1 DEF HeldIsBacked
  <2>2. QED BY <1>1, <2>1
<1>7. \A d \in Challenges : held[d] \in Reservations \cup {None}
  BY DEF HarnessTypeOK
<1>8. HeldIsBacked'
  BY <1>1, <1>3, <1>4, <1>6, <1>7 DEF HeldIsBacked
<1>9. NoLeak'
  <2> SUFFICES ASSUME NEW q \in mine', reservations'[q].state = "RESERVED"
               PROVE  \E d \in Challenges : held'[d] = q
    BY DEF NoLeak
  <2>1. CASE q = r
    BY <1>3, <2>1
  <2>2. CASE q # r
    <3>1. q \in mine /\ reservations[q].state = "RESERVED" /\ q # None
      BY <1>1, <1>4, <2>2, HarnessAssumption DEF HarnessTypeOK
    <3>2. PICK d \in Challenges : held[d] = q
      BY <3>1 DEF NoLeak
    <3>3. QED BY <1>1, <1>3, <3>1, <3>2
  <2>3. QED BY <2>1, <2>2
<1>10. Mine("COMMITTED")' = Mine("COMMITTED") /\ SettledCents' = SettledCents
  <2>1. \A q \in Reservations : MineIn("COMMITTED")'[q] = MineIn("COMMITTED")[q]
    BY <1>1, <1>4 DEF MineIn
  <2>2. /\ MineIn("COMMITTED") \in [Reservations -> Nat]
        /\ MineIn("COMMITTED")' \in [Reservations -> Nat]
    BY DEF MineIn, Reservation
  <2>3. Total(MineIn("COMMITTED")') = Total(MineIn("COMMITTED"))
    BY <2>1, <2>2, TotalSame, IdsAssumption
  <2>4. SettledFor' = SettledFor
    BY <1>1 DEF SettledFor
  <2>5. QED BY <2>3, <2>4 DEF Mine, SettledCents
<1>11. QED BY <1>2, <1>5, <1>8, <1>9, <1>10 DEF CommitsAreSettled

\* What a settlement does to the payments: the reservation that challenge c
\* holds, if any, ends in a given state, and the Map forgets it.
Ends(c, state) ==
  IF held[c] = None THEN UNCHANGED <<reservations, held>>
  ELSE /\ reservations' = [reservations EXCEPT ![held[c]].state = state]
       /\ held' = [held EXCEPT ![c] = None]

\* Ending a reservation keeps the Map and the ledger in step; only a commit
\* adds to what the harness has committed, and it adds the challenge's price.
LEMMA EndsPayments ==
  ASSUME Payments, reservations \in [Reservations -> Reservation],
         reservations' \in [Reservations -> Reservation],
         NEW c \in Challenges, NEW state \in {"COMMITTED", "RELEASED"}, Ends(c, state),
         UNCHANGED mine
  PROVE  /\ held' \in [Challenges -> Reservations \cup {None}]
         /\ HeldIsMine' /\ HeldIsBacked' /\ NoLeak'
         /\ Mine("COMMITTED")' <=
              Mine("COMMITTED") + (IF state = "COMMITTED" THEN Price[c] ELSE 0)
<1> USE DEF Payments
<1>1. /\ Mine("COMMITTED") \in Nat
      /\ MineIn("COMMITTED") \in [Reservations -> Nat]
      /\ Price[c] \in Nat
  BY PaymentsTyped, PriceIsNat
<1>2. CASE held[c] = None
  <2>1. UNCHANGED <<reservations, held, mine>>
    BY <1>2 DEF Ends
  <2>2. HeldIsMine' /\ HeldIsBacked' /\ NoLeak' /\ Mine("COMMITTED")' = Mine("COMMITTED")
    BY <2>1 DEF HeldIsMine, HeldIsBacked, NoLeak, Mine, MineIn
  <2>3. QED BY <1>1, <2>1, <2>2 DEF HarnessTypeOK
<1>3. CASE held[c] # None
  <2> DEFINE r == held[c]
  <2>1. /\ r \in Reservations /\ r \in mine
        /\ reservations[r].state = "RESERVED" /\ reservations[r].amount = Price[c]
        /\ \A d \in Challenges \ {c} : held[d] # r
    <3>1. r \in mine /\ r \in Reservations
      BY <1>3 DEF HarnessTypeOK, HeldIsMine
    <3>2. /\ reservations[r] = [state |-> "RESERVED", job |-> BudgetJob,
                               scope |-> BudgetScope, amount |-> Price[c]]
          /\ \A d \in Challenges \ {c} : held[d] # r
      BY <1>3 DEF HeldIsBacked
    <3> HIDE DEF r
    <3>3. QED BY <3>1, <3>2
  <2>2. /\ reservations'[r].state = state /\ reservations'[r].amount = Price[c]
        /\ \A q \in Reservations \ {r} : reservations'[q] = reservations[q]
    BY <1>3, <2>1 DEF Ends, Reservation
  <2>3. /\ held' \in [Challenges -> Reservations \cup {None}]
        /\ held'[c] = None /\ \A d \in Challenges \ {c} : held'[d] = held[d]
    BY <1>3 DEF Ends, HarnessTypeOK
  <2> HIDE DEF r
  <2>4. HeldIsMine'
    BY <2>3 DEF HeldIsMine
  <2>5. HeldIsBacked'
    BY <2>1, <2>2, <2>3 DEF HeldIsBacked
  <2>6. NoLeak'
    <3> SUFFICES ASSUME NEW q \in mine, reservations'[q].state = "RESERVED"
                 PROVE  \E d \in Challenges : held'[d] = q
      BY DEF NoLeak
    <3>1. q # r /\ reservations[q].state = "RESERVED"
      BY <2>2 DEF HarnessTypeOK
    <3>2. PICK d \in Challenges : held[d] = q
      BY <3>1 DEF NoLeak
    <3>3. d # c
      BY <3>1, <3>2 DEF r
    <3>4. QED BY <2>3, <3>2, <3>3
  <2>7. Mine("COMMITTED")' =
          Mine("COMMITTED") + (IF state = "COMMITTED" THEN Price[c] ELSE 0)
    <3>1. MineIn("COMMITTED")' \in [Reservations -> Nat]
      BY DEF MineIn, Reservation
    <3>2. /\ MineIn("COMMITTED")[r] = 0
          /\ MineIn("COMMITTED")'[r] = IF state = "COMMITTED" THEN Price[c] ELSE 0
          /\ \A q \in Reservations \ {r} :
               MineIn("COMMITTED")'[q] = MineIn("COMMITTED")[q]
      BY <2>1, <2>2 DEF MineIn
    <3>3. Total(MineIn("COMMITTED")') =
            Total(MineIn("COMMITTED")) - MineIn("COMMITTED")[r] + MineIn("COMMITTED")'[r]
      BY <1>1, <2>1, <3>1, <3>2, TotalChange, IdsAssumption
    <3>4. QED BY <1>1, <3>2, <3>3 DEF Mine
  <2>8. QED BY <1>1, <2>3, <2>4, <2>5, <2>6, <2>7
<1>4. QED BY <1>2, <1>3

LEMMA CommitHeldEnds ==
  ASSUME NEW c, CommitHeld(c) PROVE Ends(c, "COMMITTED")
BY DEF CommitHeld, Commit, Ends, vars

LEMMA ReleaseHeldEnds ==
  ASSUME NEW c, ReleaseHeld(c) PROVE Ends(c, "RELEASED")
BY DEF ReleaseHeld, Release, Ends, vars

\* Every step of the harness keeps its payments accounted for.
LEMMA HarnessPayments ==
  ASSUME Payments, reservations \in [Reservations -> Reservation],
         reservations' \in [Reservations -> Reservation], HarnessStep
  PROVE  Payments'
<1>1. ASSUME NEW c \in Challenges, NEW r \in Reservations, Sign(c, r) PROVE Payments'
  BY <1>1, SignPayments
<1>2. ASSUME NEW c \in Challenges, ReleaseHeld(c), UNCHANGED <<mode, mine, signed, settled>>
      PROVE  Payments'
  <2>1. /\ held' \in [Challenges -> Reservations \cup {None}]
        /\ HeldIsMine' /\ HeldIsBacked' /\ NoLeak'
        /\ Mine("COMMITTED")' <= Mine("COMMITTED") + 0
    BY <1>2, ReleaseHeldEnds, EndsPayments
  <2>2. HarnessTypeOK'
    BY <1>2, <2>1 DEF HarnessTypeOK, Payments
  <2>3. SettledCents' = SettledCents
    BY <1>2 DEF SettledCents, SettledFor
  <2>4. Mine("COMMITTED") \in Nat /\ Mine("COMMITTED")' \in Nat /\ SettledCents \in Nat
    BY <2>2, PaymentsTyped, PaymentsTypedNext DEF Payments
  <2>5. QED BY <2>1, <2>2, <2>3, <2>4 DEF Payments, CommitsAreSettled
<1>3. ASSUME NEW c \in Challenges, SettleDone(c) PROVE Payments'
  <2>1. /\ held' \in [Challenges -> Reservations \cup {None}]
        /\ HeldIsMine' /\ HeldIsBacked' /\ NoLeak'
        /\ Mine("COMMITTED")' <= Mine("COMMITTED") + Price[c]
    BY <1>3, CommitHeldEnds, EndsPayments DEF SettleDone
  <2>2. HarnessTypeOK'
    <3>1. settled[c] + 1 \in 0 .. SettleBound
      BY <1>3, HarnessAssumption DEF SettleDone, HarnessTypeOK, Payments
    <3>2. QED BY <1>3, <2>1, <3>1 DEF SettleDone, HarnessTypeOK, Payments
  <2>3. SettledCents' = SettledCents + Price[c]
    <3>1. /\ settled'[c] = settled[c] + 1 /\ settled[c] \in Nat /\ Price[c] \in Nat
          /\ \A d \in Challenges \ {c} : settled'[d] = settled[d]
      <4>1. settled \in [Challenges -> 0 .. SettleBound] /\ SettleBound \in Nat
        BY HarnessAssumption DEF HarnessTypeOK, Payments
      <4>2. settled[c] \in Nat /\ Price[c] \in Nat
        BY <4>1, PriceIsNat
      <4>3. settled' = [settled EXCEPT ![c] = settled[c] + 1]
        BY <1>3 DEF SettleDone
      <4>4. QED BY <4>1, <4>2, <4>3
    <3>2. (settled[c] + 1) * Price[c] = settled[c] * Price[c] + Price[c]
      BY <3>1
    <3>3. /\ SettledFor'[c] = SettledFor[c] + Price[c]
          /\ \A d \in Challenges \ {c} : SettledFor'[d] = SettledFor[d]
      BY <3>1, <3>2 DEF SettledFor
    <3>4. SettledFor \in [Challenges -> Nat] /\ SettledFor' \in [Challenges -> Nat]
      BY <2>2, PaymentsTyped, PaymentsTypedNext DEF Payments
    <3>5. Total(SettledFor') = Total(SettledFor) - SettledFor[c] + SettledFor'[c]
      BY <3>3, <3>4, TotalChange, HarnessAssumption
    <3>6. Total(SettledFor) \in Nat /\ SettledFor[c] \in Nat
      BY <3>4, CentsFinite, HarnessAssumption
    <3>7. QED BY <3>1, <3>3, <3>5, <3>6 DEF SettledCents
  <2>4. Mine("COMMITTED") \in Nat /\ Mine("COMMITTED")' \in Nat /\ SettledCents \in Nat
    BY <2>2, PaymentsTyped, PaymentsTypedNext DEF Payments
  <2>5. Price[c] \in Nat
    BY PriceIsNat
  <2>6. QED BY <2>1, <2>2, <2>3, <2>4, <2>5 DEF Payments, CommitsAreSettled
<1>4. QED
  BY <1>1, <1>2, <1>3 DEF HarnessStep, SettleDryRun, SettleBadEnvelope, SettleUnknown

-----------------------------------------------------------------------------
LEMMA PaidInitInv == PaidInit => PaidInv
<1> SUFFICES ASSUME PaidInit PROVE PaidInv
  OBVIOUS
<1>1. IInv
  BY InitInv DEF PaidInit, FlowInit
<1>2. FlowTypeOK
  BY DEF PaidInit, FlowInit, FlowTypeOK, NoDelivery
<1>3. /\ held = [c \in Challenges |-> None] /\ mine = {}
      /\ settled = [c \in Challenges |-> 0] /\ signed = [c \in Challenges |-> 0]
      /\ mode \in {"DRY_RUN", "LIVE"}
  BY DEF PaidInit, HarnessInit
<1>4. HarnessTypeOK
  BY <1>3, HarnessAssumption DEF HarnessTypeOK
<1>5. HeldIsMine /\ HeldIsBacked /\ NoLeak
  BY <1>3 DEF HeldIsMine, HeldIsBacked, NoLeak
<1>6. Mine("COMMITTED") = 0
  <2>1. MineIn("COMMITTED") \in [Reservations -> Nat]
    BY <1>1, <1>4, PaymentsTyped DEF IInv, TypeOK
  <2>2. \A r \in Reservations : MineIn("COMMITTED")[r] = 0
    BY <1>3 DEF MineIn
  <2>3. QED BY <2>1, <2>2, TotalZero, IdsAssumption DEF Mine
<1>7. SettledCents \in Nat
  BY <1>1, <1>4, PaymentsTyped DEF IInv, TypeOK
<1>8. QED BY <1>1, <1>2, <1>4, <1>5, <1>6, <1>7 DEF PaidInv, CommitsAreSettled

LEMMA PaidNextInv == PaidInv /\ [PaidNext]_paidVars => PaidInv'
<1> SUFFICES ASSUME PaidInv, [PaidNext]_paidVars PROVE PaidInv'
  OBVIOUS
<1>1. IInv /\ FlowTypeOK /\ Payments /\ reservations \in [Reservations -> Reservation]
  BY DEF PaidInv, Payments, IInv, TypeOK
<1>2. CASE FlowStep /\ HarnessIdle
  <2>1. IInv' /\ FlowTypeOK'
    BY <1>1, <1>2, FlowStepInv
  <2>2. Payments'
    BY <1>1, <1>2, <2>1, IdlePayments DEF IInv, TypeOK
  <2>3. QED BY <2>1, <2>2 DEF PaidInv, Payments
<1>3. CASE HarnessStep /\ UNCHANGED last
  <2>1. IInv' /\ FlowTypeOK'
    BY <1>1, <1>3, HarnessLedgerInv DEF Payments, FlowTypeOK
  <2>2. Payments'
    BY <1>1, <1>3, <2>1, HarnessPayments DEF IInv, TypeOK
  <2>3. QED BY <2>1, <2>2 DEF PaidInv, Payments
<1>4. CASE UNCHANGED paidVars
  <2>1. UNCHANGED vars /\ UNCHANGED last /\ UNCHANGED harnessVars
    BY <1>4 DEF paidVars
  <2>2. IInv' /\ FlowTypeOK'
    BY <1>1, <2>1, IdleInv DEF FlowTypeOK
  <2>3. HarnessIdle
    BY <2>1 DEF HarnessIdle, vars
  <2>4. Payments'
    BY <1>1, <2>2, <2>3, IdlePayments DEF IInv, TypeOK
  <2>5. QED BY <2>2, <2>4 DEF PaidInv, Payments
<1>5. QED BY <1>2, <1>3, <1>4 DEF PaidNext

\* The promises of the budget ledger hold of the ledger of a paid job, where
\* the flow and the harness spend side by side and verdicts move the escrow.
THEOREM PaidLedgerInvariant == PaidSpec => []IInv
<1>1. PaidInv => IInv
  BY DEF PaidInv
<1>2. QED BY <1>1, PaidInitInv, PaidNextInv, PTL DEF PaidSpec

\* The harness and the ledger agree on every payment of a paid job, however
\* its challenges are signed, refused, settled, lost or asked again.
THEOREM PaymentsHold == PaidSpec => []PaymentsAreAccounted
<1>1. PaidInv => PaymentsAreAccounted
  BY DEF PaidInv, IInv, PaymentsAreAccounted, PaidTypeOK
<1>2. QED BY <1>1, PaidInitInv, PaidNextInv, PTL DEF PaidSpec

-----------------------------------------------------------------------------
\* The escrow of the flow's job, and what a step may do to it.
EscrowStep ==
  LET j == FlowJob
  IN  /\ jobs'[j].released # jobs[j].released =>
           /\ last'.state = "ACCEPTED" /\ jobs'[j].held = 0
           /\ jobs'[j].released = jobs[j].released + jobs[j].held
      /\ jobs'[j].refunded # jobs[j].refunded =>
           /\ last'.state = "REJECTED" /\ jobs'[j].held = 0
           /\ jobs'[j].refunded = jobs[j].refunded + jobs[j].held
      /\ jobs'[j].held < jobs[j].held => last'.state # "UNKNOWN"

JudgmentStep ==
  jobs'[FlowJob].released > jobs[FlowJob].released => "HUMAN_JUDGMENT" \notin last'.spec

\* The escrow of the job is left alone.
EscrowIdle ==
  /\ jobs'[FlowJob].released = jobs[FlowJob].released
  /\ jobs'[FlowJob].refunded = jobs[FlowJob].refunded
  /\ jobs'[FlowJob].held \in Nat /\ jobs'[FlowJob].held >= jobs[FlowJob].held

LEMMA EscrowIdleSteps ==
  ASSUME TypeOK, EscrowIdle PROVE EscrowStep /\ JudgmentStep
<1>1. jobs[FlowJob].held \in Nat /\ jobs[FlowJob].released \in Nat
  BY FlowAssumption DEF TypeOK, Job
<1>2. QED BY <1>1 DEF EscrowIdle, EscrowStep, JudgmentStep

\* A commit moves an amount within the budget, not in the escrow.
LEMMA CommitEscrow == ASSUME TypeOK, NEW r, Commit(r) PROVE EscrowIdle
<1> DEFINE j == reservations[r].job
           less == jobs[j].reserved - reservations[r].amount
           more == jobs[j].committed + reservations[r].amount
<1>1. /\ jobs \in [Jobs -> Job] /\ FlowJob \in Jobs /\ jobs[FlowJob] \in Job
  BY FlowAssumption DEF TypeOK
<1>2. jobs' = [jobs EXCEPT ![j] = [[jobs[j] EXCEPT !.reserved = less] EXCEPT !.committed = more]]
  <2>1. CASE j \in Jobs
    BY <1>1, <2>1 DEF Commit, Job
  <2>2. CASE j \notin Jobs
    BY <1>1, <2>2 DEF Commit, Job
  <2>3. QED BY <2>1, <2>2
<1> HIDE DEF j, less, more
<1>3. /\ jobs'[FlowJob].held = jobs[FlowJob].held
      /\ jobs'[FlowJob].released = jobs[FlowJob].released
      /\ jobs'[FlowJob].refunded = jobs[FlowJob].refunded
  BY <1>1, <1>2 DEF Job
<1>4. QED BY <1>1, <1>3 DEF EscrowIdle, Job

\* Every way to spend leaves the escrow alone, but for a hold, which adds to
\* an empty one.
LEMMA SpendEscrow == ASSUME TypeOK, Spend PROVE EscrowIdle
<1>1. /\ jobs \in [Jobs -> Job] /\ FlowJob \in Jobs /\ jobs[FlowJob] \in Job
  BY FlowAssumption DEF TypeOK
<1>2. /\ jobs[FlowJob].held \in Nat /\ jobs[FlowJob].released \in Nat
      /\ jobs[FlowJob].refunded \in Nat
  BY <1>1 DEF Job
<1>3. ASSUME jobs' = jobs PROVE EscrowIdle
  <2>1. jobs'[FlowJob] = jobs[FlowJob]
    BY <1>3
  <2>2. QED BY <1>2, <2>1 DEF EscrowIdle
<1>4. ASSUME NEW j, NEW n, jobs' = [jobs EXCEPT ![j].childShares = @ + n] PROVE EscrowIdle
  BY <1>1, <1>2, <1>4 DEF EscrowIdle, Job
<1>5. ASSUME NEW j, NEW n, jobs' = [jobs EXCEPT ![j].reserved = @ + n] PROVE EscrowIdle
  BY <1>1, <1>2, <1>5 DEF EscrowIdle, Job
<1>6. ASSUME NEW j, NEW n, jobs' = [jobs EXCEPT ![j].committed = @ + n] PROVE EscrowIdle
  BY <1>1, <1>2, <1>6 DEF EscrowIdle, Job
<1>7. ASSUME NEW r, Commit(r) PROVE EscrowIdle
  BY <1>7, CommitEscrow
<1>8. ASSUME NEW r, Release(r) PROVE EscrowIdle
  BY <1>1, <1>2, <1>8 DEF EscrowIdle, Job, Release
<1>9. ASSUME NEW n \in Amounts, Hold(FlowJob, n) PROVE EscrowIdle
  <2>1. n \in Nat
    BY AmountsAssumption
  <2>2. QED BY <1>1, <1>2, <1>9, <2>1 DEF EscrowIdle, Job, Hold
<1>10. QED
  BY <1>3, <1>4, <1>5, <1>6, <1>7, <1>8, <1>9
  DEF Spend, OpenRootScope, OpenSubScope, Reserve, Meter

\* A new flow has no escrow behind it; the amount it may lock is new money.
LEMMA CreateEscrow ==
  ASSUME IInv, NEW c \in Ceilings, NEW n \in Amounts \cup {None}, CreateJobFlow(c, n)
  PROVE  EscrowIdle
<1> DEFINE fits == n # None /\ n <= c
           st == IF fits THEN "HELD" ELSE "OPEN"
           locked == IF fits THEN n ELSE 0
<1>1. locked \in Nat
  BY AmountsAssumption
<1>2. jobs' = [jobs EXCEPT ![FlowJob].state = st, ![FlowJob].ceiling = c,
                           ![FlowJob].held = locked]
  BY DEF CreateJobFlow
<1> HIDE DEF st, locked
<1>3. /\ jobs \in [Jobs -> Job] /\ FlowJob \in Jobs /\ jobs[FlowJob] \in Job
  BY FlowAssumption DEF IInv, TypeOK
<1>4. jobs[FlowJob].held = 0
  <2>1. jobs[FlowJob].state = "NONE" /\ jobs[FlowJob].held \in Nat
    BY <1>3 DEF CreateJobFlow, IsOpen, Job
  <2>2. QED BY <1>3, <2>1 DEF IInv, HeldIffLocked
<1>5. QED BY <1>1, <1>2, <1>3, <1>4 DEF EscrowIdle, Job

\* A disposition of all that is held pays it all one way.
LEMMA DisposeAllEscrow ==
  ASSUME TypeOK, NEW to \in Dispositions, DisposeAll(FlowJob, to)
  PROVE  LET j == FlowJob
         IN  /\ jobs'[j].held = 0
             /\ jobs'[j].released = IF to = "RELEASED" THEN jobs[j].released + jobs[j].held
                                    ELSE jobs[j].released
             /\ jobs'[j].refunded = IF to = "REFUNDED" THEN jobs[j].refunded + jobs[j].held
                                    ELSE jobs[j].refunded
<1> DEFINE money == jobs[FlowJob]
           paid == IF to = "RELEASED" THEN money.released + money.held ELSE money.released
           back == IF to = "REFUNDED" THEN money.refunded + money.held ELSE money.refunded
           rest == money.held - money.held
<1>1. /\ jobs \in [Jobs -> Job] /\ FlowJob \in Jobs /\ money \in Job /\ rest = 0
  BY FlowAssumption DEF TypeOK, Job
<1>2. jobs' = [jobs EXCEPT ![FlowJob].held = rest, ![FlowJob].released = paid,
                           ![FlowJob].refunded = back, ![FlowJob].state = to]
  BY DEF DisposeAll, Dispose
<1> HIDE DEF paid, back, rest
<1>3. /\ jobs'[FlowJob].held = rest /\ jobs'[FlowJob].released = paid
      /\ jobs'[FlowJob].refunded = back
  BY <1>1, <1>2 DEF Job
<1>4. QED BY <1>1, <1>3 DEF paid, back

\* A judgment check never passes, so a spec with one is never accepted.
LEMMA JudgmentNotAccepted ==
  ASSUME NEW spec, NEW evidence, "HUMAN_JUDGMENT" \in spec
  PROVE  StateOf({EvaluateCheck(k, evidence) : k \in spec}) # "ACCEPTED"
<1>1. EvaluateCheck("HUMAN_JUDGMENT", evidence) = "UNKNOWN"
  BY DEF EvaluateCheck
<1>2. "UNKNOWN" \in {EvaluateCheck(k, evidence) : k \in spec}
  BY <1>1
<1>3. QED BY <1>2 DEF StateOf

\* Delivering is the only step that moves the escrow, and the verdict says how.
LEMMA DeliverEscrow ==
  ASSUME TypeOK, NEW spec, NEW evidence, Deliver(spec, evidence)
  PROVE  EscrowStep /\ JudgmentStep
<1>1. /\ jobs[FlowJob].held \in Nat /\ jobs[FlowJob].released \in Nat
      /\ jobs[FlowJob].refunded \in Nat
  BY FlowAssumption DEF TypeOK, Job
<1>2. CASE UNCHANGED vars
  BY <1>1, <1>2, EscrowIdleSteps DEF EscrowIdle, vars
<1>3. CASE last'.state = "ACCEPTED" /\ DisposeAll(FlowJob, "RELEASED")
  <2>1. EscrowStep
    BY <1>1, <1>3, DisposeAllEscrow DEF Dispositions, EscrowStep
  <2>2. "HUMAN_JUDGMENT" \notin last'.spec
    <3>1. /\ StateOf({EvaluateCheck(k, evidence) : k \in spec}) = last'.state
          /\ last'.spec = spec
      BY DeliverDisposes
    <3>2. "HUMAN_JUDGMENT" \notin spec
      BY <1>3, <3>1, JudgmentNotAccepted, Zenon
    <3>3. QED BY <3>1, <3>2
  <2>3. QED BY <2>1, <2>2 DEF JudgmentStep
<1>4. CASE last'.state = "REJECTED" /\ DisposeAll(FlowJob, "REFUNDED")
  BY <1>1, <1>4, DisposeAllEscrow DEF Dispositions, EscrowStep, JudgmentStep
<1>5. QED BY <1>2, <1>3, <1>4, DeliverDisposes

LEMMA HarnessEscrow == ASSUME TypeOK, HarnessStep PROVE EscrowIdle
<1>1. /\ jobs \in [Jobs -> Job] /\ FlowJob \in Jobs /\ jobs[FlowJob] \in Job
  BY FlowAssumption DEF TypeOK
<1>2. /\ jobs[FlowJob].held \in Nat /\ jobs[FlowJob].released \in Nat
      /\ jobs[FlowJob].refunded \in Nat
  BY <1>1 DEF Job
<1>3. ASSUME UNCHANGED vars PROVE EscrowIdle
  <2>1. jobs'[FlowJob] = jobs[FlowJob]
    BY <1>3 DEF vars
  <2>2. QED BY <1>2, <2>1 DEF EscrowIdle
<1>4. ASSUME NEW c, NEW r, Sign(c, r) PROVE EscrowIdle
  <2>1. jobs' = [jobs EXCEPT ![BudgetJob].reserved = @ + Price[c]]
    BY <1>4 DEF Sign, Reserve
  <2>2. QED BY <1>1, <1>2, <2>1 DEF EscrowIdle, Job
<1>5. ASSUME NEW r, Commit(r) PROVE EscrowIdle
  BY <1>5, CommitEscrow
<1>6. ASSUME NEW r, Release(r) PROVE EscrowIdle
  BY <1>1, <1>2, <1>6 DEF EscrowIdle, Job, Release
<1>7. QED
  BY <1>3, <1>4, <1>5, <1>6
  DEF HarnessStep, SettleDryRun, SettleBadEnvelope, SettleUnknown, SettleDone,
      CommitHeld, ReleaseHeld

\* Escrow moves on the verdict that allows it: money leaves the lock only in a
\* delivery, all of it, to the worker when every check passed, back to the
\* publisher when one failed, and never to the worker on a judgment no machine
\* can make, whatever the spec, the evidence and the spending in between.
THEOREM EscrowMovesOnVerdict == PaidSpec => EscrowFollowsVerdict
<1>1. PaidInv /\ [PaidNext]_paidVars => [EscrowStep /\ JudgmentStep]_flowVars
  <2> SUFFICES ASSUME PaidInv, [PaidNext]_paidVars PROVE EscrowStep /\ JudgmentStep
    OBVIOUS
  <2>1. TypeOK /\ IInv
    BY DEF PaidInv, IInv
  <2>2. ASSUME EscrowIdle PROVE EscrowStep /\ JudgmentStep
    BY <2>1, <2>2, EscrowIdleSteps
  <2>3. CASE FlowStep
    <3>1. ASSUME NEW c \in Ceilings, NEW n \in Amounts \cup {None}, CreateJobFlow(c, n)
          PROVE  EscrowIdle
      BY <2>1, <3>1, CreateEscrow
    <3>2. CASE Spend
      BY <2>1, <2>2, <3>2, SpendEscrow
    <3>3. ASSUME NEW spec, NEW e, Deliver(spec, e) PROVE EscrowStep /\ JudgmentStep
      BY <2>1, <3>3, DeliverEscrow
    <3>4. QED BY <2>2, <2>3, <3>1, <3>2, <3>3 DEF FlowStep
  <2>4. CASE HarnessStep
    BY <2>1, <2>2, <2>4, HarnessEscrow
  <2>5. CASE UNCHANGED paidVars
    <3>1. jobs[FlowJob].held \in Nat
      BY <2>1, FlowAssumption DEF TypeOK, Job
    <3>2. EscrowIdle
      BY <2>5, <3>1 DEF EscrowIdle, paidVars, vars
    <3>3. QED BY <2>2, <3>2
  <2>6. QED BY <2>3, <2>4, <2>5 DEF PaidNext
<1>2. [EscrowStep /\ JudgmentStep]_flowVars
        => /\ [EscrowStep]_flowVars /\ [JudgmentStep]_flowVars
  OBVIOUS
<1>3. PaidSpec => [][EscrowStep]_flowVars /\ [][JudgmentStep]_flowVars
  BY <1>1, <1>2, PaidInitInv, PaidNextInv, PTL DEF PaidSpec
<1>4. QED
  BY <1>3 DEF EscrowFollowsVerdict, MoneyFollowsVerdict, JudgmentNeverPaid, EscrowStep, JudgmentStep

-----------------------------------------------------------------------------
\* The ledger of a paid job, as others see it.  The flow and the harness reach
\* it by its own calls only, but for the creation of the flow, which opens the
\* job and locks an amount at once.
LEMMA PaidSteps ==
  ASSUME PaidInv, [PaidNext]_paidVars
  PROVE  [Next]_vars \/ \E c \in Ceilings, n \in Amounts \cup {None} : CreateJobFlow(c, n)
<1>1. CASE Spend
  BY <1>1, FlowAssumption DEF Spend, Next
<1>2. ASSUME NEW spec, NEW e, Deliver(spec, e) PROVE [Next]_vars
  <2>1. \/ UNCHANGED vars
        \/ \E to \in Dispositions : DisposeAll(FlowJob, to)
    BY <1>2, DeliverDisposes DEF Dispositions
  <2> QED BY <2>1, FlowAssumption DEF Next
<1>3. ASSUME NEW c \in Challenges, NEW r \in Reservations, Sign(c, r) PROVE Next
  <2>1. /\ BudgetJob \in Jobs /\ BudgetScope \in Scopes \cup {None} /\ Price[c] \in Amounts
        /\ Reserve(BudgetJob, BudgetScope, r, Price[c])
    BY <1>3, HarnessAssumption DEF Sign
  <2> QED BY <2>1 DEF Next
<1>4. ASSUME NEW c \in Challenges, CommitHeld(c) \/ ReleaseHeld(c) PROVE [Next]_vars
  <2>1. held[c] \in Reservations \cup {None}
    BY DEF PaidInv, HarnessTypeOK
  <2>2. \/ UNCHANGED vars
        \/ held[c] # None /\ (Commit(held[c]) \/ Release(held[c]))
    BY <1>4 DEF CommitHeld, ReleaseHeld
  <2> QED BY <2>1, <2>2 DEF Next
<1>5. CASE HarnessStep
  BY <1>3, <1>4, <1>5 DEF HarnessStep, SettleDryRun, SettleBadEnvelope, SettleUnknown, SettleDone
<1>6. CASE FlowStep
  BY <1>1, <1>2, <1>6 DEF FlowStep
<1>7. CASE UNCHANGED paidVars
  BY <1>7 DEF paidVars
<1> QED BY <1>5, <1>6, <1>7 DEF PaidNext

\* What the creation of the flow does to the books of its job, and of others.
LEMMA CreateIs ==
  ASSUME TypeOK, NEW c \in Ceilings, NEW n \in Amounts \cup {None}, CreateJobFlow(c, n)
  PROVE  /\ Funds(FlowJob, c)
         /\ jobs'[FlowJob].released = jobs[FlowJob].released
         /\ jobs'[FlowJob].refunded = jobs[FlowJob].refunded
         /\ jobs'[FlowJob].held \in Nat
<1> DEFINE fits == n # None /\ n <= c
           st == IF fits THEN "HELD" ELSE "OPEN"
           locked == IF fits THEN n ELSE 0
<1>1. st # "NONE" /\ locked \in Nat
  BY AmountsAssumption
<1>2. /\ jobs \in [Jobs -> Job] /\ FlowJob \in Jobs /\ ~IsOpen(FlowJob)
      /\ jobs' = [jobs EXCEPT ![FlowJob].state = st, ![FlowJob].ceiling = c, ![FlowJob].held = locked]
      /\ UNCHANGED <<scopes, reservations>>
  BY FlowAssumption DEF CreateJobFlow, TypeOK
<1> HIDE DEF st, locked
<1> QED BY <1>1, <1>2 DEF Funds, IsOpen, Job

LEMMA CreateFunds ==
  ASSUME RefineInv, NEW c \in Ceilings, NEW n \in Amounts \cup {None}, CreateJobFlow(c, n)
  PROVE  RefineInv' /\ Authority!Fund(FlowJob, c)
<1>1. IInv /\ IInv' /\ TypeOK /\ FlowJob \in Jobs
  BY CreateJobFlowInv, FlowAssumption DEF RefineInv, IInv
<1>2. Funds(FlowJob, c)
  BY <1>1, CreateIs
<1>3. RefineInv'
  <2>1. UNCHANGED <<scopes, reservations>> /\ \A k \in Jobs : IsOpen(k) => IsOpen(k)'
    BY <1>2 DEF Funds, IsOpen
  <2> QED BY <1>1, <2>1 DEF RefineInv, HasScope
<1> QED BY <1>1, <1>2, <1>3, OpeningFunds

LEMMA PaidRefineNext ==
  PaidInv /\ RefineInv /\ [PaidNext]_paidVars
    => RefineInv' /\ [Authority!Next]_<<Opened, Free, Pending, Spent>>
<1> SUFFICES ASSUME PaidInv, RefineInv, [PaidNext]_paidVars
             PROVE  RefineInv' /\ [Authority!Next]_<<Opened, Free, Pending, Spent>>
  OBVIOUS
<1>1. CASE [Next]_vars
  BY <1>1, RefineNextInv, StepOfPurses
<1>2. ASSUME NEW c \in Ceilings, NEW n \in Amounts \cup {None}, CreateJobFlow(c, n)
      PROVE  RefineInv' /\ Authority!Next
  BY <1>2, CreateFunds, FlowAssumption DEF Authority!Next
<1> QED BY <1>1, <1>2, PaidSteps

\* The ledger of a paid job implements the spend authority: however the flow,
\* its deliveries and the x402 payments are interleaved on it, no cent is drawn
\* that the purse of its holder does not have, and a job is funded once.
THEOREM PaidImplements == PaidSpec => ImplementsAuthority
<1>1. PaidInit => PaidInv /\ RefineInv /\ Authority!Init
  BY PaidInitInv, RefineInitInv, InitPurses DEF PaidInit, FlowInit
<1> QED BY <1>1, PaidNextInv, PaidRefineNext, PTL
        DEF PaidSpec, ImplementsAuthority, Authority!Spec, Authority!vars

\* Money changes hands nowhere but where it is asked to, in a paid job as well:
\* no payment of the harness makes a scope poorer that did not ask for it, and
\* what leaves escrow is what was locked when the flow was created or later.
THEOREM PaidMoneyKept == PaidSpec => MoneyStaysPut
<1>1. PaidInv /\ PaidInv' /\ [PaidNext]_paidVars => [OnePoorer]_vars /\ [\A j \in Jobs : PaidOut(j)]_vars
  <2> SUFFICES ASSUME PaidInv, PaidInv', [PaidNext]_paidVars
               PROVE  [OnePoorer]_vars /\ [\A j \in Jobs : PaidOut(j)]_vars
    OBVIOUS
  <2>1. IInv /\ IInv' /\ TypeOK
    BY DEF PaidInv, IInv
  <2>2. CASE [Next]_vars
    BY <2>1, <2>2, StepRaidsNobody, StepPaysOut
  <2>3. ASSUME NEW c \in Ceilings, NEW n \in Amounts \cup {None}, CreateJobFlow(c, n)
        PROVE  OnePoorer /\ \A j \in Jobs : PaidOut(j)
    <3>1. /\ Funds(FlowJob, c) /\ FlowJob \in Jobs
          /\ jobs'[FlowJob].released = jobs[FlowJob].released
          /\ jobs'[FlowJob].refunded = jobs[FlowJob].refunded
          /\ jobs'[FlowJob].held \in Nat
      BY <2>1, <2>3, CreateIs, FlowAssumption
    <3>2. UNCHANGED scopes
      BY <3>1 DEF Funds
    <3>3. OnePoorer
      BY <2>1, <3>2, AvailableTyped DEF OnePoorer, ScopeAvailable, IInv
    <3>4. PaidOut(FlowJob)
      <4>1. jobs[FlowJob].held = 0
        BY <2>1, <3>1 DEF IInv, TypeOK, HeldIffLocked, Job, Funds, IsOpen
      <4>2. jobs[FlowJob].released \in Nat /\ jobs[FlowJob].refunded \in Nat
        BY <2>1, <3>1 DEF TypeOK, Job
      <4> QED BY <3>1, <4>1, <4>2 DEF PaidOut
    <3>5. ASSUME NEW j \in Jobs \ {FlowJob} PROVE PaidOut(j)
      BY <2>1, <3>1, EscrowUntouched DEF Funds
    <3> QED BY <3>3, <3>4, <3>5
  <2> QED BY <2>2, <2>3, PaidSteps
<1>2. PaidSpec => [][OnePoorer]_vars /\ [][\A j \in Jobs : PaidOut(j)]_vars
  BY <1>1, PaidInitInv, PaidNextInv, PTL DEF PaidSpec
<1> QED BY <1>2 DEF MoneyStaysPut, NoRaid, EscrowConserved, OnePoorer, PaidOut

-----------------------------------------------------------------------------
Admission == [raw : RawAddresses, at : Nat]

\* Of the admitted of an address: those from a time on, and those of the
\* window's length before it.
From(s, k, t) == {i \in DOMAIN s : s[i].raw = k /\ t <= s[i].at}
Eve(s, k, t) == {i \in DOMAIN s : s[i].raw = k /\ s[i].at < t /\ t < s[i].at + WindowMs}

\* A bucket counts what was admitted since its start, all of it in its window;
\* in the length of a window before, less than the limit was.
Counts(k, b) ==
  /\ b \in [start : Nat, count : 0 .. MaxRate] /\ b.start <= now
  /\ Cardinality(From(admitted, k, b.start)) <= b.count
  /\ \A i \in DOMAIN admitted : admitted[i].raw = k => admitted[i].at < b.start + WindowMs
  /\ Cardinality(Eve(admitted, k, b.start)) < MaxRate

\* A bucket that is kept starts with one that was admitted.
StartsAdmitted(k, b) == \E i \in DOMAIN admitted : admitted[i].raw = k /\ admitted[i].at = b.start

\* Of an address without a bucket, nothing was admitted at this very time.
Rests(k) ==
  /\ \A i \in DOMAIN admitted : admitted[i].raw = k => admitted[i].at < now
  /\ Cardinality(Eve(admitted, k, now)) < MaxRate

LimiterInv ==
  /\ now \in Nat /\ admitted \in Seq(Admission)
  /\ \A i, j \in DOMAIN admitted : i <= j => admitted[i].at <= admitted[j].at
  /\ \A i \in DOMAIN admitted : admitted[i].at <= now
  /\ DOMAIN buckets \subseteq RawAddresses
  /\ \A k \in DOMAIN buckets : Counts(k, buckets[k]) /\ StartsAdmitted(k, buckets[k])
  /\ \A k \in RawAddresses \ DOMAIN buckets : Rests(k)
  /\ LessThanTwiceTheLimit

LEMMA LimitsAreNat ==
  /\ WindowMs \in Nat /\ WindowMs > 0
  /\ MaxRate \in Nat /\ MaxRate > 0
BY EndpointAssumption

-----------------------------------------------------------------------------
\* The indices of a sequence are finitely many.
LEMMA IndicesFinite ==
  ASSUME NEW s \in Seq(Admission), NEW k, NEW t
  PROVE  /\ Len(s) \in Nat /\ DOMAIN s = 1 .. Len(s)
         /\ IsFiniteSet(DOMAIN s)
         /\ IsFiniteSet(From(s, k, t)) /\ Cardinality(From(s, k, t)) \in Nat
         /\ IsFiniteSet(Eve(s, k, t)) /\ Cardinality(Eve(s, k, t)) \in Nat
<1>1. Len(s) \in Nat /\ DOMAIN s = 1 .. Len(s)
  BY LenProperties
<1>2. IsFiniteSet(DOMAIN s)
  BY <1>1, FS_Interval
<1>3. IsFiniteSet(From(s, k, t)) /\ IsFiniteSet(Eve(s, k, t))
  BY <1>2, FS_Subset DEF From, Eve
<1>4. QED BY <1>1, <1>2, <1>3, FS_CardinalityType

LEMMA AdmissionsTyped ==
  ASSUME NEW s \in Seq(Admission), NEW i \in DOMAIN s
  PROVE  s[i] \in Admission /\ s[i].raw \in RawAddresses /\ s[i].at \in Nat
<1>1. s[i] \in Admission
  BY ElementOfSeq, LenProperties
<1>2. QED BY <1>1 DEF Admission

\* No set with one more member has more than one more.
LEMMA OneMore ==
  ASSUME NEW S, IsFiniteSet(S), NEW x, NEW T, T \subseteq S \cup {x}
  PROVE  IsFiniteSet(T) /\ Cardinality(T) <= Cardinality(S) + 1
<1>1. IsFiniteSet(S \cup {x}) /\ Cardinality(S \cup {x}) <= Cardinality(S) + 1
  <2>1. /\ IsFiniteSet(S \cup {x}) /\ Cardinality(S) \in Nat
        /\ Cardinality(S \cup {x}) = IF x \in S THEN Cardinality(S) ELSE Cardinality(S) + 1
    BY FS_AddElement, FS_CardinalityType
  <2>2. QED BY <2>1
<1>2. /\ IsFiniteSet(T) /\ Cardinality(T) <= Cardinality(S \cup {x})
  BY <1>1, FS_Subset
<1>3. Cardinality(S) \in Nat /\ Cardinality(T) \in Nat /\ Cardinality(S \cup {x}) \in Nat
  BY <1>1, <1>2, FS_CardinalityType
<1>4. QED BY <1>1, <1>2, <1>3

\* A set that two sets cover, one of at most m members and one of less, has
\* less than twice as many.
LEMMA TwoCover ==
  ASSUME NEW m \in Nat, NEW S, NEW T, IsFiniteSet(S), IsFiniteSet(T),
         Cardinality(S) <= m, Cardinality(T) < m, NEW U, U \subseteq S \cup T
  PROVE  Cardinality(U) < 2 * m
<1>1. /\ IsFiniteSet(S \cup T) /\ IsFiniteSet(S \cap T)
      /\ Cardinality(S \cup T) = Cardinality(S) + Cardinality(T) - Cardinality(S \cap T)
  BY FS_Union, FS_Intersection
<1>2. IsFiniteSet(U) /\ Cardinality(U) <= Cardinality(S \cup T)
  BY <1>1, FS_Subset
<1>3. /\ Cardinality(S) \in Nat /\ Cardinality(T) \in Nat /\ Cardinality(S \cap T) \in Nat
      /\ Cardinality(S \cup T) \in Nat /\ Cardinality(U) \in Nat
  BY <1>1, <1>2, FS_CardinalityType
<1>4. QED BY <1>1, <1>2, <1>3

\* Once a window ran out, what it let through first is older than a window.
LEMMA FirstIsOut ==
  ASSUME NEW s \in Seq(Admission), NEW k, NEW t \in Nat, NEW i \in DOMAIN s,
         s[i].raw = k, s[i].at + WindowMs <= t
  PROVE  Cardinality(Eve(s, k, t)) < Cardinality(From(s, k, s[i].at))
<1>1. s[i].at \in Nat /\ \A j \in DOMAIN s : s[j].at \in Nat
  BY AdmissionsTyped
<1>2. i \in From(s, k, s[i].at)
  BY <1>1 DEF From
<1>3. Eve(s, k, t) \subseteq From(s, k, s[i].at) \ {i}
  BY <1>1, LimitsAreNat DEF From, Eve
<1>4. /\ IsFiniteSet(From(s, k, s[i].at)) /\ Cardinality(From(s, k, s[i].at)) \in Nat
      /\ IsFiniteSet(From(s, k, s[i].at) \ {i})
      /\ Cardinality(From(s, k, s[i].at) \ {i}) = Cardinality(From(s, k, s[i].at)) - 1
  BY <1>2, IndicesFinite, FS_RemoveElement
<1>5. /\ Cardinality(Eve(s, k, t)) <= Cardinality(From(s, k, s[i].at) \ {i})
      /\ Cardinality(Eve(s, k, t)) \in Nat
  BY <1>3, <1>4, IndicesFinite, FS_Subset
<1>6. QED BY <1>4, <1>5

\* The bucket a request is counted in, an old one or one that starts now,
\* counts in the sense above.
LEMMA BucketCounts ==
  ASSUME LimiterInv, NEW k \in RawAddresses
  PROVE  /\ Counts(k, Bucket(k)) /\ now < Bucket(k).start + WindowMs
<1> USE LimitsAreNat DEF LimiterInv
<1> DEFINE new == [start |-> now, count |-> 0]
<1>1. \A j \in DOMAIN Kept : j \in DOMAIN buckets /\ Kept[j] = buckets[j]
  BY DEF Kept, Sweep
<1>2. CASE k \in DOMAIN Kept /\ ~RanOut(Kept[k])
  <2>1. Bucket(k) = buckets[k] /\ Counts(k, buckets[k]) /\ ~RanOut(buckets[k])
    BY <1>1, <1>2 DEF Bucket
  <2>2. buckets[k].start \in Nat
    BY <2>1 DEF Counts
  <2>3. QED BY <2>1, <2>2 DEF RanOut
<1>3. CASE k \in DOMAIN buckets /\ RanOut(buckets[k])
  <2> DEFINE b == buckets[k]
  <2>1. Bucket(k) = new
    BY <1>1, <1>3 DEF Bucket
  <2>2. /\ Counts(k, b) /\ StartsAdmitted(k, b) /\ b.start \in Nat /\ b.count \in 0 .. MaxRate
        /\ b.start + WindowMs <= now
    BY <1>3 DEF Counts, RanOut
  <2>3. \A i \in DOMAIN admitted : admitted[i].raw = k => admitted[i].at \in Nat /\ admitted[i].at < now
    BY <2>2, AdmissionsTyped DEF Counts
  <2>4. From(admitted, k, now) = {}
    BY <2>3 DEF From
  <2>6. Cardinality(Eve(admitted, k, now)) < b.count
    <3>1. /\ Cardinality(Eve(admitted, k, now)) < Cardinality(From(admitted, k, b.start))
          /\ Cardinality(Eve(admitted, k, now)) \in Nat
          /\ Cardinality(From(admitted, k, b.start)) \in Nat
      BY <2>2, FirstIsOut, IndicesFinite DEF StartsAdmitted
    <3>2. QED BY <2>2, <3>1 DEF Counts
  <2> HIDE DEF b
  <2>7. Cardinality(From(admitted, k, now)) = 0
    BY <2>4, FS_EmptySet
  <2>8. Cardinality(Eve(admitted, k, now)) < MaxRate
    BY <2>2, <2>6, IndicesFinite
  <2>9. QED BY <2>1, <2>3, <2>7, <2>8 DEF Counts
<1>4. CASE k \notin DOMAIN buckets
  <2>1. Bucket(k) = new /\ Rests(k)
    BY <1>1, <1>4 DEF Bucket
  <2>2. From(admitted, k, now) = {}
    BY <2>1, AdmissionsTyped DEF From, Rests
  <2>3. Cardinality(From(admitted, k, now)) = 0
    BY <2>2, FS_EmptySet
  <2>4. \A i \in DOMAIN admitted : admitted[i].raw = k => admitted[i].at < now + WindowMs
    BY <2>1, AdmissionsTyped DEF Rests
  <2>5. QED BY <2>1, <2>3, <2>4 DEF Counts, Rests
<1>5. QED
  <2>1. k \in DOMAIN buckets /\ ~RanOut(buckets[k]) => k \in DOMAIN Kept /\ ~RanOut(Kept[k])
    BY DEF Kept, Sweep
  <2>2. QED BY <1>2, <1>3, <1>4, <2>1

\* Appending an admission of another address leaves what was admitted of k.
LEMMA OthersAppended ==
  ASSUME NEW s \in Seq(Admission), NEW x \in Admission, NEW k, x.raw # k, NEW t
  PROVE  /\ From(Append(s, x), k, t) = From(s, k, t)
         /\ Eve(Append(s, x), k, t) = Eve(s, k, t)
         /\ \A i \in DOMAIN Append(s, x) :
              Append(s, x)[i].raw = k => i \in DOMAIN s /\ Append(s, x)[i] = s[i]
<1>1. /\ Len(s) \in Nat /\ DOMAIN s = 1 .. Len(s)
      /\ DOMAIN Append(s, x) = 1 .. (Len(s) + 1)
      /\ Append(s, x)[Len(s) + 1] = x /\ \A i \in 1 .. Len(s) : Append(s, x)[i] = s[i]
  BY AppendProperties, LenProperties
<1>2. \A i \in DOMAIN Append(s, x) : i \in DOMAIN s \/ i = Len(s) + 1
  BY <1>1
<1>3. QED BY <1>1, <1>2 DEF From, Eve

\* Admitting one of k adds it to what counts from a time before it.
LEMMA OneAppended ==
  ASSUME NEW s \in Seq(Admission), NEW x \in Admission, NEW t \in Nat, t <= x.at
  PROVE  /\ From(Append(s, x), x.raw, t) \subseteq From(s, x.raw, t) \cup {Len(s) + 1}
         /\ Eve(Append(s, x), x.raw, t) = Eve(s, x.raw, t)
<1>1. /\ Len(s) \in Nat /\ DOMAIN s = 1 .. Len(s)
      /\ DOMAIN Append(s, x) = 1 .. (Len(s) + 1)
      /\ Append(s, x)[Len(s) + 1] = x /\ \A i \in 1 .. Len(s) : Append(s, x)[i] = s[i]
  BY AppendProperties, LenProperties
<1>2. x.at \in Nat
  BY DEF Admission
<1>3. \A i \in DOMAIN Append(s, x) : i \in DOMAIN s \/ i = Len(s) + 1
  BY <1>1
<1>4. ~(x.at < t)
  BY <1>2
<1>5. QED BY <1>1, <1>3, <1>4 DEF From, Eve

\* The bound itself: what is admitted within a window's length of one of k's
\* falls into the last window or the length of a window before it.
LEMMA LatestTwice ==
  ASSUME NEW s \in Seq(Admission), NEW k, NEW t \in Nat, NEW i \in DOMAIN s,
         s[i].raw = k, t < s[i].at + WindowMs,
         \A h, j \in DOMAIN s : h <= j => s[h].at <= s[j].at,
         Cardinality(From(s, k, t)) <= MaxRate, Cardinality(Eve(s, k, t)) < MaxRate
  PROVE  Cardinality({j \in i .. Len(s) : s[j].raw = s[i].raw /\ s[j].at - s[i].at < WindowMs})
           < 2 * MaxRate
<1> DEFINE soon == {j \in i .. Len(s) : s[j].raw = s[i].raw /\ s[j].at - s[i].at < WindowMs}
<1>1. soon \subseteq From(s, k, t) \cup Eve(s, k, t)
  <2> SUFFICES ASSUME NEW j \in soon PROVE j \in From(s, k, t) \cup Eve(s, k, t)
    OBVIOUS
  <2>1. j \in DOMAIN s /\ i <= j /\ s[j].raw = k
    BY LenProperties
  <2>2. /\ s[i].at \in Nat /\ s[j].at \in Nat /\ s[i].at <= s[j].at
    BY <2>1, AdmissionsTyped
  <2>3. s[j].at < t => t < s[j].at + WindowMs
    BY <2>2, LimitsAreNat
  <2>4. QED BY <2>1, <2>2, <2>3 DEF From, Eve
<1> HIDE DEF soon
<1>2. Cardinality(soon) < 2 * MaxRate
  BY <1>1, IndicesFinite, TwoCover, LimitsAreNat
<1>3. QED BY <1>2 DEF soon

-----------------------------------------------------------------------------
\* A bucket that ran out and is swept leaves an address that rests.
LEMMA SweptRests ==
  ASSUME LimiterInv, NEW k \in RawAddresses, k \notin DOMAIN Kept
  PROVE  Rests(k)
<1> USE LimitsAreNat DEF LimiterInv
<1>1. CASE k \notin DOMAIN buckets
  BY <1>1
<1>2. CASE k \in DOMAIN buckets
  <2> DEFINE b == buckets[k]
  <2>1. RanOut(b) /\ Counts(k, b) /\ StartsAdmitted(k, b)
    BY <1>2 DEF Kept, Sweep
  <2>2. b.start \in Nat /\ b.count \in 0 .. MaxRate /\ b.start + WindowMs <= now
    BY <2>1 DEF Counts, RanOut
  <2>3. \A i \in DOMAIN admitted : admitted[i].raw = k => admitted[i].at \in Nat /\ admitted[i].at < now
    BY <2>1, <2>2, AdmissionsTyped DEF Counts
  <2>5. /\ Cardinality(Eve(admitted, k, now)) < Cardinality(From(admitted, k, b.start))
        /\ Cardinality(From(admitted, k, b.start)) <= b.count
        /\ Cardinality(Eve(admitted, k, now)) \in Nat /\ Cardinality(From(admitted, k, b.start)) \in Nat
    BY <2>1, <2>2, FirstIsOut, IndicesFinite DEF Counts, StartsAdmitted
  <2> HIDE DEF b
  <2>6. Cardinality(Eve(admitted, k, now)) < MaxRate
    BY <2>2, <2>5
  <2>7. QED BY <2>3, <2>6 DEF Rests
<1>3. QED BY <1>1, <1>2

\* An address of which nothing is admitted keeps its bucket, or its rest.
LEMMA OthersKeep ==
  ASSUME LimiterInv, now' = now, NEW k \in RawAddresses,
         \/ admitted' = admitted
         \/ \E x \in Admission : x.raw # k /\ admitted' = Append(admitted, x)
  PROVE  /\ \A b : Counts(k, b) => Counts(k, b)'
         /\ \A b : StartsAdmitted(k, b) => StartsAdmitted(k, b)'
         /\ Rests(k) => Rests(k)'
<1>1. /\ \A t : From(admitted', k, t) = From(admitted, k, t) /\ Eve(admitted', k, t) = Eve(admitted, k, t)
      /\ \A i \in DOMAIN admitted' :
           admitted'[i].raw = k => i \in DOMAIN admitted /\ admitted'[i] = admitted[i]
  <2>1. CASE admitted' = admitted
    BY <2>1
  <2>2. ASSUME NEW x \in Admission, x.raw # k, admitted' = Append(admitted, x)
        PROVE  /\ \A t : /\ From(admitted', k, t) = From(admitted, k, t)
                         /\ Eve(admitted', k, t) = Eve(admitted, k, t)
               /\ \A i \in DOMAIN admitted' :
                    admitted'[i].raw = k => i \in DOMAIN admitted /\ admitted'[i] = admitted[i]
    BY <2>2, OthersAppended DEF LimiterInv
  <2>3. QED BY <2>1, <2>2
<1>2. ASSUME NEW b, StartsAdmitted(k, b) PROVE StartsAdmitted(k, b)'
  <2>1. \A i \in DOMAIN admitted : i \in DOMAIN admitted' /\ admitted'[i] = admitted[i]
    BY AppendProperties, LenProperties DEF LimiterInv
  <2>2. QED BY <1>2, <2>1 DEF StartsAdmitted
<1>3. QED BY <1>1, <1>2 DEF Counts, Rests

LEMMA CheckInv ==
  ASSUME LimiterInv, NEW k \in RawAddresses, Check(k), UNCHANGED now
  PROVE  LimiterInv'
<1> USE LimitsAreNat
<1> DEFINE b == Bucket(k)
           within == WithinRate(k)
           c == IF within THEN b.count + 1 ELSE b.count
           counted == [b EXCEPT !.count = c]
           x == [raw |-> k, at |-> now]
<1>1. /\ Counts(k, b) /\ now < b.start + WindowMs
      /\ b.start \in Nat /\ b.count \in 0 .. MaxRate /\ b.start <= now
      /\ b \in [start : Nat, count : 0 .. MaxRate]
  BY BucketCounts DEF Counts
<1>2. /\ x \in Admission /\ x.raw = k /\ x.at = now
      /\ now \in Nat /\ admitted \in Seq(Admission)
      /\ \A i, j \in DOMAIN admitted : i <= j => admitted[i].at <= admitted[j].at
      /\ \A i \in DOMAIN admitted : admitted[i].at <= now
  BY DEF LimiterInv, Admission
<1>3. /\ buckets' = [j \in DOMAIN Kept \cup {k} |-> IF j = k THEN counted ELSE Kept[j]]
      /\ admitted' = IF within THEN Append(admitted, x) ELSE admitted
      /\ now' = now
  BY DEF Check
<1>4. c \in 0 .. MaxRate /\ (within => c = b.count + 1) /\ (~within => c = b.count)
  BY <1>1 DEF WithinRate
<1>5. counted.start = b.start /\ counted.count = c /\ counted \in [start : Nat, count : 0 .. MaxRate]
  BY <1>1, <1>4
<1> HIDE DEF counted, c, within, x, b
<1>6. /\ Len(admitted) \in Nat /\ DOMAIN admitted = 1 .. Len(admitted)
      /\ within => /\ DOMAIN admitted' = 1 .. (Len(admitted) + 1)
                   /\ admitted'[Len(admitted) + 1] = x
                   /\ \A i \in DOMAIN admitted : admitted'[i] = admitted[i]
      /\ admitted' \in Seq(Admission)
  BY <1>2, <1>3, AppendProperties, LenProperties
<1>7. /\ \A i \in DOMAIN admitted' : admitted'[i].at <= now
      /\ \A i, j \in DOMAIN admitted' : i <= j => admitted'[i].at <= admitted'[j].at
  <2>1. CASE within
    <3>1. \A i \in DOMAIN admitted' :
            \/ i \in DOMAIN admitted /\ admitted'[i] = admitted[i] /\ i <= Len(admitted)
            \/ i = Len(admitted) + 1 /\ admitted'[i] = x
      BY <1>6, <2>1
    <3>2. QED BY <1>2, <1>6, <3>1
  <2>2. CASE ~within
    BY <1>2, <1>3, <2>2
  <2>3. QED BY <2>1, <2>2
<1>8. Counts(k, buckets[k])'
  <2>1. /\ Cardinality(From(admitted, k, b.start)) <= b.count
        /\ Cardinality(Eve(admitted, k, b.start)) < MaxRate
        /\ Cardinality(From(admitted, k, b.start)) \in Nat
        /\ IsFiniteSet(From(admitted, k, b.start))
    BY <1>1, <1>2, IndicesFinite DEF Counts
  <2>2. /\ Cardinality(From(admitted', k, b.start)) <= c
        /\ Cardinality(Eve(admitted', k, b.start)) < MaxRate
    <3>1. CASE within
      <4>1. /\ From(admitted', k, b.start) \subseteq From(admitted, k, b.start) \cup {Len(admitted) + 1}
            /\ Eve(admitted', k, b.start) = Eve(admitted, k, b.start)
        BY <1>1, <1>2, <1>3, <3>1, OneAppended
      <4>2. /\ Cardinality(From(admitted', k, b.start)) <= Cardinality(From(admitted, k, b.start)) + 1
            /\ IsFiniteSet(From(admitted', k, b.start))
        BY <2>1, <4>1, OneMore
      <4>3. Cardinality(From(admitted', k, b.start)) \in Nat
        BY <4>2, FS_CardinalityType
      <4>4. QED BY <1>1, <1>4, <2>1, <3>1, <4>1, <4>2, <4>3
    <3>2. CASE ~within
      BY <1>3, <1>4, <2>1, <3>2
    <3>3. QED BY <3>1, <3>2
  <2>3. \A i \in DOMAIN admitted' : admitted'[i].raw = k => admitted'[i].at < b.start + WindowMs
    <3>1. \A i \in DOMAIN admitted' : admitted'[i].at \in Nat /\ admitted'[i].at <= now
      BY <1>6, <1>7, AdmissionsTyped
    <3>2. QED BY <1>1, <1>2, <3>1
  <2>4. buckets'[k] = counted
    BY <1>3
  <2>5. QED BY <1>1, <1>3, <1>5, <2>2, <2>3, <2>4 DEF Counts
<1>8a. StartsAdmitted(k, buckets[k])'
  <2>1. buckets'[k] = counted
    BY <1>3
  <2>2. CASE k \in DOMAIN buckets /\ b = buckets[k]
    <3>1. PICK i \in DOMAIN admitted : admitted[i].raw = k /\ admitted[i].at = b.start
      BY <2>2 DEF LimiterInv, StartsAdmitted
    <3>2. i \in DOMAIN admitted' /\ admitted'[i] = admitted[i]
      BY <1>3, <1>6
    <3>3. QED BY <1>5, <2>1, <3>1, <3>2 DEF StartsAdmitted
  <2>3. CASE b = [start |-> now, count |-> 0]
    <3>1. within
      BY <2>3, LimitsAreNat DEF within, b, WithinRate
    <3>2. Len(admitted) + 1 \in DOMAIN admitted' /\ admitted'[Len(admitted) + 1] = x
      BY <1>6, <3>1
    <3>3. b.start = now
      BY <2>3
    <3>4. QED BY <1>2, <1>5, <2>1, <3>2, <3>3 DEF StartsAdmitted
  <2>4. (k \in DOMAIN buckets /\ b = buckets[k]) \/ b = [start |-> now, count |-> 0]
    BY DEF b, Bucket, Kept, Sweep
  <2>5. QED BY <2>2, <2>3, <2>4
<1>9. ASSUME NEW j \in RawAddresses, j # k
      PROVE  /\ \A a : Counts(j, a) => Counts(j, a)'
             /\ \A a : StartsAdmitted(j, a) => StartsAdmitted(j, a)'
             /\ Rests(j) => Rests(j)'
  <2>1. admitted' = admitted \/ admitted' = Append(admitted, x)
    BY <1>3
  <2>2. QED BY <1>2, <1>3, <1>9, <2>1, OthersKeep
<1>10. /\ DOMAIN buckets' = DOMAIN Kept \cup {k} /\ DOMAIN Kept \subseteq DOMAIN buckets
       /\ buckets'[k] = counted
       /\ \A j \in DOMAIN Kept \ {k} : buckets'[j] = buckets[j]
       /\ DOMAIN buckets \subseteq RawAddresses
       /\ \A j \in DOMAIN buckets : Counts(j, buckets[j]) /\ StartsAdmitted(j, buckets[j])
  BY <1>3 DEF Kept, Sweep, LimiterInv
<1>11. /\ DOMAIN buckets' \subseteq RawAddresses
       /\ \A j \in DOMAIN buckets' : Counts(j, buckets[j])' /\ StartsAdmitted(j, buckets[j])'
  <2>1. ASSUME NEW j \in DOMAIN buckets' PROVE Counts(j, buckets[j])' /\ StartsAdmitted(j, buckets[j])'
    <3>1. CASE j = k
      BY <1>8, <1>8a, <3>1
    <3>2. CASE j # k
      <4>1. j \in RawAddresses /\ Counts(j, buckets[j]) /\ StartsAdmitted(j, buckets[j]) /\ buckets'[j] = buckets[j]
        BY <1>10, <3>2
      <4>2. PICK a : a = buckets[j]
        OBVIOUS
      <4>3. Counts(j, a)' /\ StartsAdmitted(j, a)'
        BY <1>9, <3>2, <4>1, <4>2
      <4>4. QED BY <4>1, <4>2, <4>3 DEF Counts, StartsAdmitted
    <3>3. QED BY <3>1, <3>2
  <2>2. QED BY <1>10, <2>1
<1>12. \A j \in RawAddresses \ DOMAIN buckets' : Rests(j)'
  BY <1>9, <1>10, SweptRests
<1>13. LessThanTwiceTheLimit'
  <2> DEFINE soon(s, i) == {j \in i .. Len(s) : s[j].raw = s[i].raw /\ s[j].at - s[i].at < WindowMs}
  <2> SUFFICES ASSUME NEW i \in DOMAIN admitted' PROVE Cardinality(soon(admitted', i)) < 2 * MaxRate
    BY DEF LessThanTwiceTheLimit
  <2>1. CASE admitted'[i].raw = k /\ b.start < admitted'[i].at + WindowMs
    <3>1. /\ Cardinality(From(admitted', k, b.start)) <= MaxRate
          /\ Cardinality(Eve(admitted', k, b.start)) < MaxRate
      <4>1. /\ Cardinality(From(admitted', k, b.start)) <= c
            /\ Cardinality(Eve(admitted', k, b.start)) < MaxRate
            /\ Cardinality(From(admitted', k, b.start)) \in Nat
        BY <1>5, <1>6, <1>8, <1>10, IndicesFinite DEF Counts
      <4>2. QED BY <1>4, <4>1
    <3>2. QED BY <1>1, <1>6, <1>7, <2>1, <3>1, LatestTwice
  <2>2. CASE ~(admitted'[i].raw = k /\ b.start < admitted'[i].at + WindowMs)
    <3>1. admitted'[i].at \in Nat /\ admitted'[i].at <= now
      BY <1>6, <1>7, AdmissionsTyped
    <3>2. i \in DOMAIN admitted /\ admitted'[i] = admitted[i]
      <4>1. within /\ i = Len(admitted) + 1 => admitted'[i].raw = k /\ admitted'[i].at = now
        BY <1>2, <1>6
      <4>2. ~(within /\ i = Len(admitted) + 1)
        BY <1>1, <1>2, <2>2, <4>1
      <4>3. QED BY <1>3, <1>6, <4>2
    <3>3. soon(admitted', i) = soon(admitted, i)
      <4>1. CASE ~within
        BY <1>3, <4>1
      <4>2. CASE within
        <5>1. Len(admitted') = Len(admitted) + 1
          BY <1>2, <1>3, <4>2, AppendProperties
        <5>2. (Len(admitted) + 1) \notin soon(admitted', i)
          BY <1>1, <1>2, <1>6, <2>2, <3>1, <4>2
        <5>3. \A j \in i .. Len(admitted) : j \in DOMAIN admitted /\ admitted'[j] = admitted[j]
          BY <1>6, <3>2, <4>2
        <5>4. i .. Len(admitted') = (i .. Len(admitted)) \cup {Len(admitted) + 1}
          BY <1>6, <3>2, <5>1
        <5>5. QED BY <3>2, <5>2, <5>3, <5>4
      <4>3. QED BY <4>1, <4>2
    <3>4. QED BY <3>2, <3>3 DEF LimiterInv, LessThanTwiceTheLimit
  <2>3. QED BY <2>1, <2>2
<1>14. QED BY <1>2, <1>3, <1>6, <1>7, <1>11, <1>12, <1>13 DEF LimiterInv

\* Time passes: what counts goes on counting, and what rests rests on.
LEMMA TickInv ==
  ASSUME LimiterInv, now' = now + 1, UNCHANGED <<admitted, buckets>>
  PROVE  LimiterInv'
<1> USE LimitsAreNat
<1>1. ASSUME NEW k \in DOMAIN buckets PROVE Counts(k, buckets[k])' /\ StartsAdmitted(k, buckets[k])'
  BY DEF LimiterInv, Counts, StartsAdmitted
<1>2. ASSUME NEW k \in RawAddresses, Rests(k) PROVE Rests(k)'
  <2>1. Eve(admitted, k, now + 1) \subseteq Eve(admitted, k, now)
    BY <1>2, AdmissionsTyped DEF Rests, Eve, LimiterInv
  <2>2. /\ Cardinality(Eve(admitted, k, now + 1)) <= Cardinality(Eve(admitted, k, now))
        /\ Cardinality(Eve(admitted, k, now + 1)) \in Nat /\ Cardinality(Eve(admitted, k, now)) \in Nat
    BY <2>1, IndicesFinite, FS_Subset DEF LimiterInv
  <2>3. Cardinality(Eve(admitted', k, now')) < MaxRate
    BY <1>2, <2>2 DEF Rests
  <2>4. \A i \in DOMAIN admitted : admitted[i].raw = k => admitted[i].at < now + 1
    BY <1>2, AdmissionsTyped DEF Rests, LimiterInv
  <2>5. QED BY <2>3, <2>4 DEF Rests
<1>3. /\ now' \in Nat /\ \A i \in DOMAIN admitted : admitted[i].at <= now'
  BY AdmissionsTyped DEF LimiterInv
<1>4. LessThanTwiceTheLimit'
  BY DEF LimiterInv, LessThanTwiceTheLimit
<1>5. QED BY <1>1, <1>2, <1>3, <1>4 DEF LimiterInv

LEMMA LimiterInitInv == EndpointInit => LimiterInv
<1> SUFFICES ASSUME EndpointInit PROVE LimiterInv
  OBVIOUS
<1> USE LimitsAreNat DEF EndpointInit, NoBuckets
<1>1. admitted \in Seq(Admission) /\ DOMAIN admitted = {}
  BY EmptySeq
<1>2. \A k, t : Cardinality(Eve(admitted, k, t)) = 0
  BY <1>1, FS_EmptySet DEF Eve
<1>3. DOMAIN buckets = {}
  OBVIOUS
<1>4. QED BY <1>1, <1>2, <1>3 DEF LimiterInv, Rests, LessThanTwiceTheLimit

LEMMA LimiterNextInv == LimiterInv /\ [EndpointNext]_endpointVars => LimiterInv'
<1> SUFFICES ASSUME LimiterInv, [EndpointNext]_endpointVars PROVE LimiterInv'
  OBVIOUS
<1>1. ASSUME UNCHANGED <<now, admitted, buckets>> PROVE LimiterInv'
  BY <1>1 DEF LimiterInv, Counts, StartsAdmitted, Rests, LessThanTwiceTheLimit
<1>2. ASSUME NEW raw \in RawAddresses, NEW url, NEW body, Receive(raw, url, body) PROVE LimiterInv'
  <2>1. CASE Allowed(raw) /\ url # "GET /health"
    BY <1>2, <2>1, CheckInv DEF Receive
  <2>2. CASE ~(Allowed(raw) /\ url # "GET /health")
    BY <1>1, <1>2, <2>2 DEF Receive
  <2>3. QED BY <2>1, <2>2
<1>3. CASE Tick
  BY <1>3, TickInv DEF Tick
<1>4. ASSUME NEW a, CreateAddressGate(a) PROVE LimiterInv'
  BY <1>1, <1>4 DEF CreateAddressGate
<1>5. ASSUME NEW r, FinishBody(r) \/ LoseConnection(r) PROVE LimiterInv'
  BY <1>1, <1>5 DEF FinishBody, LoseConnection
<1>6. CASE UNCHANGED endpointVars
  BY <1>1, <1>6 DEF endpointVars
<1>7. QED BY <1>2, <1>3, <1>4, <1>5, <1>6 DEF EndpointNext

\* The limiter keeps below twice its limit in any stretch of time as long as
\* one window, for any number of clients, any limits and whatever it sweeps away.
THEOREM LimitHolds == EndpointSpec => []LessThanTwiceTheLimit
<1>1. LimiterInv => LessThanTwiceTheLimit
  BY DEF LimiterInv
<1>2. QED BY <1>1, LimiterInitInv, LimiterNextInv, PTL DEF EndpointSpec

-----------------------------------------------------------------------------
\* The tools of a dispute.  The files each writes.
FilesOf(t) == {Files[t][i] : i \in 1 .. Len(Files[t])}

LEMMA FileTable ==
  /\ Tools = {"dry", "harness", "aea1", "tribunal"}
  /\ Files["dry"] = <<"expected-request", "expected-response", "adapter-report">>
  /\ Files["harness"] = <<"packet", "digest", "ledger", "events-log", "report", "harness-hashes">>
  /\ Files["aea1"] = <<"boundary", "escrow-interface", "aea1-report", "aea1-hashes">>
  /\ Files["tribunal"] = <<"award", "settlement">>
BY DEF Tools, Files

LEMMA FileCounts ==
  /\ Len(Files["dry"]) = 3 /\ Len(Files["harness"]) = 6
  /\ Len(Files["aea1"]) = 4 /\ Len(Files["tribunal"]) = 2
BY FileTable

\* What a package must be for a tool to write anything from it.
Open(t, p) ==
  /\ p.award = "UNKNOWN" /\ p.adjudicator = "NONE" /\ p.escrow = "reference" /\ p.settlement = "split"
  /\ t = "tribunal" => {p.partyA, p.partyB} = {"ASSENTED"}
  /\ t # "tribunal" => p.signed = "null" /\ p.aggregate # "boolean"

LEMMA ProceedsOpen ==
  ASSUME NEW t \in {"dry", "harness", "tribunal"}, NEW p, NEW revision, NEW ask,
         Proceeds(t, p, revision, ask)
  PROVE  Open(t, p)
<1>1. CASE t = "tribunal"
  <2>1. Adjudicate(ask, p)
    BY <1>1 DEF Proceeds
  <2>2. QED BY <1>1, <2>1 DEF Adjudicate, Open
<1>2. CASE t # "tribunal"
  <2>1. DeriveLabels(p)
    BY <1>2 DEF Proceeds
  <2>2. QED BY <1>2, <2>1 DEF DeriveLabels, Open
<1>3. QED BY <1>1, <1>2

\* Where a run is, and what it holds when it writes: a package its tool may
\* write from, and a file to write next.
JobInv ==
  /\ job = [step |-> job.step, pkg |-> job.pkg, revision |-> job.revision,
            ask |-> job.ask, written |-> job.written]
  /\ job.step \in {"idle", "verify", "load", "pin", "write"}
  /\ job.step = "idle" <=> job = Idle
  /\ job.written \in Nat
  /\ job.step # "write" => job.written = 0
  /\ job.step = "write" => /\ job.written < Len(Files[tool])
                           /\ tool # "aea1" => Open(tool, job.pkg)

\* The boundary record's files, in the order they are written: what a run has
\* written is of its revision, and what was hashed was of one revision.
BoundaryFiles == {"boundary", "escrow-interface", "aea1-report"}
BoundaryInv ==
  tool = "aea1" =>
    /\ job.step = "write" =>
         /\ job.written >= 1 => "boundary" \in DOMAIN out /\ out["boundary"].of = job.revision
         /\ job.written >= 2 => "escrow-interface" \in DOMAIN out
         /\ job.written >= 3 => "aea1-report" \in DOMAIN out /\ out["aea1-report"].of = job.revision
    /\ "aea1-hashes" \in DOMAIN out =>
         /\ DOMAIN out["aea1-hashes"] = BoundaryFiles
         /\ out["aea1-hashes"]["boundary"].of = out["aea1-hashes"]["aea1-report"].of

\* A settlement quotes an award of the revision it is of.
SettlementInv ==
  tool = "tribunal" /\ "settlement" \in DOMAIN out =>
    out["settlement"].of = out["settlement"].award.of

IntakeInv ==
  /\ tool \in Tools \cup {"none"}
  /\ tool = "none" => job = Idle /\ DOMAIN out = {} /\ readers = {}
  /\ tool # "none" => DOMAIN out \subseteq FilesOf(tool)
  /\ JobInv /\ BoundaryInv /\ SettlementInv
  /\ ReadyIsUnadjudicated /\ HalfWrittenIsRefused

LEMMA IntakeInitInv == DisputeInit => IntakeInv
<1> SUFFICES ASSUME DisputeInit PROVE IntakeInv
  OBVIOUS
<1>1. tool = "none" /\ job = Idle /\ DOMAIN out = {} /\ readers = {}
  BY DEF DisputeInit
<1>2. JobInv
  BY <1>1 DEF JobInv, Idle
<1>3. QED
  BY <1>1, <1>2 DEF IntakeInv, BoundaryInv, SettlementInv, ReadyIsUnadjudicated, HalfWrittenIsRefused

\* A step that leaves the directory and the readers alone, and writes nothing.
LEMMA JobOnlyIntake ==
  ASSUME IntakeInv, tool # "none", UNCHANGED <<tool, out, readers>>, JobInv',
         job'.step = "write" => job'.written = 0
  PROVE  IntakeInv'
<1>1. BoundaryInv'
  BY DEF IntakeInv, BoundaryInv
<1>2. SettlementInv' /\ ReadyIsUnadjudicated' /\ HalfWrittenIsRefused'
  BY DEF IntakeInv, SettlementInv, ReadyIsUnadjudicated, HalfWrittenIsRefused
<1>3. QED BY <1>1, <1>2 DEF IntakeInv

LEMMA IdleJob == ASSUME job' = Idle PROVE JobInv' /\ job'.step = "idle"
BY DEF JobInv, Idle

\* The loading of a manifest, and what the guard of it lets through.
LEMMA LoadIntake == ASSUME IntakeInv, LoadManifest PROVE IntakeInv'
<1>1. tool # "none"
  BY DEF IntakeInv, JobInv, LoadManifest, Idle
<1>2. CASE job' = Idle
  BY <1>1, <1>2, IdleJob, JobOnlyIntake DEF LoadManifest
<1>3. CASE job' # Idle
  <2>1. /\ Proceeds(tool, job.pkg, delivered.manifest, job.ask)
        /\ job' = [job EXCEPT !.step = "write", !.revision = delivered.manifest]
        /\ UNCHANGED <<tool, out, readers>> /\ job.step = "pin"
    BY <1>3 DEF LoadManifest, EndWith
  <2>2. job' = [step |-> "write", pkg |-> job.pkg, revision |-> delivered.manifest,
                ask |-> job.ask, written |-> 0]
    BY <2>1 DEF IntakeInv, JobInv
  <2>3. tool # "aea1" => Open(tool, job.pkg)
    BY <1>1, <2>1, FileTable, ProceedsOpen DEF IntakeInv
  <2>4. 0 < Len(Files[tool])
    <3>1. tool \in {"dry", "harness", "aea1", "tribunal"}
      BY <1>1, FileTable DEF IntakeInv
    <3>2. CASE tool = "dry"
      BY <3>2, FileCounts
    <3>3. CASE tool = "harness"
      BY <3>3, FileCounts
    <3>4. CASE tool = "aea1"
      BY <3>4, FileCounts
    <3>5. CASE tool = "tribunal"
      BY <3>5, FileCounts
    <3>6. QED BY <3>1, <3>2, <3>3, <3>4, <3>5
  <2>5. /\ job'.step = "write" /\ job'.written = 0 /\ job'.pkg = job.pkg
        /\ job'.revision = delivered.manifest /\ job'.ask = job.ask /\ tool' = tool
        /\ job' # Idle
    <3>1. /\ job'.step = "write" /\ job'.written = 0 /\ job'.pkg = job.pkg
          /\ job'.revision = delivered.manifest /\ job'.ask = job.ask
      BY <2>2
    <3>2. Idle.step = "idle"
      BY DEF Idle
    <3>3. QED BY <2>1, <3>1, <3>2
  <2>6. JobInv'
    BY <2>2, <2>3, <2>4, <2>5 DEF JobInv
  <2>7. QED BY <1>1, <2>1, <2>5, <2>6, JobOnlyIntake
<1>4. QED BY <1>2, <1>3

\* Everything but a load and a written file.
LEMMA OtherIntake ==
  ASSUME IntakeInv,
         \/ HandOver \/ MakeManifest \/ (\E p \in Later : MakePackage(p))
         \/ (tool # "none" /\ \E a \in Asks(tool) : Start(a)) \/ Verify \/ LoadPackage \/ Stop
         \/ UNCHANGED disputeVars
  PROVE  IntakeInv'
<1>1. ASSUME UNCHANGED <<tool, job, out, readers>> PROVE IntakeInv'
  BY <1>1 DEF IntakeInv, JobInv, BoundaryInv, SettlementInv, ReadyIsUnadjudicated, HalfWrittenIsRefused
<1>2. CASE HandOver
  <2>1. /\ tool = "none" /\ tool' \in Tools /\ UNCHANGED <<job, out, readers>>
        /\ job = Idle /\ DOMAIN out = {} /\ readers = {}
    BY <1>2 DEF HandOver, IntakeInv
  <2>2. JobInv' /\ job'.step = "idle"
    BY <2>1, IdleJob
  <2>3. "none" \notin Tools
    BY FileTable
  <2>4. QED
    BY <2>1, <2>2, <2>3
    DEF IntakeInv, BoundaryInv, SettlementInv, ReadyIsUnadjudicated, HalfWrittenIsRefused
<1>3. CASE MakeManifest \/ (\E p \in Later : MakePackage(p)) \/ UNCHANGED disputeVars
  BY <1>1, <1>3 DEF MakeManifest, MakePackage, disputeVars
<1>4. CASE Stop \/ Verify \/ LoadPackage
  <2>1. /\ tool # "none" /\ UNCHANGED <<tool, out, readers>>
    <3>1. job # Idle
      <4>1. Idle.step = "idle"
        BY DEF Idle
      <4>2. QED BY <1>4, <4>1 DEF Stop, Verify, LoadPackage
    <3>2. QED BY <1>4, <3>1 DEF Stop, Verify, LoadPackage, IntakeInv
  <2>2. CASE job' = Idle
    BY <2>1, <2>2, IdleJob, JobOnlyIntake
  <2>3. CASE job' # Idle
    <3>1. \/ job' = [job EXCEPT !.step = "load"] /\ job.step = "verify"
          \/ job' = [job EXCEPT !.step = "pin", !.pkg = delivered.pkg] /\ job.step = "load"
      BY <1>4, <2>3 DEF Stop, Verify, LoadPackage, EndWith
    <3>2. \E step \in {"load", "pin"} : \E p :
            job' = [step |-> step, pkg |-> p, revision |-> job.revision, ask |-> job.ask, written |-> 0]
      BY <3>1 DEF IntakeInv, JobInv
    <3>3. JobInv' /\ job'.step \in {"load", "pin"}
      BY <3>2 DEF JobInv, Idle
    <3>4. QED BY <2>1, <3>3, JobOnlyIntake
  <2>4. QED BY <2>2, <2>3
<1>5. ASSUME tool # "none", NEW a, Start(a) PROVE IntakeInv'
  <2>1. UNCHANGED <<tool, out, readers>> /\ job = Idle
    BY <1>5 DEF Start
  <2>2. CASE job' = job
    BY <2>1, <2>2, <1>1
  <2>3. CASE job' # job
    <3>1. job' = [step |-> "verify", pkg |-> Nothing, revision |-> Nothing, ask |-> a, written |-> 0]
      BY <1>5, <2>1, <2>3 DEF Start, Idle
    <3>2. JobInv' /\ job'.step = "verify"
      BY <3>1 DEF JobInv, Idle
    <3>3. QED BY <1>5, <2>1, <3>2, JobOnlyIntake
  <2>4. QED BY <2>2, <2>3
<1>6. QED BY <1>2, <1>3, <1>4, <1>5

\* A reader of the directory.
LEMMA ReaderIntake == ASSUME IntakeInv, ReadAea1 \/ Execute PROVE IntakeInv'
<1>1. /\ UNCHANGED <<tool, job, out>> /\ tool \in {"aea1", "tribunal"} /\ tool # "none"
      /\ DOMAIN out \subseteq FilesOf(tool)
  BY DEF ReadAea1, Execute, IntakeInv
<1>2. HalfWrittenIsRefused'
  <2>1. CASE ReadAea1
    <3>1. /\ tool = "aea1" /\ {"aea1-hashes", "boundary"} \subseteq DOMAIN out
          /\ readers' = {[accepted |-> VerifyAea1(out), files |-> out]}
      BY <2>1 DEF ReadAea1
    <3>2. FilesOf("aea1") = {"boundary", "escrow-interface", "aea1-report", "aea1-hashes"}
      BY FileTable, FileCounts DEF FilesOf
    <3>3. /\ DOMAIN out["aea1-hashes"] = BoundaryFiles
          /\ out["aea1-hashes"]["boundary"].of = out["aea1-hashes"]["aea1-report"].of
      BY <3>1 DEF IntakeInv, BoundaryInv
    <3>4. ASSUME VerifyAea1(out)
          PROVE  /\ DOMAIN out = {"boundary", "escrow-interface", "aea1-report", "aea1-hashes"}
                 /\ out["boundary"].of = out["aea1-report"].of
      <4>1. \A f \in BoundaryFiles : f \in DOMAIN out /\ out[f] = out["aea1-hashes"][f]
        BY <3>3, <3>4 DEF VerifyAea1
      <4>2. /\ BoundaryFiles \subseteq DOMAIN out
            /\ out["boundary"] = out["aea1-hashes"]["boundary"]
            /\ out["aea1-report"] = out["aea1-hashes"]["aea1-report"]
        BY <4>1 DEF BoundaryFiles
      <4>3. QED BY <1>1, <3>1, <3>2, <3>3, <4>2 DEF BoundaryFiles
    <3>5. QED BY <1>1, <3>1, <3>4 DEF HalfWrittenIsRefused
  <2>2. CASE Execute
    <3>1. /\ tool = "tribunal" /\ {"award", "settlement"} \subseteq DOMAIN out
          /\ readers' = {[accepted |-> ExecuteSettlement(out), files |-> out]}
      BY <2>2 DEF Execute
    <3>2. ExecuteSettlement(out) => out["settlement"].of = out["award"].of
      BY <3>1 DEF ExecuteSettlement, Signed, IntakeInv, SettlementInv
    <3>3. QED BY <1>1, <3>1, <3>2 DEF HalfWrittenIsRefused
  <2>3. QED BY <2>1, <2>2
<1>3. QED
  BY <1>1, <1>2 DEF IntakeInv, JobInv, BoundaryInv, SettlementInv, ReadyIsUnadjudicated

\* A file is written; what the directory holds besides stays as it is.
LEMMA WriteIntake == ASSUME IntakeInv, WriteFile PROVE IntakeInv'
<1> DEFINE w == job.written
           file == Files[tool][w + 1]
<1>1. /\ job.step = "write" /\ w \in Nat /\ w < Len(Files[tool])
      /\ tool \in {"dry", "harness", "aea1", "tribunal"}
      /\ tool # "aea1" => Open(tool, job.pkg)
      /\ UNCHANGED <<tool, readers>>
  <2>1. job # Idle
    BY DEF WriteFile, Idle
  <2>2. QED BY <2>1, FileTable DEF IntakeInv, JobInv, WriteFile
<1>2. /\ tool = "dry" => file \in {"expected-request", "expected-response", "adapter-report"}
      /\ tool = "harness" => file \in {"packet", "digest", "ledger", "events-log", "report", "harness-hashes"}
      /\ tool = "tribunal" => file \in {"award", "settlement"}
      /\ tool = "aea1" => \/ w = 0 /\ file = "boundary"
                          \/ w = 1 /\ file = "escrow-interface"
                          \/ w = 2 /\ file = "aea1-report"
                          \/ w = 3 /\ file = "aea1-hashes"
      /\ file \in FilesOf(tool)
  <2>1. CASE tool = "dry"
    <3>1. w \in 0 .. 2
      BY <1>1, <2>1, FileCounts
    <3>2. QED BY <2>1, <3>1, FileTable, FileCounts DEF FilesOf
  <2>2. CASE tool = "harness"
    <3>1. w \in 0 .. 5
      BY <1>1, <2>2, FileCounts
    <3>2. QED BY <2>2, <3>1, FileTable, FileCounts DEF FilesOf
  <2>3. CASE tool = "aea1"
    <3>1. w \in 0 .. 3
      BY <1>1, <2>3, FileCounts
    <3>2. QED BY <2>3, <3>1, FileTable, FileCounts DEF FilesOf
  <2>4. CASE tool = "tribunal"
    <3>1. w \in 0 .. 1
      BY <1>1, <2>4, FileCounts
    <3>2. QED BY <2>4, <3>1, FileTable, FileCounts DEF FilesOf
  <2>5. QED BY <1>1, <2>1, <2>2, <2>3, <2>4
<1>3. /\ DOMAIN out' = DOMAIN out \cup {file}
      /\ out'[file] = Content(file, job)
      /\ \A f \in DOMAIN out \ {file} : out'[f] = out[f]
  BY DEF WriteFile
<1>4. /\ JobInv'
      /\ job' = Idle \/ (job'.step = "write" /\ job'.written = w + 1 /\ job'.revision = job.revision
                          /\ w + 1 < Len(Files[tool]))
  <2>1. CASE job' = Idle
    BY <2>1, IdleJob
  <2>2. CASE job' # Idle
    <3>1. job' = [job EXCEPT !.written = w + 1] /\ w + 1 # Len(Files[tool])
      BY <2>2 DEF WriteFile, EndWith
    <3>2. job' = [step |-> "write", pkg |-> job.pkg, revision |-> job.revision,
                  ask |-> job.ask, written |-> w + 1]
      BY <1>1, <3>1 DEF IntakeInv, JobInv
    <3>3. Len(Files[tool]) \in Nat
      BY <1>1, FileCounts
    <3>4. w + 1 < Len(Files[tool]) /\ w + 1 \in Nat
      BY <1>1, <3>1, <3>3
    <3>5. /\ job'.step = "write" /\ job'.written = w + 1 /\ job'.revision = job.revision
          /\ job'.pkg = job.pkg /\ job'.ask = job.ask
      BY <3>2
    <3> HIDE DEF w
    <3>6. JobInv'
      BY <1>1, <2>2, <3>2, <3>4, <3>5 DEF JobInv
    <3>7. QED BY <3>4, <3>5, <3>6
  <2>3. QED BY <2>1, <2>2
<1>5. Idle.step = "idle"
  BY DEF Idle
<1> HIDE DEF file, w
<1>6. ReadyIsUnadjudicated'
  <2> SUFFICES ASSUME tool # "aea1", NEW f \in DOMAIN out', f # "settlement"
               PROVE  Open(tool, out'[f].from)
    BY <1>1 DEF ReadyIsUnadjudicated, Open
  <2>1. CASE f = file
    <3>1. out'[f] = [of |-> job.revision, case |-> job.pkg.caseRef, from |-> job.pkg]
      BY <1>1, <1>2, <1>3, <2>1 DEF Content
    <3>2. QED BY <1>1, <3>1
  <2>2. CASE f # file
    <3>1. f \in DOMAIN out \ {"settlement"} /\ out'[f] = out[f]
      BY <1>3, <2>2
    <3>2. QED BY <3>1 DEF IntakeInv, ReadyIsUnadjudicated, Open
  <2>3. QED BY <2>1, <2>2
<1>7. SettlementInv'
  <2> SUFFICES ASSUME tool = "tribunal", "settlement" \in DOMAIN out'
               PROVE  out'["settlement"].of = out'["settlement"].award.of
    BY <1>1 DEF SettlementInv
  <2>1. CASE file = "settlement"
    BY <1>3, <2>1 DEF Content
  <2>2. CASE file # "settlement"
    BY <1>3, <2>2 DEF IntakeInv, SettlementInv
  <2>3. QED BY <2>1, <2>2
<1>8. BoundaryInv'
  <2> SUFFICES ASSUME tool = "aea1" PROVE BoundaryInv'
    BY <1>1 DEF BoundaryInv
  <2>1. BoundaryInv /\ Len(Files[tool]) = 4
    BY FileCounts DEF IntakeInv
  <2>2. CASE w = 0 /\ file = "boundary"
    <3>1. out'["boundary"] = [of |-> job.revision, case |-> job.pkg.caseRef]
      BY <1>3, <2>2 DEF Content
    <3>2. QED BY <1>1, <1>3, <1>4, <1>5, <2>1, <2>2, <3>1 DEF BoundaryInv
  <2>3. CASE w = 1 /\ file = "escrow-interface"
    BY <1>1, <1>3, <1>4, <1>5, <2>1, <2>3 DEF BoundaryInv, w
  <2>4. CASE w = 2 /\ file = "aea1-report"
    <3>1. out'["aea1-report"] = [of |-> job.revision]
      BY <1>3, <2>4 DEF Content
    <3>2. QED BY <1>1, <1>3, <1>4, <1>5, <2>1, <2>4, <3>1 DEF BoundaryInv, w
  <2>5. CASE w = 3 /\ file = "aea1-hashes"
    <3>1. out'["aea1-hashes"] = [f \in BoundaryFiles |-> out[f]]
      BY <1>3, <2>5 DEF Content, BoundaryFiles
    <3>2. out["boundary"].of = job.revision /\ out["aea1-report"].of = job.revision
      BY <1>1, <2>1, <2>5 DEF BoundaryInv, w
    <3>3. /\ DOMAIN out'["aea1-hashes"] = BoundaryFiles
          /\ out'["aea1-hashes"]["boundary"].of = out'["aea1-hashes"]["aea1-report"].of
      BY <3>1, <3>2 DEF BoundaryFiles
    <3>4. job'.step # "write"
      BY <1>4, <1>5, <2>1, <2>5
    <3>5. QED BY <3>3, <3>4 DEF BoundaryInv
  <2>6. QED BY <1>2, <2>2, <2>3, <2>4, <2>5
<1>9. HalfWrittenIsRefused'
  BY <1>1 DEF IntakeInv, HalfWrittenIsRefused
<1>10. DOMAIN out' \subseteq FilesOf(tool) /\ tool \in Tools /\ tool # "none"
  BY <1>1, <1>2, <1>3, FileTable DEF IntakeInv
<1>11. QED BY <1>1, <1>4, <1>6, <1>7, <1>8, <1>9, <1>10 DEF IntakeInv

LEMMA IntakeNextInv == IntakeInv /\ [DisputeNext]_disputeVars => IntakeInv'
BY LoadIntake, OtherIntake, ReaderIntake, WriteIntake DEF DisputeNext

\* Whatever package is delivered, replaced or half replaced, and wherever a
\* tool stops: what is written comes from a package nobody had adjudicated.
THEOREM ReadyHolds == DisputeSpec => []ReadyIsUnadjudicated
<1>1. IntakeInv => ReadyIsUnadjudicated
  BY DEF IntakeInv
<1>2. QED BY <1>1, IntakeInitInv, IntakeNextInv, PTL DEF DisputeSpec

\* A reader accepts files of one package only, after any number of runs that
\* stopped between two files.
THEOREM HalfWrittenHolds == DisputeSpec => []HalfWrittenIsRefused
<1>1. IntakeInv => HalfWrittenIsRefused
  BY DEF IntakeInv
<1>2. QED BY <1>1, IntakeInitInv, IntakeNextInv, PTL DEF DisputeSpec

-----------------------------------------------------------------------------
\* What a report says of the fixture it is about.  A directory without pins is
\* looked at as one that declares no state.

ReportOf(r, g, evm) ==
  r.failed = FailedChecks(g, evm) /\ r.evm = evm /\ (r.status = "VERIFIED" => r.failed = {})
Looked(f) == {f, [f EXCEPT !.declared = "undeclared"]}
Says(r, f) == \E evm \in BOOLEAN : \E g \in Looked(f) : ReportOf(r, g, evm)

OneFixture == fixture \subseteq Fixtures /\ \A f, g \in fixture : f = g
ReportsAreOfIt == \A r \in reports : \E f \in fixture : Says(r, f)
ReleasesAreOfIt ==
  \A x \in released : (x.release => x.report.status = "VERIFIED") /\ \E f \in fixture : Says(x.report, f)

DeliveryInv == OneFixture /\ ReportsAreOfIt /\ ReleasesAreOfIt

\* Each check is told from the others.
LEMMA FailedIsTold ==
  ASSUME NEW g, NEW evm
  PROVE  LET failed == FailedChecks(g, evm)
         IN  /\ "F0" \in failed <=> g.record # "all"
             /\ "F1" \in failed <=> ~CheckExecutionAcceptanceSeparation(g)
             /\ "F2" \in failed <=> ~CheckCriteriaClosure(g)
             /\ "E3" \in failed <=> ~ReplayDeliveryIntegrity(g)
             /\ "E4" \in failed <=> ~CheckAuthorizationBinding(g)
             /\ "B1" \in failed <=> ~CheckB1PaymentInferenceForbidden(g)
             /\ "B2" \in failed <=> ~CheckB2ExecutionDoesNotDecideConformity(g)
             /\ "B3" \in failed <=> ~CheckB3NoEngineAdjudication(g)
             /\ "E5" \in failed <=> CheckConsentBinding(g, evm) = "FAIL"
             /\ "F3" \in failed <=> ~CheckLifecycleConsistency(g)
BY DEF FailedChecks

\* With all its records, a defect of one kind fails the check of that kind.
RecordDefects(g, failed) ==
  /\ {g.criteriaRef, g.signers, g.grounds, g.derived} \cap {"missing", "nobody", "execution facts", "execution"} # {}
       => "F1" \in failed
  /\ g.evaluations \in {"some", "invented"} => "F2" \in failed
  /\ g.criteria = "listed" /\ g.evaluations \in {"none", "unnamed"} => "F2" \in failed
  /\ g.artifacts # "rehash" => "E3" \in failed
  /\ g.positions # "both" => "B3" \in failed
  /\ g.closed \in {"before the opening", "after the deadline", "not a time"} => "F3" \in failed
BindingDefects(g, failed) ==
  /\ g.refs \notin {"agree", "unnamed"} \/ g.intentHash # "one" => "E4" \in failed
  /\ g.subject = "other" /\ g.client = "named" => "E4" \in failed
  /\ g.subject # "missing" /\ g.cert # "subject" => "E4" \in failed
VerdictDefects(g, failed) ==
  /\ g.basis = "payment" \/ (g.basis = "other" /\ g.verdict = "ACCEPTED") => "B1" \in failed
  /\ g.evaluations = "none" /\ g.verdict # "none" => "B2" \in failed
ConsentDefects(g, evm, failed) ==
  evm /\ g.grants \in {"one", "unsigned", "of another"} => "E5" \in failed
Defects(g, evm, failed) ==
  RecordDefects(g, failed) /\ BindingDefects(g, failed) /\ VerdictDefects(g, failed) /\ ConsentDefects(g, evm, failed)

LEMMA DefectsAreTold ==
  ASSUME NEW g, NEW evm \in BOOLEAN, g.record = "all"
  PROVE  Defects(g, evm, FailedChecks(g, evm))
<1> DEFINE failed == FailedChecks(g, evm)
<1>1. \A record \in {"acceptanceRecord", "acceptanceCriteria", "consentAndDisclosure", "disputeRecord"} : Has(g, record)
  BY DEF Has
<1>2. {g.criteriaRef, g.signers, g.grounds, g.derived} \cap {"missing", "nobody", "execution facts", "execution"} # {}
        => "F1" \in failed
  BY FailedIsTold DEF CheckExecutionAcceptanceSeparation
<1>3. g.evaluations \in {"some", "invented"} => "F2" \in failed
  <2>1. Criteria(g) = {} \/ Criteria(g) = {"c1", "c2"}
    BY DEF Criteria
  <2>2. g.evaluations = "some" => Evaluated(g) = {"c1"}
    BY <1>1 DEF Evaluated
  <2>3. g.evaluations = "invented" => Evaluated(g) = {"c1", "c2", "c3"}
    BY <1>1 DEF Evaluated
  <2>4. g.evaluations \in {"some", "invented"} => Criteria(g) # Evaluated(g)
    BY <2>1, <2>2, <2>3
  <2> QED BY <2>4, FailedIsTold DEF CheckCriteriaClosure
<1>3a. g.criteria = "listed" /\ g.evaluations \in {"none", "unnamed"} => "F2" \in failed
  <2>1. g.criteria = "listed" => Criteria(g) = {"c1", "c2"}
    BY <1>1 DEF Criteria
  <2>2. g.evaluations \in {"none", "unnamed"} => Evaluated(g) = {}
    BY <1>1 DEF Evaluated
  <2> QED BY <2>1, <2>2, FailedIsTold DEF CheckCriteriaClosure
<1>4. g.artifacts # "rehash" => "E3" \in failed
  BY FailedIsTold DEF ReplayDeliveryIntegrity
<1>5. /\ g.refs \notin {"agree", "unnamed"} \/ g.intentHash # "one" => "E4" \in failed
      /\ g.subject = "other" /\ g.client = "named" => "E4" \in failed
      /\ g.subject # "missing" /\ g.cert # "subject" => "E4" \in failed
  BY FailedIsTold DEF CheckAuthorizationBinding
<1>6. g.basis = "payment" \/ (g.basis = "other" /\ g.verdict = "ACCEPTED") => "B1" \in failed
  BY <1>1, FailedIsTold DEF CheckB1PaymentInferenceForbidden
<1>7. g.evaluations = "none" /\ g.verdict # "none" => "B2" \in failed
  BY <1>1, FailedIsTold DEF CheckB2ExecutionDoesNotDecideConformity
<1>8. g.positions # "both" => "B3" \in failed
  BY FailedIsTold DEF CheckB3NoEngineAdjudication
<1>9. evm /\ g.grants \in {"one", "unsigned", "of another"} => "E5" \in failed
  <2>1. evm /\ g.grants \in {"one", "unsigned", "of another"} => CheckConsentBinding(g, evm) = "FAIL"
    BY DEF CheckConsentBinding
  <2> QED BY <2>1, FailedIsTold
<1>10. g.closed \in {"before the opening", "after the deadline", "not a time"} => "F3" \in failed
  <2>1. g.closed \in {"before the opening", "after the deadline", "not a time"} => ~CheckLifecycleConsistency(g)
    BY <1>1 DEF CheckLifecycleConsistency, Closed
  <2> QED BY <2>1, FailedIsTold
<1> HIDE DEF failed
<1>11. Defects(g, evm, failed)
  <2>1. RecordDefects(g, failed)
    BY <1>2, <1>3, <1>3a, <1>4, <1>8, <1>10 DEF RecordDefects
  <2>2. BindingDefects(g, failed)
    BY <1>5 DEF BindingDefects
  <2>3. VerdictDefects(g, failed)
    BY <1>6, <1>7 DEF VerdictDefects
  <2>4. ConsentDefects(g, evm, failed)
    BY <1>9 DEF ConsentDefects
  <2> QED BY <2>1, <2>2, <2>3, <2>4 DEF Defects
<1> QED BY <1>11 DEF failed

\* A fixture no check fails on is in order: what each of its things may be.
ExecutionFree(g) ==
  /\ {g.grounds, g.basis} \cap {"execution facts", "payment", "payment and criteria"} = {}
  /\ g.derived = "no" /\ g.signers = "a party" /\ g.positions = "both"
NamesNoOther(g) ==
  /\ g.artifacts = "rehash" /\ g.refs \in {"agree", "unnamed"}
  /\ g.client = "named" /\ g.subject # "missing" => g.subject = "client"
  /\ g.subject # "missing" => g.cert = "subject"
Accepts(g) ==
  /\ g.verdict = "ACCEPTED" => g.basis \in {"criteria", "unstated"}
  /\ Evaluated(g) = Criteria(g)
  /\ g.verdict # "none" /\ g.evaluations # "unnamed" => Criteria(g) # {}
Grounded(g, evm) ==
  /\ g.record = "all" /\ NamesNoOther(g) /\ ExecutionFree(g) /\ Accepts(g)
  /\ evm => g.grants \in {"both", "one party twice"}
  /\ g.closed \in {"no", "in the window"} /\ g.declared = Established(g)

\* What the basis and the subject of a fixture may be.
KnownValues(g) ==
  /\ g.basis \in {"criteria", "payment", "payment and criteria", "other", "unstated"}
  /\ g.subject \in {"client", "other", "missing"}

LEMMA NoneFailedIsGrounded ==
  ASSUME NEW g, NEW evm \in BOOLEAN, KnownValues(g), FailedChecks(g, evm) = {}
  PROVE  Grounded(g, evm)
<1>1. /\ g.record = "all" /\ CheckExecutionAcceptanceSeparation(g) /\ CheckCriteriaClosure(g)
      /\ ReplayDeliveryIntegrity(g) /\ CheckAuthorizationBinding(g)
      /\ CheckB1PaymentInferenceForbidden(g) /\ CheckB2ExecutionDoesNotDecideConformity(g)
      /\ CheckB3NoEngineAdjudication(g) /\ CheckConsentBinding(g, evm) # "FAIL" /\ CheckLifecycleConsistency(g)
  BY FailedIsTold
<1>2. NamesNoOther(g)
  BY <1>1 DEF ReplayDeliveryIntegrity, CheckAuthorizationBinding, NamesNoOther, KnownValues
<1>3. ExecutionFree(g)
  <2>1. g.positions = "both"
    BY <1>1 DEF CheckB3NoEngineAdjudication
  <2>2. /\ g.basis \notin {"payment", "payment and criteria"} /\ g.signers = "a party"
        /\ g.grounds = "criteria" /\ g.derived = "no"
    BY <1>1 DEF CheckExecutionAcceptanceSeparation
  <2>3. g.basis # "execution facts"
    BY DEF KnownValues
  <2> QED BY <2>1, <2>2, <2>3 DEF ExecutionFree
<1>4. Accepts(g)
  <2>1. Has(g, "acceptanceRecord")
    BY <1>1 DEF CheckExecutionAcceptanceSeparation
  <2>2. g.verdict = "ACCEPTED" => g.basis \in {"criteria", "unstated"}
    BY <1>1, <1>3, <2>1 DEF CheckB1PaymentInferenceForbidden, KnownValues, ExecutionFree
  <2>3. Evaluated(g) = Criteria(g)
    BY <1>1 DEF CheckCriteriaClosure
  <2>4. ASSUME g.verdict # "none", g.evaluations # "unnamed" PROVE Criteria(g) # {}
    <3>1. g.evaluations # "none"
      BY <1>1, <2>1, <2>4 DEF CheckB2ExecutionDoesNotDecideConformity
    <3>2. Evaluated(g) # {}
      BY <2>1, <2>4, <3>1 DEF Evaluated
    <3> QED BY <2>3, <3>2
  <2> QED BY <2>2, <2>3, <2>4 DEF Accepts
<1>5. evm => g.grants \in {"both", "one party twice"}
  BY <1>1 DEF CheckConsentBinding
<1>6. g.closed \in {"no", "in the window"} /\ g.declared = Established(g)
  <2>1. Has(g, "disputeRecord")
    BY <1>1 DEF Has
  <2> QED BY <1>1, <2>1 DEF CheckLifecycleConsistency, Closed
<1> QED BY <1>1, <1>2, <1>3, <1>4, <1>5, <1>6 DEF Grounded

\* A fixture is plain or one of the others in each of its things.
LEMMA ValuesOfFixture == ASSUME NEW f \in Fixtures PROVE KnownValues(f)
<1>1. /\ PlainFixture = [x \in DOMAIN PlainFixture |-> PlainFixture[x]]
      /\ "basis" \in DOMAIN PlainFixture /\ "subject" \in DOMAIN PlainFixture
  BY DEF PlainFixture
<1>2. /\ f["basis"] = PlainFixture["basis"] \/ f["basis"] \in OtherFixtures["basis"]
      /\ f["subject"] = PlainFixture["subject"] \/ f["subject"] \in OtherFixtures["subject"]
  BY <1>1, VariantFields DEF Fixtures
<1>3. /\ PlainFixture.basis = "criteria" /\ OtherFixtures.basis = {"payment", "payment and criteria", "other", "unstated"}
      /\ PlainFixture.subject = "client" /\ OtherFixtures.subject = {"other", "missing"}
  BY DEF PlainFixture, OtherFixtures
<1> QED BY <1>2, <1>3 DEF KnownValues

\* The fixture looked at is the one loaded but for the state it declares, and
\* without one it is not verified.
LEMMA LookedIsLoaded ==
  ASSUME NEW f \in Fixtures, NEW g \in Looked(f), NEW evm \in BOOLEAN
  PROVE  /\ \A x \in DOMAIN PlainFixture \ {"declared"} : g[x] = f[x]
         /\ FailedChecks(g, evm) = {} => g = f
<1>1. DOMAIN f = DOMAIN PlainFixture
  <2>1. PlainFixture = [x \in DOMAIN PlainFixture |-> PlainFixture[x]]
    BY DEF PlainFixture
  <2>2. f = [x \in DOMAIN PlainFixture |-> f[x]]
    BY <2>1, VariantFields DEF Fixtures
  <2> QED BY <2>2
<1>2. "declared" \in DOMAIN PlainFixture
  BY DEF PlainFixture
<1>3. \A x \in DOMAIN PlainFixture \ {"declared"} : g[x] = f[x]
  BY <1>1 DEF Looked
<1>4. ASSUME g # f, FailedChecks(g, evm) = {} PROVE FALSE
  <2>1. g.declared = "undeclared"
    BY <1>1, <1>2, <1>4 DEF Looked
  <2>2. g.declared = Established(g)
    BY <1>4, FailedIsTold DEF CheckLifecycleConsistency
  <2>3. Established(g) \in {"RECORD_CLOSED", "DISPUTE_OPEN", "ACCEPTANCE_RECORDED", "DELIVERY_SUBMITTED", "DRAFT"}
    BY DEF Established
  <2> QED BY <2>1, <2>2, <2>3
<1> QED BY <1>3, <1>4

LEMMA DeliveryReported ==
  ASSUME DeliveryInv, NEW f \in fixture, NEW g \in Looked(f), NEW by, NEW evm \in BOOLEAN, NEW pins,
         Report(by, g, evm, pins), UNCHANGED <<fixture, released>>
  PROVE  DeliveryInv'
<1>0. PICK gate : gate = VerifyDeliveryFixture(g, evm)
  OBVIOUS
<1>1. gate.failed = FailedChecks(g, evm) /\ (gate.status = "VERIFIED" => gate.failed = {})
  BY <1>0 DEF VerifyDeliveryFixture
<1>2. PICK r : r = [by |-> by, status |-> gate.status, failed |-> gate.failed, evm |-> evm,
                    acceptance |-> gate.acceptance, manifest |-> pins, gaps |-> MapToPeoplesCourt(g)]
  OBVIOUS
<1>3. reports' = {r}
  BY <1>0, <1>2 DEF Report
<1>4. r.failed = gate.failed /\ r.evm = evm /\ r.status = gate.status
  BY <1>2
<1>5. Says(r, f)
  BY <1>1, <1>4 DEF Says, ReportOf
<1> QED BY <1>3, <1>5 DEF DeliveryInv, OneFixture, ReportsAreOfIt, ReleasesAreOfIt

\* The gate and the release on its report (packages/delivery, DDE/1), for any
\* number of odd things about a fixture: what is released on was in order, and
\* every defect is named whatever the others are.
THEOREM GroundsHold == DeliverySpec => []DeliveryIsGrounded
<1>1. DeliveryInit => DeliveryInv
  BY DEF DeliveryInit, DeliveryInv, OneFixture, ReportsAreOfIt, ReleasesAreOfIt
<1>2. DeliveryInv /\ [DeliveryNext]_deliveryVars => DeliveryInv'
  <2>1. ASSUME DeliveryInv, DeliveryNext PROVE DeliveryInv'
    <3>1. ASSUME fixture = {}, NEW f \in Fixtures, LoadFixture(f) PROVE DeliveryInv'
      BY <2>1, <3>1 DEF LoadFixture, DeliveryInv, OneFixture, ReportsAreOfIt, ReleasesAreOfIt
    <3>2. ASSUME NEW f \in fixture, NEW evm \in BOOLEAN, VerifyFixture(f, evm) PROVE DeliveryInv'
      <4>1. f \in Looked(f)
        BY DEF Looked
      <4> QED BY <2>1, <3>2, <4>1, DeliveryReported DEF VerifyFixture
    <3>3. ASSUME NEW f \in fixture, NEW evm \in BOOLEAN, VerifyFixtureDir(f, evm) PROVE DeliveryInv'
      <4> DEFINE lifecycle == IF f.pins = "absent" THEN "undeclared" ELSE f.declared
                 g == [f EXCEPT !.declared = lifecycle]
                 pins == IF f.pins = "absent" THEN "ABSENT" ELSE "PRESENT"
      <4>1. f \in Fixtures
        BY <2>1 DEF DeliveryInv, OneFixture
      <4>2. f = [x \in DOMAIN f |-> f[x]]
        <5>1. PlainFixture = [x \in DOMAIN PlainFixture |-> PlainFixture[x]]
          BY DEF PlainFixture
        <5>2. f = [x \in DOMAIN PlainFixture |-> f[x]]
          BY <4>1, <5>1, VariantFields DEF Fixtures
        <5> QED BY <5>2
      <4>3. g \in Looked(f)
        BY <4>2 DEF Looked
      <4>4. Report("directory", g, evm, pins) /\ UNCHANGED <<fixture, released>>
        BY <3>3 DEF VerifyFixtureDir
      <4> HIDE DEF g, pins
      <4> QED BY <2>1, <4>3, <4>4, DeliveryReported
    <3>4. ASSUME NEW f \in fixture, VerifyFixtureFiles(f) PROVE DeliveryInv'
      <4>1. f \in Looked(f)
        BY DEF Looked
      <4> QED BY <2>1, <3>4, <4>1, DeliveryReported DEF VerifyFixtureFiles
    <3>5. ASSUME NEW f \in fixture, NEW r \in reports, NEW c \in Conditions, ReleaseWhen(f, r, c) PROVE DeliveryInv'
      <4>0. PICK x : x = [report |-> r, condition |-> c, release |-> Releases(r, c)]
        OBVIOUS
      <4>1. released' = {x} /\ x.report = r /\ x.release = Releases(r, c)
        BY <3>5, <4>0 DEF ReleaseWhen
      <4>2. UNCHANGED <<fixture, reports>>
        BY <3>5 DEF ReleaseWhen
      <4>3. x.release => r.status = "VERIFIED"
        BY <4>1 DEF Releases
      <4> QED BY <2>1, <4>1, <4>2, <4>3 DEF DeliveryInv, OneFixture, ReportsAreOfIt, ReleasesAreOfIt
    <3> QED BY <2>1, <3>1, <3>2, <3>3, <3>4, <3>5 DEF DeliveryNext
  <2>2. ASSUME DeliveryInv, UNCHANGED deliveryVars PROVE DeliveryInv'
    BY <2>2 DEF deliveryVars, DeliveryInv, OneFixture, ReportsAreOfIt, ReleasesAreOfIt
  <2> QED BY <2>1, <2>2
<1>3. DeliveryInv => DeliveryIsGrounded
  <2> SUFFICES ASSUME DeliveryInv PROVE DeliveryIsGrounded
    OBVIOUS
  <2>0. DOMAIN PlainFixture = {"record", "criteriaRef", "signers", "grounds", "derived", "criteria", "evaluations",
          "artifacts", "refs", "client", "subject", "cert", "intentHash", "verdict", "basis", "positions", "grants", "opened",
          "closed", "declared", "pins"}
    BY DEF PlainFixture
  <2>1. ASSUME NEW x \in released, NEW f \in fixture, x.release PROVE Grounded(f, x.report.evm)
    <3>1. Says(x.report, f) /\ x.report.status = "VERIFIED" /\ f \in Fixtures
      BY <2>1 DEF DeliveryInv, OneFixture, ReleasesAreOfIt
    <3>2. PICK evm \in BOOLEAN, g \in Looked(f) : FailedChecks(g, evm) = {} /\ x.report.evm = evm
      BY <3>1 DEF Says, ReportOf
    <3> QED BY <3>1, <3>2, LookedIsLoaded, NoneFailedIsGrounded, ValuesOfFixture
  <2>2. ASSUME NEW r \in reports, NEW f \in fixture, f.record = "all" PROVE Defects(f, r.evm, r.failed)
    <3>1. Says(r, f) /\ f \in Fixtures
      BY DEF DeliveryInv, OneFixture, ReportsAreOfIt
    <3>2. PICK evm \in BOOLEAN, g \in Looked(f) : r.failed = FailedChecks(g, evm) /\ r.evm = evm
      BY <3>1 DEF Says, ReportOf
    <3>3. \A y \in DOMAIN PlainFixture \ {"declared"} : g[y] = f[y]
      BY <3>1, <3>2, LookedIsLoaded
    <3>4. /\ g.record = f.record /\ g.criteriaRef = f.criteriaRef /\ g.signers = f.signers /\ g.grounds = f.grounds
          /\ g.derived = f.derived /\ g.evaluations = f.evaluations /\ g.artifacts = f.artifacts /\ g.refs = f.refs
          /\ g.criteria = f.criteria /\ g.client = f.client /\ g.cert = f.cert
          /\ g.intentHash = f.intentHash /\ g.subject = f.subject /\ g.basis = f.basis /\ g.verdict = f.verdict
          /\ g.positions = f.positions /\ g.grants = f.grants /\ g.closed = f.closed
      BY <2>0, <3>3
    <3>5. Defects(g, evm, FailedChecks(g, evm))
      BY <2>2, <3>4, DefectsAreTold
    <3>6. Defects(g, evm, r.failed)
      BY <3>2, <3>5
    <3>7. Defects(f, evm, r.failed)
      <4>1. RecordDefects(f, r.failed)
        BY <3>4, <3>6 DEF Defects, RecordDefects
      <4>2. BindingDefects(f, r.failed)
        BY <3>4, <3>6 DEF Defects, BindingDefects
      <4>3. VerdictDefects(f, r.failed)
        BY <3>4, <3>6 DEF Defects, VerdictDefects
      <4>4. ConsentDefects(f, evm, r.failed)
        BY <3>4, <3>6 DEF Defects, ConsentDefects
      <4> QED BY <4>1, <4>2, <4>3, <4>4 DEF Defects
    <3> QED BY <3>2, <3>7
  <2>3. ReleaseRestsOnRecords
    <3>1. ASSUME NEW x \in released, NEW f \in fixture, x.release
          PROVE  /\ f.record = "all" /\ NamesNoOther(f) /\ ExecutionFree(f) /\ Accepts(f)
                 /\ f.closed \in {"no", "in the window"} /\ f.declared = Established(f)
      BY <2>1, <3>1, Zenon DEF Grounded
    <3>2. ASSUME NEW x \in released, NEW f \in fixture, x.release, x.report.evm
          PROVE  f.grants \in {"both", "one party twice"}
      BY <2>1, <3>2, Zenon DEF Grounded
    <3> QED BY <3>1, <3>2, ZenonT(60) DEF ReleaseRestsOnRecords, NamesNoOther, ExecutionFree, Accepts
  <2>4. EveryDefectIsNamed
    <3>1. ASSUME NEW r \in reports, NEW f \in fixture, f.record = "all"
          PROVE  /\ RecordDefects(f, r.failed) /\ BindingDefects(f, r.failed) /\ VerdictDefects(f, r.failed)
                 /\ ConsentDefects(f, r.evm, r.failed)
      BY <2>2, <3>1, Zenon DEF Defects
    <3> SUFFICES ASSUME NEW r \in reports, NEW f \in fixture, f.record = "all"
                 PROVE  /\ RecordDefects(f, r.failed) /\ BindingDefects(f, r.failed) /\ VerdictDefects(f, r.failed)
                        /\ ConsentDefects(f, r.evm, r.failed)
      BY ZenonT(60) DEF EveryDefectIsNamed, RecordDefects, BindingDefects, VerdictDefects, ConsentDefects
    <3> QED BY <3>1, Zenon
  <2> QED BY <2>3, <2>4 DEF DeliveryIsGrounded
<1> QED BY <1>1, <1>2, <1>3, PTL DEF DeliverySpec
=============================================================================
