---------------------------- MODULE X402Harness -----------------------------
(***************************************************************************)
(* The x402 payment harness, packages/x402/index.mjs, wired to one job of  *)
(* a budget ledger (the "budget" option): a challenge is reserved against  *)
(* the job before it is signed, and its reservation is committed or        *)
(* released when it is settled.                                            *)
(*                                                                         *)
(* sign and settle are synchronous, the settler adapter included, so each  *)
(* is one action.  A challenge is named by its id, a digest of its content *)
(* (resource, price, expiry in seconds): asking again for the same thing   *)
(* within the same second gives the same challenge.  The expiry itself is  *)
(* written into the challenge and never read.  The ledger is shared with   *)
(* the rest of the job (JobFlow composes the two).                         *)
(***************************************************************************)
EXTENDS BudgetLedger

CONSTANTS
  Challenges,       \* challenge identifiers
  Price,            \* the amountCents of each challenge
  BudgetJob,        \* budget.jobId
  BudgetScope,      \* budget.scopeId, None when it is not given
  SignBound,        \* bound of the model: signatures per challenge
  SettleBound       \* bound of the model: settlements per challenge

\* An entry of the Map that is not there is undefined, which is no reservation.
ASSUME HarnessAssumption ==
  /\ IsFiniteSet(Challenges) /\ None \notin Reservations
  /\ Price \in [Challenges -> Amounts]
  /\ BudgetJob \in Jobs /\ BudgetScope \in Scopes \cup {None}
  /\ SignBound \in Nat /\ SettleBound \in Nat

VARIABLES
  mode,      \* DRY_RUN or LIVE, fixed when the harness is created
  held,      \* the harness's Map: challenge -> its live reservation, or None
  mine,      \* the reservations the harness made
  signed,    \* per challenge, the signatures handed out
  settled    \* per challenge, the settlements the settler named

harnessVars == <<mode, held, mine, signed, settled>>

HarnessTypeOK ==
  /\ mode \in {"DRY_RUN", "LIVE"}
  /\ held \in [Challenges -> Reservations \cup {None}]
  /\ mine \subseteq Reservations
  /\ signed \in [Challenges -> 0 .. SignBound]
  /\ settled \in [Challenges -> 0 .. SettleBound]

HarnessInit ==
  /\ Init
  /\ mode \in {"DRY_RUN", "LIVE"}
  /\ held = [c \in Challenges |-> None]
  /\ mine = {}
  /\ signed = [c \in Challenges |-> 0]
  /\ settled = [c \in Challenges |-> 0]

\* Mutant of Sign: a challenge that holds a reservation is signed again.
SignAgain(c, r) ==
  /\ signed[c] < SignBound
  /\ Reserve(BudgetJob, BudgetScope, r, Price[c])
  /\ held' = [held EXCEPT ![c] = r]
  /\ mine' = mine \cup {r}
  /\ signed' = [signed EXCEPT ![c] = @ + 1]
  /\ UNCHANGED <<mode, settled>>

\* sign: refused while the challenge holds a reservation or when its price
\* does not fit; otherwise reserved, remembered and signed.
Sign(c, r) ==
  /\ held[c] = None
  /\ signed[c] < SignBound
  /\ Reserve(BudgetJob, BudgetScope, r, Price[c])
  /\ held' = [held EXCEPT ![c] = r]
  /\ mine' = mine \cup {r}
  /\ signed' = [signed EXCEPT ![c] = @ + 1]
  /\ UNCHANGED <<mode, settled>>

\* settleReservation: nothing when the challenge holds no reservation.
CommitHeld(c) ==
  IF held[c] = None THEN UNCHANGED <<vars, held>>
  ELSE Commit(held[c]) /\ held' = [held EXCEPT ![c] = None]

\* Mutant of ReleaseHeld: the Map's entry is not deleted.
ReleaseKeepsEntry(c) ==
  IF held[c] = None THEN UNCHANGED <<vars, held>>
  ELSE Release(held[c]) /\ UNCHANGED held

ReleaseHeld(c) ==
  IF held[c] = None THEN UNCHANGED <<vars, held>>
  ELSE Release(held[c]) /\ held' = [held EXCEPT ![c] = None]

\* Mutant of SettleUnknown: the reservation is committed.
UnknownCommits(c) ==
  /\ mode = "LIVE"
  /\ CommitHeld(c)
  /\ UNCHANGED <<mode, mine, signed, settled>>

\* settle in DRY_RUN: NOT_PERFORMED, the reservation goes back.
SettleDryRun(c) ==
  /\ mode = "DRY_RUN"
  /\ ReleaseHeld(c)
  /\ UNCHANGED <<mode, mine, signed, settled>>

\* settle in LIVE with an envelope whose signature does not verify: REJECTED.
SettleBadEnvelope(c) ==
  /\ mode = "LIVE"
  /\ ReleaseHeld(c)
  /\ UNCHANGED <<mode, mine, signed, settled>>

\* settle in LIVE, the settler throws or names no settlement: UNKNOWN.  The
\* envelope is one the harness signed, or the caller passes none.
SettleUnknown(c) ==
  /\ mode = "LIVE"
  /\ ReleaseHeld(c)
  /\ UNCHANGED <<mode, mine, signed, settled>>

\* settle in LIVE, the settler names a settlement: SETTLED.  The metrics count
\* it whether or not the challenge holds a reservation, at the amount of the
\* challenge it is handed, which here is the one that was made under that id.
SettleDone(c) ==
  /\ mode = "LIVE"
  /\ settled[c] < SettleBound
  /\ CommitHeld(c)
  /\ settled' = [settled EXCEPT ![c] = @ + 1]
  /\ UNCHANGED <<mode, mine, signed>>

HarnessStep ==
  \/ \E c \in Challenges, r \in Reservations : Sign(c, r)
  \/ \E c \in Challenges : SettleDryRun(c)
  \/ \E c \in Challenges : SettleBadEnvelope(c)
  \/ \E c \in Challenges : SettleUnknown(c)
  \/ \E c \in Challenges : SettleDone(c)

\* What the harness leaves to others, and others to it.
HarnessIdle ==
  /\ \A r \in mine : reservations'[r] = reservations[r]
  /\ UNCHANGED harnessVars

-----------------------------------------------------------------------------
\* The cents of the harness's reservations in a given state, and the cents its
\* metrics report as settled (metrics.settledCents).
MineIn(state) == [r \in Reservations |->
  IF r \in mine /\ reservations[r].state = state THEN reservations[r].amount ELSE 0]
Mine(state) == Total(MineIn(state))

SettledFor == [c \in Challenges |-> settled[c] * Price[c]]
SettledCents == Total(SettledFor)

\* Each live entry of the Map stands for one reservation of the ledger: still
\* reserved, for this challenge's price, on the harness's job and scope, and
\* for no other challenge.
HeldIsBacked ==
  \A c \in Challenges : held[c] # None =>
    /\ reservations[held[c]] =
         [state |-> "RESERVED", job |-> BudgetJob, scope |-> BudgetScope, amount |-> Price[c]]
    /\ \A d \in Challenges \ {c} : held[d] # held[c]

\* No budget leaks: whatever way a settlement ends, a cost the harness has
\* reserved is still known to it, so it can be committed or given back.
NoLeak ==
  \A r \in mine : reservations[r].state = "RESERVED" => \E c \in Challenges : held[c] = r

\* Authorised is not settled: the ledger records as committed only payments
\* the settler named, never one that was refused, rejected, unknown or dry (a
\* dry run settles nothing, so it commits nothing).
CommitsAreSettled == Mine("COMMITTED") <= SettledCents
=============================================================================
