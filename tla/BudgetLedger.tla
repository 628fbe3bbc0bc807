---------------------------- MODULE BudgetLedger ----------------------------
(***************************************************************************)
(* The job-scoped budget ledger, packages/budget/ledger.mjs (CG-BUD/1).    *)
(*                                                                         *)
(* A job has one ceiling.  A scope (a sub-agent) has a share carved out of *)
(* its parent, a job or another scope.  Costs are reserved, then committed *)
(* or released; a metered cost is reserved and committed at once.  The     *)
(* escrow half of the same ledger locks an amount of a job until it is     *)
(* disposed of.  Every method of the ledger is synchronous and runs to its *)
(* end without yielding, so each is one action.  A call the ledger refuses *)
(* (or that throws) mutates nothing: it is a stuttering step, and what is  *)
(* modelled of it is the guard of the action that succeeds.                *)
(***************************************************************************)
EXTENDS Integers, FiniteSets

CONSTANTS
  Jobs,          \* job identifiers
  Scopes,        \* scope identifiers, each usable once in every job
  Reservations,  \* reservation identifiers: the ledger never uses one twice
  Ceilings,      \* the ceilings jobs are opened with, in cents
  Amounts,       \* the shares, costs and escrow amounts callers ask for
  EscrowBound,   \* bound of the model: what a job locks in its lifetime
  None           \* no parent scope, no scope, no job

ASSUME IdsAssumption ==
  /\ IsFiniteSet(Scopes)
  /\ IsFiniteSet(Reservations)
  /\ None \notin Jobs \cup Scopes

\* isPositiveInt: every other amount is refused (UNKNOWN_AMOUNT) or throws.
ASSUME AmountsAssumption ==
  /\ Ceilings \subseteq Nat \ {0}
  /\ Amounts \subseteq Nat \ {0}
  /\ EscrowBound \in Nat

VARIABLES
  jobs,         \* per job: its ceiling, escrow and running totals
  scopes,       \* per job and scope: its parent, share and running totals
  reservations  \* per identifier: the reservation, once made

vars == <<jobs, scopes, reservations>>

-----------------------------------------------------------------------------
\* Totals of amounts held by finitely many owners.  Every amount is an integer
\* number of cents, and the total of a family of amounts is the number of its
\* cents, each cent being an owner and a rank: counting them instead of folding
\* + gives a definition whose laws follow from those of Cardinality.

\* The cents of the amounts f: owner x has the cents <<x, 1>> .. <<x, f[x]>>.
CentsOf(f) == UNION {{x} \X (1 .. f[x]) : x \in DOMAIN f}

\* The total of the amounts f.
Total(f) == Cardinality(CentsOf(f))

-----------------------------------------------------------------------------
JobStates == {"NONE", "OPEN", "HELD", "RELEASED", "REFUNDED"}
ReservationStates == {"NONE", "RESERVED", "COMMITTED", "RELEASED"}

Job == [state : JobStates, ceiling : Nat, held : Nat, released : Nat,
        refunded : Nat, reserved : Nat, committed : Nat, childShares : Nat]

\* scope.state is written once, "OPEN": no method closes a scope, so the
\* SCOPE_CLOSED refusals of the code are never taken.
Scope == [state : {"NONE", "OPEN"}, parent : Scopes \cup {None}, share : Nat,
          reserved : Nat, committed : Nat, childShares : Nat]

Reservation == [state : ReservationStates, job : Jobs \cup {None},
                scope : Scopes \cup {None}, amount : Nat]

TypeOK ==
  /\ jobs \in [Jobs -> Job]
  /\ scopes \in [Jobs -> [Scopes -> Scope]]
  /\ reservations \in [Reservations -> Reservation]

-----------------------------------------------------------------------------
\* Mutant of JobAvailable: shares that were carved out still count as free.
JobAvailableWithShares(j) ==
  jobs[j].ceiling - jobs[j].reserved - jobs[j].committed

\* What the code calls jobAvailable and scopeAvailable.  A scope's own draws
\* are counted in its job's reserved and committed as well.
JobAvailable(j) ==
  jobs[j].ceiling - jobs[j].childShares - jobs[j].reserved - jobs[j].committed

ScopeAvailable(j, s) ==
  scopes[j][s].share - scopes[j][s].childShares
    - scopes[j][s].reserved - scopes[j][s].committed

IsOpen(j) == jobs[j].state # "NONE"
HasScope(j, s) == scopes[j][s].state = "OPEN"

\* Mutant of Remaining: a cap on the job only, which scopes share.
JobCapOnly(j, s) == JobAvailable(j)

\* The budget of job j that s (a scope, or None for the job itself) allocates
\* and spends from.
Remaining(j, s) == IF s = None THEN JobAvailable(j) ELSE ScopeAvailable(j, s)

\* The checks of reserve: the job and the scope exist and the cost fits.
CanReserve(j, s, amount) ==
  /\ IsOpen(j)
  /\ s # None => HasScope(j, s)
  /\ amount <= Remaining(j, s)

-----------------------------------------------------------------------------
Init ==
  /\ jobs = [j \in Jobs |->
       [state |-> "NONE", ceiling |-> 0, held |-> 0, released |-> 0,
        refunded |-> 0, reserved |-> 0, committed |-> 0, childShares |-> 0]]
  /\ scopes = [j \in Jobs |-> [s \in Scopes |->
       [state |-> "NONE", parent |-> None, share |-> 0,
        reserved |-> 0, committed |-> 0, childShares |-> 0]]]
  /\ reservations = [r \in Reservations |->
       [state |-> "NONE", job |-> None, scope |-> None, amount |-> 0]]

\* openJob: throws for a job that exists.
OpenJob(j, ceiling) ==
  /\ ~IsOpen(j)
  /\ jobs' = [jobs EXCEPT ![j].state = "OPEN", ![j].ceiling = ceiling]
  /\ UNCHANGED <<scopes, reservations>>

NewScope(p, share) ==
  [state |-> "OPEN", parent |-> p, share |-> share,
   reserved |-> 0, committed |-> 0, childShares |-> 0]

\* openScope directly under the job: carve a share out of its remainder.
OpenRootScope(j, s, share) ==
  /\ IsOpen(j) /\ ~HasScope(j, s)
  /\ share <= JobAvailable(j)
  /\ jobs' = [jobs EXCEPT ![j].childShares = @ + share]
  /\ scopes' = [scopes EXCEPT ![j][s] = NewScope(None, share)]
  /\ UNCHANGED reservations

\* Mutant of OpenSubScope: the job is charged for the share, not the parent.
SubScopeOfJob(j, s, p, share) ==
  /\ IsOpen(j) /\ ~HasScope(j, s) /\ HasScope(j, p)
  /\ share <= ScopeAvailable(j, p)
  /\ jobs' = [jobs EXCEPT ![j].childShares = @ + share]
  /\ scopes' = [scopes EXCEPT ![j][s] = NewScope(p, share)]
  /\ UNCHANGED reservations

\* openScope under another scope of the same job.
OpenSubScope(j, s, p, share) ==
  /\ IsOpen(j) /\ ~HasScope(j, s) /\ HasScope(j, p)
  /\ share <= ScopeAvailable(j, p)
  /\ scopes' = [scopes EXCEPT ![j][p].childShares = @ + share,
                              ![j][s] = NewScope(p, share)]
  /\ UNCHANGED <<jobs, reservations>>

\* Mutant of Reserve: a draw is charged to the scope's parent as well.
ReserveUpwards(j, s, r, amount) ==
  LET charged == IF s = None THEN {} ELSE {s, scopes[j][s].parent} \ {None}
  IN  /\ CanReserve(j, s, amount)
      /\ reservations[r].state = "NONE"
      /\ reservations' = [reservations EXCEPT ![r] =
           [state |-> "RESERVED", job |-> j, scope |-> s, amount |-> amount]]
      /\ jobs' = [jobs EXCEPT ![j].reserved = @ + amount]
      /\ scopes' = [scopes EXCEPT ![j] = [t \in Scopes |->
           IF t \in charged THEN [@[t] EXCEPT !.reserved = @ + amount] ELSE @[t]]]

\* reserve: the atomic check-then-act.  A draw of a scope enters the totals
\* of the scope and of its job.
Reserve(j, s, r, amount) ==
  /\ CanReserve(j, s, amount)
  /\ reservations[r].state = "NONE"
  /\ reservations' = [reservations EXCEPT ![r] =
       [state |-> "RESERVED", job |-> j, scope |-> s, amount |-> amount]]
  /\ jobs' = [jobs EXCEPT ![j].reserved = @ + amount]
  /\ scopes' = IF s = None THEN scopes
               ELSE [scopes EXCEPT ![j][s].reserved = @ + amount]

\* meter: reserve, then commit of that reservation, in one call.
Meter(j, s, r, amount) ==
  /\ CanReserve(j, s, amount)
  /\ reservations[r].state = "NONE"
  /\ reservations' = [reservations EXCEPT ![r] =
       [state |-> "COMMITTED", job |-> j, scope |-> s, amount |-> amount]]
  /\ jobs' = [jobs EXCEPT ![j].committed = @ + amount]
  /\ scopes' = IF s = None THEN scopes
               ELSE [scopes EXCEPT ![j][s].committed = @ + amount]

\* commit: the cost happened; reserved becomes committed.
Commit(r) ==
  LET j == reservations[r].job
      s == reservations[r].scope
      n == reservations[r].amount
  IN  /\ reservations[r].state = "RESERVED"
      /\ reservations' = [reservations EXCEPT ![r].state = "COMMITTED"]
      /\ jobs' = [jobs EXCEPT ![j].reserved = @ - n, ![j].committed = @ + n]
      /\ scopes' = IF s = None THEN scopes
                   ELSE [scopes EXCEPT ![j][s].reserved = @ - n,
                                       ![j][s].committed = @ + n]

\* Mutants of Release: the scope's total is forgotten; a reservation that is
\* not live any more is given back again.
ReleaseToJobOnly(r) ==
  LET j == reservations[r].job
      n == reservations[r].amount
  IN  /\ reservations[r].state = "RESERVED"
      /\ reservations' = [reservations EXCEPT ![r].state = "RELEASED"]
      /\ jobs' = [jobs EXCEPT ![j].reserved = @ - n]
      /\ UNCHANGED scopes

ReleaseAgain(r) ==
  LET j == reservations[r].job
      n == reservations[r].amount
  IN  /\ reservations[r].state # "NONE"
      /\ reservations' = [reservations EXCEPT ![r].state = "RELEASED"]
      /\ jobs' = [jobs EXCEPT ![j].reserved = @ - n]
      /\ UNCHANGED scopes

\* release: the cost did not happen; the reservation goes back.
Release(r) ==
  LET j == reservations[r].job
      s == reservations[r].scope
      n == reservations[r].amount
  IN  /\ reservations[r].state = "RESERVED"
      /\ reservations' = [reservations EXCEPT ![r].state = "RELEASED"]
      /\ jobs' = [jobs EXCEPT ![j].reserved = @ - n]
      /\ scopes' = IF s = None THEN scopes
                   ELSE [scopes EXCEPT ![j][s].reserved = @ - n]

\* hold: lock an amount for a delivery.  The guard looks at what was spent so
\* far, not at the shares carved out nor at what was released before.
Hold(j, amount) ==
  /\ IsOpen(j)
  /\ jobs[j].held = 0
  /\ amount <= jobs[j].ceiling - jobs[j].committed - jobs[j].reserved
  /\ amount + jobs[j].released + jobs[j].refunded <= EscrowBound
  /\ jobs' = [jobs EXCEPT ![j].held = amount, ![j].state = "HELD"]
  /\ UNCHANGED <<scopes, reservations>>

\* Mutants of Dispose: a partial disposition ends the hold's state; it ends
\* the hold.
DisposeEndsState(j, to, amount) ==
  /\ IsOpen(j)
  /\ jobs[j].held > 0
  /\ amount <= jobs[j].held
  /\ jobs' = [jobs EXCEPT
       ![j].held = @ - amount,
       ![j].released = IF to = "RELEASED" THEN @ + amount ELSE @,
       ![j].refunded = IF to = "REFUNDED" THEN @ + amount ELSE @,
       ![j].state = to]
  /\ UNCHANGED <<scopes, reservations>>

DisposeDropsRest(j, to, amount) ==
  /\ IsOpen(j)
  /\ jobs[j].held > 0
  /\ amount <= jobs[j].held
  /\ jobs' = [jobs EXCEPT
       ![j].held = 0,
       ![j].released = IF to = "RELEASED" THEN @ + amount ELSE @,
       ![j].refunded = IF to = "REFUNDED" THEN @ + amount ELSE @,
       ![j].state = to]
  /\ UNCHANGED <<scopes, reservations>>

\* disposition to RELEASED or REFUNDED, of all that is held or of a part; the
\* job's state changes when nothing is left.  A disposition to HELD changes
\* nothing and is a stuttering step.
Dispose(j, to, amount) ==
  /\ IsOpen(j)
  /\ jobs[j].held > 0
  /\ amount <= jobs[j].held
  /\ jobs' = [jobs EXCEPT
       ![j].held = @ - amount,
       ![j].released = IF to = "RELEASED" THEN @ + amount ELSE @,
       ![j].refunded = IF to = "REFUNDED" THEN @ + amount ELSE @,
       ![j].state = IF amount = jobs[j].held THEN to ELSE @]
  /\ UNCHANGED <<scopes, reservations>>

Dispositions == {"RELEASED", "REFUNDED"}

DisposeAll(j, to) == Dispose(j, to, jobs[j].held)

Next ==
  \/ \E j \in Jobs, c \in Ceilings : OpenJob(j, c)
  \/ \E j \in Jobs, s \in Scopes, n \in Amounts : OpenRootScope(j, s, n)
  \/ \E j \in Jobs, s \in Scopes, p \in Scopes, n \in Amounts : OpenSubScope(j, s, p, n)
  \/ \E j \in Jobs, s \in Scopes \cup {None}, r \in Reservations, n \in Amounts :
       Reserve(j, s, r, n)
  \/ \E j \in Jobs, s \in Scopes \cup {None}, r \in Reservations, n \in Amounts :
       Meter(j, s, r, n)
  \/ \E r \in Reservations : Commit(r)
  \/ \E r \in Reservations : Release(r)
  \/ \E j \in Jobs, n \in Amounts : Hold(j, n)
  \/ \E j \in Jobs, to \in Dispositions, n \in Amounts : Dispose(j, to, n)
  \/ \E j \in Jobs, to \in Dispositions : DisposeAll(j, to)

Spec == Init /\ [][Next]_vars

-----------------------------------------------------------------------------
\* What job j's scopes may still spend, and the reservations of job j (drawn
\* by its scope s) that are in a given state.
FreeOf(j) == [s \in Scopes |-> ScopeAvailable(j, s)]
ScopesFree(j) == Total(FreeOf(j))

Drawn(j, state) == [r \in Reservations |->
  IF reservations[r].job = j /\ reservations[r].state = state
  THEN reservations[r].amount ELSE 0]

DrawnBy(j, s, state) == [r \in Reservations |->
  IF /\ reservations[r].job = j /\ reservations[r].scope = s
     /\ reservations[r].state = state
  THEN reservations[r].amount ELSE 0]

\* The shares carved directly out of p: a scope of job j, or None for the job.
SharesUnder(j, p) == [s \in Scopes |->
  IF HasScope(j, s) /\ scopes[j][s].parent = p THEN scopes[j][s].share ELSE 0]

\* What a scope keeps of its share for itself.
KeptOf(j) == [s \in Scopes |-> scopes[j][s].share - scopes[j][s].childShares]

\* One ceiling: whatever the order of allocations, draws, commits and releases
\* of a job and of its sub-agents, at every depth, what they have drawn
\* together with what the sub-agents may still draw never passes the job's
\* ceiling.  Every check of the ledger is local to one record; this is global.
OneCeiling ==
  \A j \in Jobs :
    jobs[j].reserved + jobs[j].committed + ScopesFree(j) <= jobs[j].ceiling

\* A sub-agent stays within its share: what it drew and what it gave away to
\* its own sub-agents never passes the share carved out for it.
WithinShare == \A j \in Jobs, s \in Scopes : ScopeAvailable(j, s) >= 0

\* The running totals are the truth: at every level, what is recorded as
\* reserved or committed is the sum of the reservations in that state.  A cost
\* that is released twice, or given back to another scope, breaks this.
BooksBalance ==
  \A j \in Jobs :
    /\ jobs[j].reserved = Total(Drawn(j, "RESERVED"))
    /\ jobs[j].committed = Total(Drawn(j, "COMMITTED"))
    /\ \A s \in Scopes :
         /\ scopes[j][s].reserved = Total(DrawnBy(j, s, "RESERVED"))
         /\ scopes[j][s].committed = Total(DrawnBy(j, s, "COMMITTED"))

\* No share exists that its parent did not give up: at every level, the shares
\* recorded as carved out are exactly the shares of the scopes below.
SharesCarved ==
  \A j \in Jobs :
    /\ jobs[j].childShares = Total(SharesUnder(j, None))
    /\ \A p \in Scopes : scopes[j][p].childShares = Total(SharesUnder(j, p))

\* The escrow state says what is held: a job is HELD exactly while something
\* of it is locked, through partial dispositions and repeated holds.
HeldIffLocked ==
  \A j \in Jobs : (jobs[j].state = "HELD") <=> (jobs[j].held > 0)

\* Locked money is neither burned nor created: what leaves escrow is paid out
\* or refunded to the cent, and nothing is paid out that was not locked.
EscrowConserved ==
  [][\A j \in Jobs :
       LET out(job) == job.released + job.refunded
       IN  /\ out(jobs'[j]) - out(jobs[j]) =
                IF jobs'[j].held < jobs[j].held
                THEN jobs[j].held - jobs'[j].held ELSE 0
           /\ jobs'[j].held > jobs[j].held => jobs[j].held = 0]_vars

\* Siblings cannot reach each other's money: a step that lowers what one scope
\* may spend is that scope's own draw or allocation, and no other scope of any
\* job is poorer after it.
NoRaid ==
  [][\A j, k \in Jobs, s, t \in Scopes :
       /\ ScopeAvailable(j, s)' < ScopeAvailable(j, s)
       /\ <<j, s>> # <<k, t>>
       => ScopeAvailable(k, t)' >= ScopeAvailable(k, t)]_vars

\* Money changes hands nowhere but where it is asked to: no scope is poorer by
\* another scope's draw, and a disposition pays out exactly what leaves escrow.
MoneyStaysPut == NoRaid /\ EscrowConserved

-----------------------------------------------------------------------------
\* The ledger implements SpendAuthority.  The purse of a scope is what the code
\* calls its available amount; the purse of a job is its ceiling less the shares
\* it gave away and its own draws (the draws of its scopes come out of their
\* shares, so they are not taken twice).
Holders == Scopes \cup {None}

\* What holder h of job j drew by itself, in a given state.
Draws(j, h, state) == Total(DrawnBy(j, h, state))

Purse(j, h) ==
  IF h = None
  THEN jobs[j].ceiling - jobs[j].childShares
         - Draws(j, None, "RESERVED") - Draws(j, None, "COMMITTED")
  ELSE ScopeAvailable(j, h)

\* The purses of the ledger, under the names of SpendAuthority.
Opened == [j \in Jobs |-> IF IsOpen(j)
                          THEN {None} \cup {s \in Scopes : HasScope(j, s)} ELSE {}]
Free == [j \in Jobs |-> [h \in Holders |-> Purse(j, h)]]
Pending == [j \in Jobs |-> [h \in Holders |-> Draws(j, h, "RESERVED")]]
Spent == [j \in Jobs |-> [h \in Holders |-> Draws(j, h, "COMMITTED")]]

Authority == INSTANCE SpendAuthority WITH
  Root <- None, opened <- Opened, free <- Free, pending <- Pending, spent <- Spent

\* The ledger never spends a cent its purses do not have, and never moves one
\* except as SpendAuthority allows: whatever guard the code uses, every step
\* is a step of the purses, or leaves them alone (the escrow half).
ImplementsAuthority == Authority!Spec
=============================================================================
