------------------------- MODULE BudgetLedgerProofs -------------------------
(***************************************************************************)
(* What the budget ledger guarantees for any number of jobs, scopes and    *)
(* reservations, any ceilings and any amounts.                             *)
(*                                                                         *)
(* OneCeiling is not inductive: whether a draw of a scope keeps the job    *)
(* under its ceiling depends on all the other scopes' shares.  The         *)
(* inductive invariant adds that shares are conserved (the shares scopes   *)
(* keep add up to what the job gave away), that no scope is overdrawn and  *)
(* that the running totals are the sums of the reservations, which is what *)
(* keeps a commit or a release from taking a total below zero.             *)
(***************************************************************************)
EXTENDS BudgetLedger, FiniteSetTheorems, FunctionTheorems, TLAPS

-----------------------------------------------------------------------------
\* The laws of Total: how a total changes when one amount changes, and that it
\* is monotone in every amount.

\* The cents of finitely many natural amounts are finitely many, so their
\* total is a natural number.
LEMMA CentsFinite ==
  ASSUME NEW S, IsFiniteSet(S), NEW f \in [S -> Nat]
  PROVE  /\ IsFiniteSet(CentsOf(f))
         /\ Total(f) \in Nat
<1> DEFINE own == [x \in S |-> {x} \X (1 .. f[x])]
           all == {own[x] : x \in S}
<1>1. own \in Surjection(S, all)
  BY DEF Surjection
<1>2. IsFiniteSet(all)
  BY <1>1, FS_Surjection
<1>3. ASSUME NEW T \in all PROVE IsFiniteSet(T)
  <2>1. PICK x \in S : T = {x} \X (1 .. f[x])
    BY <1>3
  <2>2. f[x] \in Int /\ 1 \in Int
    OBVIOUS
  <2>3. IsFiniteSet({x}) /\ IsFiniteSet(1 .. f[x])
    BY <2>2, FS_Singleton, FS_Interval
  <2>4. QED BY <2>1, <2>3, FS_Product
<1>4. CentsOf(f) = UNION all
  BY DEF CentsOf
<1>5. IsFiniteSet(CentsOf(f))
  BY <1>2, <1>3, <1>4, FS_UNION
<1>6. QED BY <1>5, FS_CardinalityType DEF Total

\* Who owns a cent.
LEMMA CentMember ==
  ASSUME NEW S, NEW f \in [S -> Nat], NEW x, NEW k
  PROVE  <<x, k>> \in CentsOf(f) <=> x \in S /\ k \in 1 .. f[x]
BY DEF CentsOf

\* Every cent is a pair.
LEMMA CentIsPair ==
  ASSUME NEW S, NEW f \in [S -> Nat], NEW c \in CentsOf(f)
  PROVE  \E x \in S, k \in Nat : k \in 1 .. f[x] /\ c = <<x, k>>
BY DEF CentsOf

\* A total is monotone: if no owner has more under f than under g, neither
\* has the total.
LEMMA TotalMonotone ==
  ASSUME NEW S, IsFiniteSet(S), NEW f \in [S -> Nat], NEW g \in [S -> Nat],
         \A x \in S : f[x] <= g[x]
  PROVE  Total(f) <= Total(g)
<1>1. CentsOf(f) \subseteq CentsOf(g)
  <2> SUFFICES ASSUME NEW c \in CentsOf(f) PROVE c \in CentsOf(g)
    OBVIOUS
  <2>1. PICK x \in S, k \in Nat : k \in 1 .. f[x] /\ c = <<x, k>>
    BY CentIsPair
  <2>2. k \in 1 .. g[x]
    BY <2>1
  <2>3. QED BY <2>1, <2>2, CentMember
<1>2. IsFiniteSet(CentsOf(g))
  BY CentsFinite
<1>3. QED BY <1>1, <1>2, FS_Subset DEF Total

\* Raising one owner's amount raises the total by as much.
LEMMA TotalRaise ==
  ASSUME NEW S, IsFiniteSet(S), NEW f \in [S -> Nat], NEW g \in [S -> Nat],
         NEW x \in S, f[x] <= g[x], \A y \in S \ {x} : g[y] = f[y]
  PROVE  Total(g) = Total(f) + (g[x] - f[x])
<1> DEFINE new == {x} \X ((f[x] + 1) .. g[x])
<1>1. f[x] \in Nat /\ g[x] \in Nat
  OBVIOUS
<1>2. IsFiniteSet(new) /\ Cardinality(new) = g[x] - f[x]
  <2>1. IsFiniteSet({x}) /\ Cardinality({x}) = 1
    BY FS_Singleton
  <2>2. f[x] + 1 \in Int /\ g[x] \in Int
    BY <1>1
  <2>3. /\ IsFiniteSet((f[x] + 1) .. g[x])
        /\ Cardinality((f[x] + 1) .. g[x])
             = IF f[x] + 1 > g[x] THEN 0 ELSE g[x] - (f[x] + 1) + 1
    BY <2>2, FS_Interval
  <2>4. Cardinality((f[x] + 1) .. g[x]) = g[x] - f[x]
    BY <1>1, <2>3
  <2>5. /\ IsFiniteSet(new)
        /\ Cardinality(new) = Cardinality({x}) * Cardinality((f[x] + 1) .. g[x])
    BY <2>1, <2>3, FS_Product
  <2>6. QED BY <1>1, <2>1, <2>4, <2>5
<1>3. CentsOf(g) = CentsOf(f) \cup new
  <2>1. ASSUME NEW c \in CentsOf(g) PROVE c \in CentsOf(f) \cup new
    <3>1. PICK y \in S, k \in Nat : k \in 1 .. g[y] /\ c = <<y, k>>
      BY CentIsPair
    <3>2. CASE y = x /\ k > f[x]
      BY <1>1, <3>1, <3>2
    <3>3. CASE ~(y = x /\ k > f[x])
      <4>1. k \in 1 .. f[y]
        BY <1>1, <3>1, <3>3
      <4>2. QED BY <3>1, <4>1, CentMember
    <3>4. QED BY <3>2, <3>3
  <2>2. ASSUME NEW c \in CentsOf(f) PROVE c \in CentsOf(g)
    <3>1. PICK y \in S, k \in Nat : k \in 1 .. f[y] /\ c = <<y, k>>
      BY CentIsPair
    <3>2. k \in 1 .. g[y]
      BY <3>1
    <3>3. QED BY <3>1, <3>2, CentMember
  <2>3. ASSUME NEW c \in new PROVE c \in CentsOf(g)
    <3>1. PICK k \in (f[x] + 1) .. g[x] : c = <<x, k>>
      OBVIOUS
    <3>2. k \in 1 .. g[x]
      BY <1>1, <3>1
    <3>3. QED BY <3>1, <3>2, CentMember
  <2>4. QED BY <2>1, <2>2, <2>3
<1>4. CentsOf(f) \cap new = {}
  <2> SUFFICES ASSUME NEW c \in CentsOf(f), c \in new PROVE FALSE
    OBVIOUS
  <2>1. PICK k \in (f[x] + 1) .. g[x] : c = <<x, k>>
    OBVIOUS
  <2>2. k \in 1 .. f[x]
    BY <2>1, CentMember
  <2>3. QED BY <1>1, <2>1, <2>2
<1>5. IsFiniteSet(CentsOf(f)) /\ Total(f) \in Nat
  BY CentsFinite
<1>6. Cardinality(CentsOf(f) \cup new)
        = Cardinality(CentsOf(f)) + Cardinality(new) - Cardinality(CentsOf(f) \cap new)
  BY <1>2, <1>5, FS_Union
<1>7. Cardinality({}) = 0
  BY FS_EmptySet
<1> HIDE DEF new
<1>8. Cardinality(CentsOf(g)) = Cardinality(CentsOf(f)) + (g[x] - f[x])
  BY <1>1, <1>2, <1>3, <1>4, <1>5, <1>6, <1>7 DEF Total
<1>9. QED BY <1>8 DEF Total

\* Changing one owner's amount changes the total by the difference.
LEMMA TotalChange ==
  ASSUME NEW S, IsFiniteSet(S), NEW f \in [S -> Nat], NEW g \in [S -> Nat],
         NEW x \in S, \A y \in S \ {x} : g[y] = f[y]
  PROVE  Total(g) = Total(f) - f[x] + g[x]
<1>1. f[x] \in Nat /\ g[x] \in Nat /\ Total(f) \in Nat /\ Total(g) \in Nat
  BY CentsFinite
<1>2. CASE f[x] <= g[x]
  BY <1>1, <1>2, TotalRaise
<1>3. CASE g[x] <= f[x]
  <2>1. Total(f) = Total(g) + (f[x] - g[x])
    BY <1>3, TotalRaise
  <2>2. QED BY <1>1, <2>1
<1>4. QED BY <1>1, <1>2, <1>3

\* Moving an amount from one owner to another leaves the total alone.
LEMMA TotalTransfer ==
  ASSUME NEW S, IsFiniteSet(S), NEW f \in [S -> Nat], NEW g \in [S -> Nat],
         NEW x \in S, NEW y \in S, x # y, g[x] + g[y] = f[x] + f[y],
         \A z \in S \ {x, y} : g[z] = f[z]
  PROVE  Total(g) = Total(f)
<1> DEFINE h == [z \in S |-> IF z = x THEN g[x] ELSE f[z]]
<1>1. h \in [S -> Nat] /\ h[x] = g[x] /\ \A z \in S \ {x} : h[z] = f[z]
  OBVIOUS
<1> HIDE DEF h
<1>2. Total(h) = Total(f) - f[x] + h[x]
  BY <1>1, TotalChange
<1>3. \A z \in S \ {y} : g[z] = h[z]
  BY <1>1
<1>4. Total(g) = Total(h) - h[y] + g[y]
  BY <1>1, <1>3, TotalChange
<1>5. h[y] = f[y]
  BY <1>1
<1>6. Total(f) \in Nat /\ f[x] \in Nat /\ f[y] \in Nat /\ g[x] \in Nat /\ g[y] \in Nat
  BY CentsFinite
<1>7. QED BY <1>1, <1>2, <1>4, <1>5, <1>6

\* Amounts that agree everywhere have the same total.
LEMMA TotalSame ==
  ASSUME NEW S, IsFiniteSet(S), NEW f \in [S -> Nat], NEW g \in [S -> Nat],
         \A x \in S : g[x] = f[x]
  PROVE  Total(g) = Total(f)
<1>1. Total(f) <= Total(g) /\ Total(g) <= Total(f)
  BY TotalMonotone
<1>2. QED BY <1>1, CentsFinite

\* The total of no cents is zero.
LEMMA TotalZero ==
  ASSUME NEW S, IsFiniteSet(S), NEW f \in [S -> Nat], \A x \in S : f[x] = 0
  PROVE  Total(f) = 0
<1>1. CentsOf(f) = {}
  BY CentIsPair
<1>2. QED BY <1>1, FS_EmptySet DEF Total

\* No owner has more than the total.
LEMMA TotalBoundsOwner ==
  ASSUME NEW S, IsFiniteSet(S), NEW f \in [S -> Nat], NEW x \in S
  PROVE  f[x] <= Total(f)
<1> DEFINE z == [y \in S |-> IF y = x THEN 0 ELSE f[y]]
<1>1. z \in [S -> Nat] /\ z[x] = 0 /\ \A y \in S \ {x} : z[y] = f[y]
  OBVIOUS
<1> HIDE DEF z
<1>2. Total(z) = Total(f) - f[x] + z[x]
  BY <1>1, TotalChange
<1>3. Total(z) \in Nat /\ Total(f) \in Nat
  BY <1>1, CentsFinite
<1>4. QED BY <1>1, <1>2, <1>3

-----------------------------------------------------------------------------
\* The inductive invariant.

\* The shares the scopes of a job keep for themselves add up to what the job
\* gave away: sub-scopes only divide what was already given.
SharesConserved == \A j \in Jobs : jobs[j].childShares = Total(KeptOf(j))

\* Jobs and scopes that were not opened own nothing; a reservation that was
\* made belongs to a job.
Placed ==
  /\ \A j \in Jobs : jobs[j].state = "NONE" => jobs[j].ceiling = 0
  /\ \A j \in Jobs, s \in Scopes : ~HasScope(j, s) => scopes[j][s].share = 0
  /\ \A r \in Reservations : reservations[r].state # "NONE" => reservations[r].job \in Jobs

IInv ==
  /\ TypeOK
  /\ Placed
  /\ BooksBalance
  /\ WithinShare
  /\ SharesConserved
  /\ SharesCarved
  /\ OneCeiling
  /\ HeldIffLocked

-----------------------------------------------------------------------------
\* The families of amounts the invariants sum up are families of naturals.
LEMMA FamiliesTyped ==
  ASSUME TypeOK, WithinShare, NEW j \in Jobs
  PROVE  /\ FreeOf(j) \in [Scopes -> Nat]
         /\ KeptOf(j) \in [Scopes -> Nat]
         /\ \A s \in Scopes : FreeOf(j)[s] <= KeptOf(j)[s]
<1> SUFFICES ASSUME NEW s \in Scopes
             PROVE  /\ ScopeAvailable(j, s) \in Nat
                    /\ scopes[j][s].share - scopes[j][s].childShares \in Nat
                    /\ ScopeAvailable(j, s) <= scopes[j][s].share - scopes[j][s].childShares
  BY DEF FreeOf, KeptOf
<1>1. scopes[j][s] \in Scope
  BY DEF TypeOK
<1>2. ScopeAvailable(j, s) >= 0
  BY DEF WithinShare
<1>3. QED BY <1>1, <1>2 DEF ScopeAvailable, Scope

LEMMA DrawsTyped ==
  ASSUME reservations \in [Reservations -> Reservation],
         NEW j \in Jobs, NEW s, NEW st
  PROVE  /\ Drawn(j, st) \in [Reservations -> Nat]
         /\ DrawnBy(j, s, st) \in [Reservations -> Nat]
BY DEF Drawn, DrawnBy, Reservation

LEMMA SharesUnderTyped ==
  ASSUME TypeOK, NEW j \in Jobs, NEW p
  PROVE  SharesUnder(j, p) \in [Scopes -> Nat]
BY DEF SharesUnder, TypeOK, Scope

\* What sub-agents may still draw is at most what the job gave away.
LEMMA FreeWithinGiven ==
  ASSUME TypeOK, WithinShare, SharesConserved, NEW j \in Jobs
  PROVE  /\ ScopesFree(j) \in Nat
         /\ ScopesFree(j) <= jobs[j].childShares
BY IdsAssumption, FamiliesTyped, TotalMonotone, CentsFinite
   DEF ScopesFree, SharesConserved

-----------------------------------------------------------------------------
\* What reserve, meter, commit and release have in common: reservation r, of
\* job j and its scope s, changes; what j and s have reserved grows by dR and
\* what they have committed by dC (negative when it shrinks).
Moves(j, s, r, dR, dC) ==
  /\ \A k \in Jobs :
       /\ jobs'[k].state = jobs[k].state
       /\ jobs'[k].held = jobs[k].held
       /\ jobs'[k].ceiling = jobs[k].ceiling
       /\ jobs'[k].childShares = jobs[k].childShares
       /\ jobs'[k].reserved = jobs[k].reserved + (IF k = j THEN dR ELSE 0)
       /\ jobs'[k].committed = jobs[k].committed + (IF k = j THEN dC ELSE 0)
  /\ \A k \in Jobs, t \in Scopes :
       /\ scopes'[k][t].state = scopes[k][t].state
       /\ scopes'[k][t].parent = scopes[k][t].parent
       /\ scopes'[k][t].share = scopes[k][t].share
       /\ scopes'[k][t].childShares = scopes[k][t].childShares
       /\ scopes'[k][t].reserved =
            scopes[k][t].reserved + (IF k = j /\ t = s THEN dR ELSE 0)
       /\ scopes'[k][t].committed =
            scopes[k][t].committed + (IF k = j /\ t = s THEN dC ELSE 0)
  /\ \A q \in Reservations \ {r} : reservations'[q] = reservations[q]
  /\ reservations'[r].job = j /\ reservations'[r].scope = s
  /\ \A k \in Jobs :
       /\ Drawn(k, "RESERVED")'[r] =
            Drawn(k, "RESERVED")[r] + (IF k = j THEN dR ELSE 0)
       /\ Drawn(k, "COMMITTED")'[r] =
            Drawn(k, "COMMITTED")[r] + (IF k = j THEN dC ELSE 0)
  /\ \A k \in Jobs, t \in Scopes :
       /\ DrawnBy(k, t, "RESERVED")'[r] =
            DrawnBy(k, t, "RESERVED")[r] + (IF k = j /\ t = s THEN dR ELSE 0)
       /\ DrawnBy(k, t, "COMMITTED")'[r] =
            DrawnBy(k, t, "COMMITTED")[r] + (IF k = j /\ t = s THEN dC ELSE 0)

\* Such a step keeps the books balanced.
LEMMA MovesBooks ==
  ASSUME TypeOK, reservations' \in [Reservations -> Reservation], BooksBalance,
         NEW j \in Jobs, NEW s \in Scopes \cup {None}, NEW r \in Reservations,
         NEW dR \in Int, NEW dC \in Int, Moves(j, s, r, dR, dC)
  PROVE  BooksBalance'
<1> SUFFICES ASSUME NEW k \in Jobs
             PROVE  /\ jobs'[k].reserved = Total(Drawn(k, "RESERVED")')
                    /\ jobs'[k].committed = Total(Drawn(k, "COMMITTED")')
                    /\ \A t \in Scopes :
                         /\ scopes'[k][t].reserved = Total(DrawnBy(k, t, "RESERVED")')
                         /\ scopes'[k][t].committed = Total(DrawnBy(k, t, "COMMITTED")')
  BY DEF BooksBalance
<1>1. ASSUME NEW st \in {"RESERVED", "COMMITTED"}
      PROVE  /\ Drawn(k, st) \in [Reservations -> Nat]
             /\ Drawn(k, st)' \in [Reservations -> Nat]
             /\ Total(Drawn(k, st)') = Total(Drawn(k, st)) - Drawn(k, st)[r] + Drawn(k, st)'[r]
  <2>1. /\ Drawn(k, st) \in [Reservations -> Nat]
        /\ Drawn(k, st)' \in [Reservations -> Nat]
    BY DEF Drawn, TypeOK, Reservation
  <2>2. \A q \in Reservations \ {r} : Drawn(k, st)'[q] = Drawn(k, st)[q]
    BY DEF Moves, Drawn
  <2>3. QED BY <2>1, <2>2, IdsAssumption, TotalChange
<1>2. ASSUME NEW t \in Scopes, NEW st \in {"RESERVED", "COMMITTED"}
      PROVE  /\ DrawnBy(k, t, st) \in [Reservations -> Nat]
             /\ DrawnBy(k, t, st)' \in [Reservations -> Nat]
             /\ Total(DrawnBy(k, t, st)')
                  = Total(DrawnBy(k, t, st)) - DrawnBy(k, t, st)[r] + DrawnBy(k, t, st)'[r]
  <2>1. /\ DrawnBy(k, t, st) \in [Reservations -> Nat]
        /\ DrawnBy(k, t, st)' \in [Reservations -> Nat]
    BY DEF DrawnBy, TypeOK, Reservation
  <2>2. \A q \in Reservations \ {r} : DrawnBy(k, t, st)'[q] = DrawnBy(k, t, st)[q]
    BY DEF Moves, DrawnBy
  <2>3. QED BY <2>1, <2>2, IdsAssumption, TotalChange
<1>3. /\ jobs'[k].reserved = Total(Drawn(k, "RESERVED")')
      /\ jobs'[k].committed = Total(Drawn(k, "COMMITTED")')
  <2>1. /\ jobs[k].reserved = Total(Drawn(k, "RESERVED"))
        /\ jobs[k].committed = Total(Drawn(k, "COMMITTED"))
        /\ jobs[k].reserved \in Nat /\ jobs[k].committed \in Nat
    BY DEF BooksBalance, TypeOK, Job
  <2>2. /\ Drawn(k, "RESERVED")[r] \in Nat /\ Drawn(k, "COMMITTED")[r] \in Nat
    BY <1>1
  <2>3. QED BY <1>1, <2>1, <2>2 DEF Moves
<1>4. ASSUME NEW t \in Scopes
      PROVE  /\ scopes'[k][t].reserved = Total(DrawnBy(k, t, "RESERVED")')
             /\ scopes'[k][t].committed = Total(DrawnBy(k, t, "COMMITTED")')
  <2>1. /\ scopes[k][t].reserved = Total(DrawnBy(k, t, "RESERVED"))
        /\ scopes[k][t].committed = Total(DrawnBy(k, t, "COMMITTED"))
        /\ scopes[k][t].reserved \in Nat /\ scopes[k][t].committed \in Nat
    BY DEF BooksBalance, TypeOK, Scope
  <2>2. /\ DrawnBy(k, t, "RESERVED")[r] \in Nat /\ DrawnBy(k, t, "COMMITTED")[r] \in Nat
    BY <1>2
  <2>3. QED BY <1>2, <2>1, <2>2 DEF Moves
<1>5. QED BY <1>3, <1>4

\* Such a step keeps every share and the ceiling, if what it draws fits in the
\* budget it draws from, or if it draws nothing more.
LEMMA MovesShares ==
  ASSUME TypeOK, TypeOK', WithinShare, SharesConserved, SharesCarved, OneCeiling,
         NEW j \in Jobs, NEW s \in Scopes \cup {None}, NEW r \in Reservations,
         NEW dR \in Int, NEW dC \in Int, Moves(j, s, r, dR, dC),
         dR + dC <= 0 \/ dR + dC <= Remaining(j, s)
  PROVE  /\ WithinShare'
         /\ SharesConserved'
         /\ SharesCarved'
         /\ OneCeiling'
<1>1. ASSUME NEW k \in Jobs, NEW t \in Scopes
      PROVE  /\ ScopeAvailable(k, t) \in Int
             /\ ScopeAvailable(k, t)' =
                  ScopeAvailable(k, t) - (IF k = j /\ t = s THEN dR + dC ELSE 0)
  <2>1. scopes[k][t] \in Scope
    BY DEF TypeOK
  <2>2. QED BY <2>1 DEF ScopeAvailable, Moves, Scope
<1>2. WithinShare'
  <2> SUFFICES ASSUME NEW k \in Jobs, NEW t \in Scopes
               PROVE  ScopeAvailable(k, t)' >= 0
    BY DEF WithinShare
  <2>1. ScopeAvailable(k, t) >= 0
    BY DEF WithinShare
  <2>2. CASE k = j /\ t = s
    <3>1. dR + dC <= 0 \/ dR + dC <= ScopeAvailable(k, t)
      BY <2>2, IdsAssumption DEF Remaining
    <3>2. QED BY <1>1, <2>1, <2>2, <3>1
  <2>3. CASE ~(k = j /\ t = s)
    BY <1>1, <2>1, <2>3
  <2>4. QED BY <2>2, <2>3
<1>3. SharesConserved'
  <2> SUFFICES ASSUME NEW k \in Jobs PROVE jobs'[k].childShares = Total(KeptOf(k)')
    BY DEF SharesConserved
  <2>1. KeptOf(k)' = KeptOf(k)
    BY DEF KeptOf, Moves
  <2>2. QED BY <2>1 DEF SharesConserved, Moves
<1>4. SharesCarved'
  <2> SUFFICES ASSUME NEW k \in Jobs
               PROVE  /\ jobs'[k].childShares = Total(SharesUnder(k, None)')
                      /\ \A p \in Scopes :
                           scopes'[k][p].childShares = Total(SharesUnder(k, p)')
    BY DEF SharesCarved
  <2>1. ASSUME NEW p PROVE SharesUnder(k, p)' = SharesUnder(k, p)
    BY DEF SharesUnder, HasScope, Moves
  <2>2. QED BY <2>1 DEF SharesCarved, Moves
<1>5. OneCeiling'
  <2> SUFFICES ASSUME NEW k \in Jobs
               PROVE  jobs'[k].reserved + jobs'[k].committed + ScopesFree(k)'
                        <= jobs'[k].ceiling
    BY DEF OneCeiling
  <2>1. /\ FreeOf(k) \in [Scopes -> Nat]
        /\ ScopesFree(k) \in Nat
        /\ ScopesFree(k) <= jobs[k].childShares
    BY FamiliesTyped, FreeWithinGiven
  <2>2. FreeOf(k)' \in [Scopes -> Nat]
    BY <1>1, <1>2 DEF FreeOf, WithinShare
  <2>3. /\ jobs[k].reserved + jobs[k].committed + ScopesFree(k) <= jobs[k].ceiling
        /\ jobs[k] \in Job
    BY DEF OneCeiling, TypeOK
  <2>4. CASE k # j
    <3>1. FreeOf(k)' = FreeOf(k)
      BY <1>1, <2>4 DEF FreeOf
    <3>2. QED BY <2>1, <2>3, <2>4, <3>1 DEF Moves, ScopesFree, Job
  <2>5. CASE k = j /\ s = None
    <3>1. FreeOf(k)' = FreeOf(k)
      BY <1>1, <2>5, IdsAssumption DEF FreeOf
    <3>2. dR + dC <= 0 \/ dR + dC <= JobAvailable(k)
      BY <2>5 DEF Remaining
    <3>3. jobs'[k].reserved + jobs'[k].committed
            = jobs[k].reserved + jobs[k].committed + dR + dC
      BY <2>3, <2>5 DEF Moves, Job
    <3>4. QED BY <2>1, <2>3, <2>5, <3>1, <3>2, <3>3
              DEF Moves, ScopesFree, JobAvailable, Job
  <2>6. CASE k = j /\ s # None
    <3>1. /\ s \in Scopes
          /\ \A t \in Scopes \ {s} : FreeOf(k)'[t] = FreeOf(k)[t]
          /\ FreeOf(k)'[s] = FreeOf(k)[s] - (dR + dC)
      BY <1>1, <2>6 DEF FreeOf
    <3>2. Total(FreeOf(k)') = Total(FreeOf(k)) - FreeOf(k)[s] + FreeOf(k)'[s]
      BY <2>1, <2>2, <3>1, IdsAssumption, TotalChange
    <3>3. FreeOf(k)[s] \in Nat
      BY <2>1, <3>1
    <3>4. ScopesFree(k)' = ScopesFree(k) - (dR + dC)
      BY <2>1, <3>1, <3>2, <3>3 DEF ScopesFree
    <3>5. QED BY <2>1, <2>3, <2>6, <3>4 DEF Moves, Job
  <2>7. QED BY <2>4, <2>5, <2>6
<1>6. QED BY <1>2, <1>3, <1>4, <1>5

-----------------------------------------------------------------------------
\* A step that only makes such a move keeps the rest of the invariant too.
LEMMA MovesInv ==
  ASSUME IInv, TypeOK', NEW j \in Jobs, NEW s \in Scopes \cup {None},
         NEW r \in Reservations, NEW dR \in Int, NEW dC \in Int,
         Moves(j, s, r, dR, dC),
         dR + dC <= 0 \/ dR + dC <= Remaining(j, s)
  PROVE  IInv'
<1>1. BooksBalance'
  BY MovesBooks DEF IInv, TypeOK
<1>2. WithinShare' /\ SharesConserved' /\ SharesCarved' /\ OneCeiling'
  BY MovesShares DEF IInv
<1>3. Placed'
  <2>1. \A q \in Reservations : reservations'[q].state # "NONE" => reservations'[q].job \in Jobs
    BY DEF IInv, Placed, Moves
  <2>2. QED BY <2>1 DEF IInv, Placed, Moves, HasScope
<1>4. HeldIffLocked'
  BY DEF IInv, HeldIffLocked, Moves
<1>5. QED BY <1>1, <1>2, <1>3, <1>4 DEF IInv

LEMMA ReserveInv ==
  ASSUME IInv, NEW j \in Jobs, NEW s \in Scopes \cup {None},
         NEW r \in Reservations, NEW n \in Amounts, Reserve(j, s, r, n)
  PROVE  IInv'
<1>1. n \in Nat /\ TypeOK
  BY AmountsAssumption DEF IInv
<1>2. TypeOK'
  <2>1. jobs' \in [Jobs -> Job]
    BY <1>1 DEF Reserve, TypeOK, Job
  <2>2. scopes' \in [Jobs -> [Scopes -> Scope]]
    <3>1. CASE s = None
      BY <1>1, <3>1 DEF Reserve, TypeOK
    <3>2. CASE s # None
      <4>1. [scopes[j][s] EXCEPT !.reserved = scopes[j][s].reserved + n] \in Scope
        BY <1>1, <3>2 DEF TypeOK, Scope
      <4>2. QED BY <1>1, <3>2, <4>1 DEF Reserve, TypeOK
    <3>3. QED BY <3>1, <3>2
  <2>3. reservations' \in [Reservations -> Reservation]
    BY <1>1 DEF Reserve, TypeOK, Reservation, ReservationStates
  <2>4. QED BY <2>1, <2>2, <2>3 DEF TypeOK
<1>3. Moves(j, s, r, n, 0)
  <2>1. \A k \in Jobs : jobs[k] \in Job /\ \A t \in Scopes : scopes[k][t] \in Scope
    BY <1>1 DEF TypeOK
  <2>2. \A k \in Jobs :
          /\ jobs'[k].state = jobs[k].state
          /\ jobs'[k].held = jobs[k].held
          /\ jobs'[k].ceiling = jobs[k].ceiling
          /\ jobs'[k].childShares = jobs[k].childShares
          /\ jobs'[k].reserved = jobs[k].reserved + (IF k = j THEN n ELSE 0)
          /\ jobs'[k].committed = jobs[k].committed + 0
    BY <1>1, <2>1 DEF Reserve, TypeOK, Job
  <2>3. \A k \in Jobs, t \in Scopes :
          /\ scopes'[k][t].state = scopes[k][t].state
          /\ scopes'[k][t].parent = scopes[k][t].parent
          /\ scopes'[k][t].share = scopes[k][t].share
          /\ scopes'[k][t].childShares = scopes[k][t].childShares
          /\ scopes'[k][t].reserved =
               scopes[k][t].reserved + (IF k = j /\ t = s THEN n ELSE 0)
          /\ scopes'[k][t].committed = scopes[k][t].committed + 0
    BY <1>1, <2>1, IdsAssumption DEF Reserve, TypeOK, Scope
  <2>4. /\ \A q \in Reservations \ {r} : reservations'[q] = reservations[q]
        /\ reservations[r].state = "NONE"
        /\ reservations'[r] = [state |-> "RESERVED", job |-> j, scope |-> s, amount |-> n]
    BY <1>1 DEF Reserve, TypeOK
  <2>5. QED BY <1>1, <2>2, <2>3, <2>4 DEF Moves, Drawn, DrawnBy
<1>4. n + 0 <= Remaining(j, s)
  BY <1>1 DEF Reserve, CanReserve
<1>5. QED BY <1>1, <1>2, <1>3, <1>4, MovesInv

LEMMA MeterInv ==
  ASSUME IInv, NEW j \in Jobs, NEW s \in Scopes \cup {None},
         NEW r \in Reservations, NEW n \in Amounts, Meter(j, s, r, n)
  PROVE  IInv'
<1>1. n \in Nat /\ TypeOK
  BY AmountsAssumption DEF IInv
<1>2. TypeOK'
  <2>1. jobs' \in [Jobs -> Job]
    BY <1>1 DEF Meter, TypeOK, Job
  <2>2. scopes' \in [Jobs -> [Scopes -> Scope]]
    <3>1. CASE s = None
      BY <1>1, <3>1 DEF Meter, TypeOK
    <3>2. CASE s # None
      <4>1. [scopes[j][s] EXCEPT !.committed = scopes[j][s].committed + n] \in Scope
        BY <1>1, <3>2 DEF TypeOK, Scope
      <4>2. QED BY <1>1, <3>2, <4>1 DEF Meter, TypeOK
    <3>3. QED BY <3>1, <3>2
  <2>3. reservations' \in [Reservations -> Reservation]
    BY <1>1 DEF Meter, TypeOK, Reservation, ReservationStates
  <2>4. QED BY <2>1, <2>2, <2>3 DEF TypeOK
<1>3. Moves(j, s, r, 0, n)
  <2>1. \A k \in Jobs : jobs[k] \in Job /\ \A t \in Scopes : scopes[k][t] \in Scope
    BY <1>1 DEF TypeOK
  <2>2. \A k \in Jobs :
          /\ jobs'[k].state = jobs[k].state
          /\ jobs'[k].held = jobs[k].held
          /\ jobs'[k].ceiling = jobs[k].ceiling
          /\ jobs'[k].childShares = jobs[k].childShares
          /\ jobs'[k].reserved = jobs[k].reserved + 0
          /\ jobs'[k].committed = jobs[k].committed + (IF k = j THEN n ELSE 0)
    BY <1>1, <2>1 DEF Meter, TypeOK, Job
  <2>3. \A k \in Jobs, t \in Scopes :
          /\ scopes'[k][t].state = scopes[k][t].state
          /\ scopes'[k][t].parent = scopes[k][t].parent
          /\ scopes'[k][t].share = scopes[k][t].share
          /\ scopes'[k][t].childShares = scopes[k][t].childShares
          /\ scopes'[k][t].reserved = scopes[k][t].reserved + 0
          /\ scopes'[k][t].committed =
               scopes[k][t].committed + (IF k = j /\ t = s THEN n ELSE 0)
    BY <1>1, <2>1, IdsAssumption DEF Meter, TypeOK, Scope
  <2>4. /\ \A q \in Reservations \ {r} : reservations'[q] = reservations[q]
        /\ reservations[r].state = "NONE"
        /\ reservations'[r] = [state |-> "COMMITTED", job |-> j, scope |-> s, amount |-> n]
    BY <1>1 DEF Meter, TypeOK
  <2>5. QED BY <1>1, <2>2, <2>3, <2>4 DEF Moves, Drawn, DrawnBy
<1>4. 0 + n <= Remaining(j, s)
  BY <1>1 DEF Meter, CanReserve
<1>5. QED BY <1>1, <1>2, <1>3, <1>4, MovesInv

LEMMA CommitInv ==
  ASSUME IInv, NEW r \in Reservations, Commit(r)
  PROVE  IInv'
<1> DEFINE j == reservations[r].job
           s == reservations[r].scope
           n == reservations[r].amount
<1>1. /\ TypeOK
      /\ reservations[r].state = "RESERVED"
      /\ j \in Jobs /\ s \in Scopes \cup {None} /\ n \in Nat
  BY DEF IInv, Placed, TypeOK, Reservation, Commit
<1>2. n <= jobs[j].reserved
  <2>1. Drawn(j, "RESERVED")[r] = n
    BY <1>1 DEF Drawn
  <2>2. QED BY <1>1, <2>1, DrawsTyped, TotalBoundsOwner, IdsAssumption
            DEF IInv, BooksBalance, TypeOK
<1>3. ASSUME s # None PROVE n <= scopes[j][s].reserved
  <2>1. DrawnBy(j, s, "RESERVED")[r] = n
    BY <1>1 DEF DrawnBy
  <2>2. s \in Scopes
    BY <1>1, <1>3
  <2>3. QED BY <1>1, <2>1, <2>2, DrawsTyped, TotalBoundsOwner, IdsAssumption
            DEF IInv, BooksBalance, TypeOK
<1>4. /\ reservations' = [reservations EXCEPT ![r].state = "COMMITTED"]
      /\ jobs' = [jobs EXCEPT ![j].reserved = @ - n, ![j].committed = @ + n]
      /\ scopes' = IF s = None THEN scopes
                   ELSE [scopes EXCEPT ![j][s].reserved = @ - n, ![j][s].committed = @ + n]
  BY DEF Commit
<1> HIDE DEF j, s, n
<1>5. TypeOK'
  <2>1. jobs' \in [Jobs -> Job]
    <3>1. /\ jobs[j] \in Job
          /\ jobs[j].reserved - n \in Nat /\ jobs[j].committed + n \in Nat
      BY <1>1, <1>2 DEF TypeOK, Job
    <3>2. [jobs[j] EXCEPT !.reserved = @ - n, !.committed = @ + n] \in Job
      BY <3>1 DEF Job
    <3>3. QED BY <1>1, <1>4, <3>2 DEF TypeOK
  <2>2. scopes' \in [Jobs -> [Scopes -> Scope]]
    <3>1. CASE s = None
      BY <1>1, <1>4, <3>1 DEF TypeOK
    <3>2. CASE s # None
      <4>1. /\ scopes[j][s] \in Scope
            /\ scopes[j][s].reserved - n \in Nat /\ scopes[j][s].committed + n \in Nat
        BY <1>1, <1>3, <3>2 DEF TypeOK, Scope
      <4>2. [scopes[j][s] EXCEPT !.reserved = @ - n, !.committed = @ + n] \in Scope
        BY <4>1 DEF Scope
      <4>3. QED BY <1>1, <1>4, <3>2, <4>2 DEF TypeOK
    <3>3. QED BY <3>1, <3>2
  <2>3. reservations' \in [Reservations -> Reservation]
    BY <1>1, <1>4 DEF TypeOK, Reservation, ReservationStates
  <2>4. QED BY <2>1, <2>2, <2>3 DEF TypeOK
<1>6. Moves(j, s, r, -n, n)
  <2>1. \A k \in Jobs : jobs[k] \in Job /\ \A t \in Scopes : scopes[k][t] \in Scope
    BY <1>1 DEF TypeOK
  <2>2. \A k \in Jobs :
          /\ jobs'[k].state = jobs[k].state
          /\ jobs'[k].held = jobs[k].held
          /\ jobs'[k].ceiling = jobs[k].ceiling
          /\ jobs'[k].childShares = jobs[k].childShares
          /\ jobs'[k].reserved = jobs[k].reserved + (IF k = j THEN -n ELSE 0)
          /\ jobs'[k].committed = jobs[k].committed + (IF k = j THEN n ELSE 0)
    BY <1>1, <1>4, <2>1 DEF TypeOK, Job
  <2>3. \A k \in Jobs, t \in Scopes :
          /\ scopes'[k][t].state = scopes[k][t].state
          /\ scopes'[k][t].parent = scopes[k][t].parent
          /\ scopes'[k][t].share = scopes[k][t].share
          /\ scopes'[k][t].childShares = scopes[k][t].childShares
          /\ scopes'[k][t].reserved =
               scopes[k][t].reserved + (IF k = j /\ t = s THEN -n ELSE 0)
          /\ scopes'[k][t].committed =
               scopes[k][t].committed + (IF k = j /\ t = s THEN n ELSE 0)
    BY <1>1, <1>4, <2>1, IdsAssumption DEF TypeOK, Scope
  <2>4. /\ \A q \in Reservations \ {r} : reservations'[q] = reservations[q]
        /\ reservations'[r] = [reservations[r] EXCEPT !.state = "COMMITTED"]
        /\ reservations[r] \in Reservation
    BY <1>1, <1>4 DEF TypeOK
  <2>5. /\ reservations'[r].job = j /\ reservations'[r].scope = s
        /\ reservations'[r].amount = n /\ reservations'[r].state = "COMMITTED"
        /\ reservations[r].job = j /\ reservations[r].scope = s
        /\ reservations[r].amount = n
    BY <2>4 DEF Reservation, j, s, n
  <2>6. /\ \A k \in Jobs :
             /\ Drawn(k, "RESERVED")'[r] = Drawn(k, "RESERVED")[r] + (IF k = j THEN -n ELSE 0)
             /\ Drawn(k, "COMMITTED")'[r] = Drawn(k, "COMMITTED")[r] + (IF k = j THEN n ELSE 0)
        /\ \A k \in Jobs, t \in Scopes :
             /\ DrawnBy(k, t, "RESERVED")'[r] =
                  DrawnBy(k, t, "RESERVED")[r] + (IF k = j /\ t = s THEN -n ELSE 0)
             /\ DrawnBy(k, t, "COMMITTED")'[r] =
                  DrawnBy(k, t, "COMMITTED")[r] + (IF k = j /\ t = s THEN n ELSE 0)
    BY <1>1, <2>5 DEF Drawn, DrawnBy
  <2>7. QED BY <2>2, <2>3, <2>4, <2>5, <2>6 DEF Moves
<1>7. QED BY <1>1, <1>5, <1>6, MovesInv

LEMMA ReleaseInv ==
  ASSUME IInv, NEW r \in Reservations, Release(r)
  PROVE  IInv'
<1> DEFINE j == reservations[r].job
           s == reservations[r].scope
           n == reservations[r].amount
<1>1. /\ TypeOK
      /\ reservations[r].state = "RESERVED"
      /\ j \in Jobs /\ s \in Scopes \cup {None} /\ n \in Nat
  BY DEF IInv, Placed, TypeOK, Reservation, Release
<1>2. n <= jobs[j].reserved
  <2>1. Drawn(j, "RESERVED")[r] = n
    BY <1>1 DEF Drawn
  <2>2. QED BY <1>1, <2>1, DrawsTyped, TotalBoundsOwner, IdsAssumption
            DEF IInv, BooksBalance, TypeOK
<1>3. ASSUME s # None PROVE n <= scopes[j][s].reserved
  <2>1. DrawnBy(j, s, "RESERVED")[r] = n
    BY <1>1 DEF DrawnBy
  <2>2. s \in Scopes
    BY <1>1, <1>3
  <2>3. QED BY <1>1, <2>1, <2>2, DrawsTyped, TotalBoundsOwner, IdsAssumption
            DEF IInv, BooksBalance, TypeOK
<1>4. /\ reservations' = [reservations EXCEPT ![r].state = "RELEASED"]
      /\ jobs' = [jobs EXCEPT ![j].reserved = @ - n]
      /\ scopes' = IF s = None THEN scopes
                   ELSE [scopes EXCEPT ![j][s].reserved = @ - n]
  BY DEF Release
<1> HIDE DEF j, s, n
<1>5. TypeOK'
  <2>1. jobs' \in [Jobs -> Job]
    <3>1. [jobs[j] EXCEPT !.reserved = @ - n] \in Job
      BY <1>1, <1>2 DEF TypeOK, Job
    <3>2. QED BY <1>1, <1>4, <3>1 DEF TypeOK
  <2>2. scopes' \in [Jobs -> [Scopes -> Scope]]
    <3>1. CASE s = None
      BY <1>1, <1>4, <3>1 DEF TypeOK
    <3>2. CASE s # None
      <4>1. [scopes[j][s] EXCEPT !.reserved = @ - n] \in Scope
        BY <1>1, <1>3, <3>2 DEF TypeOK, Scope
      <4>2. QED BY <1>1, <1>4, <3>2, <4>1 DEF TypeOK
    <3>3. QED BY <3>1, <3>2
  <2>3. reservations' \in [Reservations -> Reservation]
    BY <1>1, <1>4 DEF TypeOK, Reservation, ReservationStates
  <2>4. QED BY <2>1, <2>2, <2>3 DEF TypeOK
<1>6. Moves(j, s, r, -n, 0)
  <2>1. \A k \in Jobs : jobs[k] \in Job /\ \A t \in Scopes : scopes[k][t] \in Scope
    BY <1>1 DEF TypeOK
  <2>2. \A k \in Jobs :
          /\ jobs'[k].state = jobs[k].state
          /\ jobs'[k].held = jobs[k].held
          /\ jobs'[k].ceiling = jobs[k].ceiling
          /\ jobs'[k].childShares = jobs[k].childShares
          /\ jobs'[k].reserved = jobs[k].reserved + (IF k = j THEN -n ELSE 0)
          /\ jobs'[k].committed = jobs[k].committed + (IF k = j THEN 0 ELSE 0)
    BY <1>1, <1>4, <2>1 DEF TypeOK, Job
  <2>3. \A k \in Jobs, t \in Scopes :
          /\ scopes'[k][t].state = scopes[k][t].state
          /\ scopes'[k][t].parent = scopes[k][t].parent
          /\ scopes'[k][t].share = scopes[k][t].share
          /\ scopes'[k][t].childShares = scopes[k][t].childShares
          /\ scopes'[k][t].reserved =
               scopes[k][t].reserved + (IF k = j /\ t = s THEN -n ELSE 0)
          /\ scopes'[k][t].committed =
               scopes[k][t].committed + (IF k = j /\ t = s THEN 0 ELSE 0)
    BY <1>1, <1>4, <2>1, IdsAssumption DEF TypeOK, Scope
  <2>4. /\ \A q \in Reservations \ {r} : reservations'[q] = reservations[q]
        /\ reservations'[r] = [reservations[r] EXCEPT !.state = "RELEASED"]
        /\ reservations[r] \in Reservation
    BY <1>1, <1>4 DEF TypeOK
  <2>5. /\ reservations'[r].job = j /\ reservations'[r].scope = s
        /\ reservations'[r].amount = n /\ reservations'[r].state = "RELEASED"
        /\ reservations[r].job = j /\ reservations[r].scope = s
        /\ reservations[r].amount = n
    BY <2>4 DEF Reservation, j, s, n
  <2>6. /\ \A k \in Jobs :
             /\ Drawn(k, "RESERVED")'[r] = Drawn(k, "RESERVED")[r] + (IF k = j THEN -n ELSE 0)
             /\ Drawn(k, "COMMITTED")'[r] = Drawn(k, "COMMITTED")[r] + (IF k = j THEN 0 ELSE 0)
        /\ \A k \in Jobs, t \in Scopes :
             /\ DrawnBy(k, t, "RESERVED")'[r] =
                  DrawnBy(k, t, "RESERVED")[r] + (IF k = j /\ t = s THEN -n ELSE 0)
             /\ DrawnBy(k, t, "COMMITTED")'[r] =
                  DrawnBy(k, t, "COMMITTED")[r] + (IF k = j /\ t = s THEN 0 ELSE 0)
    BY <1>1, <2>5 DEF Drawn, DrawnBy
  <2>7. QED BY <2>2, <2>3, <2>4, <2>5, <2>6 DEF Moves
<1>7. QED BY <1>1, <1>5, <1>6, MovesInv

-----------------------------------------------------------------------------
\* A step of the escrow half, or the opening of a job, touches no share and no
\* draw; it keeps the invariant if it keeps ceilings and escrow states right.
LEMMA JobOnlyInv ==
  ASSUME IInv, jobs' \in [Jobs -> Job], UNCHANGED <<scopes, reservations>>,
         HeldIffLocked',
         \A k \in Jobs :
           /\ jobs'[k].childShares = jobs[k].childShares
           /\ jobs'[k].reserved = jobs[k].reserved
           /\ jobs'[k].committed = jobs[k].committed
           /\ jobs'[k].ceiling >= jobs[k].ceiling
           /\ jobs'[k].state = "NONE" => jobs'[k].ceiling = 0
  PROVE  IInv'
<1>1. TypeOK'
  BY DEF IInv, TypeOK
<1>2. /\ \A k \in Jobs, t \in Scopes : ScopeAvailable(k, t)' = ScopeAvailable(k, t)
      /\ \A k \in Jobs : FreeOf(k)' = FreeOf(k) /\ KeptOf(k)' = KeptOf(k)
      /\ \A k \in Jobs : ScopesFree(k)' = ScopesFree(k)
  BY DEF ScopeAvailable, FreeOf, KeptOf, ScopesFree
<1>3. /\ \A k \in Jobs : Drawn(k, "RESERVED")' = Drawn(k, "RESERVED")
      /\ \A k \in Jobs : Drawn(k, "COMMITTED")' = Drawn(k, "COMMITTED")
      /\ \A k \in Jobs, t \in Scopes : DrawnBy(k, t, "RESERVED")' = DrawnBy(k, t, "RESERVED")
      /\ \A k \in Jobs, t \in Scopes : DrawnBy(k, t, "COMMITTED")' = DrawnBy(k, t, "COMMITTED")
  BY DEF Drawn, DrawnBy
<1>4. BooksBalance'
  BY <1>3 DEF IInv, BooksBalance
<1>5. WithinShare'
  BY <1>2 DEF IInv, WithinShare
<1>6. SharesConserved'
  BY <1>2 DEF IInv, SharesConserved
<1>7. SharesCarved'
  <2>1. ASSUME NEW k \in Jobs, NEW p PROVE SharesUnder(k, p)' = SharesUnder(k, p)
    BY DEF SharesUnder, HasScope
  <2>2. \A k \in Jobs : jobs'[k].childShares = Total(SharesUnder(k, None)')
    BY <2>1 DEF IInv, SharesCarved
  <2>3. \A k \in Jobs, p \in Scopes :
          scopes'[k][p].childShares = Total(SharesUnder(k, p)')
    BY <2>1 DEF IInv, SharesCarved
  <2>4. QED BY <2>2, <2>3 DEF SharesCarved
<1>8. OneCeiling'
  <2> SUFFICES ASSUME NEW k \in Jobs
               PROVE  jobs'[k].reserved + jobs'[k].committed + ScopesFree(k)'
                        <= jobs'[k].ceiling
    BY DEF OneCeiling
  <2>1. /\ jobs[k].reserved + jobs[k].committed + ScopesFree(k) <= jobs[k].ceiling
        /\ jobs[k] \in Job /\ jobs'[k] \in Job
        /\ ScopesFree(k) \in Nat
    BY FreeWithinGiven DEF IInv, OneCeiling, TypeOK
  <2>2. QED BY <1>2, <2>1 DEF Job
<1>9. Placed'
  BY DEF IInv, Placed, HasScope
<1>10. QED BY <1>1, <1>4, <1>5, <1>6, <1>7, <1>8, <1>9 DEF IInv

LEMMA OpenJobInv ==
  ASSUME IInv, NEW j \in Jobs, NEW c \in Ceilings, OpenJob(j, c)
  PROVE  IInv'
<1>1. /\ c \in Nat
      /\ jobs \in [Jobs -> Job]
      /\ jobs[j].ceiling = 0 /\ jobs[j].held = 0
      /\ jobs' = [jobs EXCEPT ![j].state = "OPEN", ![j].ceiling = c]
  <2>1. jobs \in [Jobs -> Job] /\ jobs[j].state = "NONE"
    BY DEF IInv, TypeOK, OpenJob, IsOpen
  <2>2. jobs[j].held = 0
    BY <2>1 DEF IInv, HeldIffLocked, Job
  <2>3. QED BY <2>1, <2>2, AmountsAssumption DEF IInv, Placed, OpenJob
<1>2. [jobs[j] EXCEPT !.state = "OPEN", !.ceiling = c] \in Job
  BY <1>1 DEF Job, JobStates
<1>3. jobs' \in [Jobs -> Job]
  BY <1>1, <1>2
<1>4. \A k \in Jobs :
        /\ jobs'[k].childShares = jobs[k].childShares
        /\ jobs'[k].reserved = jobs[k].reserved
        /\ jobs'[k].committed = jobs[k].committed
        /\ jobs'[k].ceiling >= jobs[k].ceiling
        /\ jobs'[k].state = "NONE" => jobs'[k].ceiling = 0
  BY <1>1 DEF Job, IInv, Placed
<1>5. HeldIffLocked'
  BY <1>1 DEF Job, IInv, HeldIffLocked
<1>6. QED BY <1>3, <1>4, <1>5, JobOnlyInv DEF OpenJob

LEMMA HoldInv ==
  ASSUME IInv, NEW j \in Jobs, NEW n \in Amounts, Hold(j, n)
  PROVE  IInv'
<1>1. /\ n \in Nat /\ n > 0
      /\ jobs \in [Jobs -> Job]
      /\ jobs' = [jobs EXCEPT ![j].held = n, ![j].state = "HELD"]
  BY AmountsAssumption DEF IInv, TypeOK, Hold
<1>2. [jobs[j] EXCEPT !.held = n, !.state = "HELD"] \in Job
  BY <1>1 DEF Job, JobStates
<1>3. jobs' \in [Jobs -> Job]
  BY <1>1, <1>2
<1>4. \A k \in Jobs :
        /\ jobs'[k].childShares = jobs[k].childShares
        /\ jobs'[k].reserved = jobs[k].reserved
        /\ jobs'[k].committed = jobs[k].committed
        /\ jobs'[k].ceiling >= jobs[k].ceiling
        /\ jobs'[k].state = "NONE" => jobs'[k].ceiling = 0
  BY <1>1 DEF Job, IInv, Placed
<1>5. HeldIffLocked'
  BY <1>1 DEF Job, IInv, HeldIffLocked
<1>6. QED BY <1>3, <1>4, <1>5, JobOnlyInv DEF Hold

LEMMA DisposeInv ==
  ASSUME IInv, NEW j \in Jobs, NEW to \in Dispositions, NEW n \in Nat, n > 0,
         Dispose(j, to, n)
  PROVE  IInv'
<1> DEFINE out == IF to = "RELEASED" THEN jobs[j].released + n ELSE jobs[j].released
           back == IF to = "REFUNDED" THEN jobs[j].refunded + n ELSE jobs[j].refunded
           state == IF n = jobs[j].held THEN to ELSE jobs[j].state
           after == [jobs[j] EXCEPT !.held = jobs[j].held - n, !.released = out,
                                    !.refunded = back, !.state = state]
<1>1. /\ jobs \in [Jobs -> Job] /\ jobs[j] \in Job
      /\ n <= jobs[j].held /\ jobs[j].held > 0
      /\ jobs' = [jobs EXCEPT ![j] = after]
  BY DEF IInv, TypeOK, Dispose
<1>2. /\ jobs[j].held \in Nat /\ jobs[j].held - n \in Nat
      /\ out \in Nat /\ back \in Nat /\ state \in JobStates
  BY <1>1 DEF Job, JobStates, Dispositions
<1>3. jobs[j].state = "HELD"
  BY <1>1 DEF IInv, HeldIffLocked
<1>4. /\ state # "NONE"
      /\ (state = "HELD") <=> (jobs[j].held - n > 0)
  BY <1>1, <1>2, <1>3 DEF Dispositions
<1> HIDE DEF out, back, state
<1>5. /\ after \in Job
      /\ after.childShares = jobs[j].childShares
      /\ after.reserved = jobs[j].reserved
      /\ after.committed = jobs[j].committed
      /\ after.ceiling = jobs[j].ceiling
      /\ after.held = jobs[j].held - n
      /\ after.state = state
  BY <1>1, <1>2 DEF Job
<1> HIDE DEF after
<1>6. jobs' \in [Jobs -> Job] /\ jobs'[j] = after
      /\ \A k \in Jobs \ {j} : jobs'[k] = jobs[k]
  BY <1>1, <1>5
<1>7. \A k \in Jobs :
        /\ jobs'[k].childShares = jobs[k].childShares
        /\ jobs'[k].reserved = jobs[k].reserved
        /\ jobs'[k].committed = jobs[k].committed
        /\ jobs'[k].ceiling >= jobs[k].ceiling
        /\ jobs'[k].state = "NONE" => jobs'[k].ceiling = 0
  BY <1>1, <1>4, <1>5, <1>6 DEF IInv, Placed, Job
<1>8. HeldIffLocked'
  BY <1>4, <1>5, <1>6 DEF IInv, HeldIffLocked
<1>9. QED BY <1>6, <1>7, <1>8, JobOnlyInv DEF Dispose

-----------------------------------------------------------------------------
\* What the two cases of openScope have in common: scope s of job j is opened
\* with share n, given up by p (a scope, or None for the job).
Opens(j, s, p, n) ==
  /\ \A k \in Jobs :
       /\ jobs'[k].state = jobs[k].state
       /\ jobs'[k].held = jobs[k].held
       /\ jobs'[k].ceiling = jobs[k].ceiling
       /\ jobs'[k].reserved = jobs[k].reserved
       /\ jobs'[k].committed = jobs[k].committed
       /\ jobs'[k].childShares = jobs[k].childShares + (IF k = j /\ p = None THEN n ELSE 0)
  /\ \A k \in Jobs, t \in Scopes :
       /\ scopes'[k][t].state = IF k = j /\ t = s THEN "OPEN" ELSE scopes[k][t].state
       /\ scopes'[k][t].parent = IF k = j /\ t = s THEN p ELSE scopes[k][t].parent
       /\ scopes'[k][t].share = IF k = j /\ t = s THEN n ELSE scopes[k][t].share
       /\ scopes'[k][t].childShares =
            scopes[k][t].childShares + (IF k = j /\ t = p THEN n ELSE 0)
       /\ scopes'[k][t].reserved = scopes[k][t].reserved
       /\ scopes'[k][t].committed = scopes[k][t].committed
  /\ UNCHANGED reservations

LEMMA OpensInv ==
  ASSUME IInv, TypeOK', NEW j \in Jobs, NEW s \in Scopes, NEW p \in Scopes \cup {None},
         NEW n \in Nat, Opens(j, s, p, n), ~HasScope(j, s), p # s,
         n <= Remaining(j, p)
  PROVE  IInv'
<1>1. \A k \in Jobs : jobs[k] \in Job /\ \A t \in Scopes : scopes[k][t] \in Scope
  BY DEF IInv, TypeOK
<1>2. /\ scopes[j][s].share = 0 /\ scopes[j][s].childShares = 0
      /\ ScopeAvailable(j, s) = 0
  <2>1. scopes[j][s].share = 0 /\ ScopeAvailable(j, s) >= 0
    BY DEF IInv, Placed, WithinShare
  <2>2. QED BY <1>1, <2>1 DEF ScopeAvailable, Scope
<1>3. BooksBalance'
  <2>1. \A k \in Jobs, st \in {"RESERVED", "COMMITTED"} : Drawn(k, st)' = Drawn(k, st)
    BY DEF Drawn, Opens
  <2>2. \A k \in Jobs, t \in Scopes, st \in {"RESERVED", "COMMITTED"} :
          DrawnBy(k, t, st)' = DrawnBy(k, t, st)
    BY DEF DrawnBy, Opens
  <2>3. QED BY <2>1, <2>2 DEF IInv, BooksBalance, Opens
<1>4. \A k \in Jobs, t \in Scopes :
        /\ ScopeAvailable(k, t) \in Nat
        /\ ScopeAvailable(k, t)' =
             IF k = j /\ t = s THEN n
             ELSE IF k = j /\ t = p THEN ScopeAvailable(k, t) - n
             ELSE ScopeAvailable(k, t)
  <2> SUFFICES ASSUME NEW k \in Jobs, NEW t \in Scopes
               PROVE  /\ ScopeAvailable(k, t) \in Nat
                      /\ ScopeAvailable(k, t)' =
                           IF k = j /\ t = s THEN n
                           ELSE IF k = j /\ t = p THEN ScopeAvailable(k, t) - n
                           ELSE ScopeAvailable(k, t)
    OBVIOUS
  <2>1. scopes[k][t] \in Scope /\ ScopeAvailable(k, t) >= 0
    BY <1>1 DEF IInv, WithinShare
  <2>2. CASE k = j /\ t = s
    <3>1. t # p
      BY <2>2
    <3>2. /\ scopes[k][t].childShares = 0
          /\ scopes[k][t].reserved + scopes[k][t].committed = 0
      BY <1>2, <2>1, <2>2 DEF ScopeAvailable, Scope
    <3>3. /\ scopes'[k][t].share = n
          /\ scopes'[k][t].childShares = 0
          /\ scopes'[k][t].reserved + scopes'[k][t].committed = 0
      BY <2>2, <3>1, <3>2 DEF Opens
    <3>4. scopes[k][t].reserved \in Nat /\ scopes[k][t].committed \in Nat
      BY <2>1 DEF Scope
    <3>5. ScopeAvailable(k, t)' = n
      BY <3>2, <3>3, <3>4 DEF ScopeAvailable, Opens
    <3>6. QED BY <2>1, <2>2, <3>5 DEF ScopeAvailable, Scope
  <2>3. CASE ~(k = j /\ t = s)
    <3>1. /\ scopes'[k][t].share = scopes[k][t].share
          /\ scopes'[k][t].childShares =
               scopes[k][t].childShares + (IF k = j /\ t = p THEN n ELSE 0)
          /\ scopes'[k][t].reserved = scopes[k][t].reserved
          /\ scopes'[k][t].committed = scopes[k][t].committed
      BY <2>3 DEF Opens
    <3>2. QED BY <2>1, <2>3, <3>1 DEF ScopeAvailable, Scope
  <2>4. QED BY <2>2, <2>3
<1>5. WithinShare'
  <2> SUFFICES ASSUME NEW k \in Jobs, NEW t \in Scopes
               PROVE  ScopeAvailable(k, t)' >= 0
    BY DEF WithinShare
  <2>1. CASE k = j /\ t = p
    <3>1. n <= ScopeAvailable(j, p)
      BY <2>1, IdsAssumption DEF Remaining
    <3>2. QED BY <1>4, <2>1, <3>1
  <2>2. CASE ~(k = j /\ t = p)
    BY <1>4, <2>2
  <2>3. QED BY <2>1, <2>2
<1>6. \A k \in Jobs :
        /\ FreeOf(k) \in [Scopes -> Nat] /\ FreeOf(k)' \in [Scopes -> Nat]
        /\ KeptOf(k) \in [Scopes -> Nat] /\ KeptOf(k)' \in [Scopes -> Nat]
  <2>1. ASSUME NEW k \in Jobs
        PROVE  FreeOf(k) \in [Scopes -> Nat] /\ KeptOf(k) \in [Scopes -> Nat]
    BY FamiliesTyped DEF IInv
  <2>2. ASSUME NEW k \in Jobs, NEW t \in Scopes
        PROVE  /\ ScopeAvailable(k, t)' \in Nat
               /\ (scopes[k][t].share - scopes[k][t].childShares)' \in Nat
    <3>1. scopes'[k][t] \in Scope
      BY DEF TypeOK
    <3>2. ScopeAvailable(k, t)' >= 0
      BY <1>5 DEF WithinShare
    <3>3. QED BY <3>1, <3>2 DEF ScopeAvailable, Scope
  <2>3. QED BY <2>1, <2>2 DEF FreeOf, KeptOf
<1>7. \A k \in Jobs \ {j} : FreeOf(k)' = FreeOf(k) /\ KeptOf(k)' = KeptOf(k)
  <2>1. \A k \in Jobs \ {j}, t \in Scopes :
          /\ ScopeAvailable(k, t)' = ScopeAvailable(k, t)
          /\ scopes'[k][t].share = scopes[k][t].share
          /\ scopes'[k][t].childShares = scopes[k][t].childShares
    BY <1>1, <1>4 DEF Opens, Scope
  <2>2. QED BY <2>1 DEF FreeOf, KeptOf
<1>8. /\ FreeOf(j)[s] = 0 /\ FreeOf(j)'[s] = n
      /\ KeptOf(j)[s] = 0 /\ KeptOf(j)'[s] = n
  BY <1>1, <1>2, <1>4 DEF FreeOf, KeptOf, Opens, Scope
<1>9. \A t \in Scopes \ {s, p} :
        FreeOf(j)'[t] = FreeOf(j)[t] /\ KeptOf(j)'[t] = KeptOf(j)[t]
  BY <1>1, <1>4 DEF FreeOf, KeptOf, Opens, Scope
<1>10. IF p = None
       THEN Total(FreeOf(j)') = Total(FreeOf(j)) + n /\ Total(KeptOf(j)') = Total(KeptOf(j)) + n
       ELSE Total(FreeOf(j)') = Total(FreeOf(j)) /\ Total(KeptOf(j)') = Total(KeptOf(j))
  <2>1. CASE p = None
    <3>1. \A t \in Scopes \ {s} :
            FreeOf(j)'[t] = FreeOf(j)[t] /\ KeptOf(j)'[t] = KeptOf(j)[t]
      BY <1>9, <2>1, IdsAssumption
    <3>2. /\ Total(FreeOf(j)') = Total(FreeOf(j)) - FreeOf(j)[s] + FreeOf(j)'[s]
          /\ Total(KeptOf(j)') = Total(KeptOf(j)) - KeptOf(j)[s] + KeptOf(j)'[s]
      BY <1>6, <3>1, TotalChange, IdsAssumption
    <3>3. Total(FreeOf(j)) \in Nat /\ Total(KeptOf(j)) \in Nat
      BY <1>6, CentsFinite, IdsAssumption
    <3>4. QED BY <1>8, <2>1, <3>2, <3>3
  <2>2. CASE p # None
    <3>1. /\ p \in Scopes
          /\ FreeOf(j)'[p] = FreeOf(j)[p] - n
          /\ KeptOf(j)'[p] = KeptOf(j)[p] - n
      BY <1>1, <1>4, <2>2 DEF FreeOf, KeptOf, Opens, Scope
    <3>2. /\ FreeOf(j)'[s] + FreeOf(j)'[p] = FreeOf(j)[s] + FreeOf(j)[p]
          /\ KeptOf(j)'[s] + KeptOf(j)'[p] = KeptOf(j)[s] + KeptOf(j)[p]
      BY <1>6, <1>8, <3>1
    <3>3. QED BY <1>6, <1>9, <2>2, <3>1, <3>2, TotalTransfer, IdsAssumption
  <2>3. QED BY <2>1, <2>2
<1>11. SharesConserved'
  <2> SUFFICES ASSUME NEW k \in Jobs PROVE jobs'[k].childShares = Total(KeptOf(k)')
    BY DEF SharesConserved
  <2>1. jobs[k].childShares = Total(KeptOf(k)) /\ jobs[k] \in Job
    BY <1>1 DEF IInv, SharesConserved
  <2>2. CASE k # j
    BY <1>7, <2>1, <2>2 DEF Opens, Job
  <2>3. CASE k = j
    BY <1>10, <2>1, <2>3 DEF Opens, Job
  <2>4. QED BY <2>2, <2>3
<1>12. OneCeiling'
  <2> SUFFICES ASSUME NEW k \in Jobs
               PROVE  jobs'[k].reserved + jobs'[k].committed + ScopesFree(k)'
                        <= jobs'[k].ceiling
    BY DEF OneCeiling
  <2>1. /\ jobs[k].reserved + jobs[k].committed + ScopesFree(k) <= jobs[k].ceiling
        /\ jobs[k] \in Job
        /\ ScopesFree(k) \in Nat /\ ScopesFree(k) <= jobs[k].childShares
    BY <1>1, FreeWithinGiven DEF IInv, OneCeiling
  <2>2. CASE k # j
    BY <1>7, <2>1, <2>2 DEF Opens, Job, ScopesFree
  <2>3. CASE k = j /\ p # None
    BY <1>10, <2>1, <2>3 DEF Opens, Job, ScopesFree
  <2>4. CASE k = j /\ p = None
    <3>1. n <= JobAvailable(j)
      BY <2>4 DEF Remaining
    <3>2. QED BY <1>10, <2>1, <2>4, <3>1 DEF Opens, Job, ScopesFree, JobAvailable
  <2>5. QED BY <2>2, <2>3, <2>4
<1>13. SharesCarved'
  <2> SUFFICES ASSUME NEW k \in Jobs
               PROVE  /\ jobs'[k].childShares = Total(SharesUnder(k, None)')
                      /\ \A q \in Scopes :
                           scopes'[k][q].childShares = Total(SharesUnder(k, q)')
    BY DEF SharesCarved
  <2>1. ASSUME NEW q \in Scopes \cup {None}
        PROVE  Total(SharesUnder(k, q)')
                 = Total(SharesUnder(k, q)) + (IF k = j /\ q = p THEN n ELSE 0)
    <3>1. /\ SharesUnder(k, q) \in [Scopes -> Nat]
          /\ SharesUnder(k, q)' \in [Scopes -> Nat]
          /\ Total(SharesUnder(k, q)) \in Nat
      <4>1. SharesUnder(k, q) \in [Scopes -> Nat]
        BY SharesUnderTyped DEF IInv
      <4>2. SharesUnder(k, q)' \in [Scopes -> Nat]
        BY DEF SharesUnder, TypeOK, Scope
      <4>3. QED BY <4>1, <4>2, CentsFinite, IdsAssumption
    <3>2. CASE k # j
      <4>1. SharesUnder(k, q)' = SharesUnder(k, q)
        BY <3>2 DEF SharesUnder, Opens, HasScope
      <4>2. QED BY <3>1, <3>2, <4>1
    <3>3. CASE k = j
      <4>1. \A t \in Scopes \ {s} : SharesUnder(k, q)'[t] = SharesUnder(k, q)[t]
        BY <3>3 DEF SharesUnder, Opens, HasScope
      <4>2. /\ SharesUnder(k, q)[s] = 0
            /\ SharesUnder(k, q)'[s] = IF q = p THEN n ELSE 0
        BY <3>3 DEF SharesUnder, Opens, HasScope
      <4>3. Total(SharesUnder(k, q)')
              = Total(SharesUnder(k, q)) - SharesUnder(k, q)[s] + SharesUnder(k, q)'[s]
        BY <3>1, <4>1, TotalChange, IdsAssumption
      <4>4. QED BY <3>1, <3>3, <4>2, <4>3
    <3>4. QED BY <3>2, <3>3
  <2>2. jobs'[k].childShares = Total(SharesUnder(k, None)')
    <3>1. jobs[k].childShares = Total(SharesUnder(k, None))
      BY DEF IInv, SharesCarved
    <3>2. QED BY <2>1, <3>1 DEF Opens
  <2>3. ASSUME NEW q \in Scopes
        PROVE  scopes'[k][q].childShares = Total(SharesUnder(k, q)')
    <3>1. scopes[k][q].childShares = Total(SharesUnder(k, q))
      BY DEF IInv, SharesCarved
    <3>2. QED BY <2>1, <3>1 DEF Opens
  <2>4. QED BY <2>2, <2>3
<1>14. Placed'
  BY DEF IInv, Placed, Opens, HasScope
<1>15. HeldIffLocked'
  BY DEF IInv, HeldIffLocked, Opens
<1>16. QED BY <1>3, <1>5, <1>11, <1>12, <1>13, <1>14, <1>15 DEF IInv

\* A scope that was not opened has no share, so it gave and drew nothing.
LEMMA FreshScope ==
  ASSUME IInv, NEW j \in Jobs, NEW s \in Scopes, ~HasScope(j, s)
  PROVE  /\ scopes[j][s].share = 0 /\ scopes[j][s].childShares = 0
         /\ scopes[j][s].reserved = 0 /\ scopes[j][s].committed = 0
<1>1. /\ scopes[j][s] \in Scope
      /\ scopes[j][s].share = 0 /\ ScopeAvailable(j, s) >= 0
  BY DEF IInv, TypeOK, Placed, WithinShare
<1>2. QED BY <1>1 DEF ScopeAvailable, Scope

\* The record openScope stores.
LEMMA NewScopeFields ==
  ASSUME NEW p \in Scopes \cup {None}, NEW n \in Nat
  PROVE  /\ NewScope(p, n) \in Scope
         /\ NewScope(p, n).state = "OPEN" /\ NewScope(p, n).parent = p
         /\ NewScope(p, n).share = n /\ NewScope(p, n).childShares = 0
         /\ NewScope(p, n).reserved = 0 /\ NewScope(p, n).committed = 0
BY DEF NewScope, Scope

LEMMA OpenRootScopeInv ==
  ASSUME IInv, NEW j \in Jobs, NEW s \in Scopes, NEW n \in Amounts,
         OpenRootScope(j, s, n)
  PROVE  IInv'
<1> DEFINE new == NewScope(None, n)
<1>1. n \in Nat /\ TypeOK /\ jobs[j] \in Job /\ ~HasScope(j, s)
  BY AmountsAssumption DEF IInv, TypeOK, OpenRootScope
<1>2. /\ new \in Scope
      /\ new.state = "OPEN" /\ new.parent = None
      /\ new.share = n /\ new.childShares = 0
      /\ new.reserved = 0 /\ new.committed = 0
  BY <1>1, NewScopeFields
<1>3. /\ scopes' = [scopes EXCEPT ![j][s] = new]
      /\ jobs' = [jobs EXCEPT ![j].childShares = @ + n]
  BY DEF OpenRootScope
<1> HIDE DEF new
<1>4. /\ scopes' \in [Jobs -> [Scopes -> Scope]]
      /\ scopes'[j][s] = new
      /\ \A k \in Jobs, t \in Scopes : <<k, t>> # <<j, s>> => scopes'[k][t] = scopes[k][t]
  BY <1>1, <1>2, <1>3 DEF TypeOK
<1>5. TypeOK'
  <2>1. jobs' \in [Jobs -> Job]
    BY <1>1, <1>3 DEF TypeOK, Job
  <2>2. QED BY <1>1, <1>4, <2>1 DEF OpenRootScope, TypeOK
<1>6. Opens(j, s, None, n)
  <2>1. \A k \in Jobs : jobs[k] \in Job /\ \A t \in Scopes : scopes[k][t] \in Scope
    BY <1>1 DEF TypeOK
  <2>2. \A k \in Jobs :
          /\ jobs'[k].state = jobs[k].state
          /\ jobs'[k].held = jobs[k].held
          /\ jobs'[k].ceiling = jobs[k].ceiling
          /\ jobs'[k].reserved = jobs[k].reserved
          /\ jobs'[k].committed = jobs[k].committed
          /\ jobs'[k].childShares = jobs[k].childShares + (IF k = j THEN n ELSE 0)
    BY <1>1, <1>3, <2>1 DEF TypeOK, Job
  <2>3. \A k \in Jobs, t \in Scopes :
          /\ scopes'[k][t].state = IF k = j /\ t = s THEN "OPEN" ELSE scopes[k][t].state
          /\ scopes'[k][t].parent = IF k = j /\ t = s THEN None ELSE scopes[k][t].parent
          /\ scopes'[k][t].share = IF k = j /\ t = s THEN n ELSE scopes[k][t].share
          /\ scopes'[k][t].childShares = scopes[k][t].childShares
          /\ scopes'[k][t].reserved = scopes[k][t].reserved
          /\ scopes'[k][t].committed = scopes[k][t].committed
    BY <1>1, <1>2, <1>4, FreshScope
  <2>4. \A k \in Jobs, t \in Scopes :
          /\ t # None
          /\ scopes[k][t].childShares = scopes[k][t].childShares + 0
    BY <2>1, IdsAssumption DEF Scope
  <2>5. QED BY <2>2, <2>3, <2>4 DEF OpenRootScope, Opens
<1>7. None # s /\ n <= Remaining(j, None)
  BY IdsAssumption DEF OpenRootScope, Remaining
<1>8. QED BY <1>1, <1>5, <1>6, <1>7, OpensInv

LEMMA OpenSubScopeInv ==
  ASSUME IInv, NEW j \in Jobs, NEW s \in Scopes, NEW p \in Scopes, NEW n \in Amounts,
         OpenSubScope(j, s, p, n)
  PROVE  IInv'
<1> DEFINE newP == [scopes[j][p] EXCEPT !.childShares = scopes[j][p].childShares + n]
           newS == NewScope(p, n)
<1>1. /\ n \in Nat /\ TypeOK /\ scopes[j][p] \in Scope
      /\ ~HasScope(j, s) /\ s # p /\ p # None
  BY AmountsAssumption, IdsAssumption DEF IInv, TypeOK, OpenSubScope
<1>2. /\ newP \in Scope
      /\ newP.state = scopes[j][p].state /\ newP.parent = scopes[j][p].parent
      /\ newP.share = scopes[j][p].share
      /\ newP.childShares = scopes[j][p].childShares + n
      /\ newP.reserved = scopes[j][p].reserved /\ newP.committed = scopes[j][p].committed
  BY <1>1 DEF Scope
<1>3. /\ newS \in Scope
      /\ newS.state = "OPEN" /\ newS.parent = p
      /\ newS.share = n /\ newS.childShares = 0
      /\ newS.reserved = 0 /\ newS.committed = 0
  BY <1>1, NewScopeFields
<1>4. scopes' = [scopes EXCEPT ![j] = [scopes[j] EXCEPT ![p] = newP, ![s] = newS]]
  BY <1>1 DEF OpenSubScope, TypeOK
<1> HIDE DEF newP, newS
<1>5. /\ scopes' \in [Jobs -> [Scopes -> Scope]]
      /\ scopes'[j][s] = newS /\ scopes'[j][p] = newP
      /\ \A k \in Jobs, t \in Scopes :
           ~(k = j /\ t \in {s, p}) => scopes'[k][t] = scopes[k][t]
  BY <1>1, <1>2, <1>3, <1>4 DEF TypeOK
<1>6. TypeOK'
  BY <1>1, <1>5 DEF OpenSubScope, TypeOK
<1>7. Opens(j, s, p, n)
  <2>1. \A k \in Jobs : jobs[k] \in Job /\ \A t \in Scopes : scopes[k][t] \in Scope
    BY <1>1 DEF TypeOK
  <2>2. \A k \in Jobs : jobs[k].childShares = jobs[k].childShares + 0
    BY <2>1 DEF Job
  <2>3. \A k \in Jobs, t \in Scopes : scopes[k][t].childShares = scopes[k][t].childShares + 0
    BY <2>1 DEF Scope
  <2>4. \A k \in Jobs, t \in Scopes :
          /\ scopes'[k][t].state = IF k = j /\ t = s THEN "OPEN" ELSE scopes[k][t].state
          /\ scopes'[k][t].parent = IF k = j /\ t = s THEN p ELSE scopes[k][t].parent
          /\ scopes'[k][t].share = IF k = j /\ t = s THEN n ELSE scopes[k][t].share
          /\ scopes'[k][t].childShares =
               IF k = j /\ t = p THEN scopes[k][t].childShares + n ELSE scopes[k][t].childShares
          /\ scopes'[k][t].reserved = scopes[k][t].reserved
          /\ scopes'[k][t].committed = scopes[k][t].committed
    BY <1>1, <1>2, <1>3, <1>5, FreshScope
  <2>5. jobs' = jobs /\ UNCHANGED reservations
    BY DEF OpenSubScope
  <2>6. \A k \in Jobs, t \in Scopes : scopes'[k][t].childShares =
          scopes[k][t].childShares + (IF k = j /\ t = p THEN n ELSE 0)
    BY <2>3, <2>4
  <2>7. QED BY <1>1, <2>2, <2>4, <2>5, <2>6 DEF Opens
<1>8. n <= Remaining(j, p)
  BY <1>1 DEF OpenSubScope, Remaining
<1>9. QED BY <1>1, <1>6, <1>7, <1>8, OpensInv

-----------------------------------------------------------------------------
LEMMA InitInv == Init => IInv
<1> SUFFICES ASSUME Init PROVE IInv
  OBVIOUS
<1>1. TypeOK
  BY DEF Init, TypeOK, Job, Scope, Reservation, JobStates, ReservationStates
<1>2. ASSUME NEW j \in Jobs
      PROVE  /\ Total(Drawn(j, "RESERVED")) = 0 /\ Total(Drawn(j, "COMMITTED")) = 0
             /\ \A s \in Scopes : /\ Total(DrawnBy(j, s, "RESERVED")) = 0
                                  /\ Total(DrawnBy(j, s, "COMMITTED")) = 0
  <2>1. ASSUME NEW st \in {"RESERVED", "COMMITTED"} PROVE Total(Drawn(j, st)) = 0
    <3>1. Drawn(j, st) \in [Reservations -> Nat]
      BY <1>1, DrawsTyped DEF TypeOK
    <3>2. \A r \in Reservations : Drawn(j, st)[r] = 0
      BY DEF Drawn, Init
    <3>3. QED BY <3>1, <3>2, TotalZero, IdsAssumption
  <2>2. ASSUME NEW s \in Scopes, NEW st \in {"RESERVED", "COMMITTED"}
        PROVE  Total(DrawnBy(j, s, st)) = 0
    <3>1. DrawnBy(j, s, st) \in [Reservations -> Nat]
      BY <1>1, DrawsTyped DEF TypeOK
    <3>2. \A r \in Reservations : DrawnBy(j, s, st)[r] = 0
      BY DEF DrawnBy, Init
    <3>3. QED BY <3>1, <3>2, TotalZero, IdsAssumption
  <2>3. QED BY <2>1, <2>2
<1>3. BooksBalance
  BY <1>2 DEF BooksBalance, Init
<1>4. WithinShare
  BY DEF WithinShare, ScopeAvailable, Init
<1>5. ASSUME NEW j \in Jobs
      PROVE  /\ Total(KeptOf(j)) = 0 /\ ScopesFree(j) = 0
             /\ \A p \in Scopes \cup {None} : Total(SharesUnder(j, p)) = 0
  <2>1. /\ KeptOf(j) \in [Scopes -> Nat] /\ FreeOf(j) \in [Scopes -> Nat]
    BY <1>1, <1>4, FamiliesTyped
  <2>2. \A s \in Scopes : KeptOf(j)[s] = 0 /\ FreeOf(j)[s] = 0
    BY DEF KeptOf, FreeOf, ScopeAvailable, Init
  <2>3. ASSUME NEW p \in Scopes \cup {None} PROVE Total(SharesUnder(j, p)) = 0
    <3>1. SharesUnder(j, p) \in [Scopes -> Nat]
      BY <1>1, SharesUnderTyped
    <3>2. \A s \in Scopes : SharesUnder(j, p)[s] = 0
      BY DEF SharesUnder, HasScope, Init
    <3>3. QED BY <3>1, <3>2, TotalZero, IdsAssumption
  <2>4. QED BY <2>1, <2>2, <2>3, TotalZero, IdsAssumption DEF ScopesFree
<1>6. SharesConserved /\ SharesCarved
  BY <1>5 DEF SharesConserved, SharesCarved, Init
<1>7. OneCeiling
  BY <1>5 DEF OneCeiling, Init
<1>8. Placed /\ HeldIffLocked
  BY DEF Placed, HasScope, HeldIffLocked, Init
<1>9. QED BY <1>1, <1>3, <1>4, <1>6, <1>7, <1>8 DEF IInv

LEMMA NextInv == IInv /\ [Next]_vars => IInv'
<1> SUFFICES ASSUME IInv, [Next]_vars PROVE IInv'
  OBVIOUS
<1>1. ASSUME NEW j \in Jobs, NEW c \in Ceilings, OpenJob(j, c) PROVE IInv'
  BY <1>1, OpenJobInv
<1>2. ASSUME NEW j \in Jobs, NEW s \in Scopes, NEW n \in Amounts, OpenRootScope(j, s, n)
      PROVE  IInv'
  BY <1>2, OpenRootScopeInv
<1>3. ASSUME NEW j \in Jobs, NEW s \in Scopes, NEW p \in Scopes, NEW n \in Amounts,
             OpenSubScope(j, s, p, n)
      PROVE  IInv'
  BY <1>3, OpenSubScopeInv
<1>4. ASSUME NEW j \in Jobs, NEW s \in Scopes \cup {None}, NEW r \in Reservations,
             NEW n \in Amounts, Reserve(j, s, r, n)
      PROVE  IInv'
  BY <1>4, ReserveInv
<1>5. ASSUME NEW j \in Jobs, NEW s \in Scopes \cup {None}, NEW r \in Reservations,
             NEW n \in Amounts, Meter(j, s, r, n)
      PROVE  IInv'
  BY <1>5, MeterInv
<1>6. ASSUME NEW r \in Reservations, Commit(r) PROVE IInv'
  BY <1>6, CommitInv
<1>7. ASSUME NEW r \in Reservations, Release(r) PROVE IInv'
  BY <1>7, ReleaseInv
<1>8. ASSUME NEW j \in Jobs, NEW n \in Amounts, Hold(j, n) PROVE IInv'
  BY <1>8, HoldInv
<1>9. ASSUME NEW j \in Jobs, NEW to \in Dispositions, NEW n \in Amounts, Dispose(j, to, n)
      PROVE  IInv'
  <2>1. n \in Nat /\ n > 0
    BY AmountsAssumption
  <2>2. QED BY <1>9, <2>1, DisposeInv
<1>10. ASSUME NEW j \in Jobs, NEW to \in Dispositions, DisposeAll(j, to) PROVE IInv'
  <2>1. jobs[j].held \in Nat /\ jobs[j].held > 0
    BY <1>10 DEF DisposeAll, Dispose, IInv, TypeOK, Job
  <2>2. QED BY <1>10, <2>1, DisposeInv DEF DisposeAll
<1>11. CASE UNCHANGED vars
  <2>1. jobs' = jobs /\ UNCHANGED <<scopes, reservations>>
    BY <1>11 DEF vars
  <2>2. \A k \in Jobs : jobs[k].ceiling >= jobs[k].ceiling
    BY DEF IInv, TypeOK, Job
  <2>3. QED BY <2>1, <2>2, JobOnlyInv DEF IInv, TypeOK, HeldIffLocked, Placed
<1>12. QED BY <1>1, <1>2, <1>3, <1>4, <1>5, <1>6, <1>7, <1>8, <1>9, <1>10, <1>11 DEF Next

\* The inductive invariant of the ledger.
THEOREM LedgerInvariant == Spec => []IInv
<1>1. QED BY InitInv, NextInv, PTL DEF Spec

\* Every total stays a natural number: no commit and no release, in any order,
\* takes a running total of a job or of a scope below zero.
THEOREM TypeCorrect == Spec => []TypeOK
<1>1. IInv => TypeOK
  BY DEF IInv
<1>2. QED BY <1>1, LedgerInvariant, PTL

\* One ceiling: what a job and all its sub-agents have drawn, with what the
\* sub-agents may still draw, never passes the job's ceiling.
THEOREM CeilingHolds == Spec => []OneCeiling
<1>1. IInv => OneCeiling
  BY DEF IInv
<1>2. QED BY <1>1, LedgerInvariant, PTL

\* A sub-agent never draws or gives away more than its share.
THEOREM ShareHolds == Spec => []WithinShare
<1>1. IInv => WithinShare
  BY DEF IInv
<1>2. QED BY <1>1, LedgerInvariant, PTL

\* The running totals of the ledger are the sums of its reservations.
THEOREM BooksHold == Spec => []BooksBalance
<1>1. IInv => BooksBalance
  BY DEF IInv
<1>2. QED BY <1>1, LedgerInvariant, PTL

\* Every share was given up by its parent, and given up once.
THEOREM SharesHold == Spec => []SharesCarved
<1>1. IInv => SharesCarved
  BY DEF IInv
<1>2. QED BY <1>1, LedgerInvariant, PTL

\* A job is HELD exactly while something of it is locked.
THEOREM EscrowStateHolds == Spec => []HeldIffLocked
<1>1. IInv => HeldIffLocked
  BY DEF IInv
<1>2. QED BY <1>1, LedgerInvariant, PTL

-----------------------------------------------------------------------------
\* No scope but the one that draws or allocates, if any, is poorer after a step.
Spares(j, s) ==
  \A k \in Jobs, t \in Scopes :
    k # j \/ t # s => ScopeAvailable(k, t)' >= ScopeAvailable(k, t)

LEMMA AvailableTyped ==
  ASSUME TypeOK, NEW k \in Jobs, NEW t \in Scopes
  PROVE  /\ scopes[k][t] \in Scope
         /\ scopes[k][t].share \in Int /\ scopes[k][t].childShares \in Int
         /\ scopes[k][t].reserved \in Int /\ scopes[k][t].committed \in Int
         /\ ScopeAvailable(k, t) \in Int
BY DEF TypeOK, Scope, ScopeAvailable

\* What openScope, reserve and meter take is taken from one scope, if from any.
LEMMA AllocationSpares ==
  ASSUME IInv, NEW j \in Jobs, NEW s \in Scopes, NEW n \in Amounts,
         OpenRootScope(j, s, n) \/ \E p \in Scopes : OpenSubScope(j, s, p, n)
  PROVE  \E p \in Scopes : Spares(j, p)
<1> USE AvailableTyped DEF IInv
<1>1. n \in Nat
  BY AmountsAssumption
<1>2. /\ scopes[j][s].share = 0 /\ scopes[j][s].childShares = 0
      /\ scopes[j][s].reserved = 0 /\ scopes[j][s].committed = 0
  BY FreshScope DEF OpenRootScope, OpenSubScope
<1>3. CASE OpenRootScope(j, s, n)
  <2>1. scopes' = [scopes EXCEPT ![j][s] = NewScope(None, n)]
    BY <1>3 DEF OpenRootScope
  <2>2. ASSUME NEW k \in Jobs, NEW t \in Scopes PROVE ScopeAvailable(k, t)' >= ScopeAvailable(k, t)
    BY <1>1, <1>2, <2>1 DEF ScopeAvailable, NewScope, TypeOK
  <2>3. QED BY <2>2 DEF Spares
<1>4. ASSUME NEW p \in Scopes, OpenSubScope(j, s, p, n) PROVE Spares(j, p)
  <2>1. /\ scopes' = [scopes EXCEPT ![j][p].childShares = @ + n, ![j][s] = NewScope(p, n)]
        /\ s # p
    BY <1>4 DEF OpenSubScope
  <2>2. ASSUME NEW k \in Jobs, NEW t \in Scopes, k # j \/ t # p
        PROVE  ScopeAvailable(k, t)' >= ScopeAvailable(k, t)
    BY <1>1, <1>2, <2>1, <2>2 DEF ScopeAvailable, NewScope, TypeOK
  <2>3. QED BY <2>2 DEF Spares
<1>5. QED BY <1>3, <1>4

LEMMA DrawSpares ==
  ASSUME IInv, NEW j \in Jobs, NEW s \in Scopes \cup {None}, NEW r \in Reservations,
         NEW n \in Amounts, Reserve(j, s, r, n) \/ Meter(j, s, r, n)
  PROVE  Spares(j, s)
<1> USE AvailableTyped DEF IInv
<1>1. CASE scopes' = scopes
  BY <1>1 DEF Spares, ScopeAvailable
<1>2. CASE s \in Scopes /\ scopes' = [scopes EXCEPT ![j][s].reserved = @ + n]
  BY <1>2 DEF Spares, ScopeAvailable, TypeOK
<1>3. CASE s \in Scopes /\ scopes' = [scopes EXCEPT ![j][s].committed = @ + n]
  BY <1>3 DEF Spares, ScopeAvailable, TypeOK
<1>4. QED BY <1>1, <1>2, <1>3 DEF Reserve, Meter

\* A commit moves a draw within its scope, a release gives it back.
LEMMA EndSpares ==
  ASSUME IInv, NEW r \in Reservations, Commit(r) \/ Release(r),
         NEW k \in Jobs, NEW t \in Scopes
  PROVE  ScopeAvailable(k, t)' >= ScopeAvailable(k, t)
<1> USE AvailableTyped DEF IInv
<1> DEFINE j == reservations[r].job
           s == reservations[r].scope
           n == reservations[r].amount
<1>1. j \in Jobs /\ s \in Scopes \cup {None} /\ n \in Nat
  BY DEF Commit, Release, Placed, TypeOK, Reservation
<1>2. scopes \in [Jobs -> [Scopes -> Scope]]
  BY DEF TypeOK
<1>3. \/ scopes' = scopes
      \/ /\ s \in Scopes
         /\ \/ scopes' = [scopes EXCEPT ![j][s].reserved = @ - n, ![j][s].committed = @ + n]
            \/ scopes' = [scopes EXCEPT ![j][s].reserved = @ - n]
  BY <1>1 DEF Commit, Release
<1> HIDE DEF j, s, n
<1>4. CASE scopes' = scopes
  BY <1>4 DEF ScopeAvailable
<1>5. CASE s \in Scopes /\ scopes' = [scopes EXCEPT ![j][s].reserved = @ - n,
                                                    ![j][s].committed = @ + n]
  <2>1. /\ scopes'[k][t].share = scopes[k][t].share
        /\ scopes'[k][t].childShares = scopes[k][t].childShares
        /\ scopes'[k][t].reserved = scopes[k][t].reserved - (IF k = j /\ t = s THEN n ELSE 0)
        /\ scopes'[k][t].committed = scopes[k][t].committed + (IF k = j /\ t = s THEN n ELSE 0)
    BY <1>1, <1>2, <1>5 DEF Scope
  <2>2. QED BY <1>1, <2>1 DEF ScopeAvailable
<1>6. CASE s \in Scopes /\ scopes' = [scopes EXCEPT ![j][s].reserved = @ - n]
  BY <1>1, <1>2, <1>6 DEF ScopeAvailable, Scope
<1>7. QED BY <1>3, <1>4, <1>5, <1>6

LEMMA StepSpares ==
  ASSUME IInv, [Next]_vars
  PROVE  \/ \A k \in Jobs, t \in Scopes : ScopeAvailable(k, t)' >= ScopeAvailable(k, t)
         \/ \E j \in Jobs, s \in Scopes \cup {None} : Spares(j, s)
<1>1. CASE UNCHANGED scopes
  BY <1>1, AvailableTyped DEF ScopeAvailable, IInv
<1>2. ASSUME NEW j \in Jobs, NEW s \in Scopes, NEW n \in Amounts,
             OpenRootScope(j, s, n) \/ \E p \in Scopes : OpenSubScope(j, s, p, n)
      PROVE  \E p \in Scopes : Spares(j, p)
  BY <1>2, AllocationSpares
<1>3. ASSUME NEW j \in Jobs, NEW s \in Scopes \cup {None}, NEW r \in Reservations,
             NEW n \in Amounts, Reserve(j, s, r, n) \/ Meter(j, s, r, n)
      PROVE  Spares(j, s)
  BY <1>3, DrawSpares
<1>4. ASSUME NEW r \in Reservations, Commit(r) \/ Release(r)
      PROVE  \A k \in Jobs, t \in Scopes : ScopeAvailable(k, t)' >= ScopeAvailable(k, t)
  BY <1>4, EndSpares
<1>5. ASSUME NEW j \in Jobs, NEW n, NEW to, OpenJob(j, n) \/ Hold(j, n) \/ Dispose(j, to, n)
      PROVE  UNCHANGED scopes
  BY <1>5 DEF OpenJob, Hold, Dispose
<1>6. CASE UNCHANGED vars
  BY <1>1, <1>6 DEF vars
<1>7. QED BY <1>1, <1>2, <1>3, <1>4, <1>5, <1>6 DEF Next, DisposeAll

\* What escrow pays out of a job in one step is what it held less.
PaidOut(j) ==
  LET out(job) == job.released + job.refunded
  IN  /\ out(jobs'[j]) - out(jobs[j]) =
           IF jobs'[j].held < jobs[j].held THEN jobs[j].held - jobs'[j].held ELSE 0
      /\ jobs'[j].held > jobs[j].held => jobs[j].held = 0

LEMMA EscrowUntouched ==
  ASSUME TypeOK, NEW k \in Jobs, jobs'[k].held = jobs[k].held,
         jobs'[k].released = jobs[k].released, jobs'[k].refunded = jobs[k].refunded
  PROVE  PaidOut(k)
BY DEF TypeOK, Job, PaidOut

LEMMA StepPaysOut == ASSUME IInv, [Next]_vars, NEW k \in Jobs PROVE PaidOut(k)
<1> DEFINE Same == /\ jobs'[k].held = jobs[k].held
                   /\ jobs'[k].released = jobs[k].released /\ jobs'[k].refunded = jobs[k].refunded
<1>1. TypeOK /\ jobs \in [Jobs -> Job] /\ jobs[k] \in Job
  BY DEF IInv, TypeOK
<1>2. ASSUME NEW j \in Jobs, NEW n \in Amounts, Hold(j, n) PROVE PaidOut(k)
  <2>1. n \in Nat /\ n > 0 /\ jobs[j].held = 0
    BY <1>2, AmountsAssumption DEF Hold
  <2>2. jobs' = [jobs EXCEPT ![j].held = n, ![j].state = "HELD"]
    BY <1>2 DEF Hold
  <2>3. QED BY <1>1, <2>1, <2>2 DEF PaidOut, Job
<1>3. ASSUME NEW j \in Jobs, NEW to \in Dispositions, NEW n \in Nat, Dispose(j, to, n)
      PROVE  PaidOut(k)
  <2>1. n <= jobs[j].held /\ to \in {"RELEASED", "REFUNDED"}
    BY <1>3 DEF Dispose, Dispositions
  <2>2. jobs' = [jobs EXCEPT
                  ![j].held = @ - n,
                  ![j].released = IF to = "RELEASED" THEN @ + n ELSE @,
                  ![j].refunded = IF to = "REFUNDED" THEN @ + n ELSE @,
                  ![j].state = IF n = jobs[j].held THEN to ELSE @]
    BY <1>3 DEF Dispose
  <2>3. CASE k = j
    <3>1. /\ jobs'[k].held = jobs[k].held - n
          /\ jobs'[k].released = jobs[k].released + (IF to = "RELEASED" THEN n ELSE 0)
          /\ jobs'[k].refunded = jobs[k].refunded + (IF to = "REFUNDED" THEN n ELSE 0)
          /\ jobs[k].held \in Nat /\ jobs[k].released \in Nat /\ jobs[k].refunded \in Nat
      BY <1>1, <2>2, <2>3 DEF Job
    <3>2. QED BY <2>1, <2>3, <3>1 DEF PaidOut
  <2>4. CASE k # j
    BY <1>1, <2>2, <2>4, EscrowUntouched
  <2>5. QED BY <2>3, <2>4
<1>4. ASSUME NEW j \in Jobs, NEW to \in Dispositions, DisposeAll(j, to) PROVE PaidOut(k)
  BY <1>1, <1>3, <1>4 DEF DisposeAll, Job
<1>5. CASE Same
  BY <1>1, <1>5, EscrowUntouched
<1>6. ASSUME NEW j \in Jobs, NEW c \in Ceilings, OpenJob(j, c) PROVE PaidOut(k)
  <2>1. jobs' = [jobs EXCEPT ![j].state = "OPEN", ![j].ceiling = c]
    BY <1>6 DEF OpenJob
  <2>2. Same
    BY <1>1, <2>1 DEF Job
  <2>3. QED BY <1>5, <2>2
<1>7. ASSUME NEW j \in Jobs, NEW s \in Scopes, NEW n \in Amounts,
             OpenRootScope(j, s, n) \/ \E p \in Scopes : OpenSubScope(j, s, p, n)
      PROVE  PaidOut(k)
  <2>1. jobs' = jobs \/ jobs' = [jobs EXCEPT ![j].childShares = @ + n]
    BY <1>7 DEF OpenRootScope, OpenSubScope
  <2>2. QED BY <1>1, <1>5, <2>1 DEF Job
<1>8. ASSUME NEW j \in Jobs, NEW s \in Scopes \cup {None}, NEW r \in Reservations,
             NEW n \in Amounts, Reserve(j, s, r, n) \/ Meter(j, s, r, n)
      PROVE  PaidOut(k)
  <2>1. \/ jobs' = [jobs EXCEPT ![j].reserved = @ + n]
        \/ jobs' = [jobs EXCEPT ![j].committed = @ + n]
    BY <1>8 DEF Reserve, Meter
  <2>2. QED BY <1>1, <1>5, <2>1 DEF Job
<1>9. ASSUME NEW r \in Reservations, Commit(r) \/ Release(r) PROVE PaidOut(k)
  <2>1. PICK j, n : \/ jobs' = [jobs EXCEPT ![j].reserved = @ - n, ![j].committed = @ + n]
                    \/ jobs' = [jobs EXCEPT ![j].reserved = @ - n]
    BY <1>9 DEF Commit, Release
  <2>2. QED BY <1>1, <1>5, <2>1 DEF Job
<1>10. Amounts \subseteq Nat
  BY AmountsAssumption
<1>11. CASE UNCHANGED vars
  BY <1>5, <1>11 DEF vars
<1>12. QED BY <1>2, <1>3, <1>4, <1>6, <1>7, <1>8, <1>9, <1>10, <1>11 DEF Next

\* Who is poorer after a step leaves everyone else no poorer.
OnePoorer ==
  \A j, k \in Jobs, s, t \in Scopes :
    /\ ScopeAvailable(j, s)' < ScopeAvailable(j, s)
    /\ <<j, s>> # <<k, t>>
    => ScopeAvailable(k, t)' >= ScopeAvailable(k, t)

LEMMA StepRaidsNobody == ASSUME IInv, IInv', [Next]_vars PROVE OnePoorer
<1> SUFFICES ASSUME NEW j \in Jobs, NEW k \in Jobs, NEW s \in Scopes, NEW t \in Scopes,
                    ScopeAvailable(j, s)' < ScopeAvailable(j, s), <<j, s>> # <<k, t>>
             PROVE  ScopeAvailable(k, t)' >= ScopeAvailable(k, t)
  BY DEF OnePoorer
<1>1. ScopeAvailable(j, s) \in Int /\ ScopeAvailable(j, s)' \in Int
  BY AvailableTyped DEF IInv, TypeOK, Scope, ScopeAvailable
<1>2. ~(ScopeAvailable(j, s)' >= ScopeAvailable(j, s))
  BY <1>1
<1> QED BY <1>2, StepSpares DEF Spares

\* No step makes one scope poorer but by that scope's own draw or allocation,
\* and escrow pays out what it held, for any tree of sub-agents.
THEOREM MoneyKept == Spec => MoneyStaysPut
<1>1. IInv /\ IInv' /\ [Next]_vars => [OnePoorer]_vars /\ [\A j \in Jobs : PaidOut(j)]_vars
  BY StepRaidsNobody, StepPaysOut
<1>2. Spec => [][OnePoorer]_vars /\ [][\A j \in Jobs : PaidOut(j)]_vars
  BY <1>1, LedgerInvariant, PTL DEF Spec
<1> QED BY <1>2 DEF MoneyStaysPut, NoRaid, EscrowConserved, OnePoorer, PaidOut

-----------------------------------------------------------------------------
\* The refinement.  A step of the purses takes an amount someone may ask for,
\* and a job is funded while it has no purse: a reservation holds such an
\* amount, and only an open job has scopes.
RefineInv ==
  /\ IInv
  /\ \A j \in Jobs, s \in Scopes : HasScope(j, s) => IsOpen(j)
  /\ \A r \in Reservations :
       reservations[r].state # "NONE" => reservations[r].amount \in Amounts

\* A draw, and its end, touch two totals of one job and one scope only.
DrawJob(j, n) ==
  \/ jobs' = [jobs EXCEPT ![j].reserved = @ + n]
  \/ jobs' = [jobs EXCEPT ![j].committed = @ + n]
  \/ jobs' = [jobs EXCEPT ![j].reserved = @ - n]
  \/ jobs' = [jobs EXCEPT ![j].reserved = @ - n, ![j].committed = @ + n]

DrawScope(j, s, n) ==
  \/ scopes' = scopes
  \/ scopes' = [scopes EXCEPT ![j][s].reserved = @ + n]
  \/ scopes' = [scopes EXCEPT ![j][s].committed = @ + n]
  \/ scopes' = [scopes EXCEPT ![j][s].reserved = @ - n]
  \/ scopes' = [scopes EXCEPT ![j][s].reserved = @ - n, ![j][s].committed = @ + n]

SharesStay ==
  /\ \A k \in Jobs : /\ jobs'[k].state = jobs[k].state
                     /\ jobs'[k].ceiling = jobs[k].ceiling
                     /\ jobs'[k].childShares = jobs[k].childShares
  /\ \A k \in Jobs, t \in Scopes :
       /\ scopes'[k][t].state = scopes[k][t].state
       /\ scopes'[k][t].share = scopes[k][t].share
       /\ scopes'[k][t].childShares = scopes[k][t].childShares

LEMMA DrawKeepsShares ==
  ASSUME TypeOK, NEW j \in Jobs, NEW s, NEW n, DrawJob(j, n), DrawScope(j, s, n)
  PROVE  SharesStay
<1>1. jobs \in [Jobs -> Job] /\ scopes \in [Jobs -> [Scopes -> Scope]]
  BY DEF TypeOK
<1>2. ASSUME NEW k \in Jobs
      PROVE  /\ jobs'[k].state = jobs[k].state
             /\ jobs'[k].ceiling = jobs[k].ceiling
             /\ jobs'[k].childShares = jobs[k].childShares
  <2>1. CASE jobs' = [jobs EXCEPT ![j].reserved = @ + n]
    BY <1>1, <2>1 DEF Job
  <2>2. CASE jobs' = [jobs EXCEPT ![j].committed = @ + n]
    BY <1>1, <2>2 DEF Job
  <2>3. CASE jobs' = [jobs EXCEPT ![j].reserved = @ - n]
    BY <1>1, <2>3 DEF Job
  <2>4. CASE jobs' = [jobs EXCEPT ![j].reserved = @ - n, ![j].committed = @ + n]
    BY <1>1, <2>4 DEF Job
  <2>5. QED BY <2>1, <2>2, <2>3, <2>4 DEF DrawJob
<1>3. ASSUME NEW k \in Jobs, NEW t \in Scopes
      PROVE  /\ scopes'[k][t].state = scopes[k][t].state
             /\ scopes'[k][t].share = scopes[k][t].share
             /\ scopes'[k][t].childShares = scopes[k][t].childShares
  <2>1. CASE scopes' = [scopes EXCEPT ![j][s].reserved = @ + n]
    BY <1>1, <2>1 DEF Scope
  <2>2. CASE scopes' = [scopes EXCEPT ![j][s].committed = @ + n]
    BY <1>1, <2>2 DEF Scope
  <2>3. CASE scopes' = [scopes EXCEPT ![j][s].reserved = @ - n]
    BY <1>1, <2>3 DEF Scope
  <2>4. CASE scopes' = [scopes EXCEPT ![j][s].reserved = @ - n, ![j][s].committed = @ + n]
    BY <1>1, <2>4 DEF Scope
  <2>5. QED BY <2>1, <2>2, <2>3, <2>4 DEF DrawScope
<1>4. QED BY <1>2, <1>3 DEF SharesStay

LEMMA DrawsKeepShares ==
  ASSUME TypeOK, NEW j \in Jobs, NEW s, NEW r, NEW n, Reserve(j, s, r, n) \/ Meter(j, s, r, n)
  PROVE  SharesStay
<1>1. DrawJob(j, n) /\ DrawScope(j, s, n)
  BY DEF Reserve, Meter, DrawJob, DrawScope
<1>2. QED BY <1>1, DrawKeepsShares

LEMMA EndsKeepShares ==
  ASSUME IInv, NEW r \in Reservations, Commit(r) \/ Release(r)
  PROVE  SharesStay
<1> DEFINE j == reservations[r].job
           s == reservations[r].scope
           n == reservations[r].amount
<1>1. DrawJob(j, n) /\ DrawScope(j, s, n)
  BY DEF Commit, Release, DrawJob, DrawScope
<1>2. j \in Jobs /\ TypeOK
  BY DEF IInv, Placed, Commit, Release
<1> HIDE DEF j, s, n
<1>3. QED BY <1>1, <1>2, DrawKeepsShares

LEMMA RefineInitInv == Init => RefineInv
BY InitInv DEF Init, RefineInv, HasScope

LEMMA RefineNextInv == RefineInv /\ [Next]_vars => RefineInv'
<1> SUFFICES ASSUME RefineInv, [Next]_vars PROVE RefineInv'
  OBVIOUS
<1> DEFINE OpenScopes == \A j \in Jobs, s \in Scopes : HasScope(j, s) => IsOpen(j)
           Asked == \A r \in Reservations :
                      reservations[r].state # "NONE" => reservations[r].amount \in Amounts
<1>1. IInv /\ IInv' /\ OpenScopes /\ Asked
  BY NextInv DEF RefineInv
<1>2. TypeOK /\ TypeOK'
  BY <1>1 DEF IInv
<1>3. OpenScopes'
  <2>1. CASE UNCHANGED vars
    BY <1>1, <2>1 DEF vars, HasScope, IsOpen
  <2>2. ASSUME NEW j \in Jobs, NEW c \in Ceilings, OpenJob(j, c) PROVE OpenScopes'
    BY <1>1, <1>2, <2>2 DEF OpenJob, HasScope, IsOpen, TypeOK
  <2>3. ASSUME NEW j \in Jobs, NEW s \in Scopes, NEW n \in Amounts, OpenRootScope(j, s, n)
        PROVE  OpenScopes'
    BY <1>1, <1>2, <2>3 DEF OpenRootScope, HasScope, IsOpen, TypeOK
  <2>4. ASSUME NEW j \in Jobs, NEW s \in Scopes, NEW p \in Scopes, NEW n \in Amounts,
               OpenSubScope(j, s, p, n)
        PROVE  OpenScopes'
    BY <1>1, <1>2, <2>4 DEF OpenSubScope, HasScope, IsOpen, TypeOK
  <2>5. ASSUME \A k \in Jobs : jobs'[k].state = jobs[k].state,
               \A k \in Jobs, t \in Scopes : scopes'[k][t].state = scopes[k][t].state
        PROVE  OpenScopes'
    BY <1>1, <2>5 DEF HasScope, IsOpen
  <2>6. ASSUME NEW j \in Jobs, NEW s \in Scopes \cup {None}, NEW r \in Reservations,
               NEW n \in Amounts, Reserve(j, s, r, n) \/ Meter(j, s, r, n)
        PROVE  OpenScopes'
    BY <1>2, <2>5, <2>6, DrawsKeepShares DEF SharesStay
  <2>7. ASSUME NEW r \in Reservations, Commit(r) \/ Release(r) PROVE OpenScopes'
    BY <1>1, <2>5, <2>7, EndsKeepShares DEF SharesStay
  <2>8. ASSUME NEW j \in Jobs, NEW to \in Dispositions, NEW n, Hold(j, n) \/ Dispose(j, to, n)
        PROVE  OpenScopes'
    <3>1. \A k \in Jobs : IsOpen(k)' <=> IsOpen(k)
      BY <1>2, <2>8 DEF Hold, Dispose, IsOpen, TypeOK, Job, Dispositions
    <3>2. scopes' = scopes
      BY <2>8 DEF Hold, Dispose
    <3>3. QED BY <1>1, <3>1, <3>2 DEF HasScope
  <2> HIDE DEF OpenScopes
  <2>9. QED BY <2>1, <2>2, <2>3, <2>4, <2>6, <2>7, <2>8 DEF Next, DisposeAll, Dispositions
<1>4. Asked'
  <2>1. CASE UNCHANGED reservations
    BY <1>1, <2>1
  <2>2. ASSUME NEW j \in Jobs, NEW s \in Scopes \cup {None}, NEW r \in Reservations,
               NEW n \in Amounts, Reserve(j, s, r, n) \/ Meter(j, s, r, n)
        PROVE  Asked'
    BY <1>1, <1>2, <2>2 DEF Reserve, Meter, TypeOK
  <2>3. ASSUME NEW r \in Reservations, Commit(r) \/ Release(r) PROVE Asked'
    <3>1. reservations \in [Reservations -> Reservation] /\ reservations[r].state # "NONE"
      BY <1>2, <2>3 DEF Commit, Release, TypeOK
    <3>2. \A q \in Reservations : /\ reservations'[q].amount = reservations[q].amount
                                  /\ q # r => reservations'[q] = reservations[q]
      BY <2>3, <3>1 DEF Commit, Release, Reservation
    <3>3. QED BY <1>1, <3>1, <3>2
  <2>4. ASSUME NEW j, NEW s, NEW p, NEW to, NEW n,
               \/ OpenJob(j, n) \/ OpenRootScope(j, s, n) \/ OpenSubScope(j, s, p, n)
               \/ Hold(j, n) \/ Dispose(j, to, n)
        PROVE  UNCHANGED reservations
    BY <2>4 DEF OpenJob, OpenRootScope, OpenSubScope, Hold, Dispose
  <2>5. CASE UNCHANGED vars
    BY <2>1, <2>5 DEF vars
  <2> HIDE DEF Asked
  <2>6. QED BY <2>1, <2>2, <2>3, <2>4, <2>5 DEF Next, DisposeAll
<1>5. QED BY <1>1, <1>3, <1>4 DEF RefineInv

\* A purse is what its holder was given, less its own draws.
Given(j, h) ==
  IF h = None THEN jobs[j].ceiling - jobs[j].childShares
  ELSE scopes[j][h].share - scopes[j][h].childShares

PursesAre ==
  \A j \in Jobs, h \in Holders :
    /\ Draws(j, h, "RESERVED") \in Nat /\ Draws(j, h, "COMMITTED") \in Nat
    /\ Purse(j, h) \in Int
    /\ Purse(j, h) = Given(j, h) - Draws(j, h, "RESERVED") - Draws(j, h, "COMMITTED")

LEMMA PurseIs ==
  ASSUME IInv, NEW j \in Jobs, NEW h \in Holders
  PROVE  /\ Draws(j, h, "RESERVED") \in Nat /\ Draws(j, h, "COMMITTED") \in Nat
         /\ Given(j, h) \in Int /\ Purse(j, h) \in Int
         /\ Purse(j, h) = Given(j, h) - Draws(j, h, "RESERVED") - Draws(j, h, "COMMITTED")
<1>1. TypeOK /\ BooksBalance /\ jobs[j] \in Job
  BY DEF IInv, TypeOK
<1>2. Draws(j, h, "RESERVED") \in Nat /\ Draws(j, h, "COMMITTED") \in Nat
  BY <1>1, DrawsTyped, CentsFinite, IdsAssumption DEF TypeOK, Draws
<1>3. CASE h = None
  BY <1>1, <1>2, <1>3 DEF Purse, Given, Job
<1>4. CASE h \in Scopes /\ h # None
  <2>1. scopes[j][h] \in Scope
    BY <1>1, <1>4 DEF TypeOK
  <2>2. /\ scopes[j][h].reserved = Draws(j, h, "RESERVED")
        /\ scopes[j][h].committed = Draws(j, h, "COMMITTED")
    BY <1>1, <1>4 DEF BooksBalance, Draws
  <2>3. QED BY <1>2, <1>4, <2>1, <2>2 DEF Purse, Given, ScopeAvailable, Scope
<1>5. QED BY <1>3, <1>4 DEF Holders

LEMMA PursesHold == IInv => PursesAre
BY PurseIs DEF PursesAre

LEMMA PursesHoldNext == IInv' => PursesAre'
BY PursesHold, PTL

\* What the code lets a holder allocate or spend is in its purse: for a scope
\* that is the purse, for a job less, as its scopes' draws are taken off too.
LEMMA RemainingInPurse ==
  ASSUME IInv, NEW j \in Jobs, NEW h \in Holders
  PROVE  Remaining(j, h) \in Int /\ Remaining(j, h) <= Purse(j, h)
<1>1. TypeOK /\ BooksBalance /\ jobs[j] \in Job
  BY DEF IInv, TypeOK
<1>2. CASE h = None
  <2>1. ASSUME NEW st PROVE Draws(j, None, st) <= Total(Drawn(j, st))
    <3>1. Drawn(j, st) \in [Reservations -> Nat] /\ DrawnBy(j, None, st) \in [Reservations -> Nat]
      BY <1>1, DrawsTyped DEF TypeOK
    <3>2. \A r \in Reservations : DrawnBy(j, None, st)[r] <= Drawn(j, st)[r]
      BY <1>1 DEF TypeOK, Reservation, Drawn, DrawnBy
    <3>3. QED BY <3>1, <3>2, TotalMonotone, IdsAssumption DEF Draws
  <2>2. /\ Draws(j, None, "RESERVED") <= jobs[j].reserved
        /\ Draws(j, None, "COMMITTED") <= jobs[j].committed
    BY <1>1, <2>1 DEF BooksBalance
  <2>3. Draws(j, None, "RESERVED") \in Nat /\ Draws(j, None, "COMMITTED") \in Nat
    BY <1>2, PurseIs
  <2>4. QED BY <1>1, <1>2, <2>2, <2>3 DEF Remaining, JobAvailable, Purse, Job
<1>3. CASE h \in Scopes /\ h # None
  BY <1>3, AvailableTyped DEF Remaining, Purse, IInv
<1>4. QED BY <1>2, <1>3 DEF Holders

\* One purse changes.
ChangedBy(F, G, j, h, n) ==
  /\ F \in [Jobs -> [Holders -> Int]] /\ G \in [Jobs -> [Holders -> Int]]
  /\ \A k \in Jobs, g \in Holders :
       G[k][g] = F[k][g] + (IF k = j /\ g = h THEN n ELSE 0)

Raised(F, j, h, n) == [F EXCEPT ![j][h] = @ + n]
Lowered(F, j, h, n) == [F EXCEPT ![j][h] = @ - n]

LEMMA OneChanges ==
  ASSUME NEW F, NEW G, NEW j \in Jobs, NEW h \in Holders, NEW n \in Int,
         ChangedBy(F, G, j, h, n)
  PROVE  /\ G = Raised(F, j, h, n)
         /\ G = Lowered(F, j, h, -n)
         /\ n = 0 => G = F
<1>1. \A k \in Jobs : F[k] \in [Holders -> Int] /\ G[k] \in [Holders -> Int]
  BY DEF ChangedBy
<1>2. \A k \in Jobs, g \in Holders :
        /\ F[k][g] \in Int
        /\ G[k][g] = F[k][g] + (IF k = j /\ g = h THEN n ELSE 0)
  BY <1>1 DEF ChangedBy
<1>3. G[j] = [F[j] EXCEPT ![h] = @ + n]
  BY <1>1, <1>2
<1>4. \A k \in Jobs \ {j} : G[k] = F[k]
  <2> TAKE k \in Jobs \ {j}
  <2>1. \A g \in Holders : G[k][g] = F[k][g]
    BY <1>2
  <2>2. QED BY <1>1, <2>1
<1>5. F[j][h] + n = F[j][h] - (-n) /\ (n = 0 => F[j][h] + n = F[j][h])
  BY <1>2
<1>6. [F[j] EXCEPT ![h] = @ + n] = [F[j] EXCEPT ![h] = @ - (-n)]
  BY <1>5
<1>7. n = 0 => G[j] = F[j]
  BY <1>1, <1>3, <1>5
<1>8. F = [k \in Jobs |-> F[k]] /\ G = [k \in Jobs |-> G[k]]
  BY DEF ChangedBy
<1>9. G = [F EXCEPT ![j][h] = @ + n]
  BY <1>3, <1>4, <1>8
<1>10. G = [F EXCEPT ![j][h] = @ - (-n)]
  BY <1>3, <1>4, <1>6, <1>8
<1>11. n = 0 => G = F
  BY <1>4, <1>7, <1>8
<1>12. QED BY <1>9, <1>10, <1>11 DEF Raised, Lowered

LEMMA PursesTyped ==
  ASSUME IInv, IInv'
  PROVE  /\ Free \in [Jobs -> [Holders -> Int]] /\ Free' \in [Jobs -> [Holders -> Int]]
         /\ Pending \in [Jobs -> [Holders -> Int]] /\ Pending' \in [Jobs -> [Holders -> Int]]
         /\ Spent \in [Jobs -> [Holders -> Int]] /\ Spent' \in [Jobs -> [Holders -> Int]]
BY PursesHold, PursesHoldNext DEF PursesAre, Free, Pending, Spent

\* A step that ends or makes one reservation moves the draws of its holder.
LEMMA DrawsChange ==
  ASSUME TypeOK, TypeOK', NEW r \in Reservations,
         \A q \in Reservations \ {r} : reservations'[q] = reservations[q],
         NEW k \in Jobs, NEW h \in Holders, NEW st
  PROVE  /\ Draws(k, h, st)' = Draws(k, h, st) - DrawnBy(k, h, st)[r] + DrawnBy(k, h, st)'[r]
         /\ DrawnBy(k, h, st)[r] <= Draws(k, h, st)
<1>1. /\ DrawnBy(k, h, st) \in [Reservations -> Nat]
      /\ DrawnBy(k, h, st)' \in [Reservations -> Nat]
  BY DrawsTyped DEF TypeOK, DrawnBy, Reservation
<1>2. \A q \in Reservations \ {r} : DrawnBy(k, h, st)'[q] = DrawnBy(k, h, st)[q]
  BY DEF DrawnBy
<1>3. QED BY <1>1, <1>2, TotalChange, TotalBoundsOwner, IdsAssumption DEF Draws

\* Nothing but draws changed: the purses follow the draws.
DrawsAre(j, s, m, n) ==
  \A k \in Jobs, h \in Holders :
    /\ Given(k, h)' = Given(k, h)
    /\ Draws(k, h, "RESERVED")' = Draws(k, h, "RESERVED")
                                    + (IF k = j /\ h = s THEN m ELSE 0)
    /\ Draws(k, h, "COMMITTED")' = Draws(k, h, "COMMITTED")
                                    + (IF k = j /\ h = s THEN n ELSE 0)

LEMMA DrawMoves ==
  ASSUME IInv, IInv', NEW j \in Jobs, NEW s \in Holders, NEW m \in Int, NEW n \in Int,
         DrawsAre(j, s, m, n)
  PROVE  /\ Pending' = [Pending EXCEPT ![j][s] = @ + m]
         /\ Pending' = [Pending EXCEPT ![j][s] = @ - (-m)]
         /\ m = 0 => Pending' = Pending
         /\ Spent' = [Spent EXCEPT ![j][s] = @ + n]
         /\ n = 0 => Spent' = Spent
         /\ Free' = [Free EXCEPT ![j][s] = @ + (-m - n)]
         /\ Free' = [Free EXCEPT ![j][s] = @ - (-(-m - n))]
         /\ -m - n = 0 => Free' = Free
<1>1. PursesAre /\ PursesAre'
  BY PursesHold, PursesHoldNext
<1>2. ASSUME NEW k \in Jobs, NEW h \in Holders
      PROVE  Purse(k, h)' = Purse(k, h) + (IF k = j /\ h = s THEN -m - n ELSE 0)
  <2>1. Given(k, h) \in Int
    BY PurseIs
  <2>2. QED BY <1>1, <2>1 DEF PursesAre, DrawsAre
<1>3. ChangedBy(Pending, Pending', j, s, m)
  BY PursesTyped DEF ChangedBy, Pending, DrawsAre
<1>4. ChangedBy(Spent, Spent', j, s, n)
  BY PursesTyped DEF ChangedBy, Spent, DrawsAre
<1>5. ChangedBy(Free, Free', j, s, -m - n)
  BY <1>2, PursesTyped DEF ChangedBy, Free
<1>6. -m - n \in Int
  OBVIOUS
<1>7. /\ Pending' = Raised(Pending, j, s, m)
      /\ Pending' = Lowered(Pending, j, s, -m)
      /\ m = 0 => Pending' = Pending
  BY <1>3, OneChanges
<1>8. Spent' = Raised(Spent, j, s, n) /\ (n = 0 => Spent' = Spent)
  BY <1>4, OneChanges
<1>9. /\ Free' = Raised(Free, j, s, -m - n)
      /\ Free' = Lowered(Free, j, s, -(-m - n))
      /\ -m - n = 0 => Free' = Free
  BY <1>5, <1>6, OneChanges
<1>10. QED BY <1>7, <1>8, <1>9 DEF Raised, Lowered

\* reserve and meter take from the purse of whoever draws.
LEMMA DrawTakes ==
  ASSUME RefineInv, RefineInv', NEW j \in Jobs, NEW s \in Holders,
         NEW r \in Reservations, NEW n \in Amounts
  PROVE  /\ Reserve(j, s, r, n) => Authority!Take(j, s, n)
         /\ Meter(j, s, r, n) => Authority!TakeForGood(j, s, n)
<1> DEFINE st == IF Reserve(j, s, r, n) THEN "RESERVED" ELSE "COMMITTED"
<1> SUFFICES ASSUME Reserve(j, s, r, n) \/ Meter(j, s, r, n)
             PROVE  /\ Reserve(j, s, r, n) => Authority!Take(j, s, n)
                    /\ Meter(j, s, r, n) => Authority!TakeForGood(j, s, n)
  OBVIOUS
<1>1. IInv /\ IInv' /\ TypeOK /\ TypeOK' /\ n \in Nat /\ n \in Int
  BY AmountsAssumption DEF RefineInv, IInv
<1>0. SharesStay
  BY <1>1, DrawsKeepShares
<1>2. s \in Opened[j] /\ Opened' = Opened /\ n <= Free[j][s]
  <2>1. s \in Scopes \cup {None} /\ CanReserve(j, s, n)
    BY DEF Holders, Reserve, Meter
  <2>2. s \in Opened[j]
    BY <2>1 DEF Opened, CanReserve
  <2>3. /\ \A k \in Jobs : jobs'[k].state = jobs[k].state
        /\ \A k \in Jobs, t \in Scopes : scopes'[k][t].state = scopes[k][t].state
    BY <1>0 DEF SharesStay
  <2>4. Opened' = Opened
    BY <2>3 DEF Opened, IsOpen, HasScope
  <2>5. n <= Free[j][s]
    BY <1>1, <2>1, RemainingInPurse, PurseIs DEF CanReserve, Free
  <2>6. QED BY <2>2, <2>4, <2>5
<1>3. ASSUME NEW k \in Jobs, NEW h \in Holders PROVE Given(k, h)' = Given(k, h)
  BY <1>0 DEF Given, Holders, SharesStay
<1>4. /\ reservations[r].state = "NONE"
      /\ \A q \in Reservations \ {r} : reservations'[q] = reservations[q]
      /\ Reserve(j, s, r, n) =>
           reservations'[r] = [state |-> "RESERVED", job |-> j, scope |-> s, amount |-> n]
      /\ Meter(j, s, r, n) =>
           reservations'[r] = [state |-> "COMMITTED", job |-> j, scope |-> s, amount |-> n]
  BY <1>1 DEF Reserve, Meter, TypeOK
<1>5. ASSUME NEW k \in Jobs, NEW h \in Holders, NEW t \in {"RESERVED", "COMMITTED"}
      PROVE  /\ Draws(k, h, t) \in Nat
             /\ Draws(k, h, t)' = Draws(k, h, t) + DrawnBy(k, h, t)'[r]
  <2>1. Draws(k, h, t) \in Nat
    BY <1>1, PurseIs
  <2>2. DrawnBy(k, h, t)[r] = 0
    BY <1>4 DEF DrawnBy
  <2>3. QED BY <1>1, <1>4, <2>1, <2>2, DrawsChange
<1>6. CASE Reserve(j, s, r, n)
  <2>1. ASSUME NEW k \in Jobs, NEW h \in Holders
        PROVE  /\ DrawnBy(k, h, "RESERVED")'[r] = (IF k = j /\ h = s THEN n ELSE 0)
               /\ DrawnBy(k, h, "COMMITTED")'[r] = 0
    BY <1>4, <1>6 DEF DrawnBy
  <2>2. DrawsAre(j, s, n, 0)
    BY <1>3, <1>5, <2>1 DEF DrawsAre
  <2>3. /\ Pending' = [Pending EXCEPT ![j][s] = @ + n]
        /\ Spent' = Spent
        /\ Free' = [Free EXCEPT ![j][s] = @ - (-(-n - 0))]
    BY <1>1, <2>2, DrawMoves
  <2>4. -(-n - 0) = n
    BY <1>1
  <2>5. Authority!Take(j, s, n)
    BY <1>2, <2>3, <2>4 DEF Authority!Take
  <2>6. ~Meter(j, s, r, n)
    BY <1>4, <1>6
  <2>7. QED BY <2>5, <2>6
<1>7. CASE Meter(j, s, r, n)
  <2>1. ASSUME NEW k \in Jobs, NEW h \in Holders
        PROVE  /\ DrawnBy(k, h, "COMMITTED")'[r] = (IF k = j /\ h = s THEN n ELSE 0)
               /\ DrawnBy(k, h, "RESERVED")'[r] = 0
    BY <1>4, <1>7 DEF DrawnBy
  <2>2. DrawsAre(j, s, 0, n)
    BY <1>3, <1>5, <2>1 DEF DrawsAre
  <2>3. /\ Spent' = [Spent EXCEPT ![j][s] = @ + n]
        /\ Pending' = Pending
        /\ Free' = [Free EXCEPT ![j][s] = @ - (-(-0 - n))]
    BY <1>1, <2>2, DrawMoves
  <2>4. -(-0 - n) = n
    BY <1>1
  <2>5. Authority!TakeForGood(j, s, n)
    BY <1>2, <2>3, <2>4 DEF Authority!TakeForGood
  <2>6. ~Reserve(j, s, r, n)
    BY <1>4, <1>7
  <2>7. QED BY <2>5, <2>6
<1>8. QED BY <1>6, <1>7

\* commit and release end what is pending at whoever drew it.
LEMMA EndSettles ==
  ASSUME RefineInv, RefineInv', NEW r \in Reservations
  PROVE  /\ Commit(r) => \E j \in Jobs, h \in Holders, n \in Amounts : Authority!Settle(j, h, n)
         /\ Release(r) => \E j \in Jobs, h \in Holders, n \in Amounts : Authority!GiveBack(j, h, n)
<1> DEFINE j == reservations[r].job
           s == reservations[r].scope
           n == reservations[r].amount
<1> SUFFICES ASSUME Commit(r) \/ Release(r)
             PROVE  /\ Commit(r) => Authority!Settle(j, s, n)
                    /\ Release(r) => Authority!GiveBack(j, s, n)
                    /\ j \in Jobs /\ s \in Holders /\ n \in Amounts
  OBVIOUS
<1>1. IInv /\ IInv' /\ TypeOK /\ TypeOK' /\ reservations[r].state = "RESERVED"
  BY DEF RefineInv, IInv, Commit, Release
<1>2. j \in Jobs /\ s \in Holders /\ n \in Amounts /\ n \in Nat
  BY <1>1, AmountsAssumption DEF RefineInv, IInv, Placed, TypeOK, Reservation, Holders
<1>3. /\ \A q \in Reservations \ {r} : reservations'[q] = reservations[q]
      /\ Commit(r) => reservations'[r] = [reservations[r] EXCEPT !.state = "COMMITTED"]
      /\ Release(r) => reservations'[r] = [reservations[r] EXCEPT !.state = "RELEASED"]
  BY <1>1 DEF Commit, Release, TypeOK
<1>4. SharesStay
  BY <1>1, EndsKeepShares
<1>5. reservations[r] \in Reservation /\ reservations[r].job = j
        /\ reservations[r].scope = s /\ reservations[r].amount = n
  BY <1>1 DEF TypeOK
<1> HIDE DEF j, s, n
<1>7. Opened' = Opened
  BY <1>4 DEF Opened, IsOpen, HasScope, SharesStay
<1>8. ASSUME NEW k \in Jobs, NEW h \in Holders PROVE Given(k, h)' = Given(k, h)
  BY <1>4, <1>8 DEF Given, Holders, SharesStay
<1>9. ASSUME NEW k \in Jobs, NEW h \in Holders
      PROVE  /\ DrawnBy(k, h, "RESERVED")[r] = (IF k = j /\ h = s THEN n ELSE 0)
             /\ DrawnBy(k, h, "COMMITTED")[r] = 0
             /\ DrawnBy(k, h, "RESERVED")'[r] = 0
             /\ DrawnBy(k, h, "COMMITTED")'[r] =
                  (IF Commit(r) /\ k = j /\ h = s THEN n ELSE 0)
  <2>1. CASE Commit(r)
    BY <1>1, <1>3, <1>5, <2>1 DEF DrawnBy, Reservation
  <2>2. CASE Release(r) /\ ~Commit(r)
    BY <1>1, <1>3, <1>5, <2>2 DEF DrawnBy, Reservation
  <2>3. QED BY <2>1, <2>2
<1>10. n <= Pending[j][s]
  <2>1. DrawnBy(j, s, "RESERVED")[r] <= Draws(j, s, "RESERVED")
    BY <1>1, <1>2, <1>3, DrawsChange
  <2>2. QED BY <1>2, <1>9, <2>1 DEF Pending
<1>11. ASSUME NEW k \in Jobs, NEW h \in Holders
       PROVE  /\ Draws(k, h, "RESERVED") \in Nat /\ Draws(k, h, "COMMITTED") \in Nat
              /\ Draws(k, h, "RESERVED")' = Draws(k, h, "RESERVED")
                                              + (IF k = j /\ h = s THEN -n ELSE 0)
              /\ Draws(k, h, "COMMITTED")' = Draws(k, h, "COMMITTED")
                                              + (IF Commit(r) /\ k = j /\ h = s THEN n ELSE 0)
  <2>1. Draws(k, h, "RESERVED") \in Nat /\ Draws(k, h, "COMMITTED") \in Nat
    BY <1>1, PurseIs
  <2>2. /\ Draws(k, h, "RESERVED")' = Draws(k, h, "RESERVED")
             - DrawnBy(k, h, "RESERVED")[r] + DrawnBy(k, h, "RESERVED")'[r]
        /\ Draws(k, h, "COMMITTED")' = Draws(k, h, "COMMITTED")
             - DrawnBy(k, h, "COMMITTED")[r] + DrawnBy(k, h, "COMMITTED")'[r]
    BY <1>1, <1>3, DrawsChange
  <2>3. QED BY <1>2, <1>9, <2>1, <2>2
<1>12. n \in Int /\ -n \in Int /\ -(-n) = n /\ -(-n) - n = 0 /\ -(-n) - 0 = n
  BY <1>2
<1>13. ASSUME Commit(r) PROVE Authority!Settle(j, s, n)
  <2>1. DrawsAre(j, s, -n, n)
    BY <1>8, <1>11, <1>13 DEF DrawsAre
  <2>2. /\ Pending' = [Pending EXCEPT ![j][s] = @ - (-(-n))]
        /\ Spent' = [Spent EXCEPT ![j][s] = @ + n]
        /\ Free' = Free
    BY <1>1, <1>2, <1>12, <2>1, DrawMoves
  <2>3. QED BY <1>7, <1>10, <1>12, <2>2 DEF Authority!Settle
<1>14. ASSUME Release(r) PROVE Authority!GiveBack(j, s, n)
  <2>1. ~Commit(r)
    BY <1>1, <1>3, <1>5, <1>14 DEF Reservation
  <2>2. DrawsAre(j, s, -n, 0)
    BY <1>8, <1>11, <2>1 DEF DrawsAre
  <2>3. /\ Pending' = [Pending EXCEPT ![j][s] = @ - (-(-n))]
        /\ Spent' = Spent
        /\ Free' = [Free EXCEPT ![j][s] = @ + (-(-n) - 0)]
    BY <1>1, <1>2, <1>12, <2>2, DrawMoves
  <2>4. QED BY <1>7, <1>10, <1>12, <2>3 DEF Authority!GiveBack
<1>15. QED BY <1>2, <1>13, <1>14

LEMMA DrawsStay ==
  ASSUME UNCHANGED reservations
  PROVE  /\ Pending' = Pending /\ Spent' = Spent
         /\ \A j \in Jobs, h \in Holders, st \in {"RESERVED", "COMMITTED"} :
              Draws(j, h, st)' = Draws(j, h, st)
BY DEF Pending, Spent, Draws, DrawnBy

\* openScope fills the new purse from the one above it.
LEMMA OpenCarves ==
  ASSUME RefineInv, RefineInv', NEW j \in Jobs, NEW s \in Scopes, NEW n \in Amounts
  PROVE  /\ OpenRootScope(j, s, n) => Authority!Carve(j, None, s, n)
         /\ \A p \in Scopes : OpenSubScope(j, s, p, n) => Authority!Carve(j, p, s, n)
<1> DEFINE OpensFrom(p) == IF p = None THEN OpenRootScope(j, s, n) ELSE OpenSubScope(j, s, p, n)
<1>1. ASSUME NEW p \in Holders, OpensFrom(p) PROVE Authority!Carve(j, p, s, n)
  <2>1. IInv /\ IInv' /\ TypeOK /\ TypeOK' /\ n \in Nat /\ s # None /\ UNCHANGED reservations
    BY <1>1, AmountsAssumption, IdsAssumption DEF RefineInv, IInv, OpenRootScope, OpenSubScope
  <2>2. IsOpen(j) /\ ~HasScope(j, s) /\ (p # None => HasScope(j, p)) /\ n <= Remaining(j, p)
    BY <1>1 DEF OpenRootScope, OpenSubScope, Remaining
  <2>3. p \in Opened[j] /\ s \notin Opened[j] /\ p # s
    BY <2>1, <2>2 DEF Opened, Holders
  <2>4. n <= Free[j][p]
    BY <2>1, <2>2, RemainingInPurse, PurseIs DEF Free
  <2>5. /\ p = None => /\ jobs' = [jobs EXCEPT ![j].childShares = @ + n]
                       /\ scopes' = [scopes EXCEPT ![j][s] = NewScope(None, n)]
        /\ p # None => /\ jobs' = jobs
                       /\ scopes' = [scopes EXCEPT ![j][p].childShares = @ + n,
                                                   ![j][s] = NewScope(p, n)]
    BY <1>1 DEF OpenRootScope, OpenSubScope
  <2>6. /\ NewScope(p, n).state = "OPEN" /\ NewScope(p, n).share = n
        /\ NewScope(p, n).childShares = 0 /\ NewScope(p, n) \in Scope
    BY <2>1, NewScopeFields DEF Holders
  <2>7. /\ \A k \in Jobs : jobs'[k].state = jobs[k].state
        /\ \A k \in Jobs, t \in Scopes :
             scopes'[k][t].state = (IF k = j /\ t = s THEN "OPEN" ELSE scopes[k][t].state)
    <3>1. jobs \in [Jobs -> Job] /\ scopes \in [Jobs -> [Scopes -> Scope]]
      BY <2>1 DEF TypeOK
    <3>2. CASE p = None
      BY <2>5, <2>6, <3>1, <3>2 DEF Job, Scope
    <3>3. CASE p # None
      BY <2>3, <2>5, <2>6, <3>1, <3>3 DEF Scope
    <3>4. QED BY <3>2, <3>3
  <2>8. Opened' = [Opened EXCEPT ![j] = @ \cup {s}]
    <3>1. ASSUME NEW k \in Jobs
          PROVE  Opened'[k] = IF k = j THEN Opened[k] \cup {s} ELSE Opened[k]
      BY <2>2, <2>7 DEF Opened, IsOpen, HasScope
    <3>2. Opened = [k \in Jobs |-> Opened[k]] /\ Opened' = [k \in Jobs |-> Opened'[k]]
      BY DEF Opened
    <3>3. QED BY <3>1, <3>2
  <2>9. scopes[j][s].share = 0 /\ scopes[j][s].childShares = 0
    BY <2>1, <2>2, FreshScope
  <2>10. ASSUME NEW k \in Jobs, NEW h \in Holders
         PROVE  /\ Given(k, h) \in Int
                /\ Given(k, h)' = IF k = j /\ h = p THEN Given(k, h) - n
                                  ELSE IF k = j /\ h = s THEN n ELSE Given(k, h)
    <3>1. Given(k, h) \in Int
      BY <2>1, PurseIs
    <3>2. CASE p = None
      <4>1. CASE h = None
        <5>1. jobs \in [Jobs -> Job] /\ jobs' = [jobs EXCEPT ![j].childShares = @ + n]
          BY <2>1, <2>5, <3>2 DEF TypeOK
        <5>2. /\ jobs'[k].ceiling = jobs[k].ceiling
              /\ jobs'[k].childShares = IF k = j THEN jobs[k].childShares + n
                                        ELSE jobs[k].childShares
              /\ jobs[k].ceiling \in Int /\ jobs[k].childShares \in Int
          BY <5>1 DEF Job
        <5>3. QED BY <2>1, <3>2, <4>1, <5>2 DEF Given
      <4>2. CASE h # None
        BY <2>1, <2>5, <2>6, <3>1, <3>2, <4>2 DEF Given, Holders, TypeOK
      <4>3. QED BY <4>1, <4>2
    <3>3. CASE p # None
      <4>1. CASE h = None
        BY <2>1, <2>5, <3>1, <3>3, <4>1 DEF Given
      <4>2. CASE h # None
        BY <2>1, <2>3, <2>5, <2>6, <3>1, <3>3, <4>2 DEF Given, Holders, TypeOK, Scope
      <4>3. QED BY <4>1, <4>2
    <3>4. QED BY <3>1, <3>2, <3>3
  <2>11. Draws(j, s, "RESERVED") = 0 /\ Draws(j, s, "COMMITTED") = 0
    <3>1. scopes[j][s].reserved = 0 /\ scopes[j][s].committed = 0
      BY <2>1, <2>2, FreshScope
    <3>2. QED BY <2>1, <3>1 DEF IInv, BooksBalance, Draws
  <2>12. ASSUME NEW k \in Jobs, NEW h \in Holders
         PROVE  Purse(k, h)' = IF k = j /\ h = p THEN Purse(k, h) - n
                               ELSE IF k = j /\ h = s THEN n ELSE Purse(k, h)
    <3>1. PursesAre /\ PursesAre'
      BY <2>1, PursesHold, PursesHoldNext
    <3>2. /\ Draws(k, h, "RESERVED")' = Draws(k, h, "RESERVED")
          /\ Draws(k, h, "COMMITTED")' = Draws(k, h, "COMMITTED")
      BY <2>1, DrawsStay
    <3>3. QED BY <2>1, <2>10, <2>11, <3>1, <3>2 DEF PursesAre
  <2>13. Free' = [Free EXCEPT ![j][p] = @ - n, ![j][s] = n]
    <3>1. s \in Holders
      BY DEF Holders
    <3>2. QED BY <2>3, <2>12, <3>1 DEF Free
  <2>14. Pending' = Pending /\ Spent' = Spent
    BY <2>1, DrawsStay
  <2>15. QED BY <2>3, <2>4, <2>8, <2>13, <2>14 DEF Authority!Carve
<1>2. None \in Holders /\ Scopes \subseteq Holders /\ None \notin Scopes
  BY IdsAssumption DEF Holders
<1>3. QED BY <1>1, <1>2

\* A job that had nothing is given a ceiling, and maybe something is locked.
Funds(j, c) ==
  /\ ~IsOpen(j) /\ IsOpen(j)'
  /\ jobs'[j].ceiling = c /\ jobs'[j].childShares = jobs[j].childShares
  /\ \A k \in Jobs \ {j} : jobs'[k] = jobs[k]
  /\ UNCHANGED <<scopes, reservations>>

\* Whoever opens a job funds it.
LEMMA OpeningFunds ==
  ASSUME RefineInv, RefineInv', NEW j \in Jobs, NEW c \in Ceilings, Funds(j, c)
  PROVE  Authority!Fund(j, c)
<1>1. IInv /\ IInv' /\ TypeOK /\ TypeOK' /\ c \in Nat /\ UNCHANGED <<scopes, reservations>>
  BY AmountsAssumption DEF RefineInv, IInv, Funds
<1>2. /\ ~IsOpen(j) /\ IsOpen(j)' /\ jobs'[j].ceiling = c /\ jobs'[j].childShares = jobs[j].childShares
      /\ \A k \in Jobs \ {j} : jobs'[k] = jobs[k]
  BY DEF Funds
<1>3. \A s \in Scopes : ~HasScope(j, s)
  BY <1>2 DEF RefineInv
<1>4. Opened[j] = {}
  BY <1>2 DEF Opened
<1>5. Opened' = [Opened EXCEPT ![j] = {None}]
  <2>1. ASSUME NEW k \in Jobs PROVE Opened'[k] = IF k = j THEN {None} ELSE Opened[k]
    <3>1. IsOpen(k)' <=> (k = j \/ IsOpen(k))
      BY <1>2 DEF IsOpen
    <3>2. \A s \in Scopes : HasScope(k, s)' <=> HasScope(k, s)
      BY <1>1 DEF HasScope
    <3>3. QED BY <1>3, <3>1, <3>2 DEF Opened
  <2>2. Opened = [k \in Jobs |-> Opened[k]] /\ Opened' = [k \in Jobs |-> Opened'[k]]
    BY DEF Opened
  <2>3. QED BY <2>1, <2>2
<1>6. jobs[j].ceiling = 0 /\ jobs[j].childShares = 0
  <2>1. jobs[j].ceiling = 0
    BY <1>1, <1>2 DEF IInv, Placed, IsOpen
  <2>2. \A s \in Scopes : SharesUnder(j, None)[s] = 0
    BY <1>3 DEF SharesUnder
  <2>3. Total(SharesUnder(j, None)) = 0
    BY <1>1, <2>2, SharesUnderTyped, TotalZero, IdsAssumption
  <2>4. QED BY <1>1, <2>1, <2>3 DEF IInv, SharesCarved
<1>7. None \in Holders
  BY DEF Holders
<1>8. Draws(j, None, "RESERVED") = 0 /\ Draws(j, None, "COMMITTED") = 0
  <2>1. jobs[j].reserved + jobs[j].committed + ScopesFree(j) <= 0 /\ jobs[j] \in Job
    BY <1>1, <1>6 DEF IInv, OneCeiling, TypeOK
  <2>2. ScopesFree(j) \in Nat
    BY <1>1, FamiliesTyped, CentsFinite, IdsAssumption DEF ScopesFree, IInv
  <2>3. jobs[j].reserved = 0 /\ jobs[j].committed = 0
    BY <2>1, <2>2 DEF Job
  <2>4. Remaining(j, None) = 0
    BY <1>6, <2>3 DEF Remaining, JobAvailable
  <2>5. 0 <= Purse(j, None)
    BY <1>1, <1>7, <2>4, RemainingInPurse
  <2>6. Given(j, None) = 0
    BY <1>6 DEF Given
  <2>7. QED BY <1>1, <1>7, <2>5, <2>6, PurseIs
<1>9. ASSUME NEW k \in Jobs, NEW h \in Holders
      PROVE  Purse(k, h)' = IF k = j /\ h = None THEN c ELSE Purse(k, h)
  <2>1. /\ Draws(k, h, "RESERVED")' = Draws(k, h, "RESERVED")
        /\ Draws(k, h, "COMMITTED")' = Draws(k, h, "COMMITTED")
    BY <1>1, DrawsStay
  <2>2. Given(k, h)' = IF k = j /\ h = None THEN c ELSE Given(k, h)
    BY <1>1, <1>2, <1>6 DEF Given
  <2>3. PursesAre /\ PursesAre'
    BY <1>1, PursesHold, PursesHoldNext
  <2>4. QED BY <1>1, <1>8, <2>1, <2>2, <2>3 DEF PursesAre
<1>10. Free' = [Free EXCEPT ![j][None] = c]
  BY <1>7, <1>9 DEF Free
<1>11. Pending' = Pending /\ Spent' = Spent
  BY <1>1, DrawsStay
<1>12. QED BY <1>4, <1>5, <1>10, <1>11 DEF Authority!Fund

LEMMA OpenFunds ==
  ASSUME RefineInv, RefineInv', NEW j \in Jobs, NEW c \in Ceilings, OpenJob(j, c)
  PROVE  Authority!Fund(j, c)
<1>1. jobs \in [Jobs -> Job] /\ jobs' = [jobs EXCEPT ![j].state = "OPEN", ![j].ceiling = c]
  BY DEF RefineInv, IInv, TypeOK, OpenJob
<1>2. Funds(j, c)
  BY <1>1 DEF Funds, OpenJob, IsOpen, Job
<1> QED BY <1>2, OpeningFunds

\* The escrow half leaves the purses alone.
LEMMA EscrowStutters ==
  ASSUME TypeOK, NEW j \in Jobs, NEW to \in Dispositions, NEW n,
         Hold(j, n) \/ Dispose(j, to, n)
  PROVE  UNCHANGED <<Opened, Free, Pending, Spent>>
<1>1. UNCHANGED <<scopes, reservations>>
  BY DEF Hold, Dispose
<1>2. \A k \in Jobs : /\ IsOpen(k)' <=> IsOpen(k)
                      /\ jobs'[k].ceiling = jobs[k].ceiling
                      /\ jobs'[k].childShares = jobs[k].childShares
  <2> TAKE k \in Jobs
  <2>1. jobs \in [Jobs -> Job] /\ IsOpen(j)
    BY DEF TypeOK, Hold, Dispose
  <2>2. CASE Hold(j, n)
    BY <2>1, <2>2 DEF Hold, IsOpen, Job
  <2>3. CASE Dispose(j, to, n)
    <3> DEFINE st == IF n = jobs[j].held THEN to ELSE jobs[j].state
    <3>1. st # "NONE"
      BY <2>1 DEF Dispositions, IsOpen
    <3>2. /\ jobs'[k].state = (IF k = j THEN st ELSE jobs[k].state)
          /\ jobs'[k].ceiling = jobs[k].ceiling
          /\ jobs'[k].childShares = jobs[k].childShares
      BY <2>1, <2>3 DEF Dispose, Job
    <3>3. QED BY <2>1, <3>1, <3>2 DEF IsOpen
  <2>4. QED BY <2>2, <2>3
<1>3. Pending' = Pending /\ Spent' = Spent
      /\ \A k \in Jobs, h \in Holders, st \in {"RESERVED", "COMMITTED"} :
           Draws(k, h, st)' = Draws(k, h, st)
  BY <1>1, DrawsStay
<1>4. \A k \in Jobs, h \in Holders : Purse(k, h)' = Purse(k, h)
  BY <1>1, <1>2, <1>3 DEF Purse, ScopeAvailable
<1>5. Free' = Free
  BY <1>4 DEF Free
<1>6. Opened' = Opened
  BY <1>1, <1>2 DEF Opened, HasScope
<1>7. QED BY <1>3, <1>5, <1>6

\* At the start nothing is funded.
LEMMA InitPurses == Init => Authority!Init
<1> SUFFICES ASSUME Init PROVE Authority!Init
  OBVIOUS
<1>1. IInv /\ TypeOK /\ BooksBalance
  BY InitInv DEF IInv
<1>2. \A j \in Jobs, h \in Holders : Draws(j, h, "RESERVED") = 0 /\ Draws(j, h, "COMMITTED") = 0
  <2> SUFFICES ASSUME NEW j \in Jobs, NEW h \in Holders, NEW st \in {"RESERVED", "COMMITTED"}
               PROVE  Draws(j, h, st) = 0
    OBVIOUS
  <2>1. \A r \in Reservations : DrawnBy(j, h, st)[r] = 0
    BY DEF Init, DrawnBy
  <2>2. QED BY <1>1, <2>1, DrawsTyped, TotalZero, IdsAssumption DEF Draws, TypeOK
<1>3. \A j \in Jobs, h \in Holders : Given(j, h) = 0
  BY DEF Init, Given, Holders
<1>4. \A j \in Jobs, h \in Holders : Purse(j, h) = 0
  BY <1>1, <1>2, <1>3, PurseIs
<1>5. Opened = [j \in Jobs |-> {}]
  BY DEF Init, Opened, IsOpen
<1>6. QED BY <1>2, <1>4, <1>5 DEF Authority!Init, Authority!Empty, Free, Pending, Spent

\* Every call of the ledger is a step of the purses, or leaves them alone.
LEMMA StepOfPurses ==
  RefineInv /\ RefineInv' /\ [Next]_vars => [Authority!Next]_<<Opened, Free, Pending, Spent>>
<1> SUFFICES ASSUME RefineInv, RefineInv', [Next]_vars
             PROVE  Authority!Next \/ UNCHANGED <<Opened, Free, Pending, Spent>>
  OBVIOUS
<1>1. CASE UNCHANGED vars
  <2>1. \A k \in Jobs, h \in Holders : Purse(k, h)' = Purse(k, h)
    BY <1>1 DEF vars, Purse, ScopeAvailable, Draws, DrawnBy
  <2>2. QED BY <1>1, <2>1, DrawsStay DEF vars, Opened, Free, IsOpen, HasScope
<1>2. ASSUME NEW j \in Jobs, NEW c \in Ceilings, OpenJob(j, c) PROVE Authority!Next
  BY <1>2, OpenFunds DEF Authority!Next
<1>3. ASSUME NEW j \in Jobs, NEW s \in Scopes, NEW n \in Amounts, OpenRootScope(j, s, n)
      PROVE  Authority!Next
  BY <1>3, OpenCarves DEF Authority!Next, Holders
<1>4. ASSUME NEW j \in Jobs, NEW s \in Scopes, NEW p \in Scopes, NEW n \in Amounts,
             OpenSubScope(j, s, p, n)
      PROVE  Authority!Next
  BY <1>4, OpenCarves DEF Authority!Next, Holders
<1>5. ASSUME NEW j \in Jobs, NEW s \in Scopes \cup {None}, NEW r \in Reservations,
             NEW n \in Amounts, Reserve(j, s, r, n) \/ Meter(j, s, r, n)
      PROVE  Authority!Next
  BY <1>5, DrawTakes DEF Authority!Next, Holders
<1>6. ASSUME NEW r \in Reservations, Commit(r) \/ Release(r) PROVE Authority!Next
  BY <1>6, EndSettles DEF Authority!Next
<1>7. ASSUME NEW j \in Jobs, NEW n \in Amounts, Hold(j, n)
      PROVE  UNCHANGED <<Opened, Free, Pending, Spent>>
  <2>1. "RELEASED" \in Dispositions
    BY DEF Dispositions
  <2>2. QED BY <1>7, <2>1, EscrowStutters DEF RefineInv, IInv
<1>8. ASSUME NEW j \in Jobs, NEW to \in Dispositions, NEW n, Dispose(j, to, n)
      PROVE  UNCHANGED <<Opened, Free, Pending, Spent>>
  BY <1>8, EscrowStutters DEF RefineInv, IInv
<1>9. QED BY <1>1, <1>2, <1>3, <1>4, <1>5, <1>6, <1>7, <1>8 DEF Next, DisposeAll

\* The ledger implements the spend authority: whatever the order of calls, no
\* cent is drawn that the purse of its holder does not have, and none moves
\* but into the purse of a new sub-agent or back where it came from.
THEOREM LedgerImplements == Spec => ImplementsAuthority
<1> QED BY InitPurses, StepOfPurses, RefineInitInv, RefineNextInv, PTL
        DEF Spec, ImplementsAuthority, Authority!Spec, Authority!vars
=============================================================================
