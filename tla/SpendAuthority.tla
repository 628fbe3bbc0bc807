--------------------------- MODULE SpendAuthority ---------------------------
(***************************************************************************)
(* What the budget ledger promises, without its records: every job has     *)
(* purses, one of its own and one per sub-agent.  Money enters a job once, *)
(* when it is opened; it moves from a purse to the purse of a new          *)
(* sub-agent, and a cost takes it out of exactly one purse, for good or    *)
(* until it is given back to the purse it came from.                       *)
(***************************************************************************)
EXTENDS Integers

CONSTANTS
  Jobs,
  Holders,   \* whoever has a purse: the sub-agents and Root, the job itself
  Root,
  Ceilings,
  Amounts

VARIABLES
  opened,   \* per job, the holders that have a purse
  free,     \* per job and holder, what the purse holds
  pending,  \* what was taken from the purse and may come back
  spent     \* what was taken from the purse for good

vars == <<opened, free, pending, spent>>

Empty == [j \in Jobs |-> [h \in Holders |-> 0]]

Init ==
  /\ opened = [j \in Jobs |-> {}]
  /\ free = Empty /\ pending = Empty /\ spent = Empty

\* A job is funded once, with its ceiling.
Fund(j, c) ==
  /\ opened[j] = {}
  /\ opened' = [opened EXCEPT ![j] = {Root}]
  /\ free' = [free EXCEPT ![j][Root] = c]
  /\ UNCHANGED <<pending, spent>>

\* The purse of a new sub-agent is filled from one existing purse.
Carve(j, h, new, n) ==
  /\ h \in opened[j] /\ new \notin opened[j] /\ opened[j] # {}
  /\ n <= free[j][h]
  /\ opened' = [opened EXCEPT ![j] = @ \cup {new}]
  /\ free' = [free EXCEPT ![j][h] = @ - n, ![j][new] = n]
  /\ UNCHANGED <<pending, spent>>

Take(j, h, n) ==
  /\ h \in opened[j] /\ n <= free[j][h]
  /\ free' = [free EXCEPT ![j][h] = @ - n]
  /\ pending' = [pending EXCEPT ![j][h] = @ + n]
  /\ UNCHANGED <<opened, spent>>

TakeForGood(j, h, n) ==
  /\ h \in opened[j] /\ n <= free[j][h]
  /\ free' = [free EXCEPT ![j][h] = @ - n]
  /\ spent' = [spent EXCEPT ![j][h] = @ + n]
  /\ UNCHANGED <<opened, pending>>

Settle(j, h, n) ==
  /\ n <= pending[j][h]
  /\ pending' = [pending EXCEPT ![j][h] = @ - n]
  /\ spent' = [spent EXCEPT ![j][h] = @ + n]
  /\ UNCHANGED <<opened, free>>

GiveBack(j, h, n) ==
  /\ n <= pending[j][h]
  /\ pending' = [pending EXCEPT ![j][h] = @ - n]
  /\ free' = [free EXCEPT ![j][h] = @ + n]
  /\ UNCHANGED <<opened, spent>>

Next ==
  \/ \E j \in Jobs, c \in Ceilings : Fund(j, c)
  \/ \E j \in Jobs, h, new \in Holders, n \in Amounts : Carve(j, h, new, n)
  \/ \E j \in Jobs, h \in Holders, n \in Amounts :
       \/ Take(j, h, n) \/ TakeForGood(j, h, n)
       \/ Settle(j, h, n) \/ GiveBack(j, h, n)

Spec == Init /\ [][Next]_vars
=============================================================================
