----------------------------- MODULE WriteOnce -----------------------------
(***************************************************************************)
(* What every evidence registry of the repository promises: an id is given *)
(* a value at most once, and keeps it.                                     *)
(***************************************************************************)
CONSTANTS Ids, Values, Unset

VARIABLE store

Init == store = [id \in Ids |-> Unset]

\* One transaction may write several ids.
Write ==
  /\ store' \in [Ids -> Values \cup {Unset}]
  /\ \A id \in Ids : store[id] # Unset => store'[id] = store[id]

Spec == Init /\ [][Write]_store
=============================================================================
