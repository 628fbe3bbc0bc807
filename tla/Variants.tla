------------------------------ MODULE Variants ------------------------------
(***************************************************************************)
(* Records that differ from a plain one in a few fields.  A pure function  *)
(* of many inputs goes wrong in the way some of them combine: every choice *)
(* of at most n odd fields covers that without the product of them all.    *)
(***************************************************************************)
EXTENDS Naturals

\* The changes of a record: a field, and what it becomes.
Changes(other) == UNION {{f} \X other[f] : f \in DOMAIN other}

\* plain after n changes: of two changes of a field, one counts.
Changed(plain, cs, n) ==
  [f \in DOMAIN plain |->
     LET own == {i \in 1..n : cs[i][1] = f}
     IN  IF own = {} THEN plain[f] ELSE cs[CHOOSE i \in own : TRUE][2]]

\* plain, and what it becomes when at most n fields f take a value of other[f].
AllBut(plain, other, n) ==
  {plain} \cup {Changed(plain, cs, n) : cs \in [1..n -> Changes(other)]}

-----------------------------------------------------------------------------
\* A variant has the fields of the plain record, and in each the plain value or
\* one that the field may take instead.
LEMMA VariantFields ==
  ASSUME NEW plain, NEW other, NEW n, NEW k \in AllBut(plain, other, n), plain = [f \in DOMAIN plain |-> plain[f]]
  PROVE  /\ k = [f \in DOMAIN plain |-> k[f]]
         /\ \A f \in DOMAIN plain : k[f] = plain[f] \/ (f \in DOMAIN other /\ k[f] \in other[f])
<1>1. CASE k = plain
  BY <1>1
<1>2. ASSUME NEW cs \in [1..n -> Changes(other)], k = Changed(plain, cs, n)
      PROVE  /\ k = [f \in DOMAIN plain |-> k[f]]
             /\ \A f \in DOMAIN plain : k[f] = plain[f] \/ (f \in DOMAIN other /\ k[f] \in other[f])
  <2>1. k = [f \in DOMAIN plain |->
               LET own == {i \in 1..n : cs[i][1] = f}
               IN  IF own = {} THEN plain[f] ELSE cs[CHOOSE i \in own : TRUE][2]]
    BY <1>2 DEF Changed
  <2>2. ASSUME NEW f \in DOMAIN plain PROVE k[f] = plain[f] \/ (f \in DOMAIN other /\ k[f] \in other[f])
    <3> DEFINE own == {i \in 1..n : cs[i][1] = f}
    <3>1. CASE own = {}
      BY <2>1, <3>1
    <3>2. CASE own # {}
      <4>1. PICK i \in own : k[f] = cs[i][2]
        BY <2>1, <3>2
      <4>2. cs[i][1] = f /\ cs[i] \in Changes(other)
        OBVIOUS
      <4>3. PICK g \in DOMAIN other : cs[i] \in {g} \X other[g]
        BY <4>2 DEF Changes
      <4>4. g = f /\ cs[i][2] \in other[g]
        BY <4>2, <4>3
      <4> QED BY <4>1, <4>4
    <3> QED BY <3>1, <3>2
  <2> QED BY <2>1, <2>2
<1> QED BY <1>1, <1>2 DEF AllBut
=============================================================================
