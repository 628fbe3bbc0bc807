-------------------------- MODULE CommitmentAnchor --------------------------
(***************************************************************************)
(* The Soroban contract soroban/commitment-anchor/src/lib.rs               *)
(* (CG-COMMITMENT-ANCHOR/1): an id is bound to a hash at the ledger        *)
(* sequence of its first commit.  The same commit again is answered with   *)
(* that sequence; another hash fails with HashMismatch and changes nothing *)
(* (a stuttering step), as do reads.                                       *)
(***************************************************************************)
EXTENDS Naturals

CONSTANTS
  Ids, Hashes,
  None,     \* no anchor
  LastSeq   \* bound of the model: ledger sequences

ASSUME AnchorAssumption == LastSeq \in Nat /\ None \notin Hashes

VARIABLES
  anchors,  \* persistent storage: id -> Anchor, or None
  seq,      \* env.ledger().sequence()
  answers   \* history: every Ok that commit or assert_anchored returned

anchorVars == <<anchors, seq, answers>>

Seqs == 0 .. LastSeq
Unanchored == [hash |-> None, seq |-> 0]
Anchor == [hash : Hashes, seq : Seqs]

AnchorInit ==
  /\ anchors = [id \in Ids |-> Unanchored]
  /\ seq = 0
  /\ answers = {}

CloseLedger ==
  /\ seq < LastSeq
  /\ seq' = seq + 1
  /\ UNCHANGED <<anchors, answers>>

Answer(id, hash, at) == answers' = answers \cup {[id |-> id, hash |-> hash, seq |-> at]}

\* Mutant of FirstCommit: the anchor is replaced.
CommitOver(id, hash) ==
  /\ anchors' = [anchors EXCEPT ![id] = [hash |-> hash, seq |-> seq]]
  /\ Answer(id, hash, seq)
  /\ UNCHANGED seq

\* commit of an id that has no anchor.
FirstCommit(id, hash) ==
  /\ anchors[id] = Unanchored
  /\ anchors' = [anchors EXCEPT ![id] = [hash |-> hash, seq |-> seq]]
  /\ Answer(id, hash, seq)
  /\ UNCHANGED seq

\* commit of an anchored id, or assert_anchored: Ok when the hash is its own.
Confirm(id, hash) ==
  /\ anchors[id] # Unanchored /\ anchors[id].hash = hash
  /\ Answer(id, hash, anchors[id].seq)
  /\ UNCHANGED <<anchors, seq>>

AnchorNext ==
  \/ CloseLedger
  \/ \E id \in Ids, h \in Hashes : FirstCommit(id, h) \/ Confirm(id, h)

AnchorSpec == AnchorInit /\ [][AnchorNext]_anchorVars

-----------------------------------------------------------------------------
Registry == INSTANCE WriteOnce WITH
  Values <- Anchor, Unset <- Unanchored, store <- anchors

\* The first write wins and is never rewritten, hash and sequence alike.
AnchorIsWriteOnce == Registry!Spec

\* Whoever was told Ok for an id was told the same: one hash, one sequence,
\* not after the ledger that answered, however often and late it was asked.
AnswersAgree ==
  \A a, b \in answers : a.id = b.id => a = b /\ a.seq <= seq
=============================================================================
