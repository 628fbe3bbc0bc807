------------------------- MODULE VerificationLevels -------------------------
(***************************************************************************)
(* The verification protocol of scripts/ladder/verification-levels: a      *)
(* receipt held against a chain (L1), the replay of rules against evidence *)
(* (L2), and Merkle proofs (L3).  A hash is what it is the hash of.        *)
(***************************************************************************)
EXTENDS Naturals, Sequences, FiniteSets, SequencesExt, Variants

CONSTANTS
  MaxEvidence,  \* bound of the model: evidence items of a receipt
  MaxLeaves     \* bound of the model: leaves of a tree

ASSUME LevelsAssumption == MaxLeaves \in Nat

VARIABLES
  question,     \* what was asked
  answer        \* the verdict

levelsVars == <<question, answer>>

LevelsInit == question = [level |-> "none"] /\ answer = "none"

-----------------------------------------------------------------------------
\* L1: the fields of a receipt, what the commitment and the chain know.  A
\* field may be missing, and a hash may not have the form of one.
PlainReceipt ==
  [status |-> "VERIFIED", blockHash |-> "b1", txHash |-> "t1", chainId |-> "c1",
   committed |-> "c1", chain |-> "knows t1 in b1"]
ReceiptValues ==
  [status |-> {"missing", "FAILED"}, blockHash |-> {"missing", "short", "b2"},
   txHash |-> {"missing", "short", "t2"}, chainId |-> {"missing", "c2"},
   committed |-> {"missing", "c2"}, chain |-> {"no authority", "knows t1 in b2", "knows t2 in b1"}]
Required == {"status", "blockHash", "txHash", "chainId"}

Missing(r) == \E k \in Required : r[k] = "missing"
Inconsistent(r) ==
  \/ r.status # "VERIFIED" \/ r.blockHash = "short" \/ r.txHash = "short"
  \/ r.committed # "missing" /\ r.chainId # r.committed

KnownIn(r, block) == r.chain = "knows " \o r.txHash \o " in " \o block

VerifyReceiptL1(r) ==
  IF Missing(r) \/ Inconsistent(r) THEN "UNKNOWN"
  ELSE IF r.chain = "no authority" THEN "UNKNOWN"
  ELSE IF ~\E b \in {"b1", "b2"} : KnownIn(r, b) THEN "MISMATCH"
  ELSE IF ~KnownIn(r, r.blockHash) THEN "MISMATCH"
  ELSE "VERIFIED"

-----------------------------------------------------------------------------
\* L2: rules have ids, or lack one; the receipt lists failed rules and evidence.
Rules == {<<>>, <<"A">>, <<"A", "B">>, <<"A", "">>}
Items == [rule : {"A", "B"}, result : {"PASS", "FAIL"}]
Replays ==
  [rules : Rules, failed : SUBSET {"A", "C"}, evidence : BoundedSeq(Items, MaxEvidence)]

\* evidence.find: the first item of a rule.
Evidenced(r, rule) == \E i \in DOMAIN r.evidence : r.evidence[i].rule = rule
FirstEvidence(r, rule) == SelectSeq(r.evidence, LAMBDA e : e.rule = rule)[1]

Stray(r) == r.failed \ Range(r.rules)
Uncovered(r) == {rule \in Range(r.rules) :
                   ~\E i \in DOMAIN r.evidence : r.evidence[i] = [rule |-> rule, result |-> "PASS"]}

\* Mutant of Replay: failures that no rule names are forgotten.
ReplaysItsRulesOnly(r) ==
  IF r.rules = <<>> \/ "" \in Range(r.rules) THEN "UNKNOWN"
  ELSE IF Range(r.rules) \cap r.failed # {} THEN "MISMATCH"
  ELSE IF Uncovered(r) # {} THEN "UNKNOWN"
  ELSE "MATCH"

Replay(r) ==
  IF r.rules = <<>> \/ "" \in Range(r.rules) THEN "UNKNOWN"
  ELSE IF Range(r.rules) \cap r.failed # {} THEN "MISMATCH"
  ELSE IF \E rule \in Range(r.rules) : ~Evidenced(r, rule) THEN "UNKNOWN"
  ELSE IF \E rule \in Range(r.rules) : FirstEvidence(r, rule).result # "PASS" THEN "MISMATCH"
  ELSE IF Stray(r) # {} THEN "MISMATCH"
  ELSE IF r.failed # {} \/ Uncovered(r) # {} THEN "UNKNOWN"
  ELSE "MATCH"

-----------------------------------------------------------------------------
\* L3: a tree is the sequence of its levels; an odd last hash is paired with itself.
Leaf(l) == <<"leaf", l>>
Node(a, b) == <<"node", a, b>>
NextLevel(level) ==
  [i \in 1 .. (Len(level) + 1) \div 2 |->
     Node(level[2 * i - 1], IF 2 * i <= Len(level) THEN level[2 * i] ELSE level[2 * i - 1])]

\* A pass of the while loop.
Taller(tree) == IF Len(Last(tree)) = 1 THEN tree ELSE Append(tree, NextLevel(Last(tree)))

MerkleTree(leaves) ==
  LET levels[n \in 1 .. MaxLeaves] ==
        IF n = 1 THEN <<[i \in DOMAIN leaves |-> Leaf(leaves[i])]>> ELSE Taller(levels[n - 1])
  IN  levels[MaxLeaves]

\* The step of a proof at a level: the sibling and its side, and no step where
\* there is no sibling.
ProofStep(level, i) ==
  LET sibling == IF i % 2 = 0 THEN i + 1 ELSE i - 1
  IN  IF sibling < Len(level) THEN <<[hash |-> level[sibling + 1], left |-> i % 2 = 1]>> ELSE <<>>

\* The path so far and the place in the level, one level up.
Above(level, c) == [path |-> c.path \o ProofStep(level, c.at), at |-> c.at \div 2]

MerkleProof(tree, index) ==
  LET climb[h \in 1 .. Len(tree)] ==
        IF h = 1 THEN [path |-> <<>>, at |-> index] ELSE Above(tree[h - 1], climb[h - 1])
  IN  climb[Len(tree)].path

Paired(hash, step) == IF step.left THEN Node(step.hash, hash) ELSE Node(hash, step.hash)

VerifyMerkle(path, root, leaf) ==
  LET hash[n \in 0 .. Len(path)] == IF n = 0 THEN Leaf(leaf) ELSE Paired(hash[n - 1], path[n])
  IN  root = hash[Len(path)]

Trees == [count : 1 .. MaxLeaves, index : 0 .. MaxLeaves - 1, claimed : 1 .. MaxLeaves]
Proves(t) ==
  LET tree == MerkleTree([i \in 1 .. t.count |-> i])
  IN  VerifyMerkle(MerkleProof(tree, t.index), Last(tree)[1], t.claimed)

-----------------------------------------------------------------------------
LevelsNext ==
  /\ question.level = "none"
  /\ \/ \E r \in AllBut(PlainReceipt, ReceiptValues, 3) :
          question' = [level |-> "L1", on |-> r] /\ answer' = VerifyReceiptL1(r)
     \/ \E r \in Replays : question' = [level |-> "L2", on |-> r] /\ answer' = Replay(r)
     \/ \E t \in {u \in Trees : u.index < u.count} :
          question' = [level |-> "L3", on |-> t] /\ answer' = IF Proves(t) THEN "PROVED" ELSE "REFUSED"

LevelsSpec == LevelsInit /\ [][LevelsNext]_levelsVars

-----------------------------------------------------------------------------
\* A verified receipt is complete, of the committed chain, and its block is the
\* one the chain has its transaction in.
ReceiptIsWhole ==
  (question.level = "L1" /\ answer = "VERIFIED") =>
    /\ \A k \in Required : question.on[k] # "missing"
    /\ question.on.committed \in {"missing", question.on.chainId}
    /\ KnownIn(question.on, question.on.blockHash)

\* A match leaves no failure over, of its own rules or of others, and each rule
\* passed.
MatchIsWhole ==
  (question.level = "L2" /\ answer = "MATCH") =>
    /\ question.on.failed = {} /\ question.on.rules # <<>>
    /\ \A rule \in Range(question.on.rules) : FirstEvidence(question.on, rule).result = "PASS"

\* No level says yes on less than it asks for: a receipt, a match, and of a tree
\* only the leaf at the place that was asked about.
YesIsWhole ==
  /\ ReceiptIsWhole /\ MatchIsWhole
  /\ (question.level = "L3" /\ answer = "PROVED") => question.on.claimed = question.on.index + 1

\* "verify(proof, root, leaf) lets a third party prove one leaf": each leaf of a
\* tree is proved by its own proof.  The last leaf of an odd level is not: the
\* tree pairs it with itself and the proof leaves that step out.
EveryLeafIsProvable ==
  question.level = "L3" /\ question.on.claimed = question.on.index + 1 => answer = "PROVED"
=============================================================================
