------------------------------ MODULE Firewall ------------------------------
(***************************************************************************)
(* The decision firewall, packages/firewall: a decision before execution,  *)
(* its review by a person, and the annotation of what was executed.        *)
(* decideFirewall recomputes binding, authority, policy and simulation     *)
(* from its arguments; a value is named by how it compares with what is    *)
(* recomputed or declared.  A reference is the place of the record it      *)
(* names, decisionRef being the hash of its content.                       *)
(***************************************************************************)
EXTENDS Integers, FiniteSets, Sequences

CONSTANTS
  OddInputs,     \* bound of the model: how many inputs of a decision are odd
  OddReview      \* bound of the model: and of a decision made again by a review

ASSUME FirewallAssumption == {OddInputs, OddReview} \subseteq Nat

VARIABLES
  decided,      \* decision records, oldest first: at most the one and its review
  guarded,      \* what guard.authorize told its caller
  resolution,   \* the admitted review, linked to its parent
  annotation    \* the conformance annotation of a record

firewallVars == <<decided, guarded, resolution, annotation>>

\* Inputs every term of the predicate accepts, and what else each may be.  A
\* limit of gas or time that is not set is one that is kept.
PlainInputs ==
  [kind |-> "EOA", intent |-> "i1", declaration |-> "bound", authority |-> "approved",
   services |-> "all", policy |-> "p1 satisfied", expected |-> "none", active |-> "listed",
   trust |-> "no anchors", action |-> "TRANSFER", amount |-> "set", summary |-> "given",
   envelope |-> "same", quantity |-> "same", gas |-> "within", time |-> "inside", path |-> "configured", seam |-> "clean"]
InputValues ==
  [kind |-> {"EOA", "EIP1271"}, intent |-> {"i1", "i2", "missing"},
   declaration |-> {"bound", "missing", "invalid", "unbound"},
   authority |-> {"approved", "refused", "malformed", "no code"},
   services |-> {"all", "no adapter", "no providers", "no state"},
   policy |-> {"p1 satisfied", "p2 satisfied", "p3 review", "p4 violated", "p5 throws", "missing"},
   expected |-> {"none", "equal", "other"}, active |-> {"listed", "unlisted", "unknown"},
   trust |-> {"no anchors", "reached", "not reached"},
   action |-> {"TRANSFER", "SWAP", "CUSTOM", "OTHER"}, amount |-> {"set", "none"},
   summary |-> {"given", "missing"},
   envelope |-> {"same", "other", "absent"}, quantity |-> {"same", "other", "text", "absent"},
   gas |-> {"within", "above", "absent"}, time |-> {"inside", "outside", "absent"},
   path |-> {"configured", "none"}, seam |-> {"clean", "evidence"}]
InputsWith(n) ==
  LET fields == DOMAIN PlainInputs \ {"kind"}
      odd(F) == {v \in [F -> UNION {InputValues[f] : f \in F}] :
                   \A f \in F : v[f] \in InputValues[f] \ {PlainInputs[f]}}
      with(k, F, v) == [f \in DOMAIN PlainInputs |->
                          IF f = "kind" THEN k ELSE IF f \in F THEN v[f] ELSE PlainInputs[f]]
  IN  UNION {{with(k, F, v) : k \in InputValues.kind, v \in odd(F)} :
               F \in {S \in SUBSET fields : Cardinality(S) <= n}}

Inputs == InputsWith(OddInputs)
OtherInputs == InputsWith(OddReview)

\* What a review may pass: whatever it likes, but an intent and the declaration
\* of it are what they are.
BelongsToIntent == {"kind", "declaration", "authority", "action", "amount"}
ReviewInputs(in) ==
  {[f \in DOMAIN PlainInputs |->
      IF f \in BelongsToIntent /\ other.intent = in.intent THEN in[f] ELSE other[f]] : other \in OtherInputs}

Result(status, label) == [status |-> status, label |-> label]
OK == Result("OK", "OK")

FirewallInit == decided = <<>> /\ guarded = {} /\ resolution = {} /\ annotation = {}

-----------------------------------------------------------------------------
\* 1. The declaration is bound to the intent.
EvaluateDeclarationBinding(in) ==
  IF in.intent = "missing" THEN Result("NOT_RUN", "INTENT_MISSING")
  ELSE IF in.declaration = "missing" THEN Result("NOT_RUN", "DECLARATION_MISSING")
  ELSE IF in.declaration = "invalid" THEN Result("NOT_PROVEN", "DECLARATION_INVALID")
  ELSE IF in.declaration = "unbound" THEN Result("NOT_PROVEN", "DECLARATION_NOT_BOUND")
  ELSE OK

\* 2. The authority, with what the provider of a contract wallet does: it
\* answers, or fails in one of the two calls.
EvaluateAuthorityProbe(in, provider) ==
  IF in.services = "no adapter" THEN Result("NOT_RUN", "EVM_ADAPTER_UNAVAILABLE")
  ELSE IF in.kind = "EOA"
  THEN CASE in.authority = "approved" -> OK
         [] in.authority = "refused"  -> Result("NOT_PROVEN", "SIGNER_MISMATCH")
         [] OTHER                     -> Result("NOT_PROVEN", "SIG_MALFORMED")
  ELSE IF in.services = "no providers" THEN Result("NOT_RUN", "NO_PROVIDERS")
  ELSE IF in.services = "no state" THEN Result("NOT_RUN", "NO_AUTHORITY_STATE")
  ELSE IF provider = "code lookup throws" THEN Result("NOT_RUN", "CODE_LOOKUP_ERROR")
  ELSE IF in.authority = "no code" THEN Result("NOT_PROVEN", "NO_CODE_AT_STATE")
  ELSE IF provider = "call throws" THEN Result("NOT_RUN", "PROVIDER_ERROR")
  ELSE IF provider = "state unavailable" THEN Result("NOT_RUN", "HISTORICAL_STATE_UNAVAILABLE")
  ELSE IF in.authority = "approved" THEN OK
  ELSE IF in.authority = "refused" THEN Result("NOT_PROVEN", "NOT_MAGIC")
  ELSE Result("NOT_PROVEN", "REVERTED")

\* 3. The policy: committed, active, trusted, and then its rules.
HasReviewRule(in) == in.policy = "p3 review"
EvaluatePolicyForDecision(in) ==
  IF in.intent = "missing" THEN Result("NOT_RUN", "INTENT_MISSING")
  ELSE IF in.policy = "missing" THEN Result("NOT_RUN", "POLICY_UNVERIFIABLE")
  ELSE IF in.expected = "other" THEN Result("FAIL", "POLICY_HASH_MISMATCH")
  ELSE IF in.active = "unknown" THEN Result("NOT_RUN", "ACTIVATION_UNKNOWN")
  ELSE IF in.active = "unlisted" THEN Result("FAIL", "POLICY_NOT_ACTIVE")
  ELSE IF in.trust = "not reached" THEN Result("FAIL", "POLICY_NOT_TRUSTED")
  ELSE IF in.policy = "p5 throws" THEN Result("NOT_RUN", "POLICY_EVAL_ERROR")
  ELSE IF in.policy = "p4 violated" THEN Result("VIOLATED", "POLICY_VIOLATED")
  ELSE Result("SATISFIED", "POLICY_SATISFIED")

\* 4. The simulation: a field that is needed and not there makes it
\* un-modelable, a field that differs makes it inconsistent.  A transfer whose
\* intent names no amount needs none of the simulation either.
AmountCompared(in) == in.action = "TRANSFER" /\ in.amount = "set"
QuantityNeeded(in) == in.action = "SWAP" \/ AmountCompared(in)
\* A mutant: an amount only has to be a number.
QuantityUnreadable(in) == in.quantity = "text" /\ QuantityNeeded(in)
QuantityDiffers(in) == \/ in.quantity = "text" /\ QuantityNeeded(in)
                       \/ in.quantity = "other" /\ AmountCompared(in)
Unmodelable(in) ==
  \/ in.summary = "missing" \/ in.action = "OTHER"
  \/ "absent" \in {in.envelope, in.gas, in.time}
  \/ in.quantity = "absent" /\ QuantityNeeded(in)
Consistent(in) ==
  in.envelope # "other" /\ in.gas # "above" /\ in.time # "outside" /\ ~QuantityDiffers(in)

\* A mutant: what cannot be modelled is passed over.
IgnoresUnmodelable(in) ==
  IF in.intent # "missing" /\ ~Consistent(in) THEN "VIOLATES" ELSE "CONSISTENT"
\* Without an intent there is nothing to compare: that counts as a violation.
EvaluateSimulation(in) ==
  IF in.intent = "missing" THEN "VIOLATES"
  ELSE IF Unmodelable(in) THEN "UNMODELABLE"
  ELSE IF ~Consistent(in) THEN "VIOLATES"
  ELSE "CONSISTENT"

\* 5. DENY goes before REQUIRE_REVIEW before ALLOW.
DecisionOf(in, provider) ==
  LET bound == EvaluateDeclarationBinding(in) = OK
      failed == \/ ~bound
                \/ EvaluateAuthorityProbe(in, provider) # OK
                \/ EvaluatePolicyForDecision(in).status # "SATISFIED"
                \/ EvaluateSimulation(in) = "VIOLATES"
      obligation == HasReviewRule(in) \/ EvaluateSimulation(in) = "UNMODELABLE"
  IN  IF failed THEN "DENY"
      ELSE IF obligation /\ in.path = "none" THEN "DENY"
      ELSE IF obligation THEN "REQUIRE_REVIEW"
      ELSE "ALLOW"

Throws(in) == in.seam = "evidence"
Record(in, provider) == [decision |-> DecisionOf(in, provider), inputs |-> in]
ProviderAnswers == {"answers", "code lookup throws", "call throws", "state unavailable"}

-----------------------------------------------------------------------------
\* decideFirewall by itself; evidence of an execution makes it throw.
DecideFirewall(in, provider) ==
  /\ ~Throws(in)
  /\ decided' = <<Record(in, provider)>>
  /\ UNCHANGED <<guarded, resolution, annotation>>

\* guard.authorize: an argument that is not there ends it before the decision,
\* and a decision that throws is a denial.
Authorize(in, provider) ==
  LET missing == \/ in.declaration = "missing" \/ in.policy = "missing"
                 \/ in.active = "unknown" \/ in.services = "no state"
  IN  /\ guarded = {} /\ in.intent # "missing"
      /\ guarded' = {CASE Throws(in) -> Result("NOT_PROVEN", "DENY")
                       [] ~Throws(in) /\ missing -> Result("NOT_RUN", "none")
                       [] OTHER -> Result("OK", DecisionOf(in, provider))}
      /\ decided' = IF Throws(in) \/ missing THEN <<>> ELSE <<Record(in, provider)>>
      /\ UNCHANGED <<resolution, annotation>>

\* resolveReview compares the intent, the manifest and their binding with the
\* parent's; a mutant does not.
AnyBinding(parent, in) == EvaluateDeclarationBinding(in) = OK
SameBinding(parent, in) ==
  in.intent = parent.inputs.intent /\ in.declaration = parent.inputs.declaration

ResolveReview(provider, writer) ==
  /\ Len(decided) = 1 /\ resolution = {} /\ annotation = {}
  /\ decided[1].decision = "REQUIRE_REVIEW" /\ writer = "listed"
  /\ \E in \in ReviewInputs(decided[1].inputs) :
       LET parent == decided[1]
           again == Record(in, provider)
       IN  /\ in.summary = "given" /\ ~Throws(in)
           /\ decided' = <<parent, again>>
           /\ resolution' = IF SameBinding(parent, in) /\ again.decision = "ALLOW"
                            THEN {[ref |-> 1, to |-> again.decision, writer |-> writer]}
                            ELSE {}
  /\ UNCHANGED <<guarded, annotation>>

\* annotateConformance compares what was observed with the scope of a record
\* and never says CONFORM of a denial.
AnnotateConformance(i, observed) ==
  /\ annotation = {}
  /\ annotation' =
       {[ref |-> i, observed |-> observed,
         conformance |-> IF observed = "same" /\ decided[i].decision # "DENY" THEN "CONFORM" ELSE "DIVERGED"]}
  /\ UNCHANGED <<decided, guarded, resolution>>

FirewallNext ==
  \/ /\ decided = <<>>
     /\ \E in \in Inputs, p \in ProviderAnswers : DecideFirewall(in, p) \/ Authorize(in, p)
  \/ \E p \in ProviderAnswers, w \in {"listed", "unlisted"} : ResolveReview(p, w)
  \/ \E i \in DOMAIN decided, o \in {"same", "other"} : AnnotateConformance(i, o)

FirewallSpec == FirewallInit /\ [][FirewallNext]_firewallVars

-----------------------------------------------------------------------------
\* Nothing is released that one of the four terms does not carry: an ALLOW, of
\* the engine or of the guard, first-hand or by review, rests on a bound
\* declaration, an approval that is really there, an active and trusted policy
\* that is satisfied and asks for no review, and a simulation that shows every
\* field it needs: target, selector and recipient, gas and time within their
\* limits, of a transfer the very amount the intent names, and of a swap a
\* quantity that can be read, which the code compares with nothing.
Earned(in) ==
  /\ in.intent # "missing" /\ in.declaration = "bound" /\ in.authority = "approved" /\ in.seam = "clean"
  /\ in.policy \in {"p1 satisfied", "p2 satisfied"} /\ in.active = "listed"
  /\ in.trust # "not reached" /\ in.expected # "other"
  /\ in.summary = "given" /\ in.action # "OTHER"
  /\ {in.envelope, in.gas, in.time} \cap {"other", "above", "outside", "absent"} = {}
  /\ AmountCompared(in) => in.quantity = "same"
  /\ in.action = "SWAP" => in.quantity \notin {"absent", "text"}
AllowIsEarned ==
  /\ \A i \in DOMAIN decided : decided[i].decision = "ALLOW" => Earned(decided[i].inputs)
  /\ \A g \in guarded : g.label = "ALLOW" => g.status = "OK" /\ Earned(decided[1].inputs)

\* A review releases the very declaration that was set aside and no denial:
\* the parent asked for review, the second decision allows, and both are of
\* one intent; what conforms was never denied.
ReviewReleasesItsParent ==
  /\ \A r \in resolution : /\ decided[r.ref].decision = "REQUIRE_REVIEW" /\ r.to = "ALLOW"
                           /\ decided[2].decision = "ALLOW" /\ Earned(decided[2].inputs)
                           /\ decided[2].inputs.intent = decided[1].inputs.intent
  /\ \A a \in annotation : a.conformance = "CONFORM" => decided[a.ref].decision # "DENY"

\* What lets an execution happen was earned: an ALLOW of the firewall by its own
\* inputs, a review's by a second decision on the same intent.
ReleasesAreEarned == AllowIsEarned /\ ReviewReleasesItsParent
=============================================================================
