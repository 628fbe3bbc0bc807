----------------------------- MODULE ReleaseGate ----------------------------
(***************************************************************************)
(* What the repository says of itself: the claim registry and its audit,   *)
(* scripts/release-gate and its artifact, scripts/pre-push-check.  The     *)
(* sources the claims derive from change under all of them.                *)
(***************************************************************************)
EXTENDS Naturals, Sequences, FiniteSets, SequencesExt, Variants

CONSTANT MaxSourceChanges  \* bound of the model: changes of committed sources

VARIABLES
  docs,      \* the committed sources of the claims
  changes,   \* how often they changed
  file,      \* docs/claims-registry.json
  audited,   \* the last answer of claim-registry --audit, and what it was about
  artifact,  \* docs/release-gate.json
  checked    \* the last answer of the pre-push check, and what it was about

gateVars == <<docs, changes, file, audited, artifact, checked>>

-----------------------------------------------------------------------------
\* A claim: the status it states, whether it is about others, the source it is
\* derived from, and the value its own assertion asks for.
Claims ==
  [suite      |-> [status |-> "VERIFIED", external |-> FALSE, source |-> "snapshot", asserts |-> {}],
   proofs     |-> [status |-> "VERIFIED", external |-> FALSE, source |-> "itself", asserts |-> {}],
   adapters   |-> [status |-> "VERIFIED", external |-> FALSE, source |-> "registry", asserts |-> {"dry"}],
   revenue    |-> [status |-> "VERIFIED", external |-> TRUE, source |-> "milestones", asserts |-> {}],
   reputation |-> [status |-> "UNKNOWN", external |-> TRUE, source |-> "reputation", asserts |-> {"unproven"}],
   reviewed   |-> [status |-> "UNKNOWN", external |-> TRUE, source |-> "nothing", asserts |-> {}],
   trigger    |-> [status |-> "GATED", external |-> TRUE, source |-> "milestones", asserts |-> {}]]
ClaimIds == DOMAIN Claims

DocValues == [snapshot |-> {"absent", "v1", "v2"}, registry |-> {"absent", "dry", "live"},
              milestones |-> {"absent", "none", "paid"}, reputation |-> {"absent", "unproven", "graded"}]
SourceDocs == DOMAIN DocValues

\* The milestones are a list, which has no count: what is derived of it says zero
\* whatever it holds.
Derive(id, from) ==
  LET source == Claims[id].source
  IN  IF source = "nothing" THEN "null"
      ELSE IF source = "itself" THEN "fixed"
      ELSE IF from[source] = "absent" THEN "null"
      ELSE IF source = "milestones" THEN "zero of no count"
      ELSE from[source]

\* Mutant of BuildClaim: a claim keeps the status it states.
BuildClaimAsStated(id, from) == [status |-> Claims[id].status, derived |-> Derive(id, from), downgraded |-> FALSE]

BuildClaim(id, from) ==
  LET derived == Derive(id, from)
      drop == \/ derived = "null" /\ Claims[id].status = "VERIFIED"
              \/ Claims[id].asserts # {} /\ derived \notin Claims[id].asserts
  IN  [status |-> IF drop THEN "UNKNOWN" ELSE Claims[id].status, derived |-> derived, downgraded |-> drop]
BuildRegistry(from) == [id \in ClaimIds |-> BuildClaim(id, from)]

\* The ceiling rule; what counts as absence is a zero, not a missing count; and
\* every source that a claim names as evidence is there.
AuditRegistry(registry, from) ==
  \A id \in ClaimIds :
    /\ ~registry[id].downgraded
    /\ registry[id].status = "VERIFIED" => registry[id].derived \notin {"null"}
    /\ ~(Claims[id].external /\ registry[id].status = "VERIFIED" /\ registry[id].derived = "zero")
    /\ Claims[id].source \in SourceDocs => from[Claims[id].source] # "absent"

\* The file on disk stands for the committed one, which the audit cannot read.
AuditCommittedRegistry(from) ==
  /\ file.is = "written"
  /\ \A id \in ClaimIds : /\ file.claims[id].derived = BuildClaim(id, from).derived
                          /\ file.claims[id].status = BuildClaim(id, from).status

-----------------------------------------------------------------------------
\* The gate.  Legs of each kind, as they come out; a case is read or is not.
PlainLegs ==
  [cases |-> <<"true", "true">>, ok |-> TRUE, selfCheck |-> TRUE, tamper |-> <<"true">>,
   scenarios |-> "classified", passport |-> "whole", library |-> "imported", child |-> "exit 0", source |-> "clean"]
OddLegs ==
  [cases |-> {<<>>, <<"true", "false">>, <<"unreadable", "true">>}, ok |-> {FALSE}, selfCheck |-> {FALSE},
   tamper |-> {<<>>, <<"false">>, <<"unreadable">>}, scenarios |-> {"none", "other"}, passport |-> {"partial", "throws"},
   library |-> {"test missing", "not imported"}, child |-> {"exit 1", "killed"}, source |-> {"reads a credential"}]

\* Mutant of TallyCases: a case that cannot be read is left out.
TallyReadable(cases) == \A i \in DOMAIN cases : cases[i] # "false"

\* Every case is readable and true, and there is one.
TallyCases(cases) == cases # <<>> /\ \A i \in DOMAIN cases : cases[i] = "true"

LegIds == {"selfcheck", "attack", "sandbox", "passport", "library", "external", "claims"}
LegPasses(leg, l, from) ==
  CASE leg = "selfcheck" -> l.selfCheck /\ l.ok /\ TallyCases(l.cases)
    [] leg = "attack"    -> TallyCases(l.tamper)
    [] leg = "sandbox"   -> l.scenarios = "classified"
    [] leg = "passport"  -> l.passport = "whole"
    [] leg = "library"   -> l.library = "imported"
    [] leg = "external"  -> l.child = "exit 0"
    [] leg = "claims"    -> AuditRegistry(BuildRegistry(from), from)

ProveIndependence(l) == l.source = "clean"
RunGate(only, l, from) == ProveIndependence(l) /\ \A leg \in only : LegPasses(leg, l, from)

-----------------------------------------------------------------------------
\* The pre-push check: each check passes, fails, or is skipped for want of what
\* it looks at.  What origin/main is known to hold is stale if the fetch fails.
PlainCheckout ==
  [workflows |-> "parse", record |-> "valid", verifier |-> "there", covered |-> TRUE, repins |-> "reachable", skipToken |-> FALSE,
   origin |-> TRUE, offline |-> FALSE, fetch |-> TRUE, ahead |-> 0, aheadKnown |-> 0]
OddCheckout ==
  [workflows |-> {"broken"}, record |-> {"absent", "unreadable", "mismatch"}, verifier |-> {"absent"},
   covered |-> {FALSE}, repins |-> {"rewritten", "none"}, skipToken |-> {TRUE}, origin |-> {FALSE}, offline |-> {TRUE}, fetch |-> {FALSE}, ahead |-> {1}, aheadKnown |-> {1}]

OriginKnown(c) == c.origin \/ (c.fetch /\ ~c.offline)
\* Only a record that parses says what must be covered and reachable.
HasRecord(c) == c.record \notin {"absent", "unreadable"}

\* The record is verified where both it and its verifier are found.
Fails(c) ==
  {k \in DOMAIN PlainCheckout :
     CASE k = "workflows" -> c.workflows = "broken"
       [] k = "record"    -> c.record \in {"unreadable", "mismatch"} /\ c.verifier = "there"
       [] k = "covered"   -> HasRecord(c) /\ ~c.covered
       [] k = "repins"    -> HasRecord(c) /\ c.repins = "rewritten"
       [] k = "skipToken" -> c.origin /\ c.skipToken
       [] k = "ahead"     -> /\ ~c.offline /\ OriginKnown(c)
                             /\ IF c.fetch THEN c.ahead > 0 ELSE c.aheadKnown > 0
       [] OTHER           -> FALSE}

-----------------------------------------------------------------------------
GateInit ==
  /\ docs \in {[snapshot |-> "v1", registry |-> "dry", milestones |-> m, reputation |-> "unproven"] : m \in {"none", "paid"}}
  /\ changes = 0 /\ file = [is |-> "absent"]
  /\ audited = [is |-> "none"] /\ artifact = [is |-> "none"] /\ checked = [is |-> "none"]

\* The gate and the pre-push check share only the sources with the audit: a
\* behaviour ends with the answer of one of them.
Unanswered == artifact.is = "none" /\ checked.is = "none"

SourceChanges ==
  /\ Unanswered /\ changes < MaxSourceChanges /\ changes' = changes + 1
  /\ \E s \in SourceDocs : \E v \in DocValues[s] : docs' = [docs EXCEPT ![s] = v]
  /\ UNCHANGED <<file, audited, artifact, checked>>

\* --write writes what it found, whatever its own audit says of it.
WriteRegistry ==
  /\ Unanswered
  /\ file' = [is |-> "written", claims |-> BuildRegistry(docs)]
  /\ UNCHANGED <<docs, changes, audited, artifact, checked>>

Audit ==
  /\ Unanswered
  /\ audited' = [is |-> IF AuditRegistry(BuildRegistry(docs), docs) /\ AuditCommittedRegistry(docs) THEN "PASS" ELSE "FAIL",
                 file |-> file, docs |-> docs]
  /\ UNCHANGED <<docs, changes, file, artifact, checked>>

Gate(only, l) ==
  /\ artifact' = [is |-> IF RunGate(only, l, docs) THEN "GATE_PASS" ELSE "GATE_FAIL", legs |-> only, found |-> l, docs |-> docs]
  /\ UNCHANGED <<docs, changes, file, audited, checked>>

PrePush(c) ==
  /\ changes = 0
  /\ checked' = [is |-> IF Fails(c) = {} THEN "safe to push" ELSE "FAIL", checkout |-> c]
  /\ UNCHANGED <<docs, changes, file, audited, artifact>>

GateNext ==
  \/ SourceChanges \/ WriteRegistry \/ Audit
  \/ /\ Unanswered /\ file.is = "absent" /\ audited.is = "none"
     /\ \/ \E l \in AllBut(PlainLegs, OddLegs, 1), only \in {LegIds} \cup {{leg} : leg \in LegIds} : Gate(only, l)
        \/ \E c \in AllBut(PlainCheckout, OddCheckout, 2) : PrePush(c)

GateSpec == GateInit /\ [][GateNext]_gateVars

-----------------------------------------------------------------------------
\* An audit that passes vouches for the file as readers have it: what the file
\* says is derived of the suite, the adapters and the reputation is what those
\* sources hold at that moment, the adapters are dry, the reputation is unproven,
\* and the milestones are there.  (What the other claims derive is a constant.)
\* A gate that passes vouches for the legs it names, which --only makes one: no
\* case of those was unreadable or false, and each had one.  A push called safe
\* carries no workflow that does not parse, and no message that skips the checks;
\* its record of pins, if the verifier is there to ask, holds, and what a record
\* that parses pins is covered and reachable.
GreenIsChecked ==
  /\ audited.is = "PASS" =>
       /\ \A id \in ClaimIds : Claims[id].source \in {"snapshot", "registry", "reputation"} =>
            audited.file.claims[id].derived = audited.docs[Claims[id].source]
       /\ audited.docs.snapshot # "absent" /\ audited.docs.milestones # "absent"
       /\ audited.docs.registry = "dry" /\ audited.docs.reputation = "unproven"
  /\ artifact.is = "GATE_PASS" =>
       /\ artifact.found.source = "clean"
       /\ "selfcheck" \in artifact.legs =>
            artifact.found.cases # <<>> /\ {"false", "unreadable"} \cap Range(artifact.found.cases) = {}
       /\ "attack" \in artifact.legs =>
            artifact.found.tamper # <<>> /\ {"false", "unreadable"} \cap Range(artifact.found.tamper) = {}
       /\ "external" \in artifact.legs => artifact.found.child = "exit 0"
       /\ "claims" \in artifact.legs => artifact.docs.registry = "dry" /\ artifact.docs.reputation = "unproven"
  /\ checked.is = "safe to push" =>
       LET c == checked.checkout
       IN  /\ c.workflows # "broken"
           /\ c.origin => ~c.skipToken
           /\ c.verifier = "there" => c.record \notin {"unreadable", "mismatch"}
           /\ c.record \notin {"absent", "unreadable"} => c.covered /\ c.repins # "rewritten"

\* An external claim is VERIFIED only by what its source records.
ExternalClaimHasSource ==
  audited.is = "PASS" =>
    \A id \in ClaimIds : Claims[id].external /\ audited.file.claims[id].status = "VERIFIED" =>
      audited.docs[Claims[id].source] \notin {"none", "absent"}
=============================================================================
