-------------------------- MODULE DeliveryEvidence --------------------------
(***************************************************************************)
(* Delivery and dispute evidence (packages/delivery, DDE/1): the gate over *)
(* a fixture of ten records, its three surfaces - the engine, the SDK over *)
(* an object or a directory, the file verifier of examples - the release   *)
(* of a payment on a report, and the projection for the People's Court.    *)
(* A record is named by how it stands to the ones it refers to.            *)
(***************************************************************************)
EXTENDS Naturals, FiniteSets, Variants

CONSTANT OddRecords      \* bound of the model: how many things about a fixture are odd

ASSUME DeliveryAssumption == OddRecords \in Nat

VARIABLES
  fixture,      \* the fixture that is looked at: at most one
  reports,      \* what was said of it last, by one of the surfaces
  released      \* the last decision of releaseWhen

deliveryVars == <<fixture, reports, released>>

DeliveryInit == fixture = {} /\ reports = {} /\ released = {}

\* A dispute with all its records in order; what else each thing may be.  A
\* list is unnamed when its members are records without an id, and so are two
\* references that are both absent.
PlainFixture ==
  [record |-> "all", criteriaRef |-> "cited", signers |-> "a party", grounds |-> "criteria",
   derived |-> "no", criteria |-> "listed", evaluations |-> "all", artifacts |-> "rehash",
   refs |-> "agree", client |-> "named", subject |-> "client", cert |-> "subject", intentHash |-> "one",
   verdict |-> "ACCEPTED", basis |-> "criteria", positions |-> "both", grants |-> "both",
   opened |-> "a time", closed |-> "no", declared |-> "DISPUTE_OPEN", pins |-> "match"]
OtherFixtures ==
  [record |-> {"agreement", "acceptanceCriteria", "authorization", "execution", "delivery",
               "acceptanceRecord", "disputeRecord", "consentAndDisclosure", "retentionPolicy"},
   criteriaRef |-> {"missing"}, signers |-> {"nobody"}, grounds |-> {"execution facts"},
   derived |-> {"execution"}, criteria |-> {"none", "unnamed", "malformed"},
   evaluations |-> {"none", "some", "invented", "unnamed", "malformed"},
   artifacts |-> {"differ", "malformed", "none"}, refs |-> {"other agreement", "other execution", "unnamed"},
   client |-> {"missing"}, subject |-> {"other", "missing"}, cert |-> {"other", "missing"}, intentHash |-> {"malformed", "two"},
   verdict |-> {"REJECTED", "none"}, basis |-> {"payment", "payment and criteria", "other", "unstated"},
   positions |-> {"one", "unknown remedy"}, grants |-> {"one", "one party twice", "unsigned", "of another"},
   opened |-> {"no", "not a time"},
   closed |-> {"in the window", "before the opening", "after the deadline", "not a time"},
   declared |-> {"DRAFT", "DELIVERY_SUBMITTED", "ACCEPTANCE_RECORDED", "RECORD_CLOSED"},
   pins |-> {"differ", "absent"}]
Fixtures == AllBut(PlainFixture, OtherFixtures, OddRecords)

-----------------------------------------------------------------------------
\* The checks of the gate.
Has(f, record) == f.record # record

\* F1: an acceptance stands on its own; no part of it names a payment.
CheckExecutionAcceptanceSeparation(f) ==
  /\ Has(f, "acceptanceRecord") /\ f.basis \notin {"payment", "payment and criteria"}
  /\ f.criteriaRef = "cited" /\ f.signers = "a party" /\ f.grounds = "criteria" /\ f.derived = "no"

\* F2: what is evaluated is what is listed; of nothing, nothing is.  A member
\* without an id is filtered out of both.
Criteria(f) == IF f.criteria \in {"none", "unnamed"} \/ ~Has(f, "acceptanceCriteria") THEN {} ELSE {"c1", "c2"}
Evaluated(f) == IF ~Has(f, "acceptanceRecord") THEN {}
                ELSE CASE f.evaluations \in {"none", "unnamed"} -> {} [] f.evaluations = "some" -> {"c1"}
                       [] f.evaluations = "invented" -> {"c1", "c2", "c3"} [] OTHER -> {"c1", "c2"}
\* A mutant: that each criterion is evaluated is enough.
NoneIsSkipped(f) == Criteria(f) \subseteq Evaluated(f)
CheckCriteriaClosure(f) == Criteria(f) = Evaluated(f)

\* E3: there are artifacts, and all of them rehash.
ReplayDeliveryIntegrity(f) == Has(f, "delivery") /\ f.artifacts = "rehash"

\* E4: the delivery descends from what the parties signed.  What neither side
\* names agrees; a subject is compared with a client that is named.
CheckAuthorizationBinding(f) ==
  /\ {r \in {"agreement", "delivery", "execution", "authorization"} : ~Has(f, r)} = {}
  /\ f.refs \in {"agree", "unnamed"} /\ f.intentHash = "one"
  /\ f.client = "named" => f.subject # "other"
  /\ f.subject # "missing" => f.cert = "subject"

\* B1: payment is no basis; what is accepted was evaluated, if a basis is stated.
CheckB1PaymentInferenceForbidden(f) ==
  Has(f, "acceptanceRecord") =>
    /\ f.basis # "payment"
    /\ f.verdict = "ACCEPTED" => f.basis # "other"

\* B2: a verdict rests on evaluations, which are counted whether they are of a
\* criterion or not.
CheckB2ExecutionDoesNotDecideConformity(f) ==
  Has(f, "acceptanceRecord") /\ f.verdict # "none" => f.evaluations # "none"

\* B3: both positions, with remedies of the closed vocabulary.
CheckB3NoEngineAdjudication(f) == Has(f, "disputeRecord") /\ f.positions = "both"

\* E5: two grants or more, each signed by its grantor; not without an adapter.
CheckConsentBinding(f, evm) ==
  IF ~evm THEN "NOT_RUN"
  ELSE IF Has(f, "consentAndDisclosure") /\ f.grants \in {"both", "one party twice"} THEN "PASS"
  ELSE "FAIL"

\* F3: the declared state is the one the records establish.
Closed(f) == Has(f, "disputeRecord") /\ f.closed # "no"
Established(f) ==
  IF Closed(f) THEN "RECORD_CLOSED"
  ELSE IF Has(f, "disputeRecord") /\ f.opened # "no" THEN "DISPUTE_OPEN"
  ELSE IF Has(f, "acceptanceRecord") /\ f.verdict # "none" THEN "ACCEPTANCE_RECORDED"
  ELSE IF Has(f, "delivery") THEN "DELIVERY_SUBMITTED"
  ELSE "DRAFT"
\* A mutant: a closure need not fall between the opening and the deadline.
AnyClosure(f) == f.declared = Established(f)
CheckLifecycleConsistency(f) ==
  /\ Closed(f) => f.closed = "in the window" /\ f.opened = "a time"
  /\ f.declared = Established(f)

\* A list with a member that is no record makes the gate throw.
GateThrows(f) == \/ f.criteria = "malformed" /\ Has(f, "acceptanceCriteria")
                 \/ f.evaluations = "malformed" /\ Has(f, "acceptanceRecord")

FailedChecks(f, evm) ==
  LET fails(id, ok) == IF ok THEN {} ELSE {id}
  IN  fails("F0", f.record = "all") \cup fails("F1", CheckExecutionAcceptanceSeparation(f))
      \cup fails("F2", CheckCriteriaClosure(f)) \cup fails("E3", ReplayDeliveryIntegrity(f))
      \cup fails("E4", CheckAuthorizationBinding(f)) \cup fails("B1", CheckB1PaymentInferenceForbidden(f))
      \cup fails("B2", CheckB2ExecutionDoesNotDecideConformity(f)) \cup fails("B3", CheckB3NoEngineAdjudication(f))
      \cup fails("E5", CheckConsentBinding(f, evm) # "FAIL") \cup fails("F3", CheckLifecycleConsistency(f))

\* The report says nothing of the acceptance: it has no such part.
VerifyDeliveryFixture(f, evm) ==
  LET failed == FailedChecks(f, evm)
  IN  [status |-> IF failed = {} THEN "VERIFIED" ELSE "REJECTED", failed |-> failed, acceptance |-> {}]

\* The projection for the People's Court: the classes of evidence that lack.
MapToPeoplesCourt(f) ==
  {r \in {"agreement", "authorization", "execution", "retentionPolicy"} : ~Has(f, r)}
  \cup {r \in {"acceptanceCriteria"} : ~Has(f, r) \/ f.criteria = "none"}
  \cup {r \in {"delivery"} : ~Has(f, r) \/ f.artifacts = "none"}
  \cup {r \in {"acceptanceRecord"} : ~Has(f, r) \/ f.verdict = "none"}
  \cup {r \in {"disputeRecord"} : ~Has(f, r)}
  \cup {r \in {"consentAndDisclosure"} : ~Has(f, r) \/ f.grants = "one"}

-----------------------------------------------------------------------------
Report(by, f, evm, manifest) ==
  LET r == VerifyDeliveryFixture(f, evm)
  IN  reports' = {[by |-> by, status |-> r.status, failed |-> r.failed, evm |-> evm, acceptance |-> r.acceptance,
                   manifest |-> manifest, gaps |-> MapToPeoplesCourt(f)]}

LoadFixture(f) == fixture' = {f} /\ UNCHANGED <<reports, released>>

\* The SDK, over an object, or over a directory, whose ten files must be there
\* and whose manifest of pins is looked up but not compared.
VerifyFixture(f, evm) ==
  /\ ~GateThrows(f) /\ Report("sdk", f, evm, "NOT_PROVIDED")
  /\ UNCHANGED <<fixture, released>>
VerifyFixtureDir(f, evm) ==
  LET lifecycle == IF f.pins = "absent" THEN "undeclared" ELSE f.declared
  IN  /\ f.record = "all" /\ ~GateThrows(f)
      /\ Report("directory", [f EXCEPT !.declared = lifecycle], evm, IF f.pins = "absent" THEN "ABSENT" ELSE "PRESENT")
      /\ UNCHANGED <<fixture, released>>

\* The file verifier compares the pins first.
VerifyFixtureFiles(f) ==
  /\ f.record = "all" /\ f.pins = "match" /\ ~GateThrows(f)
  /\ Report("files", f, TRUE, "PASS")
  /\ UNCHANGED <<fixture, released>>

\* A payment is held unless the report is VERIFIED and the platform's own
\* condition is met: that of the documentation, one on the status alone, one
\* that throws, or none.
Conditions == {"status and acceptance", "status", "throws", "none"}
Met(condition, r) == \/ condition = "status" /\ r.status = "VERIFIED"
                     \/ condition = "status and acceptance" /\ r.acceptance = {"ACCEPTED"}
\* A mutant: the condition decides.
ConditionDecides(r, condition) == Met(condition, r) \/ condition = "throws"
Releases(r, condition) == r.status = "VERIFIED" /\ Met(condition, r)
ReleaseWhen(f, r, condition) ==
  /\ released' = {[report |-> r, condition |-> condition, release |-> Releases(r, condition)]}
  /\ UNCHANGED <<fixture, reports>>

DeliveryNext ==
  \/ fixture = {} /\ \E f \in Fixtures : LoadFixture(f)
  \/ \E f \in fixture, evm \in BOOLEAN : VerifyFixture(f, evm) \/ VerifyFixtureDir(f, evm)
  \/ \E f \in fixture : VerifyFixtureFiles(f)
  \/ \E f \in fixture, r \in reports, c \in Conditions : ReleaseWhen(f, r, c)

DeliverySpec == DeliveryInit /\ [][DeliveryNext]_deliveryVars

-----------------------------------------------------------------------------
\* A payment is released only on a fixture with all its records, whose artifacts
\* rehash and whose references name no other agreement, execution or signer,
\* with a verdict of which every listed criterion was evaluated and nothing
\* else, on a basis that is stated to be the criteria or not at all, with both
\* positions and an ordered life - whatever the platform's condition is.  Two
\* grants signed by one party are enough for the gate, and so are evaluations
\* that name no criterion when no criterion is named.
ReleaseRestsOnRecords ==
  \A r \in released, f \in fixture :
    r.release => /\ f.record = "all" /\ f.artifacts = "rehash" /\ f.refs \in {"agree", "unnamed"}
                 /\ f.client = "named" /\ f.subject # "missing" => f.subject = "client"
                 /\ f.subject # "missing" => f.cert = "subject"
                 /\ {f.grounds, f.basis} \cap {"execution facts", "payment", "payment and criteria"} = {}
                 /\ f.verdict = "ACCEPTED" => f.basis \in {"criteria", "unstated"}
                 /\ f.derived = "no" /\ f.signers = "a party" /\ f.positions = "both"
                 /\ Evaluated(f) = Criteria(f)
                 /\ f.verdict # "none" /\ f.evaluations # "unnamed" => Criteria(f) # {}
                 /\ r.report.evm => f.grants \in {"both", "one party twice"}
                 /\ f.closed \in {"no", "in the window"} /\ f.declared = Established(f)

\* Whatever other defects there are, each is named by its own check: none hides
\* another, and none is left to a bystander.
EveryDefectIsNamed ==
  \A r \in reports, f \in fixture :
    f.record = "all" =>
      /\ {f.criteriaRef, f.signers, f.grounds, f.derived} \cap {"missing", "nobody", "execution facts", "execution"} # {}
           => "F1" \in r.failed
      /\ f.evaluations \in {"some", "invented"} => "F2" \in r.failed
      /\ f.criteria = "listed" /\ f.evaluations \in {"none", "unnamed"} => "F2" \in r.failed
      /\ f.artifacts # "rehash" => "E3" \in r.failed
      /\ f.refs \notin {"agree", "unnamed"} \/ f.intentHash # "one" => "E4" \in r.failed
      /\ f.subject = "other" /\ f.client = "named" => "E4" \in r.failed
      /\ f.subject # "missing" /\ f.cert # "subject" => "E4" \in r.failed
      /\ f.basis = "payment" \/ (f.basis = "other" /\ f.verdict = "ACCEPTED") => "B1" \in r.failed
      /\ f.evaluations = "none" /\ f.verdict # "none" => "B2" \in r.failed
      /\ f.positions # "both" => "B3" \in r.failed
      /\ r.evm /\ f.grants \in {"one", "unsigned", "of another"} => "E5" \in r.failed
      /\ f.closed \in {"before the opening", "after the deadline", "not a time"} => "F3" \in r.failed

\* A release rests on records that hold, and a delivery with a defect is told
\* which.
DeliveryIsGrounded == ReleaseRestsOnRecords /\ EveryDefectIsNamed
=============================================================================
