------------------------------ MODULE JobFlow -------------------------------
(***************************************************************************)
(* A paid job from end to end, packages/job-integration/index.mjs: a job   *)
(* flow opens its job on a budget ledger, may lock an escrow amount at     *)
(* once, spends through the ledger, and settles the escrow with what       *)
(* packages/acceptance/index.mjs says of a delivery.  A delivery can be    *)
(* judged any number of times, with another spec and other evidence.       *)
(*                                                                         *)
(* A spec is the set of the kinds of its checks.  What the evidence says   *)
(* to a check that reads it is one of PASS, FAIL and UNKNOWN (nothing was  *)
(* supplied, or the check declares nothing to compare with).               *)
(*                                                                         *)
(* The x402 payments of the job share its ledger, the way                  *)
(* test/integrations/budget-acceptance-flow.test.mjs wires the parts: the  *)
(* flow opens the job, spends on it and has deliveries judged; the harness *)
(* reserves, signs and settles on the same job.  Each leaves the other's   *)
(* state alone, but for the ledger.                                        *)
(***************************************************************************)
EXTENDS X402Harness

CONSTANTS
  FlowJob,         \* jobId of the flow
  Specs,           \* the acceptance specs deliveries are judged by
  BudgetCheckJob   \* args.jobId of the BUDGET_WITHIN_CEILING checks

EvidenceKinds == {"DIGEST_MATCH", "ARTIFACT_PRESENT", "NO_FORBIDDEN_CALLS",
                  "REPLAY_MATCH", "PUBLISHER_APPROVAL"}
CheckKinds == EvidenceKinds \cup {"BUDGET_WITHIN_CEILING", "HUMAN_JUDGMENT"}
Verdicts == {"PASS", "FAIL", "UNKNOWN"}
States == {"ACCEPTED", "REJECTED", "UNKNOWN"}

\* buildAcceptanceSpec refuses an empty list and kinds it does not know.
ASSUME FlowAssumption ==
  /\ FlowJob \in Jobs
  /\ Specs \subseteq (SUBSET CheckKinds) \ {{}}
  /\ BudgetCheckJob \in Jobs \cup {None}

VARIABLE last   \* the latest result of deliver

flowVars == <<vars, last>>

NoDelivery == [spec |-> {}, state |-> "NONE", applied |-> FALSE]

FlowTypeOK ==
  last \in [spec : Specs \cup {{}}, state : States \cup {"NONE"}, applied : BOOLEAN]

FlowInit == Init /\ last = NoDelivery

-----------------------------------------------------------------------------
\* createJobFlow: openJob, then hold of an amount that may be None.  A hold
\* the ledger refuses leaves the flow open with nothing locked.
CreateJobFlow(ceiling, amount) ==
  LET fits == amount # None /\ amount <= ceiling
  IN  /\ ~IsOpen(FlowJob)
      /\ fits => amount <= EscrowBound
      /\ jobs' = [jobs EXCEPT
           ![FlowJob].state = IF fits THEN "HELD" ELSE "OPEN",
           ![FlowJob].ceiling = ceiling,
           ![FlowJob].held = IF fits THEN amount ELSE 0]
      /\ UNCHANGED <<scopes, reservations, last>>

\* The methods of the flow that pass a call on to the ledger.  The flow has
\* none for a disposition: deliver is the way to one.
Spend ==
  /\ \/ \E s \in Scopes, n \in Amounts :
          OpenRootScope(FlowJob, s, n) \/ \E p \in Scopes : OpenSubScope(FlowJob, s, p, n)
     \/ \E s \in Scopes \cup {None}, r \in Reservations, n \in Amounts :
          Reserve(FlowJob, s, r, n) \/ Meter(FlowJob, s, r, n)
     \/ \E r \in Reservations : Commit(r) \/ Release(r)
     \/ \E n \in Amounts : Hold(FlowJob, n)
  /\ UNCHANGED last

\* Mutant of EvaluateCheck: the machine passes a judgment it cannot make.
JudgmentPasses(kind, evidence) ==
  CASE kind = "HUMAN_JUDGMENT" -> "PASS"
    [] kind = "BUDGET_WITHIN_CEILING" -> "PASS"
    [] OTHER -> evidence[kind]

\* evaluateCheck.  The ceiling check reads the ledger, a snapshot of a job it
\* may not hold; a judgment check never passes.
EvaluateCheck(kind, evidence) ==
  CASE kind = "HUMAN_JUDGMENT" -> "UNKNOWN"
    [] kind = "BUDGET_WITHIN_CEILING" ->
         IF BudgetCheckJob = None \/ ~IsOpen(BudgetCheckJob) THEN "UNKNOWN"
         ELSE IF jobs[BudgetCheckJob].committed > jobs[BudgetCheckJob].ceiling
              THEN "FAIL" ELSE "PASS"
    [] OTHER -> evidence[kind]

\* evaluateAcceptance: the state of a list of verdicts.
StateOf(results) ==
  IF "FAIL" \in results THEN "REJECTED"
  ELSE IF "UNKNOWN" \in results THEN "UNKNOWN" ELSE "ACCEPTED"

\* Mutant of DispositionOf: what is not accepted is refunded.
RefundsUnknown(state) == IF state = "ACCEPTED" THEN "RELEASED" ELSE "REFUNDED"

DispositionOf(state) ==
  CASE state = "ACCEPTED" -> "RELEASED"
    [] state = "REJECTED" -> "REFUNDED"
    [] state = "UNKNOWN" -> "HELD"

\* deliver: judge, then apply the disposition to all that is held.  The ledger
\* refuses it when nothing is held, and HELD moves nothing.
Deliver(spec, evidence) ==
  LET state == StateOf({EvaluateCheck(k, evidence) : k \in spec})
      to == DispositionOf(state)
      locked == jobs[FlowJob].held > 0
  IN  /\ IsOpen(FlowJob)
      /\ last' = [spec |-> spec, state |-> state, applied |-> locked]
      /\ IF locked /\ to # "HELD"
         THEN DisposeAll(FlowJob, to)
         ELSE UNCHANGED vars

FlowStep ==
  \/ \E c \in Ceilings, n \in Amounts \cup {None} : CreateJobFlow(c, n)
  \/ Spend
  \/ \E spec \in Specs : \E e \in [spec \cap EvidenceKinds -> Verdicts] : Deliver(spec, e)

-----------------------------------------------------------------------------
\* The paid job: the flow and the harness on one ledger.
paidVars == <<vars, last, harnessVars>>

PaidTypeOK == TypeOK /\ FlowTypeOK /\ HarnessTypeOK

PaidInit == FlowInit /\ HarnessInit

PaidNext ==
  \/ FlowStep /\ HarnessIdle
  \/ HarnessStep /\ UNCHANGED last

PaidSpec == PaidInit /\ [][PaidNext]_paidVars

-----------------------------------------------------------------------------
\* Escrow moves on a verdict and the right way: money leaves the lock only in
\* a delivery, all of it, to the worker when every check passed and back to
\* the publisher when one failed; an UNKNOWN never pays and never refunds.
MoneyFollowsVerdict ==
  [][LET j == FlowJob
     IN  /\ jobs'[j].released # jobs[j].released =>
              /\ last'.state = "ACCEPTED" /\ jobs'[j].held = 0
              /\ jobs'[j].released = jobs[j].released + jobs[j].held
         /\ jobs'[j].refunded # jobs[j].refunded =>
              /\ last'.state = "REJECTED" /\ jobs'[j].held = 0
              /\ jobs'[j].refunded = jobs[j].refunded + jobs[j].held
         /\ jobs'[j].held < jobs[j].held => last'.state # "UNKNOWN"]_flowVars

\* Work whose quality is a human judgment is never paid for by the machine,
\* whatever the other checks and however often the delivery is judged.
JudgmentNeverPaid ==
  [][jobs'[FlowJob].released > jobs[FlowJob].released =>
       "HUMAN_JUDGMENT" \notin last'.spec]_flowVars

\* Escrow moves on the verdict that allows it, and never to the worker on a
\* verdict that a machine cannot give.
EscrowFollowsVerdict == MoneyFollowsVerdict /\ JudgmentNeverPaid

\* The harness and the ledger agree on every payment: what is held is backed by
\* a live reservation of its own, no live reservation is forgotten, and what is
\* committed was settled.
PaymentsAreAccounted == PaidTypeOK /\ HeldIsBacked /\ NoLeak /\ CommitsAreSettled
=============================================================================
