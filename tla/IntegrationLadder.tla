-------------------------- MODULE IntegrationLadder -------------------------
(***************************************************************************)
(* scripts/ladder: the guarded table of integration states, what is        *)
(* reported of an integration, the level the platform claims, and the      *)
(* conformance suite with its badge.  Whoever takes a step says which      *)
(* facts are recorded; nothing keeps them between two steps, nor does a    *)
(* step look at the results of the suite.  What the model remembers for    *)
(* its properties is in resumed, proven and assessed.                      *)
(***************************************************************************)
EXTENDS Naturals, Sequences, FiniteSets, SequencesExt

CONSTANT Adapters  \* the integrations followed

VARIABLES
  states,     \* the state of each integration
  built,      \* whose integrationStatus is no longer NOT_BUILT
  proven,     \* the facts that were recorded for a step an integration took
  resumed,    \* the integrations that ever came back from SUSPENDED
  suite,      \* the results of each in the conformance suite
  assessed,   \* those that once had a result for every criterion and failed none
  badges      \* the integrations the latest machine report names as badge issuers

ladderVars == <<states, built, proven, resumed, suite, assessed, badges>>

IntegrationStates ==
  <<"NOT_STARTED", "DESIGNED", "DRY_RUN", "SANDBOX_READY", "SANDBOX_AUTHORIZED", "LIVE_PREPARED",
    "WEBHOOK_CONNECTED", "CONFORMANCE_TESTING", "CONFORMANT", "PRODUCTION", "SUSPENDED", "REVOKED", "DEPRECATED">>
IndexOf(s) == CHOOSE i \in DOMAIN IntegrationStates : IntegrationStates[i] = s

Named == {"namedIntegrator", "ownerApproval"}
SandboxFacts == Named \cup {"environmentSandboxOnly", "noRealFunds"}
PreparedFacts == Named \cup {"adjudicationSurfaceConfirmed", "noSettlementAuthority"}
WebhookFacts == Named \cup {"webhookSecurity", "policyBoundaryActive"}
ProductionFacts == {"conformanceSuitePass", "securityCheckPass", "evidenceContractPass",
                    "partnerApproval", "deploymentScopeDefined"}
Guards == SandboxFacts \cup PreparedFacts \cup WebhookFacts \cup ProductionFacts

\* The rows of the table; "closes" are the steps that need nothing recorded.
Closes ==
  [NOT_STARTED |-> {"DESIGNED", "REVOKED"}, DESIGNED |-> {"DRY_RUN", "NOT_STARTED"},
   DRY_RUN |-> {"SANDBOX_READY", "NOT_STARTED", "REVOKED"}, SANDBOX_READY |-> {"NOT_STARTED"},
   SANDBOX_AUTHORIZED |-> {"SUSPENDED", "REVOKED"}, LIVE_PREPARED |-> {"SUSPENDED", "REVOKED"},
   WEBHOOK_CONNECTED |-> {"CONFORMANCE_TESTING", "SUSPENDED", "REVOKED"},
   CONFORMANCE_TESTING |-> {"WEBHOOK_CONNECTED", "SUSPENDED"},
   CONFORMANT |-> {"CONFORMANCE_TESTING", "SUSPENDED", "REVOKED"},
   PRODUCTION |-> {"CONFORMANCE_TESTING", "SUSPENDED", "REVOKED"},
   SUSPENDED |-> {"REVOKED"}, REVOKED |-> {"DEPRECATED"}, DEPRECATED |-> {}]
Resumable == {"SANDBOX_AUTHORIZED", "LIVE_PREPARED", "WEBHOOK_CONNECTED", "CONFORMANT", "PRODUCTION"}
Gated ==
  {[from |-> "SANDBOX_READY", to |-> "SANDBOX_AUTHORIZED", requires |-> SandboxFacts],
   [from |-> "SANDBOX_AUTHORIZED", to |-> "LIVE_PREPARED", requires |-> PreparedFacts],
   [from |-> "LIVE_PREPARED", to |-> "WEBHOOK_CONNECTED", requires |-> WebhookFacts],
   [from |-> "CONFORMANCE_TESTING", to |-> "CONFORMANT", requires |-> {"conformanceSuitePass"}],
   [from |-> "CONFORMANT", to |-> "PRODUCTION", requires |-> ProductionFacts]}
  \cup {[from |-> "SUSPENDED", to |-> s, requires |-> {"ownerApproval"}] : s \in Resumable}

EdgesFor(from, to) ==
  {e \in Gated : e.from = from /\ e.to = to}
  \cup (IF to \in Closes[from] THEN {[from |-> from, to |-> to, requires |-> {}]} ELSE {})

\* Mutant of EvaluateTransition: one recorded fact is enough.
EvaluateTransitionOfAny(from, to, conditions) ==
  \E e \in EdgesFor(from, to) : e.requires = {} \/ e.requires \cap conditions # {}

EvaluateTransition(from, to, conditions) ==
  \E e \in EdgesFor(from, to) : e.requires \subseteq conditions

Authority ==
  [s \in Range(IntegrationStates) |->
     CASE s = "SANDBOX_AUTHORIZED"                                         -> "SANDBOX_ONLY"
       [] s = "LIVE_PREPARED"                                              -> "PREPARED"
       [] s \in {"WEBHOOK_CONNECTED", "CONFORMANCE_TESTING", "CONFORMANT"} -> "CONNECTED"
       [] s = "PRODUCTION"                                                 -> "BOUNDARY"
       [] OTHER                                                            -> "NONE"]

-----------------------------------------------------------------------------
\* What is reported.  A doorway is the machine envelope of a state: what proves
\* it, and what a failure of it is called.
Doorway(s) ==
  [evidenceOf |-> s,
   failure |-> CASE s \in {"NOT_STARTED", "SANDBOX_READY"}                -> "REJECTED"
                 [] s \in {"DESIGNED", "DRY_RUN", "CONFORMANCE_TESTING"}  -> "UNKNOWN"
                 [] OTHER                                                 -> "FAILED"]

EvaluateIntegration(state, isBuilt, networkCall) ==
  IF ~isBuilt /\ (networkCall = "PERFORMED" \/ state # "NOT_STARTED")
  THEN [state |-> state, status |-> "UNKNOWN", evidence |-> {}]
  ELSE [state |-> state, status |-> "ACTIVE", evidence |-> {Doorway(state)}]

\* The ladder: a floor, reached when some integration is as far down the list of
\* states, and what must be recorded; the first level that fails ends it.
Levels ==
  <<[floor |-> "SANDBOX_AUTHORIZED", requires |-> SandboxFacts], [floor |-> "LIVE_PREPARED", requires |-> PreparedFacts],
    [floor |-> "WEBHOOK_CONNECTED", requires |-> WebhookFacts],
    [floor |-> "CONFORMANT", requires |-> ProductionFacts \ {"partnerApproval", "deploymentScopeDefined"}]>>

CurrentPlatformLevel(conditions) ==
  LET holds(k) == /\ \E a \in Adapters : IndexOf(states[a]) >= IndexOf(Levels[k].floor)
                  /\ Levels[k].requires \subseteq conditions
      reached == {n \in 0 .. Len(Levels) : \A k \in 1 .. n : holds(k)}
  IN  CHOOSE n \in reached : \A m \in reached : m <= n

-----------------------------------------------------------------------------
\* The suite.  A result is the boolean it should be, is missing, or is something
\* else: a null, a word.
SuiteFields == {"evidenceContractPass", "determinismPass", "replayPass", "tamperDetectionPass",
                "securityCheckPass", "compatibilityPass"}
SuiteResults == {"pass", "fail", "absent", "other"}
Complete == [f \in SuiteFields |-> "pass"]

\* Mutant of EvaluateConformance: what was not run did not fail.
EvaluateConformanceOfRun(results) ==
  IF \E f \in SuiteFields : results[f] = "fail" THEN "NOT_CONFORMANT" ELSE "CONFORMANT"

\* Only a missing result and a false one are looked for.
EvaluateConformance(results) ==
  IF \E f \in SuiteFields : results[f] = "absent" THEN "INCOMPLETE_EVIDENCE"
  ELSE IF \E f \in SuiteFields : results[f] = "fail" THEN "NOT_CONFORMANT"
  ELSE "CONFORMANT"

BuildConformanceReport(eligible) == {a \in eligible : EvaluateConformance(suite[a]) = "CONFORMANT"}

-----------------------------------------------------------------------------
LadderInit ==
  /\ states = [a \in Adapters |-> "NOT_STARTED"] /\ built = {}
  /\ proven = [a \in Adapters |-> {}] /\ badges = {} /\ assessed = {} /\ resumed = {}
  /\ suite = [a \in Adapters |-> [f \in SuiteFields |-> "absent"]]

\* The facts a caller says are recorded: none, all, all but one.
Conditions == {{}, Guards} \cup {Guards \ {g} : g \in Guards}

Transition(a, to, conditions) ==
  /\ EvaluateTransition(states[a], to, conditions)
  /\ states' = [states EXCEPT ![a] = to]
  /\ proven' = [proven EXCEPT ![a] = @ \cup (IF \E e \in EdgesFor(states[a], to) : e.requires # {} THEN conditions ELSE {})]
  /\ resumed' = IF states[a] = "SUSPENDED" /\ to # "REVOKED" THEN resumed \cup {a} ELSE resumed
  /\ UNCHANGED <<built, suite, assessed, badges>>

RecordBuilt(a) == built' = built \cup {a} /\ UNCHANGED <<states, proven, resumed, suite, assessed, badges>>

\* A run of the suite, of a release: all passes, or one criterion does not.
RunSuite(a) ==
  /\ \E f \in SuiteFields, r \in SuiteResults :
       /\ suite' = [suite EXCEPT ![a] = [Complete EXCEPT ![f] = r]]
       /\ assessed' = IF r \in {"pass", "other"} THEN assessed \cup {a} ELSE assessed
  /\ UNCHANGED <<states, built, proven, resumed, badges>>

\* The report of those its caller lists; what the command writes lists nobody.
WriteReport(eligible) ==
  /\ badges' = BuildConformanceReport(eligible)
  /\ UNCHANGED <<states, built, proven, resumed, suite, assessed>>

LadderNext ==
  \/ \E a \in Adapters, to \in Range(IntegrationStates), conditions \in Conditions : Transition(a, to, conditions)
  \/ \E a \in Adapters : RecordBuilt(a) \/ RunSuite(a)
  \/ \E eligible \in SUBSET Adapters : WriteReport(eligible)

LadderSpec == LadderInit /\ [][LadderNext]_ladderVars

-----------------------------------------------------------------------------
\* What the guarded steps up to a state ask for.
AskedUpTo ==
  [s \in Range(IntegrationStates) |->
     CASE s = "SANDBOX_AUTHORIZED"                        -> SandboxFacts
       [] s = "LIVE_PREPARED"                             -> SandboxFacts \cup PreparedFacts
       [] s \in {"WEBHOOK_CONNECTED", "CONFORMANCE_TESTING"} -> SandboxFacts \cup PreparedFacts \cup WebhookFacts
       [] s = "CONFORMANT"  -> SandboxFacts \cup PreparedFacts \cup WebhookFacts \cup {"conformanceSuitePass"}
       [] s = "PRODUCTION"  -> Guards
       [] OTHER             -> {}]

\* An integration that was never suspended has had recorded, for a step it took,
\* every fact that the steps up to its state ask for.  One that resumed may stand
\* at any state it can resume at, and what is sure of it is what the sandbox
\* asks for.  What is reported with evidence of an integration that was not
\* built carries no authority; and the report names as badge issuers only those
\* with a result for every criterion and a failure in none: a result that is no
\* boolean counts as passed.
GrantsWereEarned ==
  /\ \A a \in Adapters \ resumed : AskedUpTo[states[a]] \subseteq proven[a]
  /\ \A a \in resumed : Authority[states[a]] # "NONE" => SandboxFacts \subseteq proven[a]
  /\ \A a \in Adapters \ built, call \in {"PERFORMED", "NOT_PERFORMED"} :
       EvaluateIntegration(states[a], FALSE, call).evidence # {} => Authority[states[a]] = "NONE"
  /\ badges \subseteq assessed

\* "A level is LIVE when at least one adapter reached its state floor": a level
\* above the first is claimed only if some integration was at the first floor.
LevelWasReached ==
  CurrentPlatformLevel(Guards) > 0 => \E a \in Adapters : SandboxFacts \subseteq proven[a]
=============================================================================
