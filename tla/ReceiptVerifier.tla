-------------------------- MODULE ReceiptVerifier --------------------------
(***************************************************************************)
(* Execution receipts: how guard.verify derives one, how the verifier      *)
(* recomputes it (packages/verifier, policy, replay, evidence), how chain  *)
(* bindings are added to its report, how an anchor is planned, and how the *)
(* evidence of an anchor is judged (scripts/anchor-verdict.mjs).           *)
(* A piece of material is named by how it compares with what the receipt   *)
(* commits; a policy has one rule, and is violated when one rule is.       *)
(***************************************************************************)
EXTENDS Naturals, FiniteSets, Variants

CONSTANTS
  OddMaterial,   \* bound of the model: how many things about a receipt are odd
  OddStates      \* bound of the model: how many checks of an anchor did not pass

ASSUME ReceiptAssumption == {OddMaterial, OddStates} \subseteq Nat

VARIABLES
  held,         \* the receipt and the material a caller holds: at most one
  derived,      \* the result guard.verify wrote into the receipt it derived
  verdicts,     \* what verifyReceipt, runVerification and guard.verify said
  plans,        \* the anchors guard.anchor planned
  anchored      \* verdicts on anchors

receiptVars == <<held, derived, verdicts, plans, anchored>>

ReceiptInit == held = {} /\ derived = {} /\ verdicts = {} /\ plans = {} /\ anchored = {}

\* The material of a plain L2 receipt, and what each part of it may be instead.
BoundFields == {"target", "signer", "selector", "amount", "recipient", "nonce",
                "validAfter", "validUntil", "chainId"}
ChainFields == {"CHAIN_ID_BINDING", "TX_BINDING", "RECEIPT_BINDING", "BLOCK_BINDING"}
Lists == {"TARGET_ALLOWLIST", "TARGET_DENYLIST", "RECIPIENT_ALLOWLIST", "RECIPIENT_DENYLIST",
          "SELECTOR_ALLOWLIST", "SELECTOR_DENYLIST"}
Limits == {"VALUE_MAX", "VALUE_MIN", "MAX_GAS", "DEADLINE", "SLIPPAGE_BPS", "ORACLE_BOUND"}

PlainPieces ==
  [level |-> "L2", id |-> "recomputes", intent |-> "same", policy |-> "same", trace |-> "same",
   evidence |-> "absent", delta |-> "unmarked", signature |-> "none", frames |-> "coherent",
   available |-> "undeclared", pinning |-> "both", rule |-> "VALUE_MAX", observed |-> "within",
   adapter |-> "answers"]
PlainMaterial ==
  [f \in DOMAIN PlainPieces \cup BoundFields \cup ChainFields |->
     IF f \in BoundFields THEN "agrees" ELSE IF f \in ChainFields THEN "unasked" ELSE PlainPieces[f]]
OtherPieces ==
  [level |-> {"L0", "L1", "L3", "L9"}, id |-> {"other"},
   intent |-> {"other", "absent"}, policy |-> {"other", "absent"}, trace |-> {"other", "absent"},
   evidence |-> {"same", "other"}, delta |-> {"same", "other"}, signature |-> {"valid", "invalid"},
   frames |-> {"depth_jump", "other_root", "gas_above", "not_canonical"},
   available |-> {"frames", "no_frames", "reason", "no_reason", "unknown"}, pinning |-> {"missing"},
   rule |-> (Lists \cup Limits \cup {"UNKNOWN"}) \ {"VALUE_MAX"}, observed |-> {"beyond", "absent"},
   adapter |-> {"none"}]
OtherMaterial ==
  [f \in DOMAIN OtherPieces \cup BoundFields \cup ChainFields |->
     IF f \in BoundFields THEN {"differs", "absent"}
     ELSE IF f \in ChainFields THEN {"same", "other", "not_found"} ELSE OtherPieces[f]]
Material == AllBut(PlainMaterial, OtherMaterial, OddMaterial)

-----------------------------------------------------------------------------
\* packages/policy: a rule that finds its input absent works with a default.
\* The value and the recipient are then the intent's, when there is one.
PassesByDefault == (Limits \ {"VALUE_MIN"}) \cup {"TARGET_DENYLIST", "RECIPIENT_DENYLIST", "SELECTOR_DENYLIST"}
RuleHolds(rule, observed, fallback) ==
  /\ rule # "UNKNOWN"
  /\ \/ observed = "within"
     \/ observed = "absent" /\ (rule \in PassesByDefault \/ fallback)

\* The verifier evaluates the policy on the trace.
PolicySatisfied(m) ==
  RuleHolds(m.rule, m.observed, m.intent # "absent" /\ m.rule \in {"VALUE_MIN", "RECIPIENT_ALLOWLIST"})
\* guard.verify evaluates it on a slippage of "0" and passes on neither the gas
\* used nor the price; and a deadline without a block time throws.
GuardSatisfied(m) ==
  \/ m.rule \in {"SLIPPAGE_BPS", "MAX_GAS", "ORACLE_BOUND"}
  \/ RuleHolds(m.rule, m.observed, m.rule = "RECIPIENT_ALLOWLIST")
GuardThrows(m) == m.rule = "DEADLINE" /\ m.observed = "absent"

\* What is absent for the rule is absent for the binding.
FieldsOfRule(rule) ==
  CASE rule \in {"VALUE_MAX", "VALUE_MIN"} -> {"amount"}
    [] rule = "DEADLINE" -> {"validAfter", "validUntil"}
    [] rule \in {"TARGET_ALLOWLIST", "TARGET_DENYLIST"} -> {"target"}
    [] rule \in {"RECIPIENT_ALLOWLIST", "RECIPIENT_DENYLIST"} -> {"recipient"}
    [] rule \in {"SELECTOR_ALLOWLIST", "SELECTOR_DENYLIST"} -> {"selector"}
    [] rule \in {"MAX_GAS", "SLIPPAGE_BPS", "ORACLE_BOUND", "UNKNOWN"} -> {}
Compared(m, f) == m[f] # "absent" /\ ~(m.observed = "absent" /\ f \in FieldsOfRule(m.rule))

\* A field binds when both sides have it.
VerifyIntentExecutionBinding(m) == \A f \in BoundFields : Compared(m, f) => m[f] # "differs"

\* packages/replay: the trace is a legal call tree, coherent with its root and
\* its gas, in canonical integers.  Without a gas it is not.
PlanTraceReplay(m) == m.frames = "coherent" /\ ~(m.rule = "MAX_GAS" /\ m.observed = "absent")

\* Presence only: the pinned blocks are not compared with anything.
VerifyStatePinning(m) == m.pinning = "both"

-----------------------------------------------------------------------------
\* verifyReceipt: the checks it runs, those that there is something to run on,
\* and what each finds.
Passed(ok) == IF ok THEN "PASS" ELSE "FAIL"
Compare(piece) == IF piece = "absent" THEN "NOT_RUN" ELSE Passed(piece = "same")

RequiredChecks == {"RECEIPT_COMMITMENT", "INTENT_HASH", "POLICY_HASH", "TRACE_HASH", "STATE_PINNING"}
OptionalChecks(m) ==
  LET traced == m.trace # "absent"
      only(check, there) == {c \in {check} : there}
  IN  UNION {only("EVIDENCE_COMMITMENT", m.evidence # "absent"),
             only("STATE_DELTA_CANONICAL", m.evidence # "absent" /\ m.delta # "unmarked" /\ traced),
             only("POLICY_EVAL", m.policy # "absent" /\ traced),
             only("SIGNER_AUTHENTICATION", m.intent # "absent" /\ m.signature # "none"),
             only("REPLAY_CONSISTENCY", traced),
             only("TRACE_AVAILABILITY", m.available # "undeclared"),
             only("INTENT_EXECUTION_BINDING", m.intent # "absent" /\ traced)}
EngineCheck(m, check) ==
  CASE check = "RECEIPT_COMMITMENT"       -> Passed(m.id = "recomputes")
    [] check = "INTENT_HASH"              -> Compare(m.intent)
    [] check = "POLICY_HASH"              -> Compare(m.policy)
    [] check = "TRACE_HASH"               -> Compare(m.trace)
    [] check = "STATE_PINNING"            -> Passed(VerifyStatePinning(m))
    [] check = "EVIDENCE_COMMITMENT"      -> Passed(m.evidence = "same")
    [] check = "STATE_DELTA_CANONICAL"    -> Passed(m.delta = "same")
    [] check = "POLICY_EVAL"              -> Passed(PolicySatisfied(m))
    [] check = "SIGNER_AUTHENTICATION"    -> Passed(m.signature = "valid")
    [] check = "REPLAY_CONSISTENCY"       -> Passed(PlanTraceReplay(m))
    [] check = "TRACE_AVAILABILITY"       -> Passed(m.available \in {"frames", "reason"})
    [] check = "INTENT_EXECUTION_BINDING" -> Passed(VerifyIntentExecutionBinding(m))
EngineChecks(m) == [c \in RequiredChecks \cup OptionalChecks(m) |-> EngineCheck(m, c)]

\* run.js: what the chain answered about the receipt; a question not asked is
\* optional, an answer "not_found" is a contradiction.
DeriveRpcBindings(m) == [f \in ChainFields |-> IF m[f] = "unasked" THEN "NOT_RUN" ELSE Passed(m[f] = "same")]
BoundChecks(m) ==
  [c \in RequiredChecks \cup OptionalChecks(m) \cup ChainFields |->
     IF c \in ChainFields THEN DeriveRpcBindings(m)[c] ELSE EngineCheck(m, c)]

RequiredByLevel ==
  LET l0 == {"RECEIPT_COMMITMENT", "STATE_PINNING"}
      l1 == l0 \cup {"INTENT_HASH", "POLICY_HASH"}
  IN  [L0 |-> l0, L1 |-> l1, L2 |-> l1 \cup {"TRACE_HASH", "INTENT_EXECUTION_BINDING"}]

Failing(checks) == {c \in DOMAIN checks : checks[c] = "FAIL"}
Missing(required, checks) == {c \in required : c \notin DOMAIN checks \/ checks[c] # "PASS"}

\* A mutant: what was not run does not count as missing.
NotRunIsEnough(level, checks) ==
  IF Failing(checks) # {} THEN "INVALID"
  ELSE IF level \in {"L3", "L4"} THEN "INCONCLUSIVE"
  ELSE IF level \notin DOMAIN RequiredByLevel THEN "UNVERIFIED" ELSE "VERIFIED"
EvaluateCheckVerdict(level, checks) ==
  IF Failing(checks) # {} THEN "INVALID"
  ELSE IF level \in {"L3", "L4"} THEN "INCONCLUSIVE"
  ELSE IF level \notin DOMAIN RequiredByLevel THEN "UNVERIFIED"
  ELSE IF Missing(RequiredByLevel[level], checks) # {} THEN "UNVERIFIED" ELSE "VERIFIED"

Verdict(by, m, checks) ==
  [by |-> by, level |-> m.level, verdict |-> EvaluateCheckVerdict(m.level, checks), failing |-> Failing(checks)]

-----------------------------------------------------------------------------
\* A caller comes with a receipt, and keeps it; or with the material only.
Bring(m) == held' = {m} /\ UNCHANGED <<derived, verdicts, plans, anchored>>

VerifyReceipt(m) ==
  /\ verdicts' = verdicts \cup {Verdict("verifyReceipt", m, EngineChecks(m))}
  /\ UNCHANGED <<held, derived, plans, anchored>>

\* runVerification adds the chain bindings to the engine's checks.
RunVerification(m) ==
  /\ verdicts' = verdicts \cup {Verdict("runVerification", m, BoundChecks(m))}
  /\ UNCHANGED <<held, derived, plans, anchored>>

\* createReceipt commits what it is given, over everything but the id.
CreateReceipt(m) == [m EXCEPT !.id = "recomputes", !.available = "undeclared"]

\* guard.verify without a receipt derives one, at L2 and with block stubs, and
\* verifies it; its trace is the caller's or is read through the adapter.
Derived(m) ==
  [CreateReceipt(m) EXCEPT !.level = "L2", !.intent = "same", !.policy = "same", !.trace = "same",
                           !.evidence = IF @ = "absent" THEN "absent" ELSE "other", !.pinning = "both"]
GuardVerify(m) ==
  /\ derived = {} /\ ~GuardThrows(m)
  /\ m.intent # "absent" /\ m.policy # "absent"
  /\ m.trace # "absent" \/ m.adapter = "answers"
  /\ held' = {Derived(m)}
  /\ derived' = {IF GuardSatisfied(m) THEN "VALID" ELSE "INVALID"}
  /\ verdicts' = {Verdict("guard.verify", Derived(m), EngineChecks(Derived(m)))}
  /\ UNCHANGED <<plans, anchored>>

\* guard.anchor stands on no receipt whose id does not recompute.
GuardAnchor(m) == /\ m.id = "recomputes"
                  /\ plans' = {[id |-> m.id, level |-> m.level]}
                  /\ UNCHANGED <<held, derived, verdicts, anchored>>

-----------------------------------------------------------------------------
\* The verdict on an anchor, from the states of its checks.
AnchorProfile ==
  LET l0 == {"C_recompute", "A_deploy", "B_anchor"}
      l1 == l0 \cup {"A_deployTx", "B_commitIntentTx"}
  IN  [L0 |-> l0, L1 |-> l1, L2 |-> l1 \cup {"B_anchorTx"}]
AnchorOptional == {"B_storageIntent", "B_storageAnchor", "bytecode", "crossRpc"}
AnchorStates ==
  LET checks == AnchorProfile.L2 \cup AnchorOptional
  IN  AllBut([c \in checks |-> "PASS"], [c \in checks |-> {"FAIL", "unreachable"}], OddStates)
\* A mutant: what is neither is taken for a pass.
AnythingElsePasses(states) ==
  [c \in DOMAIN states |-> IF states[c] = "FAIL" THEN "FAIL" ELSE "PASS"]
NormalizeStates(states) ==
  [c \in DOMAIN states |-> IF states[c] \in {"PASS", "FAIL"} THEN states[c] ELSE "NOT_RUN"]

\* The level is looked at before the checks are.
EvaluateVerdict(level, raw) ==
  LET states == NormalizeStates(raw)
  IN  IF level \in {"L3", "L4"} THEN "INCONCLUSIVE"
      ELSE IF level \notin DOMAIN AnchorProfile THEN "UNVERIFIED"
      ELSE IF Failing(states) # {} THEN "INVALID"
      ELSE IF Missing(AnchorProfile[level], states) # {} THEN "UNVERIFIED" ELSE "VERIFIED"

JudgeAnchor(m, states) ==
  /\ plans # {} /\ anchored = {}
  /\ anchored' = {[level |-> m.level, states |-> states, verdict |-> EvaluateVerdict(m.level, states),
                   failing |-> Failing(NormalizeStates(states))]}
  /\ UNCHANGED <<held, derived, verdicts, plans>>

ReceiptNext ==
  \/ held = {} /\ \E m \in Material : Bring(m)
  \/ \E m \in held : VerifyReceipt(m) \/ RunVerification(m) \/ GuardVerify(m) \/ GuardAnchor(m)
  \/ \E m \in held, s \in AnchorStates : JudgeAnchor(m, s)

ReceiptSpec == ReceiptInit /\ [][ReceiptNext]_receiptVars

-----------------------------------------------------------------------------
\* A VERIFIED receipt is the one that was committed, at its own level and in
\* everything the caller brought: what the level needs was there and recomputed,
\* and no piece that was there, needed or not, said otherwise; with the chain's
\* answers on top nothing improves.
Contradicted(m) ==
  \/ m.id = "other" \/ m.pinning = "missing" \/ "other" \in {m.intent, m.policy, m.trace, m.evidence}
  \/ m.available \in {"no_frames", "no_reason", "unknown"}
  \/ m.signature = "invalid" /\ m.intent # "absent"
  \/ m.trace # "absent" /\ m.frames # "coherent"
  \/ m.trace # "absent" /\ m.policy # "absent" /\ m.observed = "beyond"
VerifiedIsCommitted ==
  \A v \in verdicts, m \in held :
    v.verdict = "VERIFIED" =>
      /\ ~Contradicted(m)
      /\ m.level = "L1" => {m.intent, m.policy} = {"same"}
      /\ m.level = "L2" => /\ {m.intent, m.policy, m.trace} = {"same"}
                           /\ \A f \in BoundFields : Compared(m, f) => m[f] = "agrees"
      /\ v.by = "runVerification" => \A f \in ChainFields : m[f] \in {"unasked", "same"}

\* An anchor that verifies is one nobody contradicts, and every read its level
\* rests on was made.
AnchorIsEvident ==
  \A a \in anchored : a.verdict = "VERIFIED" =>
    a.failing = {} /\ \A c \in AnchorProfile[a.level] : a.states[c] = "PASS"

\* A receipt is VERIFIED on what it commits to, and anchored as VERIFIED only
\* when every check its level asks for passed.
ReceiptsAreEvident == VerifiedIsCommitted /\ AnchorIsEvident
=============================================================================
