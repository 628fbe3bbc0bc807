---------------------------- MODULE PaymentGates ----------------------------
(***************************************************************************)
(* The gates before a payment: packages/stellar/dex-gating for swaps, path *)
(* payments and liquidity, the agent payment verifier of packages/         *)
(* stellar-agent, and the gates other packages build on the two.  Amounts  *)
(* are percents of a whole payment.                                        *)
(***************************************************************************)
EXTENDS Integers, Sequences, FiniteSets, SequencesExt, Variants

CONSTANT OddPayments  \* bound of the model: odd fields of a request

VARIABLES
  payment,     \* what was asked of which gate
  judged,      \* the gate's answer
  execution,   \* what was then executed, and whether it conforms
  submission   \* what became of an agent's payment

gatesVars == <<payment, judged, execution, submission>>

Pays == [type : {"max_amount"}, most : {50, 100}, who : {"nobody"}]
Denies == [type : {"deny_destination", "deny_source"}, most : {0}, who : {"shop", "agent"}]
RuleLists == {<<a>> : a \in Pays \cup Denies} \cup {<<a, d>> : a \in Pays, d \in Denies}

Judged(verdict) == [verdict |-> verdict, allowed |-> verdict = "VERIFIED"]
Break(rules, breaks(_)) == \E i \in DOMAIN rules : breaks(rules[i])

-----------------------------------------------------------------------------
\* packages/stellar/dex-gating.  A missing or zero minAmount is no minimum, and
\* a maxSlippage of zero is the default of 5 percent.
MaxSlippage(r) == IF r.maxSlippage = 0 THEN 5 ELSE r.maxSlippage
BreaksSwap(r, rule) ==
  \/ rule.type = "max_amount" /\ r.amount > rule.most
  \/ rule.type = "deny_destination" /\ rule.who = r.destination
  \/ rule.type = "deny_source" /\ rule.who = r.source

\* Mutant of GateSwap: deny_source is a rule of destinations.
GateSwapOneWay(r) ==
  IF "" \in {r.source, r.destination} \/ r.amount <= 0 THEN Judged("HELD")
  ELSE IF r.minAmount > r.amount THEN Judged("REJECTED")
  ELSE IF Break(r.rules, LAMBDA rule : rule.type # "deny_source" /\ BreaksSwap(r, rule)) THEN Judged("REJECTED")
  ELSE IF r.minAmount # 0 /\ 100 * (r.amount - r.minAmount) > r.amount * MaxSlippage(r) THEN Judged("REJECTED")
  ELSE IF "" \in Range(r.path) THEN Judged("HELD")
  ELSE Judged("VERIFIED")

GateSwap(r) ==
  IF "" \in {r.source, r.destination} \/ r.amount <= 0 THEN Judged("HELD")
  ELSE IF r.minAmount > r.amount THEN Judged("REJECTED")
  ELSE IF Break(r.rules, LAMBDA rule : BreaksSwap(r, rule)) THEN Judged("REJECTED")
  ELSE IF r.minAmount # 0 /\ 100 * (r.amount - r.minAmount) > r.amount * MaxSlippage(r) THEN Judged("REJECTED")
  ELSE IF "" \in Range(r.path) THEN Judged("HELD")
  ELSE Judged("VERIFIED")

\* Mutant of GatePathPayment: the rules are about amounts.
GatePathPaymentOfAmount(r) ==
  IF "" \in {r.source, r.destination} \/ r.amount <= 0 THEN Judged("HELD")
  ELSE IF Break(r.rules, LAMBDA rule : rule.type = "max_amount" /\ BreaksSwap(r, rule)) THEN Judged("REJECTED")
  ELSE Judged("VERIFIED")

\* Neither destMin nor the source is looked at.
GatePathPayment(r) ==
  IF "" \in {r.source, r.destination} \/ r.amount <= 0 THEN Judged("HELD")
  ELSE IF Break(r.rules, LAMBDA rule : rule.type # "deny_source" /\ BreaksSwap(r, rule)) THEN Judged("REJECTED")
  ELSE Judged("VERIFIED")

\* Mutant of GateProvideLiquidity: the second amount has no limit.
GateLiquidityOneSided(r) ==
  IF "" \in {r.source, r.destination} \/ r.amount <= 0 \/ r.amountB <= 0 THEN Judged("HELD")
  ELSE IF Break(r.rules, LAMBDA rule : rule.type = "max_amount" /\ rule.most < r.amount) THEN Judged("REJECTED")
  ELSE Judged("VERIFIED")

GateProvideLiquidity(r) ==
  LET breaks(rule) == rule.type = "max_amount" /\ (rule.most < r.amount \/ rule.most < r.amountB)
  IN  IF "" \in {r.source, r.destination} \/ r.amount <= 0 \/ r.amountB <= 0 THEN Judged("HELD")
      ELSE IF Break(r.rules, breaks) THEN Judged("REJECTED")
      ELSE Judged("VERIFIED")

\* Mutant of CheckConformance: what is paid in is not compared.
CheckConformanceButAsset(intent, did) ==
  LET named(f) == intent[f] # "" /\ did[f] # ""
      differ == \/ \E f \in {"source", "destination"} : named(f) /\ intent[f] # did[f]
                \/ named("text") /\ (intent.text = "word" \/ intent.amount # did.amount)
  IN  Judged(IF differ THEN "REJECTED" ELSE "VERIFIED")

\* A field that either side lacks is not compared, nor is any but these four: the
\* caller puts what was allowed into them.
CheckConformance(intent, did) ==
  LET named(f) == intent[f] # "" /\ did[f] # ""
      differ == \/ \E f \in {"source", "destination", "asset"} : named(f) /\ intent[f] # did[f]
                \/ named("text") /\ (intent.text = "word" \/ intent.amount # did.amount)
  IN  Judged(IF differ THEN "REJECTED" ELSE "VERIFIED")

\* packages/stellar/soroban-dex plans swaps, mainnet-executor payments to be
\* signed elsewhere.  A plan decides nothing and sends nothing.
PlanSwap(r) == IF "" \in {r.source, r.destination} \/ r.amount <= 0 THEN "HELD" ELSE "PLAN_OK"
ExecuteMainnet(r, signs) == IF signs THEN PlanSwap(r) ELSE "HELD"

-----------------------------------------------------------------------------
\* packages/stellar-agent.  The amount is text: it may not parse, and so may a
\* deadline, which then never passes.
CheckPolicy(r) ==
  /\ r.limit = "none" \/ (r.text # "word" /\ r.amount <= 50)
  /\ r.recipients \in {"none", "empty"} \/ r.destination = "shop"
  /\ r.deadline # "past"
  /\ r.assets \in {"none", IF r.asset = "" THEN "XLM" ELSE r.asset}

\* The receipt says PASS for every rule it is asked about, so its replay
\* matches whenever each rule has an id.
ReplayOfOwnReceipt(ids) == IF ids = "all" THEN "MATCH" ELSE "UNKNOWN"

\* Mutant of VerifyAgentPayment: an unmet policy is for the replay to find.
VerifyUnlessReplayFails(r) ==
  IF r.agent = "" \/ r.destination = "" \/ r.text = "" \/ r.policy = "none" \/ r.ids \in {"none", "absent"} THEN "HELD"
  ELSE IF ReplayOfOwnReceipt(r.ids) # "MATCH" THEN "UNKNOWN"
  ELSE "VERIFIED"

VerifyAgentPayment(r) ==
  IF r.agent = "" \/ r.destination = "" \/ r.text = "" \/ r.policy = "none" \/ r.ids \in {"none", "absent"} THEN "HELD"
  ELSE IF ~CheckPolicy(r) THEN "REJECTED"
  ELSE IF ReplayOfOwnReceipt(r.ids) # "MATCH" THEN "UNKNOWN"
  ELSE "VERIFIED"

AiAgentPaymentGate(r) ==
  LET v == VerifyAgentPayment(r)
  IN  CASE v = "VERIFIED" -> "SUBMIT"
        [] v = "REJECTED" -> "BLOCK"
        [] OTHER          -> "HOLD"

\* packages/coreguard-trinity: the same gate for one of three networks.
TrinityGate(r) == IF r.network = "other" THEN "HOLD" ELSE AiAgentPaymentGate(r)

\* packages/stellar-killer: the shield replays rules and reads no policy.
UniversalDappShield(r) ==
  IF r.policy = "none" \/ r.ids = "absent" THEN "HELD"
  ELSE IF r.ids = "none" THEN "THROWS"
  ELSE IF ReplayOfOwnReceipt(r.ids) = "MATCH" THEN "ALLOW"
  ELSE "HOLD"
\* The caller's evidence goes over the receipt that says PASS: it may fail a rule,
\* or have nothing of one.
IntentToEvidenceBinding(r) ==
  IF r.policy = "none" \/ r.ids \in {"none", "absent"} \/ r.evidence = "absent" THEN "HELD"
  ELSE IF ReplayOfOwnReceipt(r.ids) = "MATCH" /\ r.evidence = "of the policy" THEN "BOUND"
  ELSE "UNKNOWN"
-----------------------------------------------------------------------------
\* A payment in order, and the ways one may differ.
PlainPayment ==
  [source |-> "agent", destination |-> "shop", amount |-> 50, minAmount |-> 48, amountB |-> 50,
   rules |-> <<>>, maxSlippage |-> 0, path |-> <<>>, agent |-> "a", text |-> "number",
   policy |-> "given", ids |-> "all", limit |-> "50", recipients |-> "shop",
   deadline |-> "none", assets |-> "XLM", asset |-> "XLM", network |-> "stellar",
   evidence |-> "of the policy"]
PaymentValues ==
  [source |-> {"", "thief"}, destination |-> {"", "thief"}, amount |-> {-1, 0, 51, 100},
   minAmount |-> {0, 45, 47, 51}, amountB |-> {0, 51}, rules |-> RuleLists, maxSlippage |-> {10},
   path |-> {<<"USDC">>, <<"">>}, agent |-> {""}, text |-> {"", "word"},
   policy |-> {"none"}, ids |-> {"some", "none", "absent"}, limit |-> {"none"},
   recipients |-> {"none", "empty"}, deadline |-> {"future", "past", "unreadable"},
   assets |-> {"none", "USDC"}, asset |-> {"", "USDC"}, network |-> {"other"},
   evidence |-> {"absent", "partial", "failing"}]
Payments == AllBut(PlainPayment, PaymentValues, OddPayments)

\* The cases scripts/stellar-agent-gate-executed puts on record, and the verdicts
\* without which it writes nothing: a payment in order, one over its limit, and
\* one of nobody.
ExecuteCases ==
  LET of(n, who) == VerifyAgentPayment([PlainPayment EXCEPT !.amount = n, !.agent = who])
  IN  IF <<of(50, "a"), of(100, "a"), of(50, "")>> = <<"VERIFIED", "REJECTED", "HELD">>
      THEN "WRITTEN" ELSE "THROWS"

Decide(gate, r) ==
  CASE gate = "swap"      -> GateSwap(r).verdict
    [] gate = "path"      -> GatePathPayment(r).verdict
    [] gate = "liquidity" -> GateProvideLiquidity(r).verdict
    [] gate = "plan"      -> PlanSwap(r)
    [] gate = "mainnet"   -> ExecuteMainnet(r, r.agent # "")
    [] gate = "agent"     -> AiAgentPaymentGate(r)
    [] gate = "trinity"   -> TrinityGate(r)
    [] gate = "shield"    -> UniversalDappShield(r)
    [] gate = "binding"   -> IntentToEvidenceBinding(r)
    [] gate = "executed"  -> ExecuteCases
Allowing == {"VERIFIED", "SUBMIT"}
Gates == {"swap", "path", "liquidity", "plan", "mainnet", "agent", "trinity", "shield", "binding", "executed"}

GatesInit ==
  payment = [gate |-> "none"] /\ judged = "none" /\ execution = [is |-> "none"] /\ submission = "none"

Ask(gate, r) ==
  /\ payment' = [gate |-> gate, of |-> r]
  /\ judged' = Decide(gate, r)
  /\ UNCHANGED <<execution, submission>>

\* What is executed is what was allowed, but for one field.
OddDeeds == [source |-> {"", "thief"}, destination |-> {"", "thief"}, amount |-> {49, 100}, text |-> {""},
             asset |-> {"", "EURC"}]
Execute ==
  /\ judged \in Allowing /\ execution.is = "none"
  /\ \E e \in AllBut(payment.of, OddDeeds, 1) :
       execution' = [is |-> CheckConformance(payment.of, e).verdict, of |-> e]
  /\ UNCHANGED <<payment, judged, submission>>

\* submitTransaction is given the xdr of an intent that has none: the submitter
\* is never called, whatever it would answer.
SubmitTransaction(submitter, xdr) ==
  IF submitter = "none" THEN "NOT_PERFORMED"
  ELSE IF xdr = "" THEN "REJECTED"
  ELSE submitter
BuildPaymentIntent(r) ==
  IF "" \in {r.source, r.destination, r.text} THEN "GATED" ELSE "BUILD_OK"

\* Its answer to submitTransaction's every answer is SUBMITTED.
SubmitAgentPayment(submitter, signer) ==
  /\ payment.gate = "agent" /\ submission = "none"
  /\ submission' =
       IF judged # "SUBMIT" \/ BuildPaymentIntent(payment.of) = "GATED" THEN "HELD"
       ELSE IF submitter = "none" /\ ~signer THEN "NOT_PERFORMED"
       ELSE [answer \in {"NOT_PERFORMED", "REJECTED", "SUBMITTED"} |-> "SUBMITTED"][SubmitTransaction(submitter, "")]
  /\ UNCHANGED <<payment, judged, execution>>

GatesNext ==
  \/ payment.gate = "none" /\ \E gate \in Gates, r \in Payments : Ask(gate, r)
  \/ Execute
  \/ \E submitter \in {"none", "SUBMITTED", "REJECTED"}, signer \in BOOLEAN :
       SubmitAgentPayment(submitter, signer)

GatesSpec == GatesInit /\ [][GatesNext]_gatesVars

-----------------------------------------------------------------------------
\* The agent's policy, and the rules the gates of amounts know.
KeepsPolicy(p) ==
  /\ p.limit = "50" => p.amount <= 50
  /\ p.recipients = "shop" => p.destination = "shop"
  /\ p.deadline # "past"
KeepsLimits(p, amounts) ==
  \A i \in DOMAIN p.rules : p.rules[i].type = "max_amount" => \A n \in amounts : n <= p.rules[i].most

\* A gate's yes holds for what is executed after it.  An execution that names its
\* source, destination, amount and asset and conforms to an allowed payment: of a
\* swap, breaks no rule; of a path payment, no limit and no denied destination;
\* of liquidity, no limit, nor did the second amount that was allowed; of an
\* agent, is within its policy, and in an asset of its list if the payment named
\* one.  SUBMITTED is said only of a payment within its policy.  The three cases
\* on record can always be executed again.
ConformingIsInPolicy ==
  LET r == payment.of
      e == execution.of
  IN  /\ judged # "THROWS" \/ payment.gate = "shield"
      /\ (execution.is = "VERIFIED" /\ "" \notin {e.source, e.destination, e.text, e.asset}) =>
         /\ payment.gate = "swap" => ~\E i \in DOMAIN e.rules : BreaksSwap(e, e.rules[i])
         /\ payment.gate = "path" =>
              /\ KeepsLimits(e, {e.amount})
              /\ \A i \in DOMAIN e.rules : e.rules[i].type = "deny_destination" => e.rules[i].who # e.destination
         /\ payment.gate = "liquidity" => KeepsLimits(e, {e.amount, r.amountB})
         /\ payment.gate \in {"agent", "trinity"} =>
              KeepsPolicy(e) /\ (e.assets # "none" /\ r.asset # "" => e.asset = e.assets)
      /\ submission = "SUBMITTED" =>
           KeepsPolicy(r) /\ (r.assets # "none" => r.asset \in {"", r.assets})
=============================================================================
