-------------------------- MODULE OperationsProofs --------------------------
(***************************************************************************)
(* What the repository's own tools guarantee for any number of adapters,   *)
(* commits, runs, stagings and odd fields: the verification levels, the    *)
(* integration ladder, the claims with the release gate and the pre-push   *)
(* check, the push guard, the release of the packages, the payment gates,  *)
(* the DEX swap and the pilot's payment.                                   *)
(***************************************************************************)
EXTENDS VerificationLevels, IntegrationLadder, ReleaseGate, Pilot, PagesSettle, PackageRelease, DexSwap,
        FiniteSetTheorems, SequenceTheorems, WellFoundedInduction, TLAPS

-----------------------------------------------------------------------------
\* The ladder.  An integration that is suspended keeps what was recorded for
\* it, and only one with authority can be suspended: that is why whatever
\* resumes has at least the facts of the sandbox.

States == {"NOT_STARTED", "DESIGNED", "DRY_RUN", "SANDBOX_READY", "SANDBOX_AUTHORIZED", "LIVE_PREPARED",
           "WEBHOOK_CONNECTED", "CONFORMANCE_TESTING", "CONFORMANT", "PRODUCTION", "SUSPENDED", "REVOKED", "DEPRECATED"}
\* The states that carry authority, and the one that may give it back.
Granted == {"SANDBOX_AUTHORIZED", "LIVE_PREPARED", "WEBHOOK_CONNECTED", "CONFORMANCE_TESTING", "CONFORMANT",
            "PRODUCTION", "SUSPENDED"}

LadderTypeOK ==
  /\ states \in [Adapters -> States]
  /\ proven \in [Adapters -> SUBSET Guards]
  /\ suite \in [Adapters -> [SuiteFields -> SuiteResults]]
GrantedIsProven == \A a \in Adapters : states[a] \in Granted => SandboxFacts \subseteq proven[a]
AskedIsProven == \A a \in Adapters \ resumed : AskedUpTo[states[a]] \subseteq proven[a]
UnfailedIsAssessed ==
  \A a \in Adapters : (\A f \in SuiteFields : suite[a][f] \notin {"absent", "fail"}) => a \in assessed

LadderInv ==
  LadderTypeOK /\ GrantedIsProven /\ AskedIsProven /\ UnfailedIsAssessed /\ resumed \subseteq Adapters
  /\ badges \subseteq assessed

LEMMA StatesAreListed == Range(IntegrationStates) = States
<1>1. DOMAIN IntegrationStates = {1, 2, 3, 4, 5, 6, 7, 8, 9, 10, 11, 12, 13}
  BY DEF IntegrationStates
<1>2. /\ IntegrationStates[1] = "NOT_STARTED" /\ IntegrationStates[2] = "DESIGNED" /\ IntegrationStates[3] = "DRY_RUN"
      /\ IntegrationStates[4] = "SANDBOX_READY" /\ IntegrationStates[5] = "SANDBOX_AUTHORIZED"
      /\ IntegrationStates[6] = "LIVE_PREPARED" /\ IntegrationStates[7] = "WEBHOOK_CONNECTED"
      /\ IntegrationStates[8] = "CONFORMANCE_TESTING" /\ IntegrationStates[9] = "CONFORMANT"
      /\ IntegrationStates[10] = "PRODUCTION" /\ IntegrationStates[11] = "SUSPENDED"
      /\ IntegrationStates[12] = "REVOKED" /\ IntegrationStates[13] = "DEPRECATED"
  BY DEF IntegrationStates
<1> QED BY <1>1, <1>2 DEF Range, States

\* Authority is what the granted states carry.
LEMMA AuthorityIsGranted == \A s \in States : Authority[s] # "NONE" => s \in Granted
BY StatesAreListed DEF Authority, States, Granted

\* No edge that needs nothing leads to a granted state from anywhere else.
LEMMA ClosesKeep == ASSUME NEW s \in States, Closes[s] \cap Granted # {} PROVE s \in Granted
<1>1. /\ Closes.NOT_STARTED \cap Granted = {} /\ Closes.DESIGNED \cap Granted = {}
      /\ Closes.DRY_RUN \cap Granted = {} /\ Closes.SANDBOX_READY \cap Granted = {}
  BY DEF Closes, Granted
<1>2. Closes.REVOKED \cap Granted = {} /\ Closes.DEPRECATED \cap Granted = {}
  BY DEF Closes, Granted
<1> QED BY <1>1, <1>2 DEF States, Granted

\* An edge to a granted state is from one, or needs the facts of the sandbox.
LEMMA EdgesAreEarned ==
  ASSUME NEW s \in States, NEW t \in Granted, NEW e \in EdgesFor(s, t)
  PROVE  s \in Granted \/ e.requires = SandboxFacts
<1>1. CASE e \in Gated /\ e.from = s /\ e.to = t
  BY <1>1 DEF Gated, Granted
<1>2. CASE t \in Closes[s]
  BY <1>2, ClosesKeep
<1> QED BY <1>1, <1>2 DEF EdgesFor

LEMMA FactsAreNeeded == SandboxFacts # {} /\ SandboxFacts \subseteq Guards
BY DEF SandboxFacts, Guards, Named

\* What a state asks for, row by row.
LEMMA AskedRows ==
  /\ AskedUpTo.SANDBOX_AUTHORIZED = SandboxFacts
  /\ AskedUpTo.LIVE_PREPARED = SandboxFacts \cup PreparedFacts
  /\ AskedUpTo.WEBHOOK_CONNECTED = SandboxFacts \cup PreparedFacts \cup WebhookFacts
  /\ AskedUpTo.CONFORMANCE_TESTING = SandboxFacts \cup PreparedFacts \cup WebhookFacts
  /\ AskedUpTo.CONFORMANT = SandboxFacts \cup PreparedFacts \cup WebhookFacts \cup {"conformanceSuitePass"}
  /\ AskedUpTo.PRODUCTION = Guards
  /\ \A s \in {"NOT_STARTED", "DESIGNED", "DRY_RUN", "SANDBOX_READY", "SUSPENDED", "REVOKED", "DEPRECATED"} :
       AskedUpTo[s] = {}
BY StatesAreListed DEF AskedUpTo, States

\* An edge that needs nothing asks for nothing that was not asked before.
LEMMA ClosesAskNothing == ASSUME NEW s \in States, NEW t \in Closes[s] PROVE AskedUpTo[t] \subseteq AskedUpTo[s]
<1>1. CASE s \in {"NOT_STARTED", "DESIGNED", "DRY_RUN", "SANDBOX_READY", "SUSPENDED", "REVOKED", "DEPRECATED"}
  <2>1. t \in {"DESIGNED", "REVOKED", "DRY_RUN", "NOT_STARTED", "SANDBOX_READY", "DEPRECATED"}
    BY <1>1 DEF Closes
  <2> QED BY <2>1, AskedRows
<1>2. CASE s \in {"SANDBOX_AUTHORIZED", "LIVE_PREPARED"}
  <2>1. t \in {"SUSPENDED", "REVOKED"}
    BY <1>2 DEF Closes
  <2> QED BY <2>1, AskedRows
<1>3. CASE s \in {"WEBHOOK_CONNECTED", "CONFORMANCE_TESTING"}
  <2>1. t \in {"WEBHOOK_CONNECTED", "CONFORMANCE_TESTING", "SUSPENDED", "REVOKED"}
    BY <1>3 DEF Closes
  <2> QED BY <1>3, <2>1, AskedRows
<1>4. CASE s \in {"CONFORMANT", "PRODUCTION"}
  <2>1. t \in {"CONFORMANCE_TESTING", "SUSPENDED", "REVOKED"}
    BY <1>4 DEF Closes
  <2> QED BY <1>4, <2>1, AskedRows DEF Guards
<1> QED BY <1>1, <1>2, <1>3, <1>4 DEF States

\* A guarded edge asks for what it requires, beyond what was asked before; the
\* edges that resume are the only ones that do not.
LEMMA GatesAsk ==
  ASSUME NEW e \in Gated, e.from # "SUSPENDED"
  PROVE  AskedUpTo[e.to] \subseteq AskedUpTo[e.from] \cup e.requires
<1>1. \/ e = [from |-> "SANDBOX_READY", to |-> "SANDBOX_AUTHORIZED", requires |-> SandboxFacts]
      \/ e = [from |-> "SANDBOX_AUTHORIZED", to |-> "LIVE_PREPARED", requires |-> PreparedFacts]
      \/ e = [from |-> "LIVE_PREPARED", to |-> "WEBHOOK_CONNECTED", requires |-> WebhookFacts]
      \/ e = [from |-> "CONFORMANCE_TESTING", to |-> "CONFORMANT", requires |-> {"conformanceSuitePass"}]
      \/ e = [from |-> "CONFORMANT", to |-> "PRODUCTION", requires |-> ProductionFacts]
  BY DEF Gated
<1> QED BY <1>1, AskedRows DEF Guards

LEMMA TransitionEarned ==
  ASSUME LadderInv, NEW a \in Adapters, NEW to \in States, NEW conditions \in SUBSET Guards,
         Transition(a, to, conditions)
  PROVE  LadderInv'
<1> DEFINE facts == IF \E e \in EdgesFor(states[a], to) : e.requires # {} THEN conditions ELSE {}
<1>1. PICK e \in EdgesFor(states[a], to) : e.requires \subseteq conditions
  BY DEF Transition, EvaluateTransition
<1>2. /\ states' = [states EXCEPT ![a] = to] /\ proven' = [proven EXCEPT ![a] = @ \cup facts]
      /\ UNCHANGED <<suite, assessed, badges>>
      /\ resumed' = IF states[a] = "SUSPENDED" /\ to # "REVOKED" THEN resumed \cup {a} ELSE resumed
  BY DEF Transition
<1>3. facts \subseteq Guards /\ (e.requires # {} => facts = conditions)
  OBVIOUS
<1> HIDE DEF facts
<1>4. LadderTypeOK'
  BY <1>2, <1>3 DEF LadderInv, LadderTypeOK
<1>5. GrantedIsProven'
  <2> SUFFICES ASSUME NEW b \in Adapters, states'[b] \in Granted PROVE SandboxFacts \subseteq proven'[b]
    BY DEF GrantedIsProven
  <2>1. CASE b # a
    BY <1>2, <2>1 DEF LadderInv, LadderTypeOK, GrantedIsProven
  <2>2. CASE b = a /\ states[a] \in Granted
    BY <1>2, <2>2 DEF LadderInv, LadderTypeOK, GrantedIsProven
  <2>3. CASE b = a /\ states[a] \notin Granted
    <3>1. e.requires = SandboxFacts
      BY <1>1, <1>2, <2>3, EdgesAreEarned DEF LadderInv, LadderTypeOK
    <3> QED BY <1>1, <1>2, <1>3, <2>3, <3>1, FactsAreNeeded DEF LadderInv, LadderTypeOK
  <2> QED BY <2>1, <2>2, <2>3
<1>6. AskedIsProven'
  <2> SUFFICES ASSUME NEW b \in Adapters, b \notin resumed' PROVE AskedUpTo[states'[b]] \subseteq proven'[b]
    BY DEF AskedIsProven
  <2>1. b \notin resumed /\ AskedUpTo[states[b]] \subseteq proven[b]
    BY <1>2 DEF LadderInv, AskedIsProven
  <2>2. CASE b # a
    BY <1>2, <2>1, <2>2 DEF LadderInv, LadderTypeOK
  <2>3. CASE b = a
    <3>1. states[a] = "SUSPENDED" => to = "REVOKED"
      BY <1>2, <2>3
    <3>2. states'[a] = to /\ proven'[a] = proven[a] \cup facts
      BY <1>2 DEF LadderInv, LadderTypeOK
    <3>3. CASE to \in Closes[states[a]]
      BY <2>1, <2>3, <3>2, <3>3, ClosesAskNothing DEF LadderInv, LadderTypeOK
    <3>4. CASE e \in Gated /\ e.from = states[a] /\ e.to = to
      <4>1. states[a] # "SUSPENDED"
        BY <3>1, <3>4 DEF Gated, Resumable
      <4>2. e.requires \subseteq facts
        BY <1>1, <1>3
      <4> QED BY <2>1, <2>3, <3>2, <3>4, <4>1, <4>2, GatesAsk
    <3> QED BY <3>3, <3>4 DEF EdgesFor
  <2> QED BY <2>2, <2>3
<1> QED BY <1>2, <1>4, <1>5, <1>6 DEF LadderInv, UnfailedIsAssessed

LEMMA SuiteRecorded ==
  ASSUME LadderInv, NEW a \in Adapters, RunSuite(a)
  PROVE  LadderInv'
<1>1. PICK f \in SuiteFields, r \in SuiteResults :
         /\ suite' = [suite EXCEPT ![a] = [Complete EXCEPT ![f] = r]]
         /\ assessed' = IF r \in {"pass", "other"} THEN assessed \cup {a} ELSE assessed
  BY DEF RunSuite
<1>2. PICK run \in [SuiteFields -> SuiteResults] : run = [Complete EXCEPT ![f] = r]
  BY DEF Complete, SuiteResults
<1>3. /\ suite' = [suite EXCEPT ![a] = run] /\ UNCHANGED <<states, proven, resumed, badges>>
      /\ assessed \subseteq assessed'
  BY <1>1, <1>2 DEF RunSuite
<1>4. LadderTypeOK' /\ GrantedIsProven' /\ AskedIsProven'
  BY <1>3 DEF LadderInv, LadderTypeOK, GrantedIsProven, AskedIsProven
<1>5. (\A g \in SuiteFields : run[g] \notin {"absent", "fail"}) => a \in assessed'
  <2>1. run[f] = r
    BY <1>2 DEF Complete
  <2> QED BY <1>1, <2>1 DEF SuiteResults
<1>6. UnfailedIsAssessed'
  BY <1>3, <1>5 DEF LadderInv, LadderTypeOK, UnfailedIsAssessed
<1> QED BY <1>3, <1>4, <1>6 DEF LadderInv

\* A report names who has failed nothing by now.
LEMMA ReportNamesAssessed ==
  ASSUME LadderInv, NEW eligible \in SUBSET Adapters
  PROVE  BuildConformanceReport(eligible) \subseteq assessed
<1> SUFFICES ASSUME NEW a \in eligible, EvaluateConformance(suite[a]) = "CONFORMANT" PROVE a \in assessed
  BY DEF BuildConformanceReport
<1>1. \A f \in SuiteFields : suite[a][f] # "absent" /\ suite[a][f] # "fail"
  BY DEF EvaluateConformance
<1> QED BY <1>1 DEF LadderInv, UnfailedIsAssessed

LEMMA LadderInitInv == LadderInit => LadderInv
<1> SUFFICES ASSUME LadderInit PROVE LadderInv
  OBVIOUS
<1>1. LadderTypeOK
  BY DEF LadderInit, LadderTypeOK, States, SuiteResults
<1>2. GrantedIsProven
  BY DEF LadderInit, GrantedIsProven, Granted
<1>3. UnfailedIsAssessed
  <2>1. "determinismPass" \in SuiteFields
    BY DEF SuiteFields
  <2> QED BY <2>1 DEF LadderInit, UnfailedIsAssessed
<1>4. AskedIsProven
  BY AskedRows DEF LadderInit, AskedIsProven
<1> QED BY <1>1, <1>2, <1>3, <1>4 DEF LadderInit, LadderInv

\* Every transition, build, run of the suite and report keeps it.
LEMMA LadderNextInv == LadderInv /\ [LadderNext]_ladderVars => LadderInv'
<1>1. ASSUME LadderInv, LadderNext PROVE LadderInv'
  <2>1. \A conditions \in Conditions : conditions \in SUBSET Guards
    BY DEF Conditions
  <2>2. ASSUME NEW a \in Adapters, RecordBuilt(a) PROVE LadderInv'
    BY <1>1, <2>2
       DEF RecordBuilt, LadderInv, LadderTypeOK, GrantedIsProven, AskedIsProven, UnfailedIsAssessed
  <2>3. ASSUME NEW eligible \in SUBSET Adapters, WriteReport(eligible) PROVE LadderInv'
    BY <1>1, <2>3, ReportNamesAssessed
       DEF WriteReport, LadderInv, LadderTypeOK, GrantedIsProven, AskedIsProven, UnfailedIsAssessed
  <2> QED BY <1>1, <2>1, <2>2, <2>3, TransitionEarned, SuiteRecorded, StatesAreListed DEF LadderNext
<1>2. ASSUME LadderInv, UNCHANGED ladderVars PROVE LadderInv'
  BY <1>2 DEF LadderInv, ladderVars, LadderTypeOK, GrantedIsProven, AskedIsProven, UnfailedIsAssessed
<1> QED BY <1>1, <1>2

\* Scripts of the ladder (scripts/ladder: transition, report, conformance
\* suite): for any set of adapters, one that was never suspended has every fact
\* the steps to its state ask for, one that resumed has those of the sandbox;
\* evidence of what was not built carries no authority, and a badge rests on a
\* suite with a result for every criterion and no failure.
THEOREM GrantsHold == LadderSpec => []GrantsWereEarned
<1>1. LadderInv => GrantsWereEarned
  <2> SUFFICES ASSUME LadderInv PROVE GrantsWereEarned
    OBVIOUS
  <2>1. \A a \in Adapters : Authority[states[a]] # "NONE" => SandboxFacts \subseteq proven[a]
    BY AuthorityIsGranted DEF LadderInv, LadderTypeOK, GrantedIsProven
  <2>2. Authority["NOT_STARTED"] = "NONE"
    BY StatesAreListed DEF Authority, States
  <2>3. ASSUME NEW a \in Adapters, NEW call, EvaluateIntegration(states[a], FALSE, call).evidence # {}
        PROVE  Authority[states[a]] = "NONE"
    BY <2>2, <2>3 DEF EvaluateIntegration
  <2> QED BY <2>1, <2>3 DEF LadderInv, GrantsWereEarned, AskedIsProven
<1> QED BY <1>1, LadderInitInv, LadderNextInv, PTL DEF LadderSpec

\* No integration is out of service: these two states are late in the list.
NoneRetired == \A a \in Adapters : states[a] \notin {"REVOKED", "DEPRECATED"}

\* The states as far down the list as the first floor are the granted ones and
\* the two of what is out of service.
LEMMA FloorIsGranted ==
  ASSUME NEW s \in States, IndexOf(s) >= IndexOf("SANDBOX_AUTHORIZED")
  PROVE  s \in Granted \cup {"REVOKED", "DEPRECATED"}
<1>1. DOMAIN IntegrationStates = {1, 2, 3, 4, 5, 6, 7, 8, 9, 10, 11, 12, 13}
  BY DEF IntegrationStates
<1>2. /\ IntegrationStates[1] = "NOT_STARTED" /\ IntegrationStates[2] = "DESIGNED" /\ IntegrationStates[3] = "DRY_RUN"
      /\ IntegrationStates[4] = "SANDBOX_READY" /\ IntegrationStates[5] = "SANDBOX_AUTHORIZED"
      /\ IntegrationStates[6] = "LIVE_PREPARED" /\ IntegrationStates[7] = "WEBHOOK_CONNECTED"
      /\ IntegrationStates[8] = "CONFORMANCE_TESTING" /\ IntegrationStates[9] = "CONFORMANT"
      /\ IntegrationStates[10] = "PRODUCTION" /\ IntegrationStates[11] = "SUSPENDED"
      /\ IntegrationStates[12] = "REVOKED" /\ IntegrationStates[13] = "DEPRECATED"
  BY DEF IntegrationStates
<1>3. \A t \in States : \E i \in DOMAIN IntegrationStates : IntegrationStates[i] = t
  BY StatesAreListed DEF Range
<1>4. \A t \in States : IndexOf(t) \in DOMAIN IntegrationStates /\ IntegrationStates[IndexOf(t)] = t
  BY <1>3 DEF IndexOf
<1>5. IndexOf("SANDBOX_AUTHORIZED") = 5
  BY <1>1, <1>2, <1>4 DEF States
<1>6. IndexOf(s) \in 5 .. 13 /\ IntegrationStates[IndexOf(s)] = s
  BY <1>1, <1>4, <1>5
<1> QED BY <1>2, <1>6 DEF Granted

\* The level that is claimed is one at which the first floor holds, if any is.
LEMMA LevelStandsOnFloor ==
  ASSUME NEW conditions, CurrentPlatformLevel(conditions) > 0
  PROVE  \E a \in Adapters : IndexOf(states[a]) >= IndexOf("SANDBOX_AUTHORIZED")
<1> DEFINE holds(k) == /\ \E a \in Adapters : IndexOf(states[a]) >= IndexOf(Levels[k].floor)
                       /\ Levels[k].requires \subseteq conditions
           reached == {n \in 0 .. Len(Levels) : \A k \in 1 .. n : holds(k)}
           level == CHOOSE n \in reached : \A m \in reached : m <= n
<1>1. Len(Levels) \in Nat /\ Levels[1].floor = "SANDBOX_AUTHORIZED"
  BY DEF Levels
<1>2. level > 0
  BY DEF CurrentPlatformLevel
<1>3. \E n \in reached : \A m \in reached : m <= n
  <2>1. 0 \in reached /\ reached \subseteq 0 .. Len(Levels)
    BY <1>1
  <2>2. Len(Levels) = 4
    BY DEF Levels
  <2> HIDE DEF reached
  <2>3. reached \subseteq {0, 1, 2, 3, 4}
    BY <2>1, <2>2
  <2> QED BY <2>1, <2>3
<1>4. level \in reached
  BY <1>3
<1>5. holds(1)
  <2>1. level \in 0 .. Len(Levels) /\ \A k \in 1 .. level : holds(k)
    BY <1>4
  <2> HIDE DEF holds, level
  <2> QED BY <1>1, <1>2, <2>1
<1> QED BY <1>1, <1>5

\* The command that reports the platform's level (scripts/ladder): for any set
\* of adapters none of which is revoked or deprecated, a level above the first
\* is claimed only if some integration was at the first floor.
THEOREM LevelHoldsInService == LadderSpec => [](NoneRetired => LevelWasReached)
<1>1. LadderInv => (NoneRetired => LevelWasReached)
  <2> SUFFICES ASSUME LadderInv, NoneRetired, CurrentPlatformLevel(Guards) > 0
               PROVE  \E a \in Adapters : SandboxFacts \subseteq proven[a]
    BY DEF LevelWasReached
  <2>1. PICK a \in Adapters : IndexOf(states[a]) >= IndexOf("SANDBOX_AUTHORIZED")
    BY LevelStandsOnFloor
  <2>2. states[a] \in Granted
    BY <2>1, FloorIsGranted DEF LadderInv, LadderTypeOK, NoneRetired
  <2> QED BY <2>2 DEF LadderInv, GrantedIsProven
<1> QED BY <1>1, LadderInitInv, LadderNextInv, PTL DEF LadderSpec

-----------------------------------------------------------------------------
\* The pilot.  What is sent or in a block was signed by a staging, whose number
\* it has; a nonce is in one block.

Txs == [staging : Nat, nonce : Nat, amount : Amounts, to : Recipients]
Landings == [tx : Txs, by : {"agent", "other"}, ok : BOOLEAN, number : Nat]
Chains == [height : Nat, nonce : Nat, balance : Nat, blocks : SUBSET Landings]
Preflights == [pin : Nat, ok : BOOLEAN]
SignedTxs == UNION {g.signed : g \in stagings}
OwnBlocks == {b \in chain.blocks : b.by = "agent"}

PilotTypeOK ==
  /\ chain \in Chains
  /\ stagings \subseteq [staging : Nat, preflight : Preflights, signed : SUBSET Txs]
  /\ IsFiniteSet(stagings)
  /\ declared.is = "declaration" => declared.amount \in Amounts /\ declared.to \in Recipients
SentIsSigned ==
  /\ mempool \subseteq SignedTxs
  /\ stage.is = "stage" => stage.signed \subseteq SignedTxs
StagingSignsOne ==
  /\ \A g \in stagings : g.staging <= Cardinality(stagings)
  /\ \A g, h \in stagings : g.staging = h.staging => g = h
  /\ \A g \in stagings : \A tx \in g.signed : g.preflight.ok /\ g.signed = {tx} /\ tx.staging = g.staging
NonceIsSpentOnce ==
  /\ \A b \in OwnBlocks : b.tx \in SignedTxs /\ b.tx.nonce < chain.nonce
  /\ \A b, c \in OwnBlocks : b.tx.nonce = c.tx.nonce => b = c
ValidIsDeclared ==
  captured.is = "capture" /\ captured.status = "VALID" =>
    /\ captured.tx.amount = captured.declared.amount /\ captured.tx.to = captured.declared.to
    /\ \E b \in OwnBlocks : b.tx = captured.tx

PilotInv == PilotTypeOK /\ SentIsSigned /\ StagingSignsOne /\ NonceIsSpentOnce /\ ValidIsDeclared

LEMMA PilotInitInv == PilotInit => PilotInv
<1> SUFFICES ASSUME PilotInit PROVE PilotInv
  OBVIOUS
<1>1. IsFiniteSet(stagings)
  BY FS_EmptySet DEF PilotInit
<1> QED BY <1>1 DEF PilotInit, PilotInv, PilotTypeOK, Chains, SentIsSigned, StagingSignsOne, NonceIsSpentOnce,
                    ValidIsDeclared, SignedTxs, OwnBlocks, NoFile

\* What is signed under one number is one transaction.
LEMMA NumberNamesTx ==
  ASSUME PilotInv, NEW t \in SignedTxs, NEW u \in SignedTxs, t.staging = u.staging
  PROVE  t = u
<1>1. PICK g \in stagings : t \in g.signed
  BY DEF SignedTxs
<1>2. PICK h \in stagings : u \in h.signed
  BY DEF SignedTxs
<1>3. g.staging = h.staging
  BY <1>1, <1>2 DEF PilotInv, StagingSignsOne
<1>4. g = h
  BY <1>3 DEF PilotInv, StagingSignsOne
<1>5. g.signed = {t} /\ h.signed = {u}
  BY <1>1, <1>2 DEF PilotInv, StagingSignsOne
<1> QED BY <1>4, <1>5

\* A block with a payment of the agent spends the nonce of the account; one with a
\* payment of another adds nothing to what the agent sent.
LEMMA BlockKeeps == ASSUME PilotInv, Block PROVE PilotInv'
<1>1. UNCHANGED <<declared, stage, stagings, sending, captured>>
  BY DEF Block
<1>2. CASE EmptyBlock
  BY <1>1, <1>2 DEF EmptyBlock, PilotInv, PilotTypeOK, Chains, SentIsSigned, StagingSignsOne, NonceIsSpentOnce,
                    ValidIsDeclared, SignedTxs, OwnBlocks
<1>3. CASE ForeignBlock
  <2> DEFINE tx == [staging |-> 0, nonce |-> 0, amount |-> declared.amount, to |-> declared.to]
             new == Landed(tx, "other", TRUE)
  <2>1. chain \in Chains /\ UNCHANGED mempool
    BY <1>3 DEF ForeignBlock, PilotInv, PilotTypeOK
  <2>2. new \in Landings /\ new.by # "agent"
    BY <1>3, <2>1 DEF ForeignBlock, PilotInv, PilotTypeOK, Chains, Landed, Landings, Txs
  <2>3. chain' = [chain EXCEPT !.height = @ + 1, !.blocks = @ \cup {new}]
    BY <1>3 DEF ForeignBlock
  <2> HIDE DEF new
  <2>4. chain' \in Chains /\ chain'.blocks = chain.blocks \cup {new} /\ chain'.nonce = chain.nonce
    <3>1. PICK blocks \in SUBSET Landings : blocks = chain.blocks \cup {new}
      BY <2>1, <2>2 DEF Chains
    <3>2. PICK h \in Nat : h = chain.height + 1
      BY <2>1 DEF Chains
    <3>3. chain' = [chain EXCEPT !.height = h, !.blocks = blocks]
      BY <2>3, <3>1, <3>2
    <3> QED BY <2>1, <3>1, <3>3 DEF Chains
  <2>5. OwnBlocks' = OwnBlocks
    BY <2>2, <2>4 DEF OwnBlocks
  <2> QED BY <1>1, <2>1, <2>4, <2>5 DEF PilotInv, PilotTypeOK, SentIsSigned, StagingSignsOne, NonceIsSpentOnce,
                                        ValidIsDeclared, SignedTxs
<1>4. ASSUME NEW tx \in mempool, NEW ok \in BOOLEAN, tx.nonce = chain.nonce, chain.balance >= tx.amount + GasCost,
             chain' = [chain EXCEPT !.height = @ + 1, !.nonce = @ + 1,
                                    !.balance = @ - (IF ok /\ tx.to # "agent" THEN tx.amount ELSE 0) - GasCost,
                                    !.blocks = @ \cup {Landed(tx, "agent", ok)}],
             mempool' = {t \in mempool : t.nonce > tx.nonce}
      PROVE  PilotInv'
  <2> DEFINE new == Landed(tx, "agent", ok)
  <2>1. tx \in SignedTxs /\ tx \in Txs
    BY DEF PilotInv, SentIsSigned, PilotTypeOK, SignedTxs
  <2>2. PICK left \in Nat : left = chain.balance - (IF ok /\ tx.to # "agent" THEN tx.amount ELSE 0) - GasCost
    <3>1. tx.amount \in Nat /\ chain.balance \in Nat
      BY <2>1 DEF Txs, Amounts, PilotInv, PilotTypeOK, Chains
    <3> QED BY <1>4, <3>1 DEF GasCost
  <2>3. chain \in Chains
    BY DEF PilotInv, PilotTypeOK
  <2>4. new \in Landings /\ new.tx = tx /\ new.by = "agent"
    BY <2>1, <2>3 DEF Chains, Landed, Landings
  <2> HIDE DEF new
  <2>5. /\ chain'.blocks = chain.blocks \cup {new} /\ chain'.nonce = chain.nonce + 1
        /\ chain' \in Chains
    <3>1. PICK h \in Nat : h = chain.height + 1
      BY <2>3 DEF Chains
    <3>2. PICK spent \in Nat : spent = chain.nonce + 1
      BY <2>3 DEF Chains
    <3>3. PICK blocks \in SUBSET Landings : blocks = chain.blocks \cup {new}
      BY <2>3, <2>4 DEF Chains
    <3>4. chain' = [chain EXCEPT !.height = h, !.nonce = spent, !.balance = left, !.blocks = blocks]
      BY <1>4, <2>2, <3>1, <3>2, <3>3 DEF new
    <3>5. chain'.blocks = blocks /\ chain'.nonce = spent /\ chain' \in Chains
      BY <2>2, <2>3, <3>4 DEF Chains
    <3> QED BY <3>2, <3>3, <3>5
  <2>6. OwnBlocks' = OwnBlocks \cup {new}
    BY <2>4, <2>5 DEF OwnBlocks
  <2>7. PilotTypeOK'
    BY <1>1, <2>5 DEF PilotInv, PilotTypeOK
  <2>8. NonceIsSpentOnce'
    <3>1. SignedTxs' = SignedTxs
      BY <1>1 DEF SignedTxs
    <3>2. \A b \in OwnBlocks : b.tx \in Txs /\ b.tx.nonce < chain.nonce /\ b.tx.nonce # tx.nonce
      BY <1>4 DEF PilotInv, PilotTypeOK, Chains, Landings, NonceIsSpentOnce, Txs, OwnBlocks
    <3>3. tx.nonce \in Nat
      BY <2>1 DEF Txs
    <3>4. ASSUME NEW b \in OwnBlocks' PROVE b.tx \in SignedTxs' /\ b.tx.nonce < chain'.nonce
      BY <1>4, <2>1, <2>4, <2>5, <2>6, <3>1, <3>2, <3>3, <3>4 DEF PilotInv, NonceIsSpentOnce, Txs, PilotTypeOK
    <3>5. ASSUME NEW b \in OwnBlocks', NEW c \in OwnBlocks', b.tx.nonce = c.tx.nonce PROVE b = c
      BY <2>4, <2>6, <3>2, <3>3, <3>5 DEF PilotInv, NonceIsSpentOnce
    <3> QED BY <3>4, <3>5 DEF NonceIsSpentOnce
  <2>9. SentIsSigned'
    BY <1>1, <1>4 DEF PilotInv, SentIsSigned, SignedTxs
  <2>10. ValidIsDeclared' /\ StagingSignsOne'
    BY <1>1, <2>6 DEF PilotInv, ValidIsDeclared, StagingSignsOne
  <2> QED BY <2>7, <2>8, <2>9, <2>10 DEF PilotInv
<1>5. CASE AgentBlock
  BY <1>4, <1>5 DEF AgentBlock
<1> QED BY <1>2, <1>3, <1>5 DEF Block

\* A staging takes a number that none before it has.
LEMMA StagedKeeps ==
  ASSUME PilotInv, NEW s \in Scenarios, NEW chainId, Staged(s, chainId)
  PROVE  PilotInv'
<1> DEFINE n == Cardinality(stagings) + 1
<1>1. Cardinality(stagings) \in Nat /\ n \in Nat
  BY FS_CardinalityType DEF PilotInv, PilotTypeOK
<1>2. PICK preflight \in RunPreflight(s) :
        LET signed == IF preflight.ok /\ Funded(s) THEN {StageExecution(s, n)} ELSE {}
        IN  /\ stage' = [is |-> "stage", preflight |-> preflight, signed |-> signed, sent |-> FALSE]
            /\ stagings' = stagings \cup {[staging |-> n, preflight |-> preflight, signed |-> signed]}
  BY DEF Staged
<1>3. UNCHANGED <<chain, mempool, sending, captured>>
  BY DEF Staged
<1>4. PICK signed : signed = IF preflight.ok /\ Funded(s) THEN {StageExecution(s, n)} ELSE {}
  OBVIOUS
<1> DEFINE new == [staging |-> n, preflight |-> preflight, signed |-> signed]
<1>5. /\ stage'.is = "stage" /\ stage'.signed = signed
      /\ stagings' = stagings \cup {new}
  BY <1>2, <1>4
<1>6. preflight \in Preflights
  <2>1. PICK ok \in BOOLEAN : preflight = [pin |-> chain.height, ok |-> ok]
    BY DEF RunPreflight
  <2>2. chain.height \in Nat
    BY DEF PilotInv, PilotTypeOK, Chains
  <2> QED BY <2>1, <2>2 DEF Preflights
<1>7. StageExecution(s, n) \in Txs /\ StageExecution(s, n).staging = n
  BY <1>1 DEF StageExecution, Txs, Scenarios, PilotInv, PilotTypeOK, Chains
<1>8. signed \in SUBSET Txs /\ \A tx \in signed : preflight.ok /\ signed = {tx} /\ tx.staging = n
  BY <1>4, <1>7
<1> HIDE DEF n
<1>9. new \in [staging : Nat, preflight : Preflights, signed : SUBSET Txs] /\ new \notin stagings
  BY <1>1, <1>6, <1>8 DEF PilotInv, StagingSignsOne, n
<1>10. Cardinality(stagings') = n /\ IsFiniteSet(stagings')
  BY <1>5, <1>9, FS_AddElement DEF PilotInv, PilotTypeOK, n
<1>11. PilotTypeOK'
  <2>1. declared'.amount \in Amounts /\ declared'.to \in Recipients
    BY DEF Staged, DeclarationOf, Scenarios
  <2> QED BY <1>3, <1>5, <1>9, <1>10, <2>1 DEF PilotInv, PilotTypeOK
<1>12. SignedTxs' = SignedTxs \cup signed
  <2>1. new.signed = signed
    OBVIOUS
  <2> HIDE DEF new
  <2> QED BY <1>5, <2>1 DEF SignedTxs
<1>13. SentIsSigned' /\ NonceIsSpentOnce' /\ ValidIsDeclared'
  BY <1>3, <1>5, <1>12 DEF PilotInv, SentIsSigned, NonceIsSpentOnce, ValidIsDeclared, OwnBlocks
<1>14. StagingSignsOne'
  <2>1. \A g \in stagings : g.staging \in Nat /\ g.staging <= Cardinality(stagings) /\ g.staging < n
    BY <1>1 DEF PilotInv, PilotTypeOK, StagingSignsOne, n
  <2>2. new.staging = n /\ new.preflight = preflight /\ new.signed = signed
    OBVIOUS
  <2> HIDE DEF new
  <2>3. \A g \in stagings' : g.staging <= Cardinality(stagings')
    BY <1>1, <1>5, <1>10, <2>1, <2>2
  <2>4. \A g, h \in stagings' : g.staging = h.staging => g = h
    BY <1>1, <1>5, <2>1, <2>2 DEF PilotInv, StagingSignsOne
  <2>5. \A g \in stagings' : \A tx \in g.signed : g.preflight.ok /\ g.signed = {tx} /\ tx.staging = g.staging
    BY <1>5, <1>8, <2>2 DEF PilotInv, StagingSignsOne
  <2> QED BY <2>3, <2>4, <2>5 DEF StagingSignsOne
<1> QED BY <1>11, <1>13, <1>14 DEF PilotInv

\* What is sent was signed at a staging.
LEMMA BroadcastKeeps ==
  ASSUME PilotInv, NEW allowed, NEW confirms, NEW chainId, Broadcast(allowed, confirms, chainId)
  PROVE  PilotInv'
<1>1. PICK tx \in stage.signed : mempool' = mempool \cup {tx}
  BY DEF Broadcast, RawTx
<1>2. stage.is = "stage" /\ UNCHANGED <<chain, declared, stage, stagings, captured>>
  BY DEF Broadcast, BroadcastGates
<1> QED BY <1>1, <1>2 DEF PilotInv, PilotTypeOK, SentIsSigned, StagingSignsOne, NonceIsSpentOnce,
                          ValidIsDeclared, SignedTxs, OwnBlocks

LEMMA CaptureKeeps == ASSUME PilotInv, Capture PROVE PilotInv'
<1>1. PICK b \in chain.blocks : captured' = CaptureOf(b)
  BY DEF Capture
<1>2. UNCHANGED <<chain, mempool, declared, stage, stagings, sending>>
  BY DEF Capture
<1>3. /\ captured'.tx = b.tx
      /\ captured'.declared.amount = declared.amount /\ captured'.declared.to = declared.to
  BY <1>1 DEF CaptureOf
<1>4. captured'.status = "VALID" => Compliant(b)
  <2> DEFINE receipt == IF Compliant(b) THEN SimPin ELSE {}
  <2>1. captured'.status = IF receipt # {} THEN "VALID"
                           ELSE IF ~PolicySatisfied(b) \/ ~Bound(b) THEN "INVALID"
                           ELSE "NOT_RUN"
    BY <1>1 DEF CaptureOf
  <2>2. ~Compliant(b) => receipt = {}
    OBVIOUS
  <2> HIDE DEF receipt
  <2> QED BY <2>1, <2>2
<1>5. ValidIsDeclared'
  BY <1>1, <1>2, <1>3, <1>4 DEF ValidIsDeclared, Compliant, Bound, OwnBlocks
<1> QED BY <1>2, <1>5 DEF PilotInv, PilotTypeOK, SentIsSigned, StagingSignsOne, NonceIsSpentOnce, SignedTxs, OwnBlocks

\* Payment of the pilot (examples/pilot: staged, broadcast, capture): for any
\* number of stagings and blocks, however often the commands are run again,
\* a staging is paid once, and VALID is said of what was declared.
THEOREM PaymentHolds == PilotSpec => []StagingIsPaidOnce
<1>1. PilotInv /\ [PilotNext]_pilotVars => PilotInv'
  <2>1. ASSUME PilotInv, PilotNext PROVE PilotInv'
    <3>1. CASE Fund
      BY <2>1, <3>1 DEF Fund, PilotInv, PilotTypeOK, Chains, SentIsSigned, StagingSignsOne, NonceIsSpentOnce,
                        ValidIsDeclared, SignedTxs, OwnBlocks
    <3>2. CASE RecordSent
      <4>1. UNCHANGED <<chain, mempool, declared, stagings, captured>> /\ stage' = [stage EXCEPT !.sent = TRUE]
        BY <3>2 DEF RecordSent
      <4>2. SentIsSigned'
        BY <2>1, <4>1 DEF PilotInv, SentIsSigned, SignedTxs
      <4> QED BY <2>1, <4>1, <4>2 DEF PilotInv, PilotTypeOK, StagingSignsOne, NonceIsSpentOnce,
                                      ValidIsDeclared, SignedTxs, OwnBlocks
    <3>3. CASE BroadcastDies
      BY <2>1, <3>3 DEF BroadcastDies, PilotInv, PilotTypeOK, SentIsSigned, StagingSignsOne, NonceIsSpentOnce,
                        ValidIsDeclared, SignedTxs, OwnBlocks
    <3>4. ASSUME NEW s \in Scenarios, NEW chainId, Plan(s, chainId) PROVE PilotInv'
      <4>1. declared'.amount \in Amounts /\ declared'.to \in Recipients
        BY <3>4 DEF Plan, DeclarationOf, Scenarios
      <4>2. UNCHANGED <<chain, mempool, stage, stagings, captured>>
        BY <3>4 DEF Plan
      <4>3. PilotTypeOK'
        BY <2>1, <4>1, <4>2 DEF PilotInv, PilotTypeOK
      <4> QED BY <2>1, <4>2, <4>3 DEF PilotInv, SentIsSigned, StagingSignsOne, NonceIsSpentOnce,
                                      ValidIsDeclared, SignedTxs, OwnBlocks
    <3> QED BY <2>1, <3>1, <3>2, <3>3, <3>4, BlockKeeps, StagedKeeps, BroadcastKeeps, CaptureKeeps DEF PilotNext
  <2>2. ASSUME PilotInv, UNCHANGED pilotVars PROVE PilotInv'
    BY <2>2 DEF pilotVars, PilotInv, PilotTypeOK, SentIsSigned, StagingSignsOne, NonceIsSpentOnce,
                ValidIsDeclared, SignedTxs, OwnBlocks
  <2> QED BY <2>1, <2>2
<1>2. PilotInv => StagingIsPaidOnce
  <2> SUFFICES ASSUME PilotInv PROVE StagingIsPaidOnce
    OBVIOUS
  <2>1. ASSUME NEW b \in OwnBlocks PROVE \E g \in stagings : g.preflight.ok /\ b.tx \in g.signed
    BY DEF PilotInv, NonceIsSpentOnce, StagingSignsOne, SignedTxs
  <2>2. ASSUME NEW b \in OwnBlocks, NEW c \in OwnBlocks, c.tx.staging = b.tx.staging PROVE c = b
    <3>1. b.tx \in SignedTxs /\ c.tx \in SignedTxs
      BY DEF PilotInv, NonceIsSpentOnce
    <3>2. b.tx = c.tx
      BY <2>2, <3>1, NumberNamesTx
    <3> QED BY <3>2 DEF PilotInv, NonceIsSpentOnce
  <2> QED BY <2>1, <2>2 DEF StagingIsPaidOnce, PilotInv, ValidIsDeclared, OwnBlocks
<1> QED BY <1>1, <1>2, PilotInitInv, PTL DEF PilotSpec

-----------------------------------------------------------------------------
\* The push guard.  A guard that pinned the tip it builds on, and settled by
\* what it saw, saw the build of that tip ended.  While the tip is still the
\* last commit nothing else can be queued: only a push adds a build.

Builds == [commit : Nat, status : {"none", "building", "built", "errored"}, aged : BOOLEAN]
Bodies == [commit : Nat, status : {"none", "building", "built", "errored", "no read", "no answer"}, aged : BOOLEAN]
GuardRuns ==
  [pc : {"read", "probe", "push"}, base : Nat, turn : {1, 2}, blind : BOOLEAN, pin : Nat, body : Bodies]

PagesTypeOK ==
  /\ branch \in 1 .. MaxCommits
  /\ latest \in Builds /\ registering \in {{}, {branch}}
  /\ guards \in [Pushers -> {[pc |-> "idle"]} \cup GuardRuns]
QueueIsOfTip == latest.commit <= branch /\ (registering # {} => latest.commit < branch)
PinnedIsBase(c) ==
  guards[c].pc # "idle" =>
    /\ guards[c].base \in 1 .. branch
    /\ c # "hand" /\ guards[c].turn = 1 => guards[c].pin = guards[c].base
\* What the guard holds says that the build of its tip has ended.
SawEnded(c) ==
  \/ guards[c].turn = 2 \/ guards[c].pc = "push"
  \/ guards[c].pc = "probe" /\ Terminal(guards[c].body) /\ guards[c].body.commit = branch
Idle == registering = {} /\ Terminal(latest)
SeenIsIdle(c) ==
  c # "hand" /\ guards[c].pc # "idle" /\ guards[c].base = branch /\ ~guards[c].blind /\ SawEnded(c) => Idle

PagesInv ==
  /\ PagesTypeOK /\ QueueIsOfTip /\ PinnedPushSparesBuilds
  /\ \A c \in Pushers : PinnedIsBase(c) /\ SeenIsIdle(c)

LEMMA PagesInitInv == PagesInit => PagesInv
<1> SUFFICES ASSUME PagesInit PROVE PagesInv
  OBVIOUS
<1>1. latest = NoBuild \/ (latest = [commit |-> 1, status |-> "built", aged |-> TRUE] /\ registering = {})
  BY DEF PagesInit
<1>2. latest \in Builds /\ latest.commit <= 1 /\ (registering # {} => latest.commit < 1)
  <2>1. CASE latest = NoBuild
    BY <2>1 DEF Builds, NoBuild
  <2>2. CASE latest = [commit |-> 1, status |-> "built", aged |-> TRUE] /\ registering = {}
    BY <2>2 DEF Builds
  <2> QED BY <1>1, <2>1, <2>2
<1>3. branch = 1 /\ registering \in {{}, {branch}} /\ \A c \in Pushers : guards[c] = [pc |-> "idle"]
  BY DEF PagesInit
<1>4. guards \in [Pushers -> {[pc |-> "idle"]} \cup GuardRuns] /\ cancelled = {}
  BY DEF PagesInit
<1> QED BY <1>2, <1>3, <1>4, PagesAssumption
        DEF PagesInv, PagesTypeOK, QueueIsOfTip, PinnedPushSparesBuilds, PinnedIsBase, SeenIsIdle

\* A step of GitHub: the guards hold what they held, and the queue is idle if it was.
LEMMA QueueKeeps ==
  ASSUME PagesInv, UNCHANGED <<branch, guards, cancelled>>, latest' \in Builds, registering' \in {{}, {branch}},
         latest'.commit <= branch, registering' # {} => latest'.commit < branch, Idle => Idle'
  PROVE  PagesInv'
<1>1. PagesTypeOK' /\ QueueIsOfTip' /\ PinnedPushSparesBuilds'
  BY DEF PagesInv, PagesTypeOK, QueueIsOfTip, PinnedPushSparesBuilds
<1>2. ASSUME NEW c \in Pushers PROVE PinnedIsBase(c)' /\ SeenIsIdle(c)'
  <2>1. PinnedIsBase(c) /\ SeenIsIdle(c)
    BY DEF PagesInv
  <2>2. PinnedIsBase(c)'
    BY <2>1 DEF PinnedIsBase
  <2>3. SawEnded(c)' => SawEnded(c)
    BY DEF SawEnded, Terminal
  <2> QED BY <2>1, <2>2, <2>3 DEF SeenIsIdle
<1> QED BY <1>1, <1>2 DEF PagesInv

\* A caller's own step: the queue and the other callers are as they were.
LEMMA CallerKeeps ==
  ASSUME PagesInv, NEW c \in Pushers, NEW g \in {[pc |-> "idle"]} \cup GuardRuns,
         guards' = [guards EXCEPT ![c] = g], UNCHANGED <<branch, latest, registering, cancelled>>,
         PinnedIsBase(c)', SeenIsIdle(c)'
  PROVE  PagesInv'
<1>1. PagesTypeOK' /\ QueueIsOfTip' /\ PinnedPushSparesBuilds' /\ (Idle' <=> Idle)
  BY DEF PagesInv, PagesTypeOK, QueueIsOfTip, PinnedPushSparesBuilds, Idle, Terminal
<1>2. ASSUME NEW d \in Pushers, d # c PROVE PinnedIsBase(d)' /\ SeenIsIdle(d)'
  <2>1. PinnedIsBase(d) /\ SeenIsIdle(d)
    BY DEF PagesInv
  <2>2. guards'[d] = guards[d]
    BY <1>2 DEF PagesInv, PagesTypeOK
  <2>3. PinnedIsBase(d)'
    BY <2>1, <2>2 DEF PinnedIsBase
  <2>4. SawEnded(d)' => SawEnded(d)
    BY <2>2 DEF SawEnded, Terminal
  <2> QED BY <1>1, <2>1, <2>2, <2>3, <2>4 DEF SeenIsIdle
<1> QED BY <1>1, <1>2 DEF PagesInv

LEMMA PagesCallKeeps == ASSUME PagesInv, NEW c \in Pushers, Call(c) PROVE PagesInv'
<1> DEFINE g == [pc |-> "read", base |-> branch, turn |-> 1, blind |-> FALSE,
                 pin |-> IF c = "hand" THEN NoPin ELSE branch, body |-> NoBuild]
<1>1. branch \in Nat /\ branch \in 1 .. branch /\ NoPin \in Nat /\ NoBuild \in Bodies
  BY PagesAssumption DEF PagesInv, PagesTypeOK, NoPin, NoBuild, Bodies
<1>2. g \in GuardRuns
  BY <1>1 DEF GuardRuns
<1>3. guards' = [guards EXCEPT ![c] = g] /\ UNCHANGED <<branch, latest, registering, cancelled>>
  BY DEF Call
<1>4. guards'[c] = g
  BY <1>3 DEF PagesInv, PagesTypeOK
<1>5. PinnedIsBase(c)'
  BY <1>1, <1>3, <1>4 DEF PinnedIsBase
<1>6. SeenIsIdle(c)'
  BY <1>4 DEF SeenIsIdle, SawEnded
<1> HIDE DEF g
<1> QED BY <1>2, <1>3, <1>5, <1>6, CallerKeeps

\* A terminal build of the tip that is the last commit: nothing is queued.
LEMMA ReadKeeps == ASSUME PagesInv, NEW c \in Pushers, Read(c) PROVE PagesInv'
<1>1. PICK body \in ReadLatest : guards' = [guards EXCEPT ![c].body = body, ![c].pc = "probe"]
  BY DEF Read
<1>2. guards[c] \in GuardRuns
  BY DEF Read, PagesInv, PagesTypeOK
<1>3. body \in Bodies /\ (Terminal(body) => body = latest)
  <2>1. CASE body = latest
    <3>1. latest \in Builds
      BY DEF PagesInv, PagesTypeOK
    <3> QED BY <2>1, <3>1 DEF Bodies, Builds
  <2>2. CASE body \in [commit : {0}, status : {"no read", "no answer"}, aged : {FALSE}]
    <3>1. PICK status \in {"no read", "no answer"} : body = [commit |-> 0, status |-> status, aged |-> FALSE]
      BY <2>2
    <3>2. body.status = status
      BY <3>1
    <3>3. ~Terminal(body)
      BY <3>2 DEF Terminal
    <3>4. body \in Bodies
      BY <3>1 DEF Bodies
    <3> QED BY <3>3, <3>4
  <2>3. body \in {latest} \cup [commit : {0}, status : {"no read", "no answer"}, aged : {FALSE}]
    BY <1>1 DEF ReadLatest
  <2> QED BY <2>1, <2>2, <2>3
<1>4. PICK g : g = [guards[c] EXCEPT !.body = body, !.pc = "probe"]
  OBVIOUS
<1>5. g \in GuardRuns /\ g.base = guards[c].base /\ g.turn = guards[c].turn /\ g.pin = guards[c].pin
      /\ g.blind = guards[c].blind /\ g.body = body /\ g.pc = "probe"
  BY <1>2, <1>3, <1>4 DEF GuardRuns
<1>6. guards' = [guards EXCEPT ![c] = g] /\ guards'[c] = g /\ UNCHANGED <<branch, latest, registering, cancelled>>
  BY <1>1, <1>4 DEF Read, PagesInv, PagesTypeOK
<1>7. guards[c].pc = "read" /\ PinnedIsBase(c) /\ SeenIsIdle(c)
  BY DEF Read, PagesInv
<1>8. PinnedIsBase(c)'
  BY <1>5, <1>6, <1>7 DEF PinnedIsBase
<1>9. SeenIsIdle(c)'
  <2> SUFFICES ASSUME c # "hand", g.base = branch, ~g.blind, SawEnded(c)' PROVE Idle'
    BY <1>6 DEF SeenIsIdle
  <2>1. CASE g.turn = 2
    BY <1>5, <1>6, <1>7, <2>1 DEF SeenIsIdle, SawEnded, Idle, Terminal
  <2>2. CASE Terminal(body) /\ body.commit = branch
    <3>1. body = latest /\ latest.commit = branch /\ branch \in Nat
      BY <1>3, <2>2 DEF PagesInv, PagesTypeOK
    <3>2. registering = {}
      BY <3>1 DEF PagesInv, QueueIsOfTip
    <3> QED BY <1>6, <2>2, <3>1, <3>2 DEF Idle, Terminal
  <2> QED BY <1>5, <1>6, <2>1, <2>2 DEF SawEnded, Terminal
<1> QED BY <1>5, <1>6, <1>8, <1>9, CallerKeeps

\* What settles a guard pinned to a commit of main, if it sees anything, is the
\* end of that commit's build.
LEMMA SettledSaw ==
  ASSUME NEW body \in Bodies, NEW pin, NEW reachable, pin # NoPin, reachable # "no",
         Verdict(body, pin, reachable) = "settled"
  PROVE  Terminal(body) /\ body.commit = pin
<1>1. body.status \in {"none", "building", "built", "errored", "no read", "no answer"}
  BY DEF Bodies
<1>2. ~(NeedsProbe(body, pin) /\ reachable = "no")
  OBVIOUS
<1>3. Terminal(body) /\ body.aged /\ ~NeedsProbe(body, pin)
  BY <1>1 DEF Verdict, Terminal
<1> QED BY <1>3 DEF NeedsProbe

LEMMA TakeTurnKeeps == ASSUME PagesInv, NEW c \in Pushers, TakeTurn(c) PROVE PagesInv'
<1>1. PICK reachable \in ShaOnSourceBranch(guards[c].pin) :
        LET verdict == Verdict(guards[c].body, guards[c].pin, reachable)
            settles == verdict \in {"settled", "settled blind"}
            again == c = "bot" /\ guards[c].turn = 1
            known == [guards[c] EXCEPT !.blind = @ \/ verdict = "settled blind", !.body = NoBuild]
        IN  \/ ~settles /\ guards' = [guards EXCEPT ![c] = [pc |-> "idle"]]
            \/ verdict = "wait" /\ guards' = [guards EXCEPT ![c].pc = "read", ![c].body = NoBuild]
            \/ settles /\ again /\ guards' = [guards EXCEPT ![c] = [known EXCEPT !.pc = "read", !.turn = 2, !.pin = Unpushed]]
            \/ settles /\ ~again /\ guards' = [guards EXCEPT ![c] = [known EXCEPT !.pc = "push"]]
  BY DEF TakeTurn
<1>2. PICK verdict : verdict = Verdict(guards[c].body, guards[c].pin, reachable)
  OBVIOUS
<1>3. PICK old \in GuardRuns : old = guards[c]
  <2>1. guards[c].pc = "probe"
    BY DEF TakeTurn
  <2>2. guards[c] \in GuardRuns
    BY <2>1 DEF PagesInv, PagesTypeOK
  <2> QED BY <2>2
<1>4. PICK known : known = [old EXCEPT !.blind = @ \/ verdict = "settled blind", !.body = NoBuild]
  OBVIOUS
<1>5. UNCHANGED <<branch, latest, registering, cancelled>> /\ old.pc = "probe" /\ PinnedIsBase(c) /\ SeenIsIdle(c)
  BY <1>3 DEF TakeTurn, PagesInv
<1>6. \/ guards' = [guards EXCEPT ![c] = [pc |-> "idle"]]
      \/ guards' = [guards EXCEPT ![c] = [old EXCEPT !.pc = "read", !.body = NoBuild]]
      \/ verdict \in {"settled", "settled blind"} /\ guards' = [guards EXCEPT ![c] = [known EXCEPT !.pc = "read", !.turn = 2, !.pin = 0]]
      \/ verdict \in {"settled", "settled blind"} /\ guards' = [guards EXCEPT ![c] = [known EXCEPT !.pc = "push"]]
  BY <1>1, <1>2, <1>3, <1>4 DEF Unpushed
<1>7. NoBuild \in Bodies /\ ~Terminal(NoBuild)
  BY DEF NoBuild, Bodies, Terminal
<1>8. /\ known \in GuardRuns /\ known.base = old.base /\ known.turn = old.turn /\ known.pin = old.pin
      /\ (~known.blind => ~old.blind /\ verdict # "settled blind")
  BY <1>3, <1>4, <1>7 DEF GuardRuns
\* Settled by what it saw, on its tip, the queue is idle.
<1>9. verdict \in {"settled", "settled blind"} /\ c # "hand" /\ old.base = branch /\ ~known.blind => Idle
  <2> SUFFICES ASSUME verdict = "settled", c # "hand", old.base = branch, ~old.blind PROVE Idle
    BY <1>8
  <2>1. CASE old.turn = 2
    BY <1>3, <1>5, <2>1 DEF SeenIsIdle, SawEnded
  <2>2. CASE old.turn = 1
    <3>1. old.pin = old.base /\ old.base \in 1 .. branch /\ branch \in 1 .. MaxCommits
      BY <1>3, <1>5, <2>2 DEF PinnedIsBase, PagesInv, PagesTypeOK
    <3>2. reachable # "no" /\ old.pin # NoPin
      BY <1>3, <3>1, PagesAssumption DEF ShaOnSourceBranch, NoPin
    <3>3. Terminal(old.body) /\ old.body.commit = old.pin
      BY <1>2, <1>3, <3>2, SettledSaw DEF GuardRuns
    <3> QED BY <1>3, <1>5, <3>1, <3>3 DEF SeenIsIdle, SawEnded
  <2> QED BY <2>1, <2>2 DEF GuardRuns
<1>10. CASE guards' = [guards EXCEPT ![c] = [pc |-> "idle"]]
  <2>1. guards'[c] = [pc |-> "idle"]
    BY <1>10 DEF PagesInv, PagesTypeOK
  <2>2. PinnedIsBase(c)' /\ SeenIsIdle(c)'
    BY <2>1 DEF PinnedIsBase, SeenIsIdle
  <2> QED BY <1>5, <1>10, <2>2, CallerKeeps
<1>11. CASE guards' = [guards EXCEPT ![c] = [old EXCEPT !.pc = "read", !.body = NoBuild]]
  <2>1. PICK g : g = [old EXCEPT !.pc = "read", !.body = NoBuild]
    OBVIOUS
  <2>2. /\ g \in GuardRuns /\ g.pc = "read" /\ g.base = old.base /\ g.turn = old.turn /\ g.pin = old.pin
        /\ g.blind = old.blind
    BY <1>7, <2>1 DEF GuardRuns
  <2>3. guards' = [guards EXCEPT ![c] = g] /\ guards'[c] = g
    BY <1>11, <2>1 DEF PagesInv, PagesTypeOK
  <2>4. PinnedIsBase(c)'
    BY <1>3, <1>5, <2>2, <2>3 DEF PinnedIsBase
  <2>5. SeenIsIdle(c)'
    BY <1>3, <1>5, <2>2, <2>3 DEF SeenIsIdle, SawEnded, Idle, Terminal
  <2> QED BY <1>5, <2>2, <2>3, <2>4, <2>5, CallerKeeps
<1>12. ASSUME verdict \in {"settled", "settled blind"}, NEW g \in GuardRuns, g.base = known.base, g.blind = known.blind,
             g.turn = 2 \/ (g.turn = known.turn /\ g.pin = known.pin), g.pc # "idle", guards' = [guards EXCEPT ![c] = g]
       PROVE  PagesInv'
  <2>1. guards'[c] = g
    BY <1>12 DEF PagesInv, PagesTypeOK
  <2>2. SeenIsIdle(c)'
    BY <1>5, <1>8, <1>9, <1>12, <2>1 DEF SeenIsIdle, Idle, Terminal
  <2>3. PinnedIsBase(c)'
    <3>1. old.base \in 1 .. branch /\ (c # "hand" /\ old.turn = 1 => old.pin = old.base)
      BY <1>3, <1>5 DEF PinnedIsBase
    <3>2. g.base \in 1 .. branch /\ (c # "hand" /\ g.turn = 1 => g.pin = g.base)
      <4>1. g.base = old.base /\ (g.turn = 2 \/ (g.turn = old.turn /\ g.pin = old.pin))
        BY <1>8, <1>12
      <4>2. CASE g.turn = 2
        BY <3>1, <4>1, <4>2
      <4>3. CASE g.turn = old.turn /\ g.pin = old.pin
        BY <3>1, <4>1, <4>3
      <4> QED BY <4>1, <4>2, <4>3
    <3> QED BY <1>5, <2>1, <3>2 DEF PinnedIsBase
  <2> QED BY <1>5, <1>12, <2>2, <2>3, CallerKeeps
<1>13. CASE /\ verdict \in {"settled", "settled blind"}
            /\ guards' = [guards EXCEPT ![c] = [known EXCEPT !.pc = "read", !.turn = 2, !.pin = 0]]
  <2>1. PICK g : g = [known EXCEPT !.pc = "read", !.turn = 2, !.pin = 0]
    OBVIOUS
  <2>2. g \in GuardRuns /\ g.base = known.base /\ g.blind = known.blind /\ g.turn = 2 /\ g.pc = "read"
    BY <1>8, <2>1 DEF GuardRuns
  <2> QED BY <1>12, <1>13, <2>1, <2>2
<1>14. CASE /\ verdict \in {"settled", "settled blind"}
            /\ guards' = [guards EXCEPT ![c] = [known EXCEPT !.pc = "push"]]
  <2>1. PICK g : g = [known EXCEPT !.pc = "push"]
    OBVIOUS
  <2>2. g \in GuardRuns /\ g.base = known.base /\ g.blind = known.blind /\ g.pin = known.pin /\ g.pc = "push" /\ g.turn = known.turn
    BY <1>8, <2>1 DEF GuardRuns
  <2> QED BY <1>12, <1>14, <2>1, <2>2
<1> QED BY <1>6, <1>10, <1>11, <1>13, <1>14

\* A push ends no build of an idle queue; after it no tip that was seen is the last.
LEMMA PushKeeps == ASSUME PagesInv, NEW c \in Pushers, Push(c) PROVE PagesInv'
<1>1. guards[c].pc = "push" /\ guards' = [guards EXCEPT ![c] = [pc |-> "idle"]]
  BY DEF Push
<1>2. guards'[c] = [pc |-> "idle"] /\ \A d \in Pushers : d # c => guards'[d] = guards[d]
  BY <1>1 DEF PagesInv, PagesTypeOK
<1>3. CASE guards[c].base # branch
  <2>1. UNCHANGED <<branch, latest, registering, cancelled>>
    BY <1>3 DEF Push
  <2>2. PinnedIsBase(c)' /\ SeenIsIdle(c)'
    BY <1>2 DEF PinnedIsBase, SeenIsIdle
  <2> QED BY <1>1, <2>1, <2>2, CallerKeeps
<1>4. CASE guards[c].base = branch
  <2>1. /\ branch < MaxCommits /\ branch' = branch + 1 /\ registering' = {branch + 1}
        /\ latest' = IF latest.status = "building" THEN [latest EXCEPT !.status = "errored"] ELSE latest
        /\ cancelled' = cancelled \cup
               {[commit |-> commit, by |-> c, blind |-> guards[c].blind] :
                  commit \in registering \cup (IF latest.status = "building" THEN {latest.commit} ELSE {})}
    BY <1>4 DEF Push
  <2>2. latest \in Builds /\ branch \in Nat /\ latest.commit <= branch
    BY DEF PagesInv, PagesTypeOK, QueueIsOfTip
  <2>3. latest' \in Builds /\ latest'.commit = latest.commit
    BY <2>1, <2>2 DEF Builds
  <2>4. PagesTypeOK' /\ QueueIsOfTip'
    <3>1. branch' \in 1 .. MaxCommits
      BY <2>1, PagesAssumption DEF PagesInv, PagesTypeOK
    <3>2. latest'.commit < branch'
      BY <2>1, <2>2, <2>3 DEF Builds
    <3> QED BY <1>1, <2>1, <2>2, <2>3, <3>1, <3>2 DEF PagesInv, PagesTypeOK, QueueIsOfTip, Builds
  <2>5. PinnedPushSparesBuilds'
    <3>1. ASSUME NEW l \in cancelled', l \notin cancelled PROVE l.by = "hand" \/ l.blind
      <4> DEFINE ended == registering \cup (IF latest.status = "building" THEN {latest.commit} ELSE {})
      <4>1. l \in {[commit |-> commit, by |-> c, blind |-> guards[c].blind] : commit \in ended}
        BY <2>1, <3>1
      <4>2. ended # {} => ~Idle
        BY DEF Idle, Terminal
      <4> HIDE DEF ended
      <4>3. l.by = c /\ l.blind = guards[c].blind /\ ~Idle
        BY <4>1, <4>2
      <4> QED BY <1>1, <1>4, <4>3 DEF PagesInv, SeenIsIdle, SawEnded
    <3> QED BY <3>1 DEF PagesInv, PinnedPushSparesBuilds
  <2>6. ASSUME NEW d \in Pushers PROVE PinnedIsBase(d)' /\ SeenIsIdle(d)'
    <3>1. CASE d = c
      BY <1>2, <3>1 DEF PinnedIsBase, SeenIsIdle
    <3>2. CASE d # c
      <4>1. guards'[d] = guards[d] /\ PinnedIsBase(d)
        BY <1>2, <3>2 DEF PagesInv
      <4> QED BY <2>1, <2>2, <4>1 DEF PinnedIsBase, SeenIsIdle
    <3> QED BY <3>1, <3>2
  <2> QED BY <2>4, <2>5, <2>6 DEF PagesInv
<1> QED BY <1>3, <1>4

\* The guard (scripts/pages-settle, of the hook and the bot): for any number of
\* commits and of calls, a push behind a pinned guard that could see ends no build.
THEOREM GuardHolds == PagesSpec => []PinnedPushSparesBuilds
<1>1. PagesInv /\ [PagesNext]_pagesVars => PagesInv'
  <2>1. ASSUME PagesInv, PagesNext PROVE PagesInv'
    <3>1. CASE Register
      <4>1. PICK commit \in registering : latest' = [commit |-> commit, status |-> "building", aged |-> FALSE]
        BY <3>1 DEF Register
      <4>2. commit = branch /\ branch \in Nat /\ ~Idle
        BY <2>1 DEF PagesInv, PagesTypeOK, Idle
      <4>3. latest' \in Builds /\ latest'.commit = branch /\ registering' = {} /\ UNCHANGED <<branch, guards, cancelled>>
        BY <3>1, <4>1, <4>2 DEF Register, Builds
      <4> QED BY <2>1, <4>2, <4>3, QueueKeeps
    <3>2. CASE BuildEnds
      <4>1. PICK status \in {"built", "errored"} : latest' = [latest EXCEPT !.status = status]
        BY <3>2 DEF BuildEnds
      <4>2. latest' \in Builds /\ latest'.commit = latest.commit /\ ~Idle
        BY <2>1, <3>2, <4>1 DEF BuildEnds, PagesInv, PagesTypeOK, Builds, Idle, Terminal
      <4>3. UNCHANGED <<branch, registering, guards, cancelled>>
        BY <3>2 DEF BuildEnds
      <4>4. registering' \in {{}, {branch}} /\ latest'.commit <= branch /\ (registering' # {} => latest'.commit < branch)
        BY <2>1, <4>2, <4>3 DEF PagesInv, PagesTypeOK, QueueIsOfTip
      <4> QED BY <2>1, <4>2, <4>3, <4>4, QueueKeeps
    <3>3. CASE BuildAges
      <4>1. latest' = [latest EXCEPT !.aged = TRUE] /\ UNCHANGED <<branch, registering, guards, cancelled>>
        BY <3>3 DEF BuildAges
      <4>2. latest' \in Builds /\ latest'.commit = latest.commit /\ latest'.status = latest.status
        BY <2>1, <4>1 DEF PagesInv, PagesTypeOK, Builds
      <4>3. registering' \in {{}, {branch}} /\ latest'.commit <= branch /\ (registering' # {} => latest'.commit < branch)
        BY <2>1, <4>1, <4>2 DEF PagesInv, PagesTypeOK, QueueIsOfTip
      <4>4. Idle => Idle'
        BY <4>1, <4>2 DEF Idle, Terminal
      <4> QED BY <2>1, <4>1, <4>2, <4>3, <4>4, QueueKeeps
    <3> QED BY <2>1, <3>1, <3>2, <3>3, PagesCallKeeps, ReadKeeps, TakeTurnKeeps, PushKeeps DEF PagesNext
  <2>2. ASSUME PagesInv, UNCHANGED pagesVars PROVE PagesInv'
    <3>1. registering \in {{}, {branch}} /\ latest \in Builds /\ latest.commit <= branch /\ (registering # {} => latest.commit < branch)
      BY <2>2 DEF PagesInv, PagesTypeOK, QueueIsOfTip
    <3>2. Idle => Idle'
      BY <2>2 DEF pagesVars, Idle, Terminal
    <3> QED BY <2>2, <3>1, <3>2, QueueKeeps DEF pagesVars
  <2> QED BY <2>1, <2>2
<1>2. PagesInv => PinnedPushSparesBuilds
  BY DEF PagesInv
<1> QED BY <1>1, <1>2, PagesInitInv, PTL DEF PagesSpec

-----------------------------------------------------------------------------
\* The release.  The checkout is that which was checked for as long as packages
\* are published from it, and the packages of the order so far are in the
\* registry at its version.

Deps(p) == Sound(p).imports
Fields == {"named", "private", "packs", "exports", "paths", "version", "imports", "declares"}

\* One slip at most: a package that imports other than it should declares what
\* it should, so that the check of its dependencies finds it.
TreeTypeOK ==
  /\ DOMAIN tree = Packages
  /\ \A p \in Packages : DOMAIN tree[p] = Fields /\ tree[p].version \in Nat
  /\ \A p, q \in Packages : tree[p].version = tree[q].version
OneSlip == \A p \in Packages : tree[p].imports = Deps(p) \/ tree[p].declares = Deps(p)
At(i) == \E s \in registry : s.named = PackageOrder[i] /\ s.version = tree[PackageOrder[i]].version
PublishesChecked ==
  release.pc = "publish" =>
    /\ PublishCheck(tree) /\ release.next \in 1 .. 3
    /\ \A i \in 1 .. 3 : i < release.next => At(i)

ReleaseInv == TreeTypeOK /\ OneSlip /\ PublishesChecked /\ RegistryInstalls

LEMMA OrderIsThree ==
  /\ PackageOrder[1] = "canonical" /\ PackageOrder[2] = "evm" /\ PackageOrder[3] = "provenance"
  /\ Packages = {"canonical", "evm", "provenance"} /\ Len(PackageOrder) = 3
<1>1. DOMAIN PackageOrder = {1, 2, 3}
  BY DEF PackageOrder
<1>2. PackageOrder[1] = "canonical" /\ PackageOrder[2] = "evm" /\ PackageOrder[3] = "provenance"
  BY DEF PackageOrder
<1>3. Len(PackageOrder) = 3
  BY DEF PackageOrder
<1> QED BY <1>1, <1>2, <1>3 DEF Packages, Range

LEMMA SoundFields ==
  ASSUME NEW p \in Packages
  PROVE  DOMAIN Sound(p) = Fields /\ Sound(p).imports = Deps(p) /\ Sound(p).declares = Deps(p)
<1>1. DOMAIN Sound(p) = Fields
  BY DEF Sound, Fields
<1>2. Sound(p).imports = CASE p = "canonical" -> {} [] p = "evm" -> {"canonical"} [] OTHER -> {"canonical", "evm"}
  BY DEF Sound
<1>3. Sound(p).declares = CASE p = "canonical" -> {} [] p = "evm" -> {"canonical"} [] OTHER -> {"canonical", "evm"}
  BY DEF Sound
<1> QED BY <1>1, <1>2, <1>3 DEF Deps

\* What a package depends on comes before it in the order.
LEMMA DepsComeFirst ==
  ASSUME NEW n \in 1 .. 3, NEW q \in Deps(PackageOrder[n])
  PROVE  \E i \in 1 .. 3 : i < n /\ PackageOrder[i] = q
<1>1. CASE n = 1
  <2>1. Deps("canonical") = {}
    BY DEF Deps, Sound
  <2> QED BY <1>1, <2>1, OrderIsThree
<1>2. CASE n = 2
  <2>1. Deps("evm") = {"canonical"}
    BY DEF Deps, Sound
  <2> QED BY <1>2, <2>1, OrderIsThree
<1>3. CASE n = 3
  <2>1. Deps("provenance") = {"canonical", "evm"}
    BY DEF Deps, Sound
  <2> QED BY <1>3, <2>1, OrderIsThree
<1> QED BY <1>1, <1>2, <1>3

\* The check of the packages finds each of them whole.
LEMMA CheckedIsWhole ==
  ASSUME OneSlip, PublishCheck(tree), NEW p \in Packages
  PROVE  tree[p].named = p /\ ~tree[p].private /\ Imports(tree, p) /\ tree[p].imports = Deps(p)
<1>1. Publishable(tree, p)
  BY DEF PublishCheck
<1>2. tree[p].named = p /\ ~tree[p].private /\ tree[p].packs # {} /\ ImportsOf(tree[p]) = tree[p].declares
      /\ InstallParity(tree, p)
  BY <1>1 DEF Publishable, FilesCovered, DependencyTruth
<1>3. p \in Closure(tree, p)
  BY DEF Closure
<1>4. Imports(tree, p)
  BY <1>2, <1>3 DEF InstallParity
<1>5. tree[p].imports = tree[p].declares
  BY <1>2 DEF ImportsOf
<1> QED BY <1>2, <1>4, <1>5 DEF OneSlip

LEMMA EditKeeps == ASSUME ReleaseInv, EditTree PROVE ReleaseInv'
<1>1. release.pc = "idle" /\ UNCHANGED <<registry, release>>
  BY DEF EditTree
<1>2. PublishesChecked' /\ RegistryInstalls'
  BY <1>1 DEF ReleaseInv, PublishesChecked, RegistryInstalls
<1>3. DOMAIN tree = Packages /\ (\A p \in Packages : DOMAIN tree[p] = Fields /\ tree[p].version \in Nat)
      /\ \A p, q \in Packages : tree[p].version = tree[q].version
  BY DEF ReleaseInv, TreeTypeOK
<1>4. ASSUME NEW p \in Packages, NEW f \in DOMAIN Slips, NEW slip,
             tree' = [q \in Packages |-> IF q = p THEN [Sound(q) EXCEPT ![f] = slip, !.version = tree[q].version]
                                                  ELSE [Sound(q) EXCEPT !.version = tree[q].version]]
      PROVE  TreeTypeOK' /\ OneSlip'
  <2>1. ASSUME NEW q \in Packages
        PROVE  /\ DOMAIN tree'[q] = Fields /\ tree'[q].version = tree[q].version
               /\ tree'[q].imports = Deps(q) \/ tree'[q].declares = Deps(q)
    <3>1. PICK k : k = Sound(q)
      OBVIOUS
    <3>2. DOMAIN k = Fields /\ k.imports = Deps(q) /\ k.declares = Deps(q)
      BY <3>1, SoundFields
    <3>3. \/ tree'[q] = [k EXCEPT ![f] = slip, !.version = tree[q].version]
          \/ tree'[q] = [k EXCEPT !.version = tree[q].version]
      BY <1>4, <3>1
    <3> QED BY <3>2, <3>3 DEF Fields
  <2>2. DOMAIN tree' = Packages
    BY <1>4
  <2>3. TreeTypeOK'
    BY <1>3, <2>1, <2>2 DEF TreeTypeOK
  <2>4. OneSlip'
    BY <2>1 DEF OneSlip
  <2> QED BY <2>3, <2>4
<1>5. ASSUME tree' = [p \in Packages |-> [tree[p] EXCEPT !.version = @ + 1]]
      PROVE  TreeTypeOK' /\ OneSlip'
  <2>1. ASSUME NEW q \in Packages
        PROVE  /\ DOMAIN tree'[q] = Fields /\ tree'[q].version = tree[q].version + 1
               /\ tree'[q].imports = tree[q].imports /\ tree'[q].declares = tree[q].declares
    BY <1>3, <1>5 DEF Fields
  <2>2. TreeTypeOK'
    BY <1>3, <1>5, <2>1 DEF TreeTypeOK
  <2>3. OneSlip'
    BY <2>1 DEF ReleaseInv, OneSlip
  <2> QED BY <2>2, <2>3
<1>6. ASSUME tree' = [p \in Packages |-> [Sound(p) EXCEPT !.version = tree[p].version]]
      PROVE  TreeTypeOK' /\ OneSlip'
  <2>1. ASSUME NEW q \in Packages
        PROVE  /\ DOMAIN tree'[q] = Fields /\ tree'[q].version = tree[q].version /\ tree'[q].imports = Deps(q)
    <3>1. PICK k : k = Sound(q)
      OBVIOUS
    <3>2. DOMAIN k = Fields /\ k.imports = Deps(q)
      BY <3>1, SoundFields
    <3>3. tree'[q] = [k EXCEPT !.version = tree[q].version]
      BY <1>6, <3>1
    <3> QED BY <3>2, <3>3 DEF Fields
  <2>2. DOMAIN tree' = Packages
    BY <1>6
  <2>3. TreeTypeOK'
    BY <1>3, <2>1, <2>2 DEF TreeTypeOK
  <2>4. OneSlip'
    BY <2>1 DEF OneSlip
  <2> QED BY <2>3, <2>4
<1>7. TreeTypeOK' /\ OneSlip'
  <2>1. CASE \E p \in Packages, f \in DOMAIN Slips : \E slip \in Slips[f] :
          tree' = [q \in Packages |-> IF q = p THEN [Sound(q) EXCEPT ![f] = slip, !.version = tree[q].version]
                                               ELSE [Sound(q) EXCEPT !.version = tree[q].version]]
    <3>1. PICK p \in Packages, f \in DOMAIN Slips : \E slip \in Slips[f] :
            tree' = [q \in Packages |-> IF q = p THEN [Sound(q) EXCEPT ![f] = slip, !.version = tree[q].version]
                                                 ELSE [Sound(q) EXCEPT !.version = tree[q].version]]
      BY <2>1
    <3>2. PICK slip \in Slips[f] :
            tree' = [q \in Packages |-> IF q = p THEN [Sound(q) EXCEPT ![f] = slip, !.version = tree[q].version]
                                                 ELSE [Sound(q) EXCEPT !.version = tree[q].version]]
      BY <3>1
    <3> QED BY <1>4, <3>2
  <2>2. CASE tree' = [p \in Packages |-> [tree[p] EXCEPT !.version = @ + 1]]
    BY <1>5, <2>2
  <2>3. CASE tree' = [p \in Packages |-> [Sound(p) EXCEPT !.version = tree[p].version]]
    BY <1>6, <2>3
  <2> QED BY <2>1, <2>2, <2>3 DEF EditTree
<1> QED BY <1>2, <1>7 DEF ReleaseInv

\* The next package of the order finds what it imports in the registry.
LEMMA PublishKeeps == ASSUME ReleaseInv, Publish PROVE ReleaseInv'
<1> DEFINE p == PackageOrder[release.next]
<1>1. release.pc = "publish" /\ UNCHANGED tree
  BY DEF Publish
<1>2. PICK takes \in BOOLEAN, succeeded \in BOOLEAN :
        /\ succeeded => takes
        /\ registry' = IF takes THEN registry \cup {Released(p)} ELSE registry
        /\ Continue(succeeded)
  BY DEF Publish
<1>3. PublishCheck(tree) /\ release.next \in 1 .. 3 /\ (\A i \in 1 .. 3 : i < release.next => At(i)) /\ OneSlip
      /\ TreeTypeOK /\ RegistryInstalls
  BY <1>1 DEF ReleaseInv, PublishesChecked
<1>4. p \in Packages
  BY <1>3, OrderIsThree
<1> HIDE DEF p
<1>5. tree[p].named = p /\ ~tree[p].private /\ Imports(tree, p) /\ tree[p].imports = Deps(p)
  BY <1>3, <1>4, CheckedIsWhole
<1>6. PICK new : new = Released(p)
  OBVIOUS
<1>7. new.named = p /\ new.version = tree[p].version /\ new.packed = tree[p]
  BY <1>5, <1>6 DEF Released
<1>8. registry \subseteq registry' /\ registry' \subseteq registry \cup {new} /\ (succeeded => new \in registry')
  BY <1>2, <1>6
<1>9. TreeTypeOK' /\ OneSlip'
  BY <1>1, <1>3 DEF TreeTypeOK, OneSlip
<1>10. \A i \in 1 .. 3 : i < release.next => At(i)'
  BY <1>1, <1>3, <1>8 DEF At
<1>11. succeeded => \A i \in 1 .. 3 : i <= release.next => At(i)'
  <2> SUFFICES ASSUME succeeded, NEW i \in 1 .. 3, i = release.next PROVE At(i)'
    BY <1>3, <1>10
  <2> QED BY <1>1, <1>7, <1>8 DEF At, p
<1>12. PublishesChecked'
  <2>1. CASE succeeded /\ release.next < 3
    <3>1. release' = [release EXCEPT !.next = @ + 1]
      BY <1>2, <2>1, OrderIsThree DEF Continue
    <3>2. release'.next = release.next + 1 \/ release' = release
      BY <3>1
    <3>3. release'.next \in 1 .. 3 /\ \A i \in 1 .. 3 : i < release'.next => At(i)'
      BY <1>3, <1>11, <2>1, <3>2
    <3> QED BY <1>1, <1>3, <3>3 DEF PublishesChecked, PublishCheck
  <2>2. CASE ~(succeeded /\ release.next < 3)
    <3>1. release'.pc = "idle"
      BY <1>2, <2>2, OrderIsThree DEF Continue, Stop
    <3> QED BY <3>1 DEF PublishesChecked
  <2> QED BY <2>1, <2>2
<1>13. ASSUME NEW r \in registry', NEW q \in r.packed.imports PROVE \E s \in registry' : s.named = q /\ s.version >= r.version
  <2>1. CASE r \in registry
    BY <1>3, <1>8, <1>13, <2>1 DEF RegistryInstalls
  <2>2. CASE r = new
    <3>1. q \in Deps(PackageOrder[release.next])
      BY <1>5, <1>7, <1>13, <2>2 DEF p
    <3>2. PICK i \in 1 .. 3 : i < release.next /\ PackageOrder[i] = q
      BY <1>3, <3>1, DepsComeFirst
    <3>3. PICK s \in registry : s.named = q /\ s.version = tree[q].version
      BY <1>3, <3>2 DEF At
    <3>4. q \in Packages
      BY <3>2, OrderIsThree
    <3>5. tree[q].version = tree[p].version /\ tree[p].version \in Nat
      BY <1>3, <1>4, <3>4 DEF TreeTypeOK
    <3> QED BY <1>7, <1>8, <2>2, <3>3, <3>5
  <2> QED BY <1>8, <2>1, <2>2
<1>14. ASSUME NEW r \in registry' PROVE ~r.packed.private /\ Imports([x \in {r.named} |-> r.packed], r.named)
  <2>1. CASE r \in registry
    BY <1>3, <2>1 DEF RegistryInstalls
  <2>2. CASE r = new
    BY <1>5, <1>7, <2>2 DEF Imports
  <2> QED BY <1>8, <2>1, <2>2
<1> QED BY <1>9, <1>12, <1>13, <1>14 DEF ReleaseInv, RegistryInstalls

\* Publishing of the packages (scripts/publish-check, scripts/release-please):
\* for any number of releases and versions, whoever installs a package at any
\* moment finds what its code imports.
THEOREM InstallHolds == ReleaseSpec => []RegistryInstalls
<1>1. ReleaseInit => ReleaseInv
  <2> SUFFICES ASSUME ReleaseInit PROVE ReleaseInv
    OBVIOUS
  <2>1. ASSUME NEW p \in Packages
        PROVE  DOMAIN tree[p] = Fields /\ tree[p].version = 1 /\ tree[p].imports = Deps(p)
    <3>1. tree[p] = Sound(p)
      BY DEF ReleaseInit
    <3>2. Sound(p).version = 1
      BY DEF Sound
    <3> QED BY <3>1, <3>2, SoundFields
  <2>2. TreeTypeOK /\ OneSlip
    BY <2>1 DEF ReleaseInit, TreeTypeOK, OneSlip
  <2> QED BY <2>2 DEF ReleaseInit, ReleaseInv, PublishesChecked, RegistryInstalls
<1>2. ReleaseInv /\ [ReleaseNext]_releaseVars => ReleaseInv'
  <2>1. ASSUME ReleaseInv, ReleaseNext PROVE ReleaseInv'
    <3>1. ASSUME NEW token, NEW dryRun, StartRelease(token, dryRun) PROVE ReleaseInv'
      <4>1. UNCHANGED <<tree, registry>>
        BY <3>1 DEF StartRelease
      <4>2. PublishesChecked'
        <5>1. CASE token /\ ~dryRun /\ PublishCheck(tree)
          <6>1. release' = [pc |-> "publish", next |-> 1, count |-> release.count + 1]
            BY <3>1, <5>1 DEF StartRelease
          <6>2. release'.next = 1
            BY <6>1
          <6>3. PublishCheck(tree)'
            BY <4>1, <5>1 DEF PublishCheck
          <6> QED BY <6>2, <6>3 DEF PublishesChecked
        <5>2. CASE ~(token /\ ~dryRun /\ PublishCheck(tree))
          <6>1. release'.pc = "idle"
            BY <3>1, <5>2 DEF StartRelease
          <6> QED BY <6>1 DEF PublishesChecked
        <5> QED BY <5>1, <5>2
      <4> QED BY <2>1, <4>1, <4>2 DEF ReleaseInv, TreeTypeOK, OneSlip, RegistryInstalls
    <3>2. CASE Killed
      <4>1. release'.pc = "idle" /\ UNCHANGED <<tree, registry>>
        BY <3>2 DEF Killed, Stop
      <4> QED BY <2>1, <4>1 DEF ReleaseInv, TreeTypeOK, OneSlip, RegistryInstalls, PublishesChecked
    <3> QED BY <2>1, <3>1, <3>2, EditKeeps, PublishKeeps DEF ReleaseNext
  <2>2. ASSUME ReleaseInv, UNCHANGED releaseVars PROVE ReleaseInv'
    BY <2>2 DEF releaseVars, ReleaseInv, TreeTypeOK, OneSlip, RegistryInstalls, PublishesChecked, PublishCheck, At
  <2> QED BY <2>1, <2>2
<1>3. ReleaseInv => RegistryInstalls
  BY DEF ReleaseInv
<1> QED BY <1>1, <1>2, <1>3, PTL DEF ReleaseSpec

-----------------------------------------------------------------------------
\* The verification levels.  A verdict is given once, on what was asked: what
\* the two first levels say yes to is whole.

\* Induction on the naturals, for sets of them: they are well founded, so a set
\* that is not empty has a least number.
LEMMA Least ==
  ASSUME NEW T \in SUBSET Nat, T # {}
  PROVE  \E x \in T : \A y \in T : x <= y
<1> DEFINE R == OpToRel(<, Nat)
<1>1. IsWellFoundedOn(R, Nat)
  BY NatLessThanWellFounded
<1>2. \A x, y \in Nat : x < y => <<x, y>> \in R
  BY DEF OpToRel
<1> HIDE DEF R
<1>3. PICK x \in T : \A y \in T : ~(<<y, x>> \in R)
  BY <1>1, WFMin
<1>4. ASSUME NEW y \in T PROVE x <= y
  <2>1. x \in Nat /\ y \in Nat
    OBVIOUS
  <2>2. ~(y < x)
    <3> HIDE DEF R
    <3> QED BY <1>2, <1>3, <2>1, Zenon
  <2> QED BY <2>1, <2>2
<1> QED BY <1>4

\* A set with m that holds the next number of each, up to n, holds all of m .. n.
LEMMA Upward ==
  ASSUME NEW m \in Nat, NEW n \in Nat, NEW T, m \in T, \A i \in m .. n : i \in T /\ i < n => i + 1 \in T
  PROVE  m .. n \subseteq T
<1> DEFINE bad == (m .. n) \ T
<1> SUFFICES ASSUME bad # {} PROVE FALSE
  OBVIOUS
<1>1. PICK x \in bad : \A y \in bad : x <= y
  <2>1. bad # {} /\ bad \in SUBSET Nat
    OBVIOUS
  <2> HIDE DEF bad
  <2> QED BY <2>1, Least
<1>2. x \in m .. n /\ x \notin T /\ x # m
  OBVIOUS
<1>3. x - 1 \in m .. n /\ x - 1 < n /\ x = (x - 1) + 1
  BY <1>2
<1>4. x - 1 \notin bad
  BY <1>1, <1>3
<1> QED BY <1>2, <1>3, <1>4

\* A set with n that holds the number before each, down to m, holds m.
LEMMA Downward ==
  ASSUME NEW m \in Nat, NEW n \in Nat, m <= n, NEW T, n \in T, \A i \in m .. n : i < n /\ i + 1 \in T => i \in T
  PROVE  m \in T
<1> DEFINE good == (m .. n) \cap T
<1>1. PICK x \in good : \A y \in good : x <= y
  <2>1. good # {} /\ good \in SUBSET Nat
    OBVIOUS
  <2> HIDE DEF good
  <2> QED BY <2>1, Least
<1> SUFFICES ASSUME x # m PROVE FALSE
  OBVIOUS
<1>3. x - 1 \in m .. n /\ x - 1 < n /\ x = (x - 1) + 1
  OBVIOUS
<1>4. x - 1 \in good
  BY <1>3
<1> QED BY <1>1, <1>3, <1>4

\* A place in a level is below a place of the next, on one of its two sides.
LEMMA Halved ==
  ASSUME NEW i \in Nat
  PROVE  /\ i \div 2 \in Nat /\ i % 2 \in {0, 1} /\ i = 2 * (i \div 2) + (i % 2)
OBVIOUS

\* A sequence, of whatever.
IsRow(f) == Len(f) \in Nat /\ f = [i \in 1 .. Len(f) |-> f[i]]

\* A function over 1 .. n is a sequence of length n.
LEMMA RowIs ==
  ASSUME NEW n \in Nat, NEW f, f = [i \in 1 .. n |-> f[i]]
  PROVE  Len(f) = n /\ IsRow(f) /\ f \in Seq({f[i] : i \in 1 .. n})
<1>1. f \in [1 .. n -> {f[i] : i \in 1 .. n}]
  OBVIOUS
<1>2. f \in Seq({f[i] : i \in 1 .. n})
  BY <1>1
<1>3. Len(f) = n
  BY <1>2, LenProperties
<1> QED BY <1>2, <1>3 DEF IsRow

\* Append keeps a row, and puts x behind it.
LEMMA RowGrows ==
  ASSUME NEW f, IsRow(f), NEW x
  PROVE  /\ IsRow(Append(f, x)) /\ Len(Append(f, x)) = Len(f) + 1
         /\ Append(f, x)[Len(f) + 1] = x
         /\ \A i \in 1 .. Len(f) : Append(f, x)[i] = f[i]
<1> DEFINE S == {f[i] : i \in 1 .. Len(f)} \cup {x}
<1>1. f \in Seq({f[i] : i \in 1 .. Len(f)})
  BY RowIs DEF IsRow
<1>2. f \in Seq(S) /\ x \in S
  BY <1>1
<1> HIDE DEF S
<1>3. Append(f, x) \in Seq(S) /\ Len(Append(f, x)) = Len(f) + 1
      /\ Append(f, x)[Len(f) + 1] = x /\ \A i \in 1 .. Len(f) : Append(f, x)[i] = f[i]
  BY <1>2, AppendProperties
<1>4. Append(f, x) \in [1 .. Len(Append(f, x)) -> S]
  <2> DEFINE g == Append(f, x)
  <2>1. g \in Seq(S)
    BY <1>3
  <2> HIDE DEF g
  <2>2. g \in [1 .. Len(g) -> S]
    BY <2>1
  <2> QED BY <2>2 DEF g
<1>5. Append(f, x) = [i \in 1 .. Len(Append(f, x)) |-> Append(f, x)[i]]
  BY <1>4
<1>6. Len(Append(f, x)) \in Nat
  BY <1>2, <1>3, LenProperties
<1> QED BY <1>3, <1>5, <1>6 DEF IsRow

\* The levels, the climb and the hashes, as their recursions say.
LevelsOf(f, row) == f[1] = <<row>> /\ \A n \in 1 .. MaxLeaves : n # 1 => f[n] = Taller(f[n - 1])
ClimbOf(c, levels, index) ==
  /\ c[1] = [path |-> <<>>, at |-> index]
  /\ \A h \in 1 .. Len(levels) : h # 1 => c[h] = Above(levels[h - 1], c[h - 1])
HashOf(g, path, leaf) == g[0] = Leaf(leaf) /\ \A n \in 1 .. Len(path) : g[n] = Paired(g[n - 1], path[n])

\* The recursion of merkleTree has a solution, by induction on its passes.
LEMMA LevelsIs ==
  ASSUME NEW leaves, MaxLeaves >= 1
  PROVE  \E f : LevelsOf(f, [i \in DOMAIN leaves |-> Leaf(leaves[i])]) /\ MerkleTree(leaves) = f[MaxLeaves]
<1> DEFINE row == [i \in DOMAIN leaves |-> Leaf(leaves[i])]
           Step(f, n) == IF n = 1 THEN <<row>> ELSE Taller(f[n - 1])
           Built(m, f) == f = [n \in 1 .. m |-> Step(f, n)]
           done == {m \in 0 .. MaxLeaves : \E f : Built(m, f)}
           solved == CHOOSE f : Built(MaxLeaves, f)
<1>1. 0 \in done
  <2>1. Built(0, [n \in 1 .. 0 |-> <<>>])
    OBVIOUS
  <2>2. 0 \in 0 .. MaxLeaves
    BY LevelsAssumption
  <2> QED BY <2>1, <2>2
<1>2. ASSUME NEW m \in 0 .. MaxLeaves, m \in done, m < MaxLeaves PROVE m + 1 \in done
  <2>1. PICK f : Built(m, f)
    BY <1>2
  <2> DEFINE g == [n \in 1 .. m + 1 |-> IF n <= m THEN f[n] ELSE Step(f, n)]
  <2>2. ASSUME NEW n \in 1 .. m + 1 PROVE g[n] = Step(g, n)
    <3>1. CASE n <= m
      <4>1. g[n] = f[n] /\ f[n] = Step(f, n) /\ n \in 1 .. m
        BY <2>1, <3>1
      <4>2. n # 1 => n - 1 \in 1 .. m /\ g[n - 1] = f[n - 1]
        BY <3>1
      <4> QED BY <4>1, <4>2
    <3>2. CASE n = m + 1
      <4>1. g[n] = Step(f, n)
        BY <3>2
      <4>2. n # 1 => n - 1 \in 1 .. m /\ g[n - 1] = f[n - 1]
        BY <3>2
      <4> HIDE DEF g
      <4> QED BY <4>1, <4>2
    <3> QED BY <3>1, <3>2
  <2>3. g = [n \in 1 .. m + 1 |-> Step(g, n)]
    <3>1. g = [n \in 1 .. m + 1 |-> g[n]]
      OBVIOUS
    <3> HIDE DEF g
    <3> HIDE DEF Step
    <3> QED BY <2>2, <3>1, Zenon
  <2>4. m + 1 \in 0 .. MaxLeaves
    BY <1>2, LevelsAssumption
  <2> QED BY <2>3, <2>4
<1>3. MaxLeaves \in done
  <2> HIDE DEF done
  <2> QED BY <1>1, <1>2, Upward, LevelsAssumption
<1>4. MerkleTree(leaves) = solved[MaxLeaves]
  BY DEF MerkleTree
<1>5. Built(MaxLeaves, solved)
  <2>1. \E f : Built(MaxLeaves, f)
    BY <1>3
  <2> HIDE DEF Built
  <2> QED BY <2>1
<1> HIDE DEF solved
<1>6. solved[1] = <<row>>
  BY <1>5, LevelsAssumption
<1>7. ASSUME NEW n \in 1 .. MaxLeaves, n # 1 PROVE solved[n] = Taller(solved[n - 1])
  BY <1>5, <1>7
<1> QED BY <1>4, <1>6, <1>7 DEF LevelsOf

\* A level of two or more is shorter after pairing.
LEMMA NextIs ==
  ASSUME NEW level, IsRow(level), Len(level) >= 1
  PROVE  /\ IsRow(NextLevel(level)) /\ Len(NextLevel(level)) = (Len(level) + 1) \div 2
         /\ Len(NextLevel(level)) >= 1
         /\ Len(level) # 1 => Len(NextLevel(level)) < Len(level)
         /\ \A i \in 1 .. Len(NextLevel(level)) :
              NextLevel(level)[i] =
                Node(level[2 * i - 1], IF 2 * i <= Len(level) THEN level[2 * i] ELSE level[2 * i - 1])
<1> DEFINE n == (Len(level) + 1) \div 2
<1>1. n \in Nat /\ n >= 1 /\ (Len(level) # 1 => n < Len(level))
  BY DEF IsRow
<1>2. NextLevel(level) =
        [i \in 1 .. n |-> Node(level[2 * i - 1], IF 2 * i <= Len(level) THEN level[2 * i] ELSE level[2 * i - 1])]
  BY DEF NextLevel
<1>3. NextLevel(level) = [i \in 1 .. n |-> NextLevel(level)[i]]
  <2> DEFINE f == NextLevel(level)
  <2>1. f = [i \in 1 .. n |-> f[i]]
    BY <1>2
  <2> QED BY <2>1
<1>4. Len(NextLevel(level)) = n /\ IsRow(NextLevel(level))
  <2> DEFINE f == NextLevel(level)
  <2>1. f = [i \in 1 .. n |-> f[i]]
    BY <1>3
  <2> HIDE DEF f, n
  <2> QED BY <1>1, <2>1, RowIs DEF f
<1> HIDE DEF n
<1> QED BY <1>1, <1>2, <1>4 DEF n

\* A tree after n passes: each level pairs the one below, and the last one is
\* alone or has lost an entry a pass.
IsTree(levels, row, n) ==
  /\ IsRow(levels) /\ Len(levels) >= 1
  /\ \A k \in 1 .. Len(levels) : IsRow(levels[k]) /\ Len(levels[k]) >= 1
  /\ levels[1] = row
  /\ \A k \in 1 .. Len(levels) : k # 1 => levels[k] = NextLevel(levels[k - 1])
  /\ Len(levels[Len(levels)]) = 1 \/ Len(levels[Len(levels)]) + n <= Len(row) + 1

\* A pass of the loop of merkleTree keeps a tree.
LEMMA TallerIs ==
  ASSUME NEW levels, NEW row, NEW n \in Nat, IsRow(row), IsTree(levels, row, n)
  PROVE  IsTree(Taller(levels), row, n + 1)
<1> DEFINE h == Len(levels)
           top == levels[Len(levels)]
<1>1. h \in Nat /\ h >= 1 /\ IsRow(top) /\ Len(top) >= 1 /\ Last(levels) = top
  BY DEF IsTree, IsRow, Last
<1>2. CASE Len(top) = 1
  <2>1. Taller(levels) = levels
    BY <1>1, <1>2 DEF Taller
  <2> QED BY <1>2, <2>1 DEF IsTree
<1>3. CASE Len(top) # 1
  <2> DEFINE new == NextLevel(top)
             next == Append(levels, new)
  <2>1. Taller(levels) = next
    BY <1>1, <1>3 DEF Taller
  <2>2. IsRow(new) /\ Len(new) >= 1 /\ Len(new) < Len(top)
    BY <1>1, <1>3, NextIs
  <2> HIDE DEF new
  <2>3. /\ IsRow(next) /\ Len(next) = h + 1 /\ next[h + 1] = new
        /\ \A i \in 1 .. h : next[i] = levels[i]
    BY <1>1, RowGrows DEF IsTree
  <2> HIDE DEF next
  <2>4. \A k \in 1 .. Len(next) : k = h + 1 \/ (k \in 1 .. h /\ next[k] = levels[k])
    BY <1>1, <2>3
  <2>5. \A k \in 1 .. Len(next) : IsRow(next[k]) /\ Len(next[k]) >= 1
    BY <2>2, <2>3, <2>4 DEF IsTree
  <2>6. next[1] = row
    BY <1>1, <2>3 DEF IsTree
  <2>7. ASSUME NEW k \in 1 .. Len(next), k # 1 PROVE next[k] = NextLevel(next[k - 1])
    <3>1. CASE k = h + 1
      <4>1. next[k - 1] = top
        BY <1>1, <2>3, <3>1
      <4> QED BY <2>3, <3>1, <4>1 DEF new
    <3>2. CASE k \in 1 .. h
      <4>1. next[k] = levels[k] /\ next[k - 1] = levels[k - 1]
        BY <1>1, <2>3, <2>7, <3>2
      <4> QED BY <2>7, <3>2, <4>1 DEF IsTree
    <3> QED BY <2>4, <3>1, <3>2
  <2>8. Len(next[Len(next)]) + (n + 1) <= Len(row) + 1
    <3>1. Len(top) + n <= Len(row) + 1
      BY <1>3 DEF IsTree
    <3> QED BY <2>2, <2>3, <3>1, <1>1 DEF IsRow
  <2>9. Len(next) >= 1
    BY <1>1, <2>3
  <2> QED BY <2>1, <2>3, <2>5, <2>6, <2>7, <2>8, <2>9 DEF IsTree
<1> QED BY <1>2, <1>3
\* A proof's step is behind the path, or there is none.
LEMMA RowJoins ==
  ASSUME NEW f, IsRow(f), NEW x
  PROVE  f \o <<>> = f /\ f \o <<x>> = Append(f, x)
<1> DEFINE S == {f[i] : i \in 1 .. Len(f)} \cup {x}
<1>1. f \in Seq({f[i] : i \in 1 .. Len(f)})
  BY RowIs DEF IsRow
<1>2. f \in Seq(S) /\ x \in S /\ <<x>> \in Seq(S)
  BY <1>1
<1> HIDE DEF S
<1>3. f \o <<>> = f
  BY <1>2, ConcatEmptySeq
<1>4. f \o <<x>> = Append(f, x)
  BY <1>2, AppendIsConcat
<1> QED BY <1>3, <1>4

\* The recursion of merkleProof has a solution.
LEMMA ClimbIs ==
  ASSUME NEW levels, NEW index, Len(levels) \in Nat, Len(levels) >= 1
  PROVE  \E c : ClimbOf(c, levels, index) /\ MerkleProof(levels, index) = c[Len(levels)].path
<1> DEFINE start == [path |-> <<>>, at |-> index]
           Step(f, n) == IF n = 1 THEN start ELSE Above(levels[n - 1], f[n - 1])
           Built(m, f) == f = [n \in 1 .. m |-> Step(f, n)]
           done == {m \in 0 .. Len(levels) : \E f : Built(m, f)}
           c == CHOOSE f : Built(Len(levels), f)
<1>1. 0 \in done
  <2>1. Built(0, [n \in 1 .. 0 |-> <<>>])
    OBVIOUS
  <2>2. 0 \in 0 .. Len(levels)
    OBVIOUS
  <2> QED BY <2>1, <2>2
<1>2. ASSUME NEW m \in 0 .. Len(levels), m \in done, m < Len(levels) PROVE m + 1 \in done
  <2>1. PICK f : Built(m, f)
    BY <1>2
  <2> DEFINE g == [n \in 1 .. m + 1 |-> IF n <= m THEN f[n] ELSE Step(f, n)]
  <2>2. ASSUME NEW n \in 1 .. m + 1 PROVE g[n] = Step(g, n)
    <3>1. CASE n <= m
      <4>1. g[n] = f[n] /\ f[n] = Step(f, n) /\ n \in 1 .. m
        BY <2>1, <3>1
      <4>2. n # 1 => n - 1 \in 1 .. m /\ g[n - 1] = f[n - 1]
        BY <3>1
      <4> QED BY <4>1, <4>2
    <3>2. CASE n = m + 1
      <4>1. g[n] = Step(f, n)
        BY <3>2
      <4>2. n # 1 => n - 1 \in 1 .. m /\ g[n - 1] = f[n - 1]
        BY <3>2
      <4> HIDE DEF g
      <4> QED BY <4>1, <4>2
    <3> QED BY <3>1, <3>2
  <2>3. g = [n \in 1 .. m + 1 |-> Step(g, n)]
    <3>1. g = [n \in 1 .. m + 1 |-> g[n]]
      OBVIOUS
    <3> HIDE DEF g
    <3> HIDE DEF Step
    <3> QED BY <2>2, <3>1, Zenon
  <2>4. m + 1 \in 0 .. Len(levels)
    BY <1>2
  <2> QED BY <2>3, <2>4
<1>3. Len(levels) \in done
  <2> HIDE DEF done
  <2>1. Len(levels) \in 0 .. Len(levels)
    OBVIOUS
  <2> QED BY <1>1, <1>2, <2>1, Upward
<1>4. MerkleProof(levels, index) = c[Len(levels)].path
  BY DEF MerkleProof
<1>5. Built(Len(levels), c)
  <2>1. \E f : Built(Len(levels), f)
    BY <1>3
  <2> HIDE DEF Built
  <2> QED BY <2>1
<1> HIDE DEF c
<1>6. c[1] = [path |-> <<>>, at |-> index]
  BY <1>5
<1>7. ASSUME NEW h \in 1 .. Len(levels), h # 1 PROVE c[h] = Above(levels[h - 1], c[h - 1])
  BY <1>5, <1>7
<1> QED BY <1>4, <1>6, <1>7 DEF ClimbOf

\* The recursion of verifyMerkle has a solution.
LEMMA HashIs ==
  ASSUME NEW path, NEW root, NEW leaf, Len(path) \in Nat
  PROVE  \E g : HashOf(g, path, leaf) /\ (VerifyMerkle(path, root, leaf) <=> root = g[Len(path)])
<1> DEFINE Step(f, n) == IF n = 0 THEN Leaf(leaf) ELSE Paired(f[n - 1], path[n])
           Built(m, f) == f = [n \in 0 .. m |-> Step(f, n)]
           done == {m \in 0 .. Len(path) : \E f : Built(m, f)}
           hash == CHOOSE f : Built(Len(path), f)
<1>1. 0 \in done
  <2>1. Built(0, [n \in 0 .. 0 |-> Leaf(leaf)])
    OBVIOUS
  <2>2. 0 \in 0 .. Len(path)
    OBVIOUS
  <2> QED BY <2>1, <2>2
<1>2. ASSUME NEW m \in 0 .. Len(path), m \in done, m < Len(path) PROVE m + 1 \in done
  <2>1. PICK f : Built(m, f)
    BY <1>2
  <2> DEFINE g == [n \in 0 .. m + 1 |-> IF n <= m THEN f[n] ELSE Step(f, n)]
  <2>2. ASSUME NEW n \in 0 .. m + 1 PROVE g[n] = Step(g, n)
    <3>1. CASE n <= m
      <4>1. g[n] = f[n] /\ f[n] = Step(f, n) /\ n \in 0 .. m
        BY <2>1, <3>1
      <4>2. n # 0 => n - 1 \in 0 .. m /\ g[n - 1] = f[n - 1]
        BY <3>1
      <4> QED BY <4>1, <4>2
    <3>2. CASE n = m + 1
      <4>1. g[n] = Step(f, n)
        BY <3>2
      <4>2. n # 0 => n - 1 \in 0 .. m /\ g[n - 1] = f[n - 1]
        BY <3>2
      <4> HIDE DEF g
      <4> QED BY <4>1, <4>2
    <3> QED BY <3>1, <3>2
  <2>3. g = [n \in 0 .. m + 1 |-> Step(g, n)]
    <3>1. g = [n \in 0 .. m + 1 |-> g[n]]
      OBVIOUS
    <3> HIDE DEF g
    <3> HIDE DEF Step
    <3> QED BY <2>2, <3>1, Zenon
  <2>4. m + 1 \in 0 .. Len(path)
    BY <1>2
  <2> QED BY <2>3, <2>4
<1>3. Len(path) \in done
  <2> HIDE DEF done
  <2>1. Len(path) \in 0 .. Len(path)
    OBVIOUS
  <2> QED BY <1>1, <1>2, <2>1, Upward
<1>4. VerifyMerkle(path, root, leaf) <=> root = hash[Len(path)]
  BY DEF VerifyMerkle
<1>5. Built(Len(path), hash)
  <2>1. \E f : Built(Len(path), f)
    BY <1>3
  <2> HIDE DEF Built
  <2> QED BY <2>1
<1> HIDE DEF hash
<1>6. hash[0] = Leaf(leaf)
  BY <1>5
<1>7. ASSUME NEW n \in 1 .. Len(path) PROVE hash[n] = Paired(hash[n - 1], path[n])
  BY <1>5
<1> QED BY <1>4, <1>6, <1>7 DEF HashOf

\* What a node was made of is in the level below it.
LEMMA ChildIsBelow ==
  ASSUME NEW level, IsRow(level), Len(level) >= 1, NEW b \in 1 .. Len(NextLevel(level)),
         NEW x, NEW y, NEW z, NextLevel(level)[b] = Node(y, z), x \in {y, z}
  PROVE  \E i \in 1 .. Len(level) : x = level[i]
<1> DEFINE two == IF 2 * b <= Len(level) THEN 2 * b ELSE 2 * b - 1
<1>1. Len(level) \in Nat /\ b \in Nat /\ b >= 1 /\ b <= (Len(level) + 1) \div 2
  <2>1. Len(NextLevel(level)) = (Len(level) + 1) \div 2 /\ Len(level) \in Nat
    BY NextIs DEF IsRow
  <2> QED BY <2>1
<1>2. 2 * b - 1 \in 1 .. Len(level) /\ two \in 1 .. Len(level)
  BY <1>1
<1>3. NextLevel(level)[b] = Node(level[2 * b - 1], level[two])
  BY NextIs
<1> HIDE DEF two
<1>4. y = level[2 * b - 1] /\ z = level[two]
  BY <1>3 DEF Node
<1> QED BY <1>2, <1>4

\* From c to d, one level up: the path only grows at its end, and what its new
\* step makes of a hash tells that hash, if it is the entry of the level above.
StepsUp(level, next, c, d) ==
  /\ IsRow(d.path) /\ d.at \in Nat /\ d.at < Len(next)
  /\ \A i \in 1 .. Len(c.path) : d.path[i] = c.path[i]
  /\ \/ d.path = c.path
     \/ /\ Len(d.path) = Len(c.path) + 1
        /\ \A x : Paired(x, d.path[Len(d.path)]) = next[d.at + 1] <=> x = level[c.at + 1]
        /\ \A x : \E y, z : Paired(x, d.path[Len(d.path)]) = Node(y, z) /\ x \in {y, z}

\* A step of merkleProof, whatever the hash it is used on.
LEMMA AboveIs ==
  ASSUME NEW level, IsRow(level), Len(level) >= 1, NEW c, IsRow(c.path), c.at \in Nat, c.at < Len(level)
  PROVE  StepsUp(level, NextLevel(level), c, Above(level, c))
<1> DEFINE d == Above(level, c)
           next == NextLevel(level)
           k == c.at \div 2
           sibling == IF c.at % 2 = 0 THEN c.at + 1 ELSE c.at - 1
           step == [hash |-> level[sibling + 1], left |-> c.at % 2 = 1]
<1>1. d.at = k /\ d.path = c.path \o ProofStep(level, c.at)
  BY DEF Above
<1>2. k \in Nat /\ c.at % 2 \in {0, 1} /\ c.at = 2 * k + (c.at % 2)
  BY Halved
<1>3. Len(next) = (Len(level) + 1) \div 2 /\ Len(level) \in Nat
  BY NextIs DEF IsRow
<1>4. k < Len(next)
  BY <1>2, <1>3
<1>5. CASE ~(sibling < Len(level))
  <2>1. ProofStep(level, c.at) = <<>>
    BY <1>5 DEF ProofStep
  <2>2. d.path = c.path
    BY <1>1, <2>1, RowJoins
  <2> QED BY <1>1, <1>2, <1>4, <2>2 DEF StepsUp
<1>6. CASE sibling < Len(level)
  <2>1. ProofStep(level, c.at) = <<step>>
    BY <1>6 DEF ProofStep
  <2>2. d.path = Append(c.path, step)
    BY <1>1, <2>1, RowJoins
  <2>3. /\ IsRow(d.path) /\ Len(d.path) = Len(c.path) + 1 /\ d.path[Len(d.path)] = step
        /\ \A i \in 1 .. Len(c.path) : d.path[i] = c.path[i]
    <3> HIDE DEF d, step
    <3> QED BY <2>2, RowGrows
  <2>4. k + 1 \in 1 .. Len(next)
    <3> HIDE DEF k
    <3>1. Len(next) \in Nat
      BY <1>3
    <3> QED BY <3>1, <1>2, <1>4
  <2>5. next[k + 1] =
          Node(level[2 * (k + 1) - 1], IF 2 * (k + 1) <= Len(level) THEN level[2 * (k + 1)] ELSE level[2 * (k + 1) - 1])
    BY <2>4, NextIs
  <2>6. ASSUME NEW h PROVE Paired(h, step) = next[d.at + 1] <=> h = level[c.at + 1]
    <3>1. CASE c.at % 2 = 1
      <4>1. Paired(h, step) = Node(level[sibling + 1], h)
        BY <3>1 DEF Paired
      <4>2. 2 * (k + 1) = c.at + 1 /\ 2 * (k + 1) <= Len(level) /\ 2 * (k + 1) - 1 = sibling + 1
        BY <1>2, <1>3, <3>1
      <4>3. next[k + 1] = Node(level[sibling + 1], level[c.at + 1])
        BY <2>5, <4>2
      <4> QED BY <1>1, <4>1, <4>3 DEF Node
    <3>2. CASE c.at % 2 = 0
      <4>0. c.at % 2 # 1
        BY <3>2
      <4>1. ~step.left /\ step.hash = level[sibling + 1]
        BY <4>0
      <4>2. Paired(h, step) = Node(h, level[sibling + 1])
        BY <4>1 DEF Paired
      <4>3. 2 * (k + 1) - 1 = c.at + 1 /\ 2 * (k + 1) = sibling + 1 /\ sibling + 1 <= Len(level)
        <5>1. sibling = c.at + 1 /\ c.at = 2 * k /\ k \in Nat /\ sibling < Len(level) /\ Len(level) \in Nat
          BY <1>2, <1>3, <1>6, <3>2
        <5> HIDE DEF k, sibling
        <5> QED BY <5>1
      <4>4. next[k + 1] = Node(level[c.at + 1], level[sibling + 1])
        BY <2>5, <4>3
      <4> QED BY <1>1, <4>2, <4>4 DEF Node
    <3> QED BY <1>2, <3>1, <3>2
  <2>7. \A h : Paired(h, step) \in {Node(h, step.hash), Node(step.hash, h)}
    BY DEF Paired
  <2> HIDE DEF step, d, next, k
  <2>8. d.at \in Nat /\ d.at < Len(next)
    BY <1>1, <1>2, <1>4
  <2>9. \A h : Paired(h, d.path[Len(d.path)]) = next[d.at + 1] <=> h = level[c.at + 1]
    BY <2>3, <2>6
  <2>10. ASSUME NEW h PROVE \E y, z : Paired(h, d.path[Len(d.path)]) = Node(y, z) /\ h \in {y, z}
    BY <2>3, <2>7
  <2> QED BY <2>3, <2>8, <2>9, <2>10 DEF d, next, StepsUp
<1> QED BY <1>5, <1>6

\* merkleTree ends in a single root: MaxLeaves passes are enough.
LEMMA TreeIs ==
  ASSUME NEW count \in 1 .. MaxLeaves
  PROVE  LET row == [i \in 1 .. count |-> Leaf(i)]
             levels == MerkleTree([i \in 1 .. count |-> i])
         IN  IsTree(levels, row, MaxLeaves) /\ Len(levels[Len(levels)]) = 1
<1> DEFINE leaves == [i \in 1 .. count |-> i]
           row == [i \in 1 .. count |-> Leaf(i)]
<1>0. count \in Nat /\ MaxLeaves \in Nat /\ MaxLeaves >= 1 /\ count <= MaxLeaves
  BY LevelsAssumption
<1>1. [i \in DOMAIN leaves |-> Leaf(leaves[i])] = row
  OBVIOUS
<1>2. PICK f : LevelsOf(f, row) /\ MerkleTree(leaves) = f[MaxLeaves]
  <2> HIDE DEF leaves
  <2>1. \E f : LevelsOf(f, [i \in DOMAIN leaves |-> Leaf(leaves[i])]) /\ MerkleTree(leaves) = f[MaxLeaves]
    BY <1>0, LevelsIs
  <2> HIDE DEF row
  <2> QED BY <1>1, <2>1
<1>3. row = [i \in 1 .. count |-> row[i]]
  OBVIOUS
<1> HIDE DEF leaves, row
<1>4. IsRow(row) /\ Len(row) = count
  BY <1>0, <1>3, RowIs
<1>5. IsTree(f[1], row, 1)
  <2>1. Len(<<row>>) = 1 /\ <<row>>[1] = row /\ <<row>> = [i \in 1 .. 1 |-> <<row>>[i]]
    OBVIOUS
  <2>2. IsRow(<<row>>)
    BY <2>1 DEF IsRow
  <2> QED BY <1>0, <1>2, <1>4, <2>1, <2>2 DEF IsTree, LevelsOf
<1> DEFINE right == {n \in 1 .. MaxLeaves : IsTree(f[n], row, n)}
<1>6. ASSUME NEW n \in 1 .. MaxLeaves, n \in right, n < MaxLeaves PROVE n + 1 \in right
  <2>1. n + 1 \in 1 .. MaxLeaves /\ n + 1 # 1 /\ (n + 1) - 1 = n
    BY <1>0, <1>6
  <2>2. f[n + 1] = Taller(f[n])
    BY <1>2, <2>1 DEF LevelsOf
  <2> QED BY <1>4, <1>6, <2>1, <2>2, TallerIs
<1>7. 1 \in right
  BY <1>0, <1>5
<1>8. MaxLeaves \in right
  <2> HIDE DEF right
  <2> QED BY <1>0, <1>6, <1>7, Upward
<1>9. IsTree(MerkleTree(leaves), row, MaxLeaves)
  BY <1>2, <1>8
<1>10. Len(MerkleTree(leaves)[Len(MerkleTree(leaves))]) = 1
  <2> DEFINE levels == MerkleTree(leaves)
  <2>1. Len(levels[Len(levels)]) = 1 \/ Len(levels[Len(levels)]) + MaxLeaves <= count + 1
    BY <1>4, <1>9 DEF IsTree
  <2>2. Len(levels) \in Nat /\ Len(levels) >= 1 /\ Len(levels) \in 1 .. Len(levels)
    BY <1>9 DEF IsTree, IsRow
  <2>3. Len(levels[Len(levels)]) >= 1 /\ Len(levels[Len(levels)]) \in Nat
    BY <1>9, <2>2 DEF IsTree, IsRow
  <2>4. Len(levels[Len(levels)]) = 1
    <3> DEFINE n == Len(levels[Len(levels)])
    <3>1. n \in Nat /\ n >= 1 /\ (n = 1 \/ n + MaxLeaves <= count + 1)
      BY <2>1, <2>3
    <3> HIDE DEF n
    <3>2. n = 1
      BY <1>0, <3>1
    <3> QED BY <3>2 DEF n
  <2> QED BY <2>4 DEF levels
<1> QED BY <1>9, <1>10 DEF leaves, row

\* The whole climb of a proof through a tree whose lowest row is row: each step
\* goes one level up, and what it found is the beginning of the proof's path.
Climbs(levels, c, path, index) ==
  /\ Len(levels) \in Nat /\ Len(levels) >= 1
  /\ c[1] = [path |-> <<>>, at |-> index] /\ path = c[Len(levels)].path
  /\ \A h \in 1 .. Len(levels) :
       /\ IsRow(levels[h]) /\ Len(levels[h]) >= 1
       /\ IsRow(c[h].path) /\ c[h].at \in Nat /\ c[h].at < Len(levels[h])
       /\ Len(c[h].path) <= Len(path) /\ \A i \in 1 .. Len(c[h].path) : path[i] = c[h].path[i]
       /\ h < Len(levels) =>
            /\ h + 1 \in 1 .. Len(levels) /\ levels[h + 1] = NextLevel(levels[h])
            /\ StepsUp(levels[h], levels[h + 1], c[h], c[h + 1])

LEMMA ClimbHolds ==
  ASSUME NEW levels, NEW row, NEW n, IsTree(levels, row, n), NEW index \in Nat, index < Len(row)
  PROVE  \E c : Climbs(levels, c, MerkleProof(levels, index), index)
<1> DEFINE top == Len(levels)
           path == MerkleProof(levels, index)
<1>1. top \in Nat /\ top >= 1 /\ levels[1] = row
  BY DEF IsTree, IsRow
<1>2. PICK c : ClimbOf(c, levels, index) /\ path = c[top].path
  BY <1>1, ClimbIs
<1> HIDE DEF path
<1>3. c[1] = [path |-> <<>>, at |-> index]
  BY <1>2 DEF ClimbOf
<1> DEFINE Size(h) == Len(c[h].path)
           Inside(h) == IsRow(c[h].path) /\ c[h].at \in Nat /\ c[h].at < Len(levels[h])
           inside == {h \in 1 .. top : Inside(h)}
           Kept(h) == Size(h) <= Len(path) /\ \A i \in 1 .. Size(h) : path[i] = c[h].path[i]
           kept == {h \in 1 .. top : Kept(h)}
<1>4. ASSUME NEW h \in 1 .. top, h < top, Inside(h)
      PROVE  /\ h + 1 \in 1 .. top /\ levels[h + 1] = NextLevel(levels[h])
             /\ StepsUp(levels[h], levels[h + 1], c[h], c[h + 1])
  <2>1. h + 1 \in 1 .. top /\ h + 1 # 1 /\ (h + 1) - 1 = h
    BY <1>1, <1>4
  <2>2. /\ c[h + 1] = Above(levels[h], c[h]) /\ levels[h + 1] = NextLevel(levels[h])
        /\ IsRow(levels[h]) /\ Len(levels[h]) >= 1
    BY <1>2, <2>1 DEF IsTree, ClimbOf
  <2> QED BY <1>4, <2>1, <2>2, AboveIs
<1>5. 1 .. top \subseteq inside
  <2>1. 1 \in inside
    <3>1. IsRow(<<>>)
      BY DEF IsRow
    <3> QED BY <1>1, <1>3, <3>1
  <2>2. ASSUME NEW h \in 1 .. top, h \in inside, h < top PROVE h + 1 \in inside
    BY <1>4, <2>2 DEF StepsUp
  <2> HIDE DEF inside
  <2> QED BY <1>1, <2>1, <2>2, Upward
<1>6. \A h \in 1 .. top : Inside(h) /\ Size(h) \in Nat
  BY <1>5 DEF IsRow
<1>7. ASSUME NEW k \in 1 .. top PROVE k \in kept
  <2>1. top \in kept
    BY <1>1, <1>2, <1>6
  <2>2. ASSUME NEW h \in k .. top, h < top, h + 1 \in kept PROVE h \in kept
    <3>1. h \in 1 .. top
      BY <1>1
    <3>2. StepsUp(levels[h], levels[h + 1], c[h], c[h + 1]) /\ h + 1 \in 1 .. top
      BY <1>4, <1>6, <2>2, <3>1
    <3>3. Size(h) \in Nat /\ Size(h + 1) \in Nat /\ Len(path) \in Nat
      <4>1. Size(h) \in Nat
        BY <1>6, <3>1
      <4>2. Size(h + 1) \in Nat
        BY <1>6, <3>2
      <4>3. Len(path) \in Nat
        BY <1>1, <1>2, <1>6
      <4> QED BY <4>1, <4>2, <4>3
    <3>4. Size(h) <= Size(h + 1) /\ \A i \in 1 .. Size(h) : c[h + 1].path[i] = c[h].path[i]
      BY <3>2, <3>3 DEF StepsUp
    <3> QED BY <2>2, <3>1, <3>3, <3>4
  <2> HIDE DEF kept
  <2>3. k \in Nat /\ k <= top
    BY <1>1
  <2> QED BY <1>1, <2>1, <2>2, <2>3, Downward
<1>8. \A h \in 1 .. top : IsRow(levels[h]) /\ Len(levels[h]) >= 1
  BY DEF IsTree
<1> QED BY <1>1, <1>2, <1>3, <1>4, <1>6, <1>7, <1>8 DEF Climbs, path

\* A climb at the root, and at one level.
LEMMA ClimbEnds ==
  ASSUME NEW levels, NEW c, NEW path, NEW index, Climbs(levels, c, path, index)
  PROVE  /\ Len(levels) \in Nat /\ Len(levels) >= 1 /\ 1 \in 1 .. Len(levels) /\ Len(levels) \in 1 .. Len(levels)
         /\ path = c[Len(levels)].path /\ Len(path) \in Nat
         /\ Len(c[1].path) = 0 /\ c[1].at = index
<1>1. Len(levels) \in Nat /\ Len(levels) >= 1 /\ path = c[Len(levels)].path /\ c[1] = [path |-> <<>>, at |-> index]
  BY DEF Climbs
<1>2. 1 \in 1 .. Len(levels) /\ Len(levels) \in 1 .. Len(levels)
  BY <1>1
<1>3. IsRow(path)
  BY <1>1, <1>2 DEF Climbs
<1>4. Len(path) \in Nat
  BY <1>3 DEF IsRow
<1>5. c[1].path = <<>> /\ c[1].at = index
  BY <1>1
<1> QED BY <1>1, <1>2, <1>4, <1>5

LEMMA ClimbAt ==
  ASSUME NEW levels, NEW c, NEW path, NEW index, Climbs(levels, c, path, index), NEW h \in 1 .. Len(levels)
  PROVE  /\ IsRow(levels[h]) /\ Len(levels[h]) \in Nat /\ Len(levels[h]) >= 1
         /\ Len(c[h].path) \in Nat /\ c[h].at \in Nat /\ c[h].at < Len(levels[h])
         /\ Len(c[h].path) <= Len(path) /\ \A i \in 1 .. Len(c[h].path) : path[i] = c[h].path[i]
         /\ h < Len(levels) =>
              /\ h + 1 \in 1 .. Len(levels) /\ levels[h + 1] = NextLevel(levels[h])
              /\ StepsUp(levels[h], levels[h + 1], c[h], c[h + 1])
<1>1. /\ IsRow(levels[h]) /\ IsRow(c[h].path) /\ Len(levels[h]) >= 1 /\ c[h].at \in Nat /\ c[h].at < Len(levels[h])
      /\ Len(c[h].path) <= Len(path) /\ \A i \in 1 .. Len(c[h].path) : path[i] = c[h].path[i]
      /\ h < Len(levels) =>
           /\ h + 1 \in 1 .. Len(levels) /\ levels[h + 1] = NextLevel(levels[h])
           /\ StepsUp(levels[h], levels[h + 1], c[h], c[h + 1])
  BY DEF Climbs
<1>2. Len(levels[h]) \in Nat /\ Len(c[h].path) \in Nat
  BY <1>1 DEF IsRow
<1> QED BY <1>1, <1>2

\* The hash of a level is that of the level below, or pairs it with the step.
LEMMA HashSteps ==
  ASSUME NEW levels, NEW c, NEW path, NEW index, Climbs(levels, c, path, index),
         NEW g, NEW leaf, HashOf(g, path, leaf), NEW h \in 1 .. Len(levels), h < Len(levels),
         c[h + 1].path # c[h].path
  PROVE  g[Len(c[h + 1].path)] = Paired(g[Len(c[h].path)], c[h + 1].path[Len(c[h + 1].path)])
<1> DEFINE n == Len(c[h + 1].path)
<1>1. /\ h + 1 \in 1 .. Len(levels) /\ n = Len(c[h].path) + 1
      /\ n \in Nat /\ Len(c[h].path) \in Nat /\ n <= Len(path) /\ Len(path) \in Nat
      /\ \A i \in 1 .. n : path[i] = c[h + 1].path[i]
  <2>1. /\ h + 1 \in 1 .. Len(levels) /\ Len(c[h].path) \in Nat /\ Len(path) \in Nat
        /\ StepsUp(levels[h], levels[h + 1], c[h], c[h + 1])
    BY ClimbAt, ClimbEnds
  <2>2. n \in Nat /\ n <= Len(path) /\ \A i \in 1 .. n : path[i] = c[h + 1].path[i]
    BY <2>1, ClimbAt
  <2>3. n = Len(c[h].path) + 1
    BY <2>1 DEF StepsUp
  <2> QED BY <2>1, <2>2, <2>3
<1> HIDE DEF n
<1>2. n \in 1 .. n /\ n \in 1 .. Len(path) /\ n - 1 = Len(c[h].path)
  BY <1>1
<1>3. path[n] = c[h + 1].path[n]
  BY <1>1, <1>2
<1>4. g[n] = Paired(g[n - 1], path[n])
  BY <1>2 DEF HashOf
<1> QED BY <1>2, <1>3, <1>4 DEF n

\* Down the path from the root: the hash at a level is the entry the place is
\* under, and there was a step for each level above; or it is an entry of a
\* higher level, as a step was left out.  At the bottom it is a leaf, and a leaf
\* is no node.
LEMMA DownThePath ==
  ASSUME NEW levels, NEW row, NEW n, IsTree(levels, row, n), Len(levels[Len(levels)]) = 1,
         NEW c, NEW path, NEW index \in Nat, index < Len(row), Climbs(levels, c, path, index),
         NEW g, NEW leaf, HashOf(g, path, leaf), g[Len(path)] = levels[Len(levels)][1]
  PROVE  Leaf(leaf) = row[index + 1] /\ Len(path) = Len(levels) - 1
<1> DEFINE top == Len(levels)
           Size(h) == Len(c[h].path)
           Higher(h) == \E m \in 2 .. top : h < m /\ \E b \in 1 .. Len(levels[m]) : g[Size(h)] = levels[m][b]
           Own(h) == g[Size(h)] = levels[h][c[h].at + 1] /\ Len(path) = Size(h) + (top - h)
           reached == {h \in 1 .. top : Own(h) \/ Higher(h)}
<1>1. top \in Nat /\ top >= 1 /\ top \in 1 .. top /\ 1 \in 1 .. top /\ Len(path) \in Nat /\ path = c[top].path
  BY ClimbEnds
<1>2. \A h \in 1 .. top : Size(h) \in Nat
  BY ClimbAt
<1>3. top \in reached
  <2>1. c[top].at \in Nat /\ c[top].at < 1
    BY <1>1, ClimbAt
  <2>2. c[top].at = 0
    BY <2>1
  <2> QED BY <1>1, <1>2, <2>2
<1>4. ASSUME NEW h \in 1 .. top, h < top, h + 1 \in reached PROVE h \in reached
  <2> DEFINE d == c[h + 1]
             last == d.path[Len(d.path)]
             up == g[Size(h + 1)]
  <2>1. /\ h + 1 \in 1 .. top /\ StepsUp(levels[h], levels[h + 1], c[h], d)
        /\ Size(h) \in Nat /\ Size(h + 1) \in Nat
    BY <1>2, <1>4, ClimbAt
  <2>2. Own(h + 1) \/ Higher(h + 1)
    BY <1>4
  <2>3. CASE d.path = c[h].path
    <3>1. up = g[Size(h)]
      BY <2>3
    <3>2. up = levels[h + 1][d.at + 1] => Higher(h)
      <4>1. d.at + 1 \in 1 .. Len(levels[h + 1]) /\ h + 1 \in 2 .. top /\ h < h + 1
        <5>1. d.at \in Nat /\ d.at < Len(levels[h + 1]) /\ Len(levels[h + 1]) \in Nat
          BY <2>1, ClimbAt
        <5> HIDE DEF d
        <5> QED BY <5>1, <2>1
      <4> QED BY <3>1, <4>1
    <3>3. Higher(h + 1) => Higher(h)
      BY <3>1
    <3> QED BY <2>2, <3>2, <3>3
  <2>4. CASE d.path # c[h].path
    <3>1. up = Paired(g[Size(h)], last)
      BY <1>4, <2>4, HashSteps
    <3>2. Own(h + 1) => Own(h)
      <4>1. up = levels[h + 1][d.at + 1] => g[Size(h)] = levels[h][c[h].at + 1]
        BY <2>1, <2>4, <3>1 DEF StepsUp
      <4>2. Size(h + 1) = Size(h) + 1
        BY <2>1, <2>4 DEF StepsUp
      <4>3. Len(path) = Size(h + 1) + (top - (h + 1)) => Len(path) = Size(h) + (top - h)
        <5> HIDE DEF Size
        <5> QED BY <1>1, <2>1, <4>2
      <4> QED BY <4>1, <4>3
    <3>3. ASSUME Higher(h + 1) PROVE Higher(h)
      <4>1. PICK m \in 2 .. top : h + 1 < m /\ \E b \in 1 .. Len(levels[m]) : up = levels[m][b]
        BY <3>3
      <4>2. PICK b \in 1 .. Len(levels[m]) : up = levels[m][b]
        BY <4>1
      <4>3. PICK y, z : up = Node(y, z) /\ g[Size(h)] \in {y, z}
        BY <2>1, <2>4, <3>1 DEF StepsUp
      <4>4. /\ m - 1 \in 2 .. top /\ h < m - 1
            /\ IsRow(levels[m - 1]) /\ Len(levels[m - 1]) >= 1 /\ levels[m] = NextLevel(levels[m - 1])
        <5>1. m - 1 \in 2 .. top /\ h < m - 1 /\ m - 1 \in 1 .. top /\ m - 1 < top /\ (m - 1) + 1 = m
          BY <1>1, <4>1
        <5>2. /\ IsRow(levels[m - 1]) /\ Len(levels[m - 1]) >= 1
              /\ levels[(m - 1) + 1] = NextLevel(levels[m - 1])
          BY <5>1, ClimbAt
        <5> QED BY <5>1, <5>2
      <4>5. \E i \in 1 .. Len(levels[m - 1]) : g[Size(h)] = levels[m - 1][i]
        <5> DEFINE below == levels[m - 1]
                   x == g[Size(h)]
        <5>1. IsRow(below) /\ Len(below) >= 1 /\ levels[m] = NextLevel(below)
          BY <4>4
        <5>2. b \in 1 .. Len(NextLevel(below)) /\ NextLevel(below)[b] = Node(y, z) /\ x \in {y, z}
          <6> HIDE DEF below
          <6> QED BY <4>2, <4>3, <5>1
        <5> HIDE DEF below, x
        <5>3. IsRow(below) /\ Len(below) >= 1
          BY <5>1
        <5>4. b \in 1 .. Len(NextLevel(below)) /\ NextLevel(below)[b] = Node(y, z)
          BY <5>2
        <5>5. x \in {y, z}
          BY <5>2
        <5> HIDE <5>1, <5>2
        <5>6. \E i \in 1 .. Len(below) : x = below[i]
          BY <5>3, <5>4, <5>5, ChildIsBelow, ZenonT(60)
        <5> QED BY <5>6 DEF below, x
      <4> QED BY <4>4, <4>5
    <3> QED BY <2>2, <3>2, <3>3
  <2> QED BY <2>3, <2>4
<1>5. 1 \in reached
  <2> HIDE DEF reached
  <2> QED BY <1>1, <1>3, <1>4, Downward
<1>6. Size(1) = 0 /\ c[1].at = index /\ g[0] = Leaf(leaf) /\ levels[1] = row
  BY ClimbEnds DEF HashOf, IsTree
<1>7. ~Higher(1)
  <2> SUFFICES ASSUME NEW m \in 2 .. top, NEW b \in 1 .. Len(levels[m]), Leaf(leaf) = levels[m][b] PROVE FALSE
    BY <1>6
  <2>1. IsRow(levels[m - 1]) /\ Len(levels[m - 1]) >= 1 /\ levels[m] = NextLevel(levels[m - 1])
    BY <1>1 DEF IsTree
  <2>2. \E y, z : levels[m][b] = Node(y, z)
    BY <2>1, NextIs
  <2> QED BY <2>2 DEF Leaf, Node
<1>8. Own(1)
  BY <1>5, <1>7
<1> QED BY <1>1, <1>6, <1>8

\* Up the path: with a step for each level, the hash of the own leaf is at each
\* level the entry the place is under.
LEMMA UpThePath ==
  ASSUME NEW levels, NEW row, NEW n, IsTree(levels, row, n), Len(levels[Len(levels)]) = 1,
         NEW c, NEW path, NEW index \in Nat, index < Len(row), Climbs(levels, c, path, index),
         NEW g, NEW leaf, HashOf(g, path, leaf), Leaf(leaf) = row[index + 1], Len(path) = Len(levels) - 1
  PROVE  g[Len(path)] = levels[Len(levels)][1]
<1> DEFINE top == Len(levels)
           Size(h) == Len(c[h].path)
           few == {h \in 1 .. top : Size(h) <= h - 1}
           many == {h \in 1 .. top : Size(h) >= h - 1}
           own == {h \in 1 .. top : g[Size(h)] = levels[h][c[h].at + 1]}
<1>1. /\ top \in Nat /\ top >= 1 /\ top \in 1 .. top /\ 1 \in 1 .. top /\ Len(path) \in Nat /\ path = c[top].path
      /\ Size(1) = 0 /\ c[1].at = index /\ g[0] = Leaf(leaf) /\ levels[1] = row
  BY ClimbEnds DEF HashOf, IsTree
<1>2. \A h \in 1 .. top : Size(h) \in Nat
  BY ClimbAt
<1>3. ASSUME NEW h \in 1 .. top, h < top
      PROVE  h + 1 \in 1 .. top /\ (Size(h + 1) = Size(h) \/ Size(h + 1) = Size(h) + 1)
  <2>1. h + 1 \in 1 .. top /\ StepsUp(levels[h], levels[h + 1], c[h], c[h + 1])
    BY <1>3, ClimbAt
  <2> QED BY <2>1 DEF StepsUp
<1>4. 1 .. top \subseteq few
  <2>1. 1 \in few
    BY <1>1
  <2>2. ASSUME NEW h \in 1 .. top, h \in few, h < top PROVE h + 1 \in few
    <3>1. h + 1 \in 1 .. top /\ (Size(h + 1) = Size(h) \/ Size(h + 1) = Size(h) + 1)
      BY <1>3, <2>2
    <3>2. Size(h) \in Nat /\ Size(h) <= h - 1
      BY <1>2, <2>2
    <3>3. Size(h + 1) <= (h + 1) - 1
      <4> HIDE DEF Size
      <4> QED BY <3>1, <3>2
    <3> QED BY <3>1, <3>3
  <2> HIDE DEF few
  <2> QED BY <1>1, <2>1, <2>2, Upward
<1>5. ASSUME NEW k \in 1 .. top PROVE k \in many
  <2>1. top \in many
    BY <1>1
  <2>2. ASSUME NEW h \in k .. top, h < top, h + 1 \in many PROVE h \in many
    <3>1. h \in 1 .. top
      BY <1>1
    <3>2. h + 1 \in 1 .. top /\ (Size(h + 1) = Size(h) \/ Size(h + 1) = Size(h) + 1)
      BY <1>3, <2>2, <3>1
    <3>3. Size(h) \in Nat /\ Size(h + 1) >= (h + 1) - 1
      BY <1>2, <2>2, <3>1
    <3>4. Size(h) >= h - 1
      <4> HIDE DEF Size
      <4> QED BY <3>1, <3>2, <3>3
    <3> QED BY <3>1, <3>4
  <2> HIDE DEF many
  <2>3. k \in Nat /\ k <= top
    BY <1>1
  <2> QED BY <1>1, <2>1, <2>2, <2>3, Downward
<1>6. \A h \in 1 .. top : Size(h) = h - 1
  <2> TAKE h \in 1 .. top
  <2>1. Size(h) <= h - 1 /\ Size(h) >= h - 1 /\ Size(h) \in Nat
    BY <1>2, <1>4, <1>5
  <2> HIDE DEF Size
  <2> QED BY <2>1
<1>7. 1 .. top \subseteq own
  <2>1. 1 \in own
    BY <1>1
  <2>2. ASSUME NEW h \in 1 .. top, h \in own, h < top PROVE h + 1 \in own
    <3>1. h + 1 \in 1 .. top /\ Size(h) = h - 1 /\ Size(h + 1) = (h + 1) - 1
      BY <1>3, <1>6, <2>2
    <3>2. c[h + 1].path # c[h].path
      BY <3>1
    <3>3. g[Size(h + 1)] = Paired(g[Size(h)], c[h + 1].path[Len(c[h + 1].path)])
      BY <2>2, <3>2, HashSteps
    <3>4. StepsUp(levels[h], levels[h + 1], c[h], c[h + 1])
      BY <2>2, ClimbAt
    <3>5. g[Size(h + 1)] = levels[h + 1][c[h + 1].at + 1]
      BY <2>2, <3>2, <3>3, <3>4 DEF StepsUp
    <3> QED BY <3>1, <3>5
  <2> HIDE DEF own
  <2> QED BY <1>1, <2>1, <2>2, Upward
<1>8. c[top].at = 0
  <2>1. c[top].at \in Nat /\ c[top].at < 1
    BY <1>1, ClimbAt
  <2> QED BY <2>1
<1>9. top \in own
  BY <1>1, <1>7
<1> QED BY <1>1, <1>8, <1>9

\* What a Merkle proof shows, and when it fails (scripts/ladder, merkleProof and
\* verifyMerkle): for trees of any size, the proof of a place verifies for the
\* leaf at that place only, and then exactly when it has a step for every level
\* below the root; a step is missing where the last entry of an odd level is
\* paired with itself.
THEOREM ProofsAreExact ==
  ASSUME NEW t \in Trees, t.index < t.count
  PROVE  LET levels == MerkleTree([i \in 1 .. t.count |-> i])
         IN  Proves(t) <=> /\ t.claimed = t.index + 1
                           /\ Len(MerkleProof(levels, t.index)) = Len(levels) - 1
<1> DEFINE row == [i \in 1 .. t.count |-> Leaf(i)]
           levels == MerkleTree([i \in 1 .. t.count |-> i])
           top == Len(levels)
           path == MerkleProof(levels, t.index)
<1>1. t.count \in 1 .. MaxLeaves /\ t.index \in Nat /\ t.claimed \in Nat
  BY LevelsAssumption DEF Trees
<1>2. IsTree(levels, row, MaxLeaves) /\ Len(levels[top]) = 1
  BY <1>1, TreeIs
<1>3. Proves(t) <=> VerifyMerkle(path, Last(levels)[1], t.claimed)
  BY DEF Proves
<1>4. row[t.index + 1] = Leaf(t.index + 1) /\ Len(row) = t.count
  <2>1. t.count \in Nat /\ row = [i \in 1 .. t.count |-> row[i]]
    BY <1>1
  <2>2. t.index + 1 \in 1 .. t.count
    BY <1>1
  <2>3. Len(row) = t.count
    <3> HIDE DEF row
    <3> QED BY <2>1, RowIs
  <2> QED BY <2>2, <2>3
<1> HIDE DEF row, levels
<1>5. Last(levels) = levels[top]
  BY DEF Last
<1>6. PICK c : Climbs(levels, c, path, t.index)
  BY <1>1, <1>2, <1>4, ClimbHolds
<1> HIDE DEF path
<1>7. Len(path) \in Nat
  BY <1>6, ClimbEnds
<1>8. PICK g : /\ HashOf(g, path, t.claimed)
               /\ VerifyMerkle(path, levels[top][1], t.claimed) <=> levels[top][1] = g[Len(path)]
  BY <1>7, HashIs
<1>9. Leaf(t.claimed) = row[t.index + 1] <=> t.claimed = t.index + 1
  BY <1>4 DEF Leaf
<1>10. ASSUME Proves(t) PROVE t.claimed = t.index + 1 /\ Len(path) = top - 1
  <2>1. g[Len(path)] = levels[top][1]
    BY <1>3, <1>5, <1>8, <1>10
  <2> QED BY <1>1, <1>2, <1>4, <1>6, <1>8, <1>9, <2>1, DownThePath
<1>11. ASSUME t.claimed = t.index + 1, Len(path) = top - 1 PROVE Proves(t)
  <2>1. g[Len(path)] = levels[top][1]
    BY <1>1, <1>2, <1>4, <1>6, <1>8, <1>9, <1>11, UpThePath
  <2> QED BY <1>3, <1>5, <1>8, <2>1
<1> QED BY <1>10, <1>11 DEF path, levels

LevelsInv ==
  /\ question.level = "L1" => answer = VerifyReceiptL1(question.on)
  /\ question.level = "L2" => answer = Replay(question.on)
  /\ (question.level = "L3" /\ answer = "PROVED") =>
       question.on \in Trees /\ question.on.index < question.on.count /\ Proves(question.on)

LEMMA ReceiptWhole ==
  ASSUME NEW r, VerifyReceiptL1(r) = "VERIFIED"
  PROVE  ~Missing(r) /\ ~Inconsistent(r) /\ KnownIn(r, r.blockHash)
BY DEF VerifyReceiptL1

LEMMA MatchWhole ==
  ASSUME NEW r, Replay(r) = "MATCH"
  PROVE  /\ r.failed = {} /\ r.rules # <<>>
         /\ \A rule \in Range(r.rules) : FirstEvidence(r, rule).result = "PASS"
BY DEF Replay

\* The verification levels (scripts/ladder), for any number of evidence items and
\* of leaves: a verified receipt is complete, of the committed chain and of its
\* own block; a match leaves no failure over, and every rule passed; a Merkle
\* proof that verifies is of the leaf at the place it was asked for.
THEOREM YesHolds == LevelsSpec => []YesIsWhole
<1>1. LevelsInit => LevelsInv
  BY DEF LevelsInit, LevelsInv
<1>2. LevelsInv /\ [LevelsNext]_levelsVars => LevelsInv'
  <2> SUFFICES ASSUME LevelsInv, [LevelsNext]_levelsVars PROVE LevelsInv'
    OBVIOUS
  <2>1. ASSUME NEW r, question' = [level |-> "L1", on |-> r], answer' = VerifyReceiptL1(r) PROVE LevelsInv'
    BY <2>1 DEF LevelsInv
  <2>2. ASSUME NEW r, question' = [level |-> "L2", on |-> r], answer' = Replay(r) PROVE LevelsInv'
    BY <2>2 DEF LevelsInv
  <2>3. ASSUME NEW t \in Trees, t.index < t.count, question' = [level |-> "L3", on |-> t],
               answer' = IF Proves(t) THEN "PROVED" ELSE "REFUSED"
        PROVE  LevelsInv'
    BY <2>3 DEF LevelsInv
  <2>4. ASSUME UNCHANGED levelsVars PROVE LevelsInv'
    BY <2>4 DEF levelsVars, LevelsInv
  <2> QED BY <2>1, <2>2, <2>3, <2>4 DEF LevelsNext
<1>3. LevelsInv => YesIsWhole
  <2> SUFFICES ASSUME LevelsInv PROVE YesIsWhole
    OBVIOUS
  <2>1. ReceiptIsWhole
    BY ReceiptWhole DEF LevelsInv, ReceiptIsWhole, Missing, Inconsistent, Required
  <2>2. MatchIsWhole
    BY MatchWhole DEF LevelsInv, MatchIsWhole
  <2>3. (question.level = "L3" /\ answer = "PROVED") => question.on.claimed = question.on.index + 1
    BY ProofsAreExact DEF LevelsInv
  <2> QED BY <2>1, <2>2, <2>3 DEF YesIsWhole
<1> QED BY <1>1, <1>2, <1>3, PTL DEF LevelsSpec

-----------------------------------------------------------------------------
\* What the repository says of itself.  An answer is about the sources as they
\* were then: each green one keeps what it was given and what it was asked.

AuditIsOfFile ==
  audited.is = "PASS" =>
    /\ AuditRegistry(BuildRegistry(audited.docs), audited.docs)
    /\ \A id \in ClaimIds : /\ audited.file.claims[id].derived = BuildClaim(id, audited.docs).derived
                            /\ audited.file.claims[id].status = BuildClaim(id, audited.docs).status
GateIsOfLegs ==
  artifact.is = "GATE_PASS" => RunGate(artifact.legs, artifact.found, artifact.docs)
PushIsOfCheckout ==
  checked.is = "safe to push" => Fails(checked.checkout) = {}

GateInv == AuditIsOfFile /\ GateIsOfLegs /\ PushIsOfCheckout

\* Of the registry that the sources give.
LEMMA RegistryOfClaims ==
  ASSUME NEW from, NEW id \in ClaimIds
  PROVE  BuildRegistry(from)[id] = BuildClaim(id, from) /\ BuildClaim(id, from).derived = Derive(id, from)
BY DEF BuildRegistry, BuildClaim

\* A registry that passes the audit derives what its claims assert, and every
\* source it names is there.
LEMMA AuditedIsAsserted ==
  ASSUME NEW from, AuditRegistry(BuildRegistry(from), from)
  PROVE  from.registry = "dry" /\ from.reputation = "unproven"
<1>1. /\ "adapters" \in ClaimIds
      /\ Claims["adapters"].asserts = {"dry"} /\ Claims["adapters"].source = "registry"
      /\ "reputation" \in ClaimIds
      /\ Claims["reputation"].asserts = {"unproven"} /\ Claims["reputation"].source = "reputation"
  BY DEF ClaimIds, Claims
<1>2. ~BuildClaim("adapters", from).downgraded /\ ~BuildClaim("reputation", from).downgraded
  BY <1>1, RegistryOfClaims DEF AuditRegistry
<1>3. Derive("adapters", from) = "dry" /\ Derive("reputation", from) = "unproven"
  BY <1>1, <1>2 DEF BuildClaim
<1> QED BY <1>1, <1>3 DEF Derive

LEMMA AuditedIsThere ==
  ASSUME NEW from, AuditRegistry(BuildRegistry(from), from)
  PROVE  \A s \in SourceDocs : from[s] # "absent"
<1>1. /\ {"suite", "adapters", "revenue", "reputation"} \subseteq ClaimIds
      /\ Claims["suite"].source = "snapshot" /\ Claims["adapters"].source = "registry"
      /\ Claims["revenue"].source = "milestones" /\ Claims["reputation"].source = "reputation"
  BY DEF ClaimIds, Claims
<1>2. SourceDocs = {"snapshot", "registry", "milestones", "reputation"}
  BY DEF SourceDocs, DocValues
<1> QED BY <1>1, <1>2 DEF AuditRegistry

\* What is derived of a source that is there is what the source holds.
LEMMA DerivedIsHeld ==
  ASSUME NEW from, NEW id \in ClaimIds, Claims[id].source \in {"snapshot", "registry", "reputation"},
         from[Claims[id].source] # "absent"
  PROVE  Derive(id, from) = from[Claims[id].source]
BY DEF Derive

\* The cases of a leg that passes are all read, and true.
LEMMA TalliedIsTrue ==
  ASSUME NEW cases, TallyCases(cases)
  PROVE  cases # <<>> /\ {"false", "unreadable"} \cap Range(cases) = {}
BY DEF TallyCases, Range

LEMMA SafeIsChecked ==
  ASSUME NEW c, Fails(c) = {}
  PROVE  /\ c.workflows # "broken"
         /\ c.origin => ~c.skipToken
         /\ c.verifier = "there" => c.record \notin {"unreadable", "mismatch"}
         /\ c.record \notin {"absent", "unreadable"} => c.covered /\ c.repins # "rewritten"
<1>1. {"workflows", "record", "covered", "repins", "skipToken"} \subseteq DOMAIN PlainCheckout
  BY DEF PlainCheckout
<1>2. c.workflows # "broken"
  BY <1>1 DEF Fails
<1>3. ~(c.record \in {"unreadable", "mismatch"} /\ c.verifier = "there")
  BY <1>1 DEF Fails
<1>4. ~(HasRecord(c) /\ ~c.covered) /\ ~(HasRecord(c) /\ c.repins = "rewritten")
  BY <1>1 DEF Fails
<1>5. ~(c.origin /\ c.skipToken)
  BY <1>1 DEF Fails
<1> QED BY <1>2, <1>3, <1>4, <1>5 DEF HasRecord

\* The claim registry, the release gate and the pre-push check, for any number
\* of changes to what they read: their green answers mean what they say.
THEOREM GreenHolds == GateSpec => []GreenIsChecked
<1>1. GateInit => GateInv
  BY DEF GateInit, GateInv, AuditIsOfFile, GateIsOfLegs, PushIsOfCheckout
<1>2. GateInv /\ [GateNext]_gateVars => GateInv'
  <2> SUFFICES ASSUME GateInv, [GateNext]_gateVars PROVE GateInv'
    OBVIOUS
  <2>1. ASSUME SourceChanges \/ WriteRegistry PROVE GateInv'
    BY <2>1 DEF SourceChanges, WriteRegistry, GateInv, AuditIsOfFile, GateIsOfLegs, PushIsOfCheckout
  <2>2. ASSUME Audit PROVE GateInv'
    <3> DEFINE is == IF AuditRegistry(BuildRegistry(docs), docs) /\ AuditCommittedRegistry(docs) THEN "PASS" ELSE "FAIL"
    <3>1. audited' = [is |-> is, file |-> file, docs |-> docs] /\ UNCHANGED <<artifact, checked>>
      BY <2>2 DEF Audit
    <3>2. is = "PASS" => AuditRegistry(BuildRegistry(docs), docs) /\ AuditCommittedRegistry(docs)
      OBVIOUS
    <3> HIDE DEF is
    <3>3. audited'.is = is /\ audited'.file = file /\ audited'.docs = docs
      BY <3>1
    <3>4. AuditIsOfFile'
      BY <3>2, <3>3 DEF AuditIsOfFile, AuditCommittedRegistry
    <3> QED BY <3>1, <3>4 DEF GateInv, GateIsOfLegs, PushIsOfCheckout
  <2>3. ASSUME NEW l, NEW only, Gate(only, l) PROVE GateInv'
    <3> DEFINE is == IF RunGate(only, l, docs) THEN "GATE_PASS" ELSE "GATE_FAIL"
    <3>1. artifact' = [is |-> is, legs |-> only, found |-> l, docs |-> docs] /\ UNCHANGED <<audited, checked>>
      BY <2>3 DEF Gate
    <3>2. is = "GATE_PASS" => RunGate(only, l, docs)
      OBVIOUS
    <3> HIDE DEF is
    <3>3. artifact'.is = is /\ artifact'.legs = only /\ artifact'.found = l /\ artifact'.docs = docs
      BY <3>1
    <3> QED BY <3>1, <3>2, <3>3 DEF GateInv, AuditIsOfFile, GateIsOfLegs, PushIsOfCheckout
  <2>4. ASSUME NEW c \in AllBut(PlainCheckout, OddCheckout, 2), PrePush(c) PROVE GateInv'
    <3> DEFINE is == IF Fails(c) = {} THEN "safe to push" ELSE "FAIL"
    <3>1. checked' = [is |-> is, checkout |-> c] /\ UNCHANGED <<audited, artifact>>
      BY <2>4 DEF PrePush
    <3>2. is = "safe to push" => Fails(c) = {}
      OBVIOUS
    <3> HIDE DEF is
    <3>3. checked'.is = is /\ checked'.checkout = c
      BY <3>1
    <3> QED BY <3>1, <3>2, <3>3 DEF GateInv, AuditIsOfFile, GateIsOfLegs, PushIsOfCheckout
  <2>5. ASSUME UNCHANGED gateVars PROVE GateInv'
    BY <2>5 DEF gateVars, GateInv, AuditIsOfFile, GateIsOfLegs, PushIsOfCheckout
  <2> QED BY <2>1, <2>2, <2>3, <2>4, <2>5 DEF GateNext
<1>3. GateInv => GreenIsChecked
  <2> SUFFICES ASSUME GateInv PROVE GreenIsChecked
    OBVIOUS
  <2>1. ASSUME audited.is = "PASS"
        PROVE  /\ \A id \in ClaimIds : Claims[id].source \in {"snapshot", "registry", "reputation"} =>
                    audited.file.claims[id].derived = audited.docs[Claims[id].source]
               /\ audited.docs.snapshot # "absent" /\ audited.docs.milestones # "absent"
               /\ audited.docs.registry = "dry" /\ audited.docs.reputation = "unproven"
    <3>1. \A s \in SourceDocs : audited.docs[s] # "absent"
      BY <2>1, AuditedIsThere DEF GateInv, AuditIsOfFile
    <3>2. {"snapshot", "registry", "milestones", "reputation"} \subseteq SourceDocs
      BY DEF SourceDocs, DocValues
    <3>3. audited.docs.registry = "dry" /\ audited.docs.reputation = "unproven"
      BY <2>1, AuditedIsAsserted DEF GateInv, AuditIsOfFile
    <3>4. ASSUME NEW id \in ClaimIds, Claims[id].source \in {"snapshot", "registry", "reputation"}
          PROVE  audited.file.claims[id].derived = audited.docs[Claims[id].source]
      <4>1. audited.file.claims[id].derived = Derive(id, audited.docs)
        BY <2>1, RegistryOfClaims DEF GateInv, AuditIsOfFile
      <4> QED BY <3>1, <3>2, <3>4, <4>1, DerivedIsHeld
    <3> QED BY <3>1, <3>2, <3>3, <3>4
  <2>2. ASSUME artifact.is = "GATE_PASS"
        PROVE  /\ artifact.found.source = "clean"
               /\ "selfcheck" \in artifact.legs =>
                    artifact.found.cases # <<>> /\ {"false", "unreadable"} \cap Range(artifact.found.cases) = {}
               /\ "attack" \in artifact.legs =>
                    artifact.found.tamper # <<>> /\ {"false", "unreadable"} \cap Range(artifact.found.tamper) = {}
               /\ "external" \in artifact.legs => artifact.found.child = "exit 0"
               /\ "claims" \in artifact.legs => artifact.docs.registry = "dry" /\ artifact.docs.reputation = "unproven"
    <3>1. /\ artifact.found.source = "clean"
          /\ \A leg \in artifact.legs : LegPasses(leg, artifact.found, artifact.docs)
      BY <2>2 DEF GateInv, GateIsOfLegs, RunGate, ProveIndependence
    <3>2. "selfcheck" \in artifact.legs => TallyCases(artifact.found.cases)
      BY <3>1 DEF LegPasses
    <3>3. "attack" \in artifact.legs => TallyCases(artifact.found.tamper)
      BY <3>1 DEF LegPasses
    <3>4. "external" \in artifact.legs => artifact.found.child = "exit 0"
      BY <3>1 DEF LegPasses
    <3>5. "claims" \in artifact.legs => AuditRegistry(BuildRegistry(artifact.docs), artifact.docs)
      BY <3>1 DEF LegPasses
    <3> QED BY <3>1, <3>2, <3>3, <3>4, <3>5, TalliedIsTrue, AuditedIsAsserted
  <2>3. checked.is = "safe to push" => Fails(checked.checkout) = {}
    BY DEF GateInv, PushIsOfCheckout
  <2> QED BY <2>1, <2>2, <2>3, SafeIsChecked DEF GreenIsChecked
<1> QED BY <1>1, <1>2, <1>3, PTL DEF GateSpec

-----------------------------------------------------------------------------
\* The gates before a payment.  What a gate allows was asked of it once and
\* passed its rules; what is executed after differs from that in one field, and
\* conforms only if that field is one the two sides do not both name.

Unpaid == payment.gate = "none" /\ judged = "none"
Asked == payment.gate \in Gates /\ payment.of \in Payments /\ judged = Decide(payment.gate, payment.of)
Deed(r) == AllBut(r, OddDeeds, 1)
Executed ==
  execution.is # "none" =>
    /\ Asked /\ judged \in Allowing /\ execution.of \in Deed(payment.of)
    /\ execution.is = CheckConformance(payment.of, execution.of).verdict

Submitted == submission = "SUBMITTED" => Asked /\ payment.gate = "agent" /\ judged = "SUBMIT"

PaymentInv == (Unpaid \/ Asked) /\ Executed /\ Submitted

\* What a verdict allows.
LEMMA SwapAllowed ==
  ASSUME NEW r, GateSwap(r).verdict = "VERIFIED"
  PROVE  "" \notin {r.source, r.destination} /\ ~\E i \in DOMAIN r.rules : BreaksSwap(r, r.rules[i])
BY DEF GateSwap, Judged, Break

LEMMA PathAllowed ==
  ASSUME NEW r, GatePathPayment(r).verdict = "VERIFIED"
  PROVE  /\ "" \notin {r.source, r.destination}
         /\ \A i \in DOMAIN r.rules : r.rules[i].type = "max_amount" => ~(r.amount > r.rules[i].most)
         /\ \A i \in DOMAIN r.rules : r.rules[i].type = "deny_destination" => r.rules[i].who # r.destination
BY DEF GatePathPayment, Judged, Break, BreaksSwap

LEMMA LiquidityAllowed ==
  ASSUME NEW r, GateProvideLiquidity(r).verdict = "VERIFIED"
  PROVE  /\ "" \notin {r.source, r.destination}
         /\ \A i \in DOMAIN r.rules :
              r.rules[i].type = "max_amount" => ~(r.rules[i].most < r.amount) /\ ~(r.rules[i].most < r.amountB)
BY DEF GateProvideLiquidity, Judged, Break

LEMMA AgentAllowed ==
  ASSUME NEW r, AiAgentPaymentGate(r) = "SUBMIT"
  PROVE  r.destination # "" /\ r.text # "" /\ CheckPolicy(r)
<1>1. VerifyAgentPayment(r) = "VERIFIED"
  BY DEF AiAgentPaymentGate
<1> QED BY <1>1 DEF VerifyAgentPayment

\* The three cases on record are decided as recorded.
LEMMA CasesAreWritten == ExecuteCases = "WRITTEN"
<1> DEFINE of(n, who) == [PlainPayment EXCEPT !.amount = n, !.agent = who]
<1>1. VerifyAgentPayment(of(50, "a")) = "VERIFIED"
  BY DEF VerifyAgentPayment, CheckPolicy, ReplayOfOwnReceipt, PlainPayment
<1>2. VerifyAgentPayment(of(100, "a")) = "REJECTED"
  BY DEF VerifyAgentPayment, CheckPolicy, ReplayOfOwnReceipt, PlainPayment
<1>3. VerifyAgentPayment(of(50, "")) = "HELD"
  BY DEF VerifyAgentPayment, CheckPolicy, ReplayOfOwnReceipt, PlainPayment
<1> QED BY <1>1, <1>2, <1>3 DEF ExecuteCases

LEMMA FieldsOfPayment ==
  ASSUME NEW r \in Payments
  PROVE  /\ r = [f \in DOMAIN PlainPayment |-> r[f]]
         /\ r.amount \in Int /\ r.amountB \in Int
         /\ \A i \in DOMAIN r.rules : r.rules[i].most \in Int
<1>1. PlainPayment = [f \in DOMAIN PlainPayment |-> PlainPayment[f]]
  BY DEF PlainPayment
<1>2. /\ r = [f \in DOMAIN PlainPayment |-> r[f]]
      /\ \A f \in DOMAIN PlainPayment :
           r[f] = PlainPayment[f] \/ (f \in DOMAIN PaymentValues /\ r[f] \in PaymentValues[f])
  BY <1>1, VariantFields DEF Payments
<1>3. {"amount", "amountB", "rules"} \subseteq DOMAIN PlainPayment
  BY DEF PlainPayment
<1>4. /\ PlainPayment.amount = 50 /\ PaymentValues.amount = {-1, 0, 51, 100}
      /\ PlainPayment.amountB = 50 /\ PaymentValues.amountB = {0, 51}
      /\ PlainPayment.rules = <<>> /\ PaymentValues.rules = RuleLists
  BY DEF PlainPayment, PaymentValues
<1>5. r.amount \in {50, -1, 0, 51, 100} /\ r.amountB \in {50, 0, 51}
  BY <1>2, <1>3, <1>4
<1>6. r.amount \in Int /\ r.amountB \in Int
  BY <1>5
<1>7. r.rules = <<>> \/ r.rules \in RuleLists
  BY <1>2, <1>3, <1>4
<1>8. \A i \in DOMAIN r.rules : r.rules[i] \in Pays \cup Denies
  BY <1>7 DEF RuleLists
<1>9. \A rule \in Pays \cup Denies : rule.most \in Int
  BY DEF Pays, Denies
<1> QED BY <1>2, <1>6, <1>8, <1>9

\* An execution that names its parties and its amount, and conforms to a payment
\* that named them too, is that payment in every field a gate looks at.
LEMMA FieldsOfDeed ==
  ASSUME NEW r \in Payments, NEW e \in Deed(r), CheckConformance(r, e).verdict = "VERIFIED",
         "" \notin {e.source, e.destination, e.text}
  PROVE  /\ e.rules = r.rules /\ e.limit = r.limit /\ e.recipients = r.recipients /\ e.deadline = r.deadline
         /\ e.assets = r.assets /\ (r.asset # "" /\ e.asset # "" => e.asset = r.asset)
         /\ r.source # "" => e.source = r.source
         /\ r.destination # "" => e.destination = r.destination
         /\ e.amount = r.amount /\ r.amount \in Int
<1>1. r = [f \in DOMAIN r |-> r[f]] /\ DOMAIN r = DOMAIN PlainPayment
  <2>1. r = [f \in DOMAIN PlainPayment |-> r[f]]
    BY FieldsOfPayment
  <2> QED BY <2>1
<1>2. e \in AllBut(r, OddDeeds, 1)
  BY DEF Deed
<1>3. DOMAIN OddDeeds = {"source", "destination", "amount", "text", "asset"} /\ OddDeeds.text = {""}
  BY DEF OddDeeds
<1>4. \A f \in DOMAIN r : e[f] = r[f] \/ (f \in DOMAIN OddDeeds /\ e[f] \in OddDeeds[f])
  BY <1>1, <1>2, VariantFields
<1>5. {"rules", "limit", "recipients", "deadline", "assets", "text"} \subseteq DOMAIN r
  BY <1>1 DEF PlainPayment
<1>6. /\ e.rules = r.rules /\ e.limit = r.limit /\ e.recipients = r.recipients /\ e.deadline = r.deadline
      /\ e.assets = r.assets
  BY <1>3, <1>4, <1>5
<1>7. e.text = r.text
  BY <1>3, <1>4, <1>5
<1>8. /\ ~(\E f \in {"source", "destination", "asset"} : (r[f] # "" /\ e[f] # "") /\ r[f] # e[f])
      /\ ~(r["text"] # "" /\ e["text"] # "" /\ (r.text = "word" \/ r.amount # e.amount))
  BY DEF CheckConformance, Judged
<1>9. e.amount = r.amount
  BY <1>7, <1>8
<1>10. "asset" \in {"source", "destination", "asset"}
  OBVIOUS
<1>11. r.asset # "" /\ e.asset # "" => e.asset = r.asset
  BY <1>8, <1>10
<1> QED BY <1>6, <1>8, <1>9, <1>11, FieldsOfPayment

\* The gates of payments (packages/stellar, packages/stellar-agent), for any
\* number of odd fields of a request: what is executed as it was allowed breaks
\* no rule of its gate and no policy of its agent.
THEOREM ConformityHolds == GatesSpec => []ConformingIsInPolicy
<1>1. GatesInit => PaymentInv
  BY DEF GatesInit, PaymentInv, Unpaid, Executed, Submitted
<1>2. PaymentInv /\ [GatesNext]_gatesVars => PaymentInv'
  <2> SUFFICES ASSUME PaymentInv, [GatesNext]_gatesVars PROVE PaymentInv'
    OBVIOUS
  <2>1. ASSUME payment.gate = "none", NEW gate \in Gates, NEW r \in Payments, Ask(gate, r) PROVE PaymentInv'
    <3>1. payment'.gate = gate /\ payment'.of = r /\ judged' = Decide(gate, r) /\ UNCHANGED <<execution, submission>>
      BY <2>1 DEF Ask
    <3>2. execution.is = "none" /\ submission # "SUBMITTED"
      <4>1. ~Asked
        BY <2>1 DEF Asked, Gates
      <4> QED BY <4>1 DEF PaymentInv, Executed, Submitted
    <3> QED BY <3>1, <3>2 DEF PaymentInv, Asked, Executed, Submitted
  <2>2. ASSUME Execute PROVE PaymentInv'
    <3>1. judged \in Allowing /\ Asked /\ UNCHANGED <<payment, judged, submission>>
      BY <2>2 DEF Execute, PaymentInv, Unpaid, Allowing
    <3>2. PICK e \in Deed(payment.of) : execution' = [is |-> CheckConformance(payment.of, e).verdict, of |-> e]
      BY <2>2 DEF Execute, Deed
    <3>3. execution'.is = CheckConformance(payment.of, e).verdict /\ execution'.of = e
      BY <3>2
    <3> QED BY <3>1, <3>3 DEF PaymentInv, Asked, Executed, Submitted
  <2>3. ASSUME NEW submitter, NEW signer, SubmitAgentPayment(submitter, signer) PROVE PaymentInv'
    <3>1. UNCHANGED <<payment, judged, execution>> /\ payment.gate = "agent"
      BY <2>3 DEF SubmitAgentPayment
    <3>2. Asked
      BY <3>1 DEF PaymentInv, Unpaid
    <3>3. submission' = "SUBMITTED" => judged = "SUBMIT"
      BY <2>3 DEF SubmitAgentPayment
    <3> QED BY <3>1, <3>2, <3>3 DEF PaymentInv, Asked, Executed, Submitted
  <2>4. ASSUME UNCHANGED gatesVars PROVE PaymentInv'
    BY <2>4 DEF gatesVars, PaymentInv, Unpaid, Asked, Executed, Submitted
  <2> QED BY <2>1, <2>2, <2>3, <2>4 DEF GatesNext
<1>3. PaymentInv => ConformingIsInPolicy
  <2> SUFFICES ASSUME PaymentInv PROVE ConformingIsInPolicy
    OBVIOUS
  <2>1. judged # "THROWS" \/ payment.gate = "shield"
    <3>1. CASE Unpaid
      BY <3>1 DEF Unpaid
    <3>2. CASE Asked
      <4> SUFFICES ASSUME payment.gate # "shield" PROVE judged # "THROWS"
        OBVIOUS
      <4> DEFINE r == payment.of
      <4>1. GateSwap(r).verdict # "THROWS" /\ GatePathPayment(r).verdict # "THROWS"
        BY DEF GateSwap, GatePathPayment, Judged
      <4>2. GateProvideLiquidity(r).verdict # "THROWS" /\ PlanSwap(r) # "THROWS"
        BY DEF GateProvideLiquidity, Judged, PlanSwap
      <4>3. \A signs : ExecuteMainnet(r, signs) # "THROWS"
        BY <4>2 DEF ExecuteMainnet
      <4>4. AiAgentPaymentGate(r) # "THROWS"
        BY DEF AiAgentPaymentGate
      <4>5. TrinityGate(r) # "THROWS" /\ IntentToEvidenceBinding(r) # "THROWS"
        BY <4>4 DEF TrinityGate, IntentToEvidenceBinding
      <4> HIDE DEF r
      <4>6. \A gate \in Gates \ {"shield"} : Decide(gate, r) # "THROWS"
        BY <4>1, <4>2, <4>3, <4>4, <4>5, CasesAreWritten DEF Decide, Gates
      <4> QED BY <3>2, <4>6 DEF Asked, r
    <3> QED BY <3>1, <3>2 DEF PaymentInv
  <2>2. PICK r, e : r = payment.of /\ e = execution.of
    OBVIOUS
  <2>3. ASSUME execution.is = "VERIFIED", "" \notin {e.source, e.destination, e.text, e.asset}
        PROVE  /\ payment.gate = "swap" => ~\E i \in DOMAIN e.rules : BreaksSwap(e, e.rules[i])
               /\ payment.gate = "path" =>
                    /\ KeepsLimits(e, {e.amount})
                    /\ \A i \in DOMAIN e.rules :
                         e.rules[i].type = "deny_destination" => e.rules[i].who # e.destination
               /\ payment.gate = "liquidity" => KeepsLimits(e, {e.amount, r.amountB})
               /\ payment.gate \in {"agent", "trinity"} =>
                    KeepsPolicy(e) /\ (e.assets # "none" /\ r.asset # "" => e.asset = e.assets)
    <3>2. /\ r \in Payments /\ e \in Deed(r) /\ judged \in Allowing /\ judged = Decide(payment.gate, r)
          /\ CheckConformance(r, e).verdict = "VERIFIED" /\ "" \notin {e.source, e.destination, e.text}
      BY <2>2, <2>3 DEF PaymentInv, Executed, Asked
    <3>3. /\ e.rules = r.rules /\ e.limit = r.limit /\ e.recipients = r.recipients /\ e.deadline = r.deadline
          /\ e.assets = r.assets /\ (r.asset # "" => e.asset = r.asset)
          /\ r.source # "" => e.source = r.source
          /\ r.destination # "" => e.destination = r.destination
          /\ e.amount = r.amount /\ r.amount \in Int /\ r.amountB \in Int
          /\ \A i \in DOMAIN r.rules : r.rules[i].most \in Int
      BY <2>3, <3>2, FieldsOfDeed, FieldsOfPayment
    <3>4. ASSUME payment.gate = "swap" PROVE ~\E i \in DOMAIN e.rules : BreaksSwap(e, e.rules[i])
      <4>1. GateSwap(r).verdict \in Allowing
        BY <3>2, <3>4 DEF Decide
      <4>2. GateSwap(r).verdict # "SUBMIT"
        BY DEF GateSwap, Judged
      <4>3. "" \notin {r.source, r.destination} /\ ~\E i \in DOMAIN r.rules : BreaksSwap(r, r.rules[i])
        BY <4>1, <4>2, SwapAllowed DEF Allowing
      <4>4. \A rule : BreaksSwap(e, rule) <=> BreaksSwap(r, rule)
        BY <3>3, <4>3 DEF BreaksSwap
      <4> QED BY <3>3, <4>3, <4>4
    <3>5. ASSUME payment.gate = "path"
          PROVE  /\ KeepsLimits(e, {e.amount})
                 /\ \A i \in DOMAIN e.rules :
                      e.rules[i].type = "deny_destination" => e.rules[i].who # e.destination
      <4>1. GatePathPayment(r).verdict \in Allowing
        BY <3>2, <3>5 DEF Decide
      <4>2. GatePathPayment(r).verdict # "SUBMIT"
        BY DEF GatePathPayment, Judged
      <4>3. GatePathPayment(r).verdict = "VERIFIED"
        BY <4>1, <4>2 DEF Allowing
      <4>4. \A i \in DOMAIN r.rules : r.rules[i].type = "max_amount" => r.amount <= r.rules[i].most
        <5>1. ASSUME NEW i \in DOMAIN r.rules, r.rules[i].type = "max_amount" PROVE r.amount <= r.rules[i].most
          <6>1. PICK n \in Int, most \in Int : n = r.amount /\ most = r.rules[i].most
            BY <3>3
          <6>2. ~(n > most)
            BY <4>3, <5>1, <6>1, PathAllowed
          <6>3. n <= most
            BY <6>2
          <6> QED BY <6>1, <6>3
        <5> QED BY <5>1
      <4>5. KeepsLimits(e, {e.amount})
        BY <3>3, <4>4 DEF KeepsLimits
      <4> QED BY <3>3, <4>3, <4>5, PathAllowed
    <3>6. ASSUME payment.gate = "liquidity" PROVE KeepsLimits(e, {e.amount, r.amountB})
      <4>1. GateProvideLiquidity(r).verdict \in Allowing
        BY <3>2, <3>6 DEF Decide
      <4>2. GateProvideLiquidity(r).verdict # "SUBMIT"
        BY DEF GateProvideLiquidity, Judged
      <4>3. GateProvideLiquidity(r).verdict = "VERIFIED"
        BY <4>1, <4>2 DEF Allowing
      <4>4. \A i \in DOMAIN r.rules :
              r.rules[i].type = "max_amount" => r.amount <= r.rules[i].most /\ r.amountB <= r.rules[i].most
        <5>1. ASSUME NEW i \in DOMAIN r.rules, r.rules[i].type = "max_amount"
              PROVE  r.amount <= r.rules[i].most /\ r.amountB <= r.rules[i].most
          <6>1. PICK n \in Int, m \in Int, most \in Int : n = r.amount /\ m = r.amountB /\ most = r.rules[i].most
            BY <3>3
          <6>2. ~(most < n) /\ ~(most < m)
            BY <4>3, <5>1, <6>1, LiquidityAllowed
          <6>3. n <= most /\ m <= most
            BY <6>2
          <6> QED BY <6>1, <6>3
        <5> QED BY <5>1
      <4> QED BY <3>3, <4>4 DEF KeepsLimits
    <3>7. ASSUME payment.gate \in {"agent", "trinity"}
          PROVE  KeepsPolicy(e) /\ (e.assets # "none" /\ r.asset # "" => e.asset = e.assets)
      <4>1. payment.gate = "agent" => AiAgentPaymentGate(r) \in Allowing
        BY <3>2 DEF Decide
      <4>2. payment.gate = "trinity" => TrinityGate(r) \in Allowing
        BY <3>2 DEF Decide
      <4>3. AiAgentPaymentGate(r) # "VERIFIED"
        BY DEF AiAgentPaymentGate
      <4>4. AiAgentPaymentGate(r) = "SUBMIT"
        BY <3>7, <4>1, <4>2, <4>3 DEF TrinityGate, Allowing
      <4>5. r.destination # "" /\ CheckPolicy(r)
        BY <4>4, AgentAllowed
      <4>6. KeepsPolicy(e)
        BY <3>3, <4>5 DEF CheckPolicy, KeepsPolicy
      <4> QED BY <3>3, <4>5, <4>6 DEF CheckPolicy
    <3> QED BY <3>4, <3>5, <3>6, <3>7
  <2>4. submission = "SUBMITTED" => KeepsPolicy(r) /\ (r.assets # "none" => r.asset \in {"", r.assets})
    <3> SUFFICES ASSUME submission = "SUBMITTED"
                 PROVE  KeepsPolicy(r) /\ (r.assets # "none" => r.asset \in {"", r.assets})
      OBVIOUS
    <3>1. AiAgentPaymentGate(r) = "SUBMIT"
      BY <2>2 DEF PaymentInv, Submitted, Asked, Decide
    <3>2. CheckPolicy(r)
      BY <3>1, AgentAllowed
    <3> QED BY <3>2 DEF CheckPolicy, KeepsPolicy
  <2> QED BY <2>1, <2>2, <2>3, <2>4 DEF ConformingIsInPolicy
<1> QED BY <1>1, <1>2, <1>3, PTL DEF GatesSpec

-----------------------------------------------------------------------------
\* The swap on the order book.  Whatever other runs left in flight, once this
\* run's swap is in a ledger nothing of the wallet is: transactions in flight
\* have sequence numbers up to the swap's.  So what left the wallet since is the
\* swap, its fee and what others gave, and what the issuer's balance grew by is
\* at least what the swap brought.

WalletOK ==
  /\ wallet = [xlm |-> wallet.xlm, trust |-> wallet.trust, usdc |-> wallet.usdc, seq |-> wallet.seq]
  /\ wallet.xlm \in Int /\ wallet.trust \in SUBSET Issuers
  /\ wallet.usdc \in [Issuers -> Nat] /\ wallet.seq \in Nat
MarketOK == market \in Nat
GiftsOK == gifts = [xlm |-> gifts.xlm, count |-> gifts.count] /\ gifts.xlm \in Nat
FlightOK ==
  \A t \in inFlight : /\ t.kind \in {"trust", "swap"} /\ t.issuer \in Issuers /\ t.send \in Nat
                      /\ t.seq \in Nat /\ t.seq <= wallet.seq + 1
LandedOK ==
  \A l \in landed : /\ l.tx.seq \in Nat /\ l.tx.seq <= wallet.seq
                    /\ l.tx.kind = "swap" /\ l.ok => l.got >= l.tx.min

\* What a plan that both gates allowed is.
PlanOK(plan, depth) ==
  /\ plan.issuer \in Issuers /\ plan.amount \in Nat
  /\ plan.amount <= depth \div 100 /\ plan.amount <= plan.rules[1].most
  /\ GatesAllow(plan)

RunFields == {"pc", "count", "plan", "trusted", "depth", "seq", "tx"}
SwapFields == {"pc", "count", "plan", "depth", "tx", "xlm", "given", "usdc"}
Swapping == swapRun.pc \in {"swapping", "after"}
RunOK ==
  /\ swapRun.pc \in {"idle", "trust", "trusting", "before", "swapping", "after"}
  /\ swapRun.pc # "idle" => PlanOK(swapRun.plan, swapRun.depth)
  /\ swapRun.pc \in {"trust", "trusting", "before"} =>
       DOMAIN swapRun = RunFields /\ swapRun.seq \in Nat /\ swapRun.seq <= wallet.seq
  /\ Swapping => DOMAIN swapRun = SwapFields

\* The swap under way, and what it was told of before.
TxOfPlan ==
  Swapping => /\ swapRun.tx.kind = "swap" /\ swapRun.tx.issuer = swapRun.plan.issuer
              /\ swapRun.tx.send = swapRun.plan.amount /\ swapRun.tx.min = swapRun.plan.destMin
              /\ swapRun.tx.seq \in Nat
              /\ swapRun.xlm \in Int /\ swapRun.given \in Nat /\ swapRun.usdc \in Nat
              /\ swapRun.given <= gifts.xlm
NothingLater ==
  Swapping => /\ \A t \in inFlight : t.seq <= swapRun.tx.seq
              /\ \/ wallet.seq = swapRun.tx.seq
                 \/ wallet.seq + 1 = swapRun.tx.seq /\ Landing = {}
SpentIsSent ==
  Swapping => /\ wallet.seq + 1 = swapRun.tx.seq => wallet.xlm = swapRun.xlm + (gifts.xlm - swapRun.given)
              /\ \A l \in Landing : l.ok =>
                   wallet.xlm = swapRun.xlm - Fee - swapRun.tx.send + (gifts.xlm - swapRun.given)
GrowthCovers ==
  Swapping => /\ wallet.usdc[swapRun.plan.issuer] >= swapRun.usdc
              /\ \A l \in Landing : l.got \in Nat /\ wallet.usdc[swapRun.plan.issuer] >= swapRun.usdc + l.got
AfterIsConfirmed == swapRun.pc = "after" => Confirmed

RecordOK ==
  record.is = "swap" =>
    /\ \E l \in landed : /\ l.tx = record.tx /\ l.ok
                         /\ l.tx.send = record.plan.amount
                         /\ l.got >= record.plan.destMin /\ record.received >= l.got
    /\ record.plan.amount <= record.depth \div 100
    /\ record.credited \in {0, 1}
    /\ VerifyArtifact
MatrixOK ==
  \A c \in matrix : c.judged.allowed => c.of.destination = "wallet" /\ c.of.amount <= c.of.rules[1].most

WorldOK == WalletOK /\ MarketOK /\ GiftsOK /\ FlightOK /\ LandedOK
SwapOK == RunOK /\ TxOfPlan /\ NothingLater /\ SpentIsSent /\ GrowthCovers /\ AfterIsConfirmed
DexInv == WorldOK /\ SwapOK /\ RecordOK /\ MatrixOK

LEMMA ProductIsNat == ASSUME NEW n \in Nat, NEW m \in Nat PROVE n * m \in Nat
OBVIOUS

LEMMA ShareIsNat == ASSUME NEW n \in Nat PROVE n \div 100 \in Nat
OBVIOUS

\* What another's step, or the market's, leaves as it was.
LEMMA RecordKept ==
  ASSUME RecordOK, UNCHANGED record, landed \subseteq landed'
  PROVE  RecordOK'
BY DEF RecordOK, VerifyArtifact

LEMMA ConfirmedKept ==
  ASSUME AfterIsConfirmed, UNCHANGED swapRun, landed \subseteq landed'
  PROVE  AfterIsConfirmed'
BY DEF AfterIsConfirmed, Confirmed, Landing

LEMMA MarketKeeps ==
  ASSUME DexInv, MarketMoves, UNCHANGED matrix
  PROVE  DexInv'
<1>1. market' \in Nat /\ UNCHANGED <<wallet, inFlight, landed, gifts, swapRun, record>>
  BY DEF MarketMoves
<1>2. WorldOK'
  BY <1>1 DEF DexInv, WorldOK, WalletOK, MarketOK, GiftsOK, FlightOK, LandedOK
<1>3. SwapOK'
  BY <1>1 DEF DexInv, SwapOK, RunOK, TxOfPlan, NothingLater, SpentIsSent, GrowthCovers, AfterIsConfirmed,
              Swapping, Landing, Confirmed
<1> QED BY <1>1, <1>2, <1>3 DEF DexInv, RecordOK, VerifyArtifact, MatrixOK

LEMMA ExpiryKeeps ==
  ASSUME DexInv, NEW tx \in inFlight, Expire(tx), UNCHANGED matrix
  PROVE  DexInv'
<1>1. inFlight' \subseteq inFlight /\ UNCHANGED <<wallet, market, landed, gifts, swapRun, record>>
  BY DEF Expire
<1>2. WorldOK'
  BY <1>1 DEF DexInv, WorldOK, WalletOK, MarketOK, GiftsOK, FlightOK, LandedOK
<1>3. SwapOK'
  BY <1>1 DEF DexInv, SwapOK, RunOK, TxOfPlan, NothingLater, SpentIsSent, GrowthCovers, AfterIsConfirmed,
              Swapping, Landing, Confirmed
<1> QED BY <1>1, <1>2, <1>3 DEF DexInv, RecordOK, VerifyArtifact, MatrixOK

LEMMA GiftKeeps ==
  ASSUME DexInv, Give, UNCHANGED matrix
  PROVE  DexInv'
<1>1. UNCHANGED <<market, inFlight, landed, swapRun, record>>
  BY DEF Give
<1>2. PICK n \in Nat, usdc \in [Issuers -> Nat] :
        /\ wallet' = [xlm |-> wallet.xlm + n, trust |-> wallet.trust, usdc |-> usdc, seq |-> wallet.seq]
        /\ gifts'.xlm = gifts.xlm + n /\ gifts' = [xlm |-> gifts'.xlm, count |-> gifts'.count]
        /\ \A i \in Issuers : usdc[i] >= wallet.usdc[i]
  <2>1. CASE \E n \in {1, 50} : /\ wallet' = [wallet EXCEPT !.xlm = @ + n]
                                /\ gifts' = [xlm |-> gifts.xlm + n, count |-> gifts.count + 1]
    <3>1. PICK n \in {1, 50} : /\ wallet' = [wallet EXCEPT !.xlm = @ + n]
                               /\ gifts' = [xlm |-> gifts.xlm + n, count |-> gifts.count + 1]
      BY <2>1
    <3>2. wallet' = [xlm |-> wallet.xlm + n, trust |-> wallet.trust, usdc |-> wallet.usdc, seq |-> wallet.seq]
      BY <3>1 DEF DexInv, WorldOK, WalletOK
    <3>3. \A i \in Issuers : wallet.usdc[i] >= wallet.usdc[i]
      BY DEF DexInv, WorldOK, WalletOK
    <3>4. gifts'.xlm = gifts.xlm + n /\ gifts' = [xlm |-> gifts'.xlm, count |-> gifts'.count]
      BY <3>1
    <3>5. n \in Nat /\ wallet.usdc \in [Issuers -> Nat]
      BY DEF DexInv, WorldOK, WalletOK
    <3> QED BY <3>2, <3>3, <3>4, <3>5
  <2>2. CASE \E i \in wallet.trust : /\ wallet' = [wallet EXCEPT !.usdc[i] = @ + 7]
                                     /\ gifts' = [gifts EXCEPT !.count = @ + 1]
    <3>1. PICK i \in wallet.trust : /\ wallet' = [wallet EXCEPT !.usdc[i] = @ + 7]
                                    /\ gifts' = [gifts EXCEPT !.count = @ + 1]
      BY <2>2
    <3>2. i \in Issuers /\ wallet.usdc \in [Issuers -> Nat] /\ wallet.xlm \in Int /\ gifts.xlm \in Nat
      BY DEF DexInv, WorldOK, WalletOK, GiftsOK
    <3>3. PICK usdc : usdc = [wallet.usdc EXCEPT ![i] = @ + 7]
      OBVIOUS
    <3>4. usdc \in [Issuers -> Nat] /\ \A k \in Issuers : usdc[k] >= wallet.usdc[k]
      BY <3>2, <3>3
    <3>5. wallet' = [xlm |-> wallet.xlm, trust |-> wallet.trust, usdc |-> usdc, seq |-> wallet.seq]
      BY <3>1, <3>3 DEF DexInv, WorldOK, WalletOK
    <3>6. wallet.xlm + 0 = wallet.xlm
      BY <3>2
    <3>7. gifts'.xlm = gifts.xlm /\ gifts' = [xlm |-> gifts'.xlm, count |-> gifts'.count]
      BY <3>1 DEF DexInv, WorldOK, GiftsOK
    <3>8. gifts'.xlm = gifts.xlm + 0
      BY <3>2, <3>7
    <3> QED BY <3>4, <3>5, <3>6, <3>7, <3>8
  <2> QED BY <2>1, <2>2 DEF Give
<1>3. /\ wallet'.xlm = wallet.xlm + n /\ wallet'.trust = wallet.trust /\ wallet'.usdc = usdc /\ wallet'.seq = wallet.seq
  BY <1>2
<1>4. /\ wallet.xlm \in Int /\ wallet.trust \in SUBSET Issuers /\ wallet.usdc \in [Issuers -> Nat] /\ wallet.seq \in Nat
      /\ gifts.xlm \in Nat
  BY DEF DexInv, WorldOK, WalletOK, GiftsOK
<1>5. WorldOK'
  <2>1. WalletOK'
    BY <1>2, <1>3, <1>4 DEF WalletOK
  <2>2. GiftsOK'
    BY <1>2, <1>4 DEF GiftsOK
  <2>3. MarketOK' /\ FlightOK' /\ LandedOK'
    BY <1>1, <1>3 DEF DexInv, WorldOK, MarketOK, FlightOK, LandedOK
  <2> QED BY <2>1, <2>2, <2>3 DEF WorldOK
<1>6. RunOK' /\ NothingLater' /\ AfterIsConfirmed'
  BY <1>1, <1>3 DEF DexInv, SwapOK, RunOK, NothingLater, AfterIsConfirmed, Swapping, Landing, Confirmed
<1>7. TxOfPlan'
  <2> SUFFICES ASSUME Swapping PROVE TxOfPlan'
    BY <1>1 DEF TxOfPlan, Swapping
  <2>1. swapRun.given \in Nat /\ swapRun.given <= gifts.xlm
    BY DEF DexInv, SwapOK, TxOfPlan
  <2>2. swapRun.given <= gifts'.xlm
    BY <1>2, <1>4, <2>1
  <2> QED BY <1>1, <2>2 DEF DexInv, SwapOK, TxOfPlan
<1>8. SpentIsSent'
  <2> SUFFICES ASSUME Swapping PROVE SpentIsSent'
    BY <1>1 DEF SpentIsSent, Swapping
  <2>1. swapRun.xlm \in Int /\ swapRun.given \in Nat /\ swapRun.tx.send \in Nat
    BY DEF DexInv, SwapOK, TxOfPlan, RunOK, PlanOK, Swapping
  <2>2. wallet.seq + 1 = swapRun.tx.seq => wallet.xlm + n = swapRun.xlm + ((gifts.xlm + n) - swapRun.given)
    BY <1>4, <2>1 DEF DexInv, SwapOK, SpentIsSent
  <2>3. \A l \in Landing : l.ok => wallet.xlm + n = swapRun.xlm - Fee - swapRun.tx.send + ((gifts.xlm + n) - swapRun.given)
    BY <1>4, <2>1 DEF DexInv, SwapOK, SpentIsSent, Fee
  <2>4. Landing' = Landing
    BY <1>1 DEF Landing
  <2> QED BY <1>1, <1>2, <1>3, <2>2, <2>3, <2>4 DEF SpentIsSent
<1>9. GrowthCovers'
  <2> SUFFICES ASSUME Swapping PROVE GrowthCovers'
    BY <1>1 DEF GrowthCovers, Swapping
  <2>1. swapRun.plan.issuer \in Issuers /\ swapRun.usdc \in Nat
    BY DEF DexInv, SwapOK, RunOK, PlanOK, TxOfPlan, Swapping
  <2>2. /\ usdc[swapRun.plan.issuer] \in Nat /\ wallet.usdc[swapRun.plan.issuer] \in Nat
        /\ usdc[swapRun.plan.issuer] >= wallet.usdc[swapRun.plan.issuer]
    BY <1>2, <1>4, <2>1
  <2>3. wallet.usdc[swapRun.plan.issuer] >= swapRun.usdc
    BY DEF DexInv, SwapOK, GrowthCovers
  <2>4. \A l \in Landing : l.got \in Nat /\ wallet.usdc[swapRun.plan.issuer] >= swapRun.usdc + l.got
    BY DEF DexInv, SwapOK, GrowthCovers
  <2>5. Landing' = Landing
    BY <1>1 DEF Landing
  <2>6. usdc[swapRun.plan.issuer] >= swapRun.usdc
    BY <2>1, <2>2, <2>3
  <2>7. \A l \in Landing : l.got \in Nat /\ usdc[swapRun.plan.issuer] >= swapRun.usdc + l.got
    BY <2>1, <2>2, <2>4
  <2> QED BY <1>1, <1>3, <2>5, <2>6, <2>7 DEF GrowthCovers
<1> QED BY <1>1, <1>5, <1>6, <1>7, <1>8, <1>9 DEF DexInv, SwapOK, RecordOK, VerifyArtifact, MatrixOK

LEMMA LandKeeps ==
  ASSUME DexInv, NEW tx \in inFlight, Land(tx), UNCHANGED matrix
  PROVE  DexInv'
<1>0. /\ wallet.xlm \in Int /\ wallet.trust \in SUBSET Issuers /\ wallet.usdc \in [Issuers -> Nat] /\ wallet.seq \in Nat
      /\ gifts.xlm \in Nat
      /\ tx.kind \in {"trust", "swap"} /\ tx.issuer \in Issuers /\ tx.send \in Nat /\ tx.seq \in Nat
  BY DEF DexInv, WorldOK, WalletOK, GiftsOK, FlightOK
<1> DEFINE ok == TxSucceeds(tx)
           got == IF ok /\ tx.kind = "swap" THEN SwapPays(tx) ELSE 0
           spent == IF ok THEN tx.send ELSE 0
           trust == IF ok THEN wallet.trust \cup {tx.issuer} ELSE wallet.trust
<1>1. SwapPays(tx) \in Nat
  <2>1. tx.send * market \in Nat
    BY <1>0, ProductIsNat DEF DexInv, WorldOK, MarketOK
  <2> QED BY <2>1, ShareIsNat DEF SwapPays
<1>2. /\ got \in Nat /\ spent \in Nat /\ (ok => spent = tx.send) /\ trust \in SUBSET Issuers
      /\ ok \in BOOLEAN
      /\ tx.kind = "swap" /\ ok => got >= tx.min
  <2>1. tx.kind = "swap" /\ ok => SwapPays(tx) >= tx.min
    BY DEF TxSucceeds
  <2>2. ok \in BOOLEAN
    BY DEF TxSucceeds
  <2> QED BY <1>0, <1>1, <2>1, <2>2
<1>3. /\ tx.seq = wallet.seq + 1
      /\ wallet' = [wallet EXCEPT !.seq = tx.seq, !.xlm = @ - Fee - spent, !.trust = trust, !.usdc[tx.issuer] = @ + got]
      /\ landed' = landed \cup {[tx |-> tx, ok |-> ok, got |-> got]}
      /\ inFlight' = inFlight \ {tx}
      /\ UNCHANGED <<market, gifts, swapRun, record>>
  BY DEF Land
<1> HIDE DEF ok, got, spent, trust
<1>4. PICK l : l = [tx |-> tx, ok |-> ok, got |-> got]
  OBVIOUS
<1>5. l.tx = tx /\ (l.ok <=> ok) /\ l.got = got /\ landed' = landed \cup {l}
  BY <1>2, <1>3, <1>4
<1>6. PICK usdc : usdc = [wallet.usdc EXCEPT ![tx.issuer] = @ + got]
  OBVIOUS
<1>7. /\ usdc \in [Issuers -> Nat] /\ usdc[tx.issuer] = wallet.usdc[tx.issuer] + got
      /\ \A i \in Issuers : usdc[i] >= wallet.usdc[i]
  BY <1>0, <1>2, <1>6
<1>8. wallet' = [xlm |-> wallet.xlm - Fee - spent, trust |-> trust, usdc |-> usdc, seq |-> tx.seq]
  BY <1>3, <1>6 DEF DexInv, WorldOK, WalletOK
<1>9. wallet'.xlm = wallet.xlm - Fee - spent /\ wallet'.trust = trust /\ wallet'.usdc = usdc /\ wallet'.seq = wallet.seq + 1
  <2>1. wallet'.xlm = wallet.xlm - Fee - spent
    BY <1>8
  <2>2. wallet'.trust = trust /\ wallet'.usdc = usdc
    BY <1>8
  <2>3. wallet'.seq = tx.seq
    BY <1>8
  <2> QED BY <1>3, <2>1, <2>2, <2>3
<1>10. WorldOK'
  <2>1. WalletOK'
    BY <1>0, <1>2, <1>7, <1>8, <1>9 DEF WalletOK, Fee
  <2>2. MarketOK' /\ GiftsOK'
    BY <1>3 DEF DexInv, WorldOK, MarketOK, GiftsOK
  <2>3. FlightOK'
    BY <1>0, <1>3, <1>9 DEF DexInv, WorldOK, FlightOK
  <2>4. LandedOK'
    <3>1. \A k \in landed : /\ k.tx.seq \in Nat /\ k.tx.seq <= wallet.seq + 1
                            /\ k.tx.kind = "swap" /\ k.ok => k.got >= k.tx.min
      BY <1>0 DEF DexInv, WorldOK, LandedOK
    <3>2. /\ l.tx.seq \in Nat /\ l.tx.seq <= wallet.seq + 1
          /\ l.tx.kind = "swap" /\ l.ok => l.got >= l.tx.min
      BY <1>0, <1>2, <1>3, <1>5
    <3> QED BY <1>5, <1>9, <3>1, <3>2 DEF LandedOK
  <2> QED BY <2>1, <2>2, <2>3, <2>4 DEF WorldOK
<1>11. RunOK' /\ TxOfPlan'
  <2>1. ASSUME swapRun.pc \in {"trust", "trusting", "before"}
        PROVE  swapRun.seq \in Nat /\ swapRun.seq <= wallet.seq + 1
    <3>1. swapRun.seq \in Nat /\ swapRun.seq <= wallet.seq
      BY <2>1 DEF DexInv, SwapOK, RunOK
    <3> QED BY <1>0, <3>1
  <2>2. RunOK'
    BY <1>3, <1>9, <2>1 DEF DexInv, SwapOK, RunOK, Swapping
  <2> QED BY <1>3, <2>2 DEF DexInv, SwapOK, TxOfPlan, Swapping
<1>12. Swapping => wallet.seq + 1 = swapRun.tx.seq /\ Landing = {} /\ swapRun.tx.seq \in Nat
  <2> SUFFICES ASSUME Swapping PROVE wallet.seq + 1 = swapRun.tx.seq /\ Landing = {} /\ swapRun.tx.seq \in Nat
    OBVIOUS
  <2>1. tx.seq <= swapRun.tx.seq /\ swapRun.tx.seq \in Nat
    BY DEF DexInv, SwapOK, NothingLater, TxOfPlan
  <2>2. wallet.seq = swapRun.tx.seq \/ (wallet.seq + 1 = swapRun.tx.seq /\ Landing = {})
    BY DEF DexInv, SwapOK, NothingLater
  <2> QED BY <1>0, <1>3, <2>1, <2>2
<1>13. NothingLater'
  BY <1>3, <1>9, <1>12 DEF DexInv, SwapOK, NothingLater, Swapping
<1>14. Swapping => \A k \in Landing' : k = l /\ tx = swapRun.tx
  BY <1>3, <1>5, <1>12 DEF Landing
<1>15. SpentIsSent'
  <2> SUFFICES ASSUME Swapping PROVE SpentIsSent'
    BY <1>3 DEF SpentIsSent, Swapping
  <2>1. swapRun.xlm \in Int /\ swapRun.given \in Nat
    BY DEF DexInv, SwapOK, TxOfPlan
  <2>2. wallet'.seq + 1 # swapRun.tx.seq
    BY <1>0, <1>9, <1>12
  <2>3. wallet.xlm = swapRun.xlm + (gifts.xlm - swapRun.given)
    BY <1>12 DEF DexInv, SwapOK, SpentIsSent
  <2>4. ASSUME tx = swapRun.tx, ok PROVE wallet'.xlm = swapRun.xlm - Fee - swapRun.tx.send + (gifts.xlm - swapRun.given)
    BY <1>0, <1>2, <1>9, <2>1, <2>3, <2>4 DEF Fee
  <2>5. \A k \in Landing' : k.ok => wallet'.xlm = swapRun.xlm - Fee - swapRun.tx.send + (gifts.xlm - swapRun.given)
    BY <1>5, <1>14, <2>4
  <2> QED BY <1>3, <2>2, <2>5 DEF SpentIsSent
<1>16. GrowthCovers'
  <2> SUFFICES ASSUME Swapping PROVE GrowthCovers'
    BY <1>3 DEF GrowthCovers, Swapping
  <2>1. swapRun.plan.issuer \in Issuers /\ swapRun.usdc \in Nat /\ swapRun.tx.issuer = swapRun.plan.issuer
    BY DEF DexInv, SwapOK, RunOK, PlanOK, TxOfPlan, Swapping
  <2>2. wallet.usdc[swapRun.plan.issuer] >= swapRun.usdc
    BY DEF DexInv, SwapOK, GrowthCovers
  <2>3. usdc[swapRun.plan.issuer] >= swapRun.usdc
    BY <1>0, <1>7, <2>1, <2>2
  <2>4. ASSUME tx = swapRun.tx PROVE usdc[swapRun.plan.issuer] >= swapRun.usdc + got
    BY <1>0, <1>2, <1>7, <2>1, <2>2, <2>4
  <2>5. \A k \in Landing' : k.got \in Nat /\ usdc[swapRun.plan.issuer] >= swapRun.usdc + k.got
    BY <1>2, <1>5, <1>14, <2>4
  <2> QED BY <1>3, <1>9, <2>3, <2>5 DEF GrowthCovers
<1>17. landed \subseteq landed'
  BY <1>5
<1>18. RecordOK' /\ AfterIsConfirmed'
  BY <1>3, <1>17, RecordKept, ConfirmedKept DEF DexInv, SwapOK
<1> QED BY <1>10, <1>11, <1>13, <1>15, <1>16, <1>18 DEF DexInv, SwapOK, MatrixOK

\* A run that is over says nothing of a swap.
LEMMA IdleIsOK ==
  ASSUME swapRun'.pc = "idle"
  PROVE  SwapOK'
BY DEF SwapOK, RunOK, TxOfPlan, NothingLater, SpentIsSent, GrowthCovers, AfterIsConfirmed, Swapping

LEMMA EndIsOK == ASSUME NEW how, End(how) PROVE SwapOK'
<1>1. swapRun'.pc = "idle"
  BY DEF End
<1> QED BY <1>1, IdleIsOK

LEMMA WorldKept ==
  ASSUME WorldOK, UNCHANGED <<wallet, market, gifts, landed, inFlight>>
  PROVE  WorldOK'
BY DEF WorldOK, WalletOK, MarketOK, GiftsOK, FlightOK, LandedOK

\* A plan that is gone through with.
LEMMA PlanOfBook ==
  ASSUME WorldOK, NEW issuer \in Issuers, NEW depth \in Nat,
         ~(Budget(issuer \in wallet.trust) <= 0), GatesAllow(SwapPlan(issuer, depth))
  PROVE  PlanOK(SwapPlan(issuer, depth), depth)
<1> DEFINE budget == Budget(issuer \in wallet.trust)
           most == depth \div 100
           send == LesserOf(most, budget)
<1>1. budget \in Int
  <2>1. IsFiniteSet(Issuers)
    <3>1. Issuers = {"circle"} \cup {"other"}
      BY DEF Issuers
    <3> QED BY <3>1, FS_Singleton, FS_AddElement
  <2>2. IsFiniteSet(wallet.trust) /\ wallet.xlm \in Int
    BY <2>1, FS_Subset DEF WorldOK, WalletOK
  <2>3. Cardinality(wallet.trust) \in Nat
    BY <2>2, FS_CardinalityType
  <2> QED BY <2>2, <2>3 DEF Budget, Reserve, FeeBudget, Margin
<1>2. most \in Nat
  BY ShareIsNat
<1>3. budget > 0
  BY <1>1
<1> HIDE DEF budget, most
<1>4. send \in Nat /\ send <= most
  BY <1>1, <1>2, <1>3 DEF LesserOf
<1> DEFINE plan == SwapPlan(issuer, depth)
<1>5. plan.issuer = issuer /\ plan.amount = send /\ plan.rules[1].most = most
  BY DEF SwapPlan, DerivePolicy, budget, most
<1> QED BY <1>2, <1>4, <1>5 DEF PlanOK, most

LEMMA BookKeeps ==
  ASSUME DexInv, NEW dryRun \in BOOLEAN, NEW issuer \in Issuers, NEW depth \in {0, 1000000},
         ReadBook(dryRun, issuer, depth), UNCHANGED matrix
  PROVE  DexInv'
<1> DEFINE plan == SwapPlan(issuer, depth)
           ends(how) == swapRun' = [pc |-> "idle", count |-> swapRun.count + 1, ended |-> how]
           next == [pc |-> IF issuer \in wallet.trust THEN "before" ELSE "trust",
                    count |-> swapRun.count + 1, plan |-> plan, trusted |-> issuer \in wallet.trust,
                    depth |-> depth, seq |-> wallet.seq, tx |-> [kind |-> "none"]]
<1>1. /\ (\E how : ends(how)) \/ (~(Budget(issuer \in wallet.trust) <= 0) /\ GatesAllow(plan) /\ swapRun' = next)
      /\ UNCHANGED <<wallet, market, inFlight, landed, gifts, record>>
  BY DEF ReadBook
<1>2. WorldOK' /\ RecordOK' /\ MatrixOK'
  BY <1>1, WorldKept, RecordKept DEF DexInv, MatrixOK
<1>3. ASSUME NEW how, ends(how) PROVE DexInv'
  <2>1. swapRun'.pc = "idle"
    BY <1>3
  <2> QED BY <1>2, <2>1, IdleIsOK DEF DexInv
<1>4. ASSUME ~(Budget(issuer \in wallet.trust) <= 0), GatesAllow(plan), swapRun' = next PROVE DexInv'
  <2>1. PlanOK(plan, depth)
    BY <1>4, PlanOfBook DEF DexInv
  <2> HIDE DEF plan
  <2>2. wallet.seq \in Nat /\ wallet'.seq = wallet.seq
    BY <1>1 DEF DexInv, WorldOK, WalletOK
  <2>3. /\ swapRun'.pc \in {"trust", "before"} /\ swapRun'.plan = plan /\ swapRun'.depth = depth
        /\ swapRun'.seq = wallet.seq /\ DOMAIN swapRun' = RunFields
    BY <1>4 DEF RunFields
  <2> HIDE DEF next
  <2>4. RunOK'
    BY <2>1, <2>2, <2>3 DEF RunOK, Swapping, PlanOK
  <2>5. SwapOK'
    BY <2>3, <2>4 DEF SwapOK, TxOfPlan, NothingLater, SpentIsSent, GrowthCovers, AfterIsConfirmed, Swapping
  <2> QED BY <1>2, <2>5 DEF DexInv
<1> QED BY <1>1, <1>3, <1>4

LEMMA TrustlineKeeps ==
  ASSUME DexInv, SubmitTrustline, UNCHANGED matrix
  PROVE  DexInv'
<1>1. PICK tx : tx = [kind |-> "trust", issuer |-> swapRun.plan.issuer, send |-> 0, min |-> 0, seq |-> swapRun.seq + 1]
  OBVIOUS
<1>2. /\ swapRun.pc = "trust" /\ inFlight' \subseteq inFlight \cup {tx}
      /\ swapRun' = [swapRun EXCEPT !.pc = "trusting", !.tx = tx]
      /\ UNCHANGED <<wallet, market, landed, gifts, record>>
  BY <1>1 DEF SubmitTrustline
<1>3. /\ DOMAIN swapRun = RunFields /\ PlanOK(swapRun.plan, swapRun.depth)
      /\ swapRun.seq \in Nat /\ swapRun.seq <= wallet.seq /\ wallet.seq \in Nat
  BY <1>2 DEF DexInv, SwapOK, RunOK, WorldOK, WalletOK
<1>4. tx.kind = "trust" /\ tx.issuer \in Issuers /\ tx.send \in Nat /\ tx.seq \in Nat /\ tx.seq <= wallet.seq + 1
  BY <1>1, <1>3 DEF PlanOK
<1>5. WorldOK'
  <2>1. FlightOK'
    BY <1>2, <1>4 DEF DexInv, WorldOK, FlightOK
  <2> QED BY <1>2, <2>1 DEF DexInv, WorldOK, WalletOK, MarketOK, GiftsOK, LandedOK
<1>6. /\ swapRun'.pc = "trusting" /\ swapRun'.plan = swapRun.plan /\ swapRun'.depth = swapRun.depth
      /\ swapRun'.seq = swapRun.seq /\ DOMAIN swapRun' = RunFields
  BY <1>2, <1>3 DEF RunFields
<1>7. RunOK'
  BY <1>2, <1>3, <1>6 DEF RunOK, Swapping, PlanOK
<1>8. SwapOK'
  BY <1>6, <1>7 DEF SwapOK, TxOfPlan, NothingLater, SpentIsSent, GrowthCovers, AfterIsConfirmed, Swapping
<1>9. RecordOK' /\ MatrixOK'
  BY <1>2, RecordKept DEF DexInv, MatrixOK
<1> QED BY <1>5, <1>8, <1>9 DEF DexInv

LEMMA PollKeeps ==
  ASSUME DexInv, PollTransaction, UNCHANGED matrix
  PROVE  DexInv'
<1>1. Sent /\ UNCHANGED <<wallet, market, inFlight, landed, gifts, record>>
  BY DEF PollTransaction
<1>2. WorldOK' /\ RecordOK' /\ MatrixOK'
  BY <1>1, WorldKept, RecordKept DEF DexInv, MatrixOK
<1>3. CASE End("FAILED")
  BY <1>2, <1>3, EndIsOK DEF DexInv
<1>4. CASE Confirmed /\ swapRun.pc = "trusting" /\ swapRun' = [swapRun EXCEPT !.pc = "before"]
  <2>1. DOMAIN swapRun = RunFields /\ PlanOK(swapRun.plan, swapRun.depth)
        /\ swapRun.seq \in Nat /\ swapRun.seq <= wallet.seq
    BY <1>4 DEF DexInv, SwapOK, RunOK
  <2>2. /\ swapRun'.pc = "before" /\ swapRun'.plan = swapRun.plan /\ swapRun'.depth = swapRun.depth
        /\ swapRun'.seq = swapRun.seq /\ DOMAIN swapRun' = RunFields
    BY <1>4, <2>1 DEF RunFields
  <2>3. RunOK'
    BY <1>1, <2>1, <2>2 DEF RunOK, Swapping, PlanOK
  <2>4. SwapOK'
    BY <2>2, <2>3 DEF SwapOK, TxOfPlan, NothingLater, SpentIsSent, GrowthCovers, AfterIsConfirmed, Swapping
  <2> QED BY <1>2, <2>4 DEF DexInv
<1>5. CASE Confirmed /\ swapRun.pc = "swapping" /\ swapRun' = [swapRun EXCEPT !.pc = "after"]
  <2>1. Swapping /\ DOMAIN swapRun = SwapFields /\ PlanOK(swapRun.plan, swapRun.depth)
    BY <1>5 DEF DexInv, SwapOK, RunOK, Swapping
  <2>2. /\ swapRun'.pc = "after" /\ swapRun'.plan = swapRun.plan /\ swapRun'.depth = swapRun.depth
        /\ swapRun'.tx = swapRun.tx /\ swapRun'.xlm = swapRun.xlm /\ swapRun'.given = swapRun.given
        /\ swapRun'.usdc = swapRun.usdc
        /\ DOMAIN swapRun' = SwapFields
    BY <1>5, <2>1 DEF SwapFields
  <2>3. RunOK'
    BY <2>1, <2>2 DEF RunOK, Swapping, PlanOK
  <2>4. Landing' = Landing
    BY <1>1, <2>2 DEF Landing
  <2>5. TxOfPlan' /\ NothingLater' /\ SpentIsSent' /\ GrowthCovers'
    BY <1>1, <2>1, <2>2, <2>4 DEF DexInv, SwapOK, TxOfPlan, NothingLater, SpentIsSent, GrowthCovers
  <2>6. AfterIsConfirmed'
    BY <1>5, <2>4 DEF AfterIsConfirmed, Confirmed
  <2> QED BY <1>2, <2>3, <2>5, <2>6 DEF DexInv, SwapOK
<1> QED BY <1>1, <1>3, <1>4, <1>5 DEF PollTransaction, Goto, Sent

LEMMA SwapKeeps ==
  ASSUME DexInv, SubmitSwap, UNCHANGED matrix
  PROVE  DexInv'
<1>1. PICK tx, had :
        /\ tx = [kind |-> "swap", issuer |-> swapRun.plan.issuer, send |-> swapRun.plan.amount,
                 min |-> swapRun.plan.destMin, seq |-> wallet.seq + 1]
        /\ had = IF swapRun.trusted THEN wallet.usdc[swapRun.plan.issuer] ELSE 0
  OBVIOUS
<1>2. /\ swapRun.pc = "before" /\ inFlight' = inFlight \cup {tx}
      /\ swapRun' = [pc |-> "swapping", count |-> swapRun.count, plan |-> swapRun.plan, depth |-> swapRun.depth,
                     tx |-> tx, xlm |-> wallet.xlm, given |-> gifts.xlm, usdc |-> had]
      /\ UNCHANGED <<wallet, market, landed, gifts, record>>
  BY <1>1 DEF SubmitSwap
<1>3. /\ PlanOK(swapRun.plan, swapRun.depth) /\ swapRun.plan.issuer \in Issuers /\ swapRun.plan.amount \in Nat
      /\ wallet.seq \in Nat /\ wallet.xlm \in Int /\ wallet.usdc \in [Issuers -> Nat] /\ gifts.xlm \in Nat
  BY <1>2 DEF DexInv, SwapOK, RunOK, WorldOK, WalletOK, GiftsOK, PlanOK
<1>4. had \in Nat /\ wallet.usdc[swapRun.plan.issuer] >= had /\ wallet.usdc[swapRun.plan.issuer] \in Nat
  BY <1>1, <1>3
<1>5. /\ tx.kind = "swap" /\ tx.issuer = swapRun.plan.issuer /\ tx.send = swapRun.plan.amount
      /\ tx.min = swapRun.plan.destMin /\ tx.seq = wallet.seq + 1
  BY <1>1
<1>6. WorldOK'
  <2>1. FlightOK'
    BY <1>2, <1>3, <1>5 DEF DexInv, WorldOK, FlightOK
  <2> QED BY <1>2, <2>1 DEF DexInv, WorldOK, WalletOK, MarketOK, GiftsOK, LandedOK
<1>7. /\ swapRun'.pc = "swapping" /\ swapRun'.plan = swapRun.plan /\ swapRun'.depth = swapRun.depth
      /\ swapRun'.tx = tx /\ swapRun'.xlm = wallet.xlm /\ swapRun'.given = gifts.xlm /\ swapRun'.usdc = had
      /\ DOMAIN swapRun' = SwapFields
  BY <1>2 DEF SwapFields
<1>8. RunOK'
  BY <1>3, <1>7 DEF RunOK, Swapping, PlanOK
<1>9. Landing' = {}
  <2>1. \A l \in landed : l.tx.seq \in Nat /\ l.tx.seq <= wallet.seq
    BY DEF DexInv, WorldOK, LandedOK
  <2>2. \A l \in landed : l.tx # tx
    BY <1>3, <1>5, <2>1
  <2> QED BY <1>2, <1>7, <2>2 DEF Landing
<1>10. TxOfPlan'
  BY <1>2, <1>3, <1>4, <1>5, <1>7 DEF TxOfPlan
<1>11. NothingLater'
  <2>1. \A t \in inFlight' : t.seq <= wallet.seq + 1
    BY <1>2, <1>3, <1>5 DEF DexInv, WorldOK, FlightOK
  <2> QED BY <1>2, <1>5, <1>7, <1>9, <2>1 DEF NothingLater
<1>12. SpentIsSent'
  <2>1. wallet.xlm = wallet.xlm + (gifts.xlm - gifts.xlm)
    BY <1>3
  <2> QED BY <1>2, <1>7, <1>9, <2>1 DEF SpentIsSent
<1>13. GrowthCovers' /\ AfterIsConfirmed'
  BY <1>2, <1>4, <1>7, <1>9 DEF GrowthCovers, AfterIsConfirmed
<1>14. RecordOK' /\ MatrixOK'
  BY <1>2, RecordKept DEF DexInv, MatrixOK
<1> QED BY <1>6, <1>8, <1>10, <1>11, <1>12, <1>13, <1>14 DEF DexInv, SwapOK

\* What is read back is of a wallet that paid the swap and its fee, and got what
\* others gave: the fee agrees only if they gave no more than a hundredth.
LEMMA ReadBackKeeps ==
  ASSUME DexInv, ReadBack, UNCHANGED matrix
  PROVE  DexInv'
<1> DEFINE received == wallet.usdc[swapRun.plan.issuer] - swapRun.usdc
           credited == gifts.xlm - swapRun.given
<1>1. swapRun.pc = "after" /\ Swapping /\ UNCHANGED <<wallet, market, inFlight, landed, gifts>>
  BY DEF ReadBack, Swapping
<1>2. WorldOK' /\ MatrixOK'
  BY <1>1, WorldKept DEF DexInv, MatrixOK
<1>3. CASE UNCHANGED record /\ End("MISMATCH")
  BY <1>1, <1>2, <1>3, EndIsOK, RecordKept DEF DexInv
<1>4. CASE /\ received > 0 /\ FeeAgrees(swapRun.xlm, wallet.xlm, swapRun.plan.amount, Fee)
           /\ record' = [is |-> "swap", plan |-> swapRun.plan, depth |-> swapRun.depth, tx |-> swapRun.tx,
                         received |-> received, credited |-> credited]
           /\ End("CONFIRMED")
  <2>1. PICK l \in Landing : l.ok
    BY <1>1 DEF DexInv, SwapOK, AfterIsConfirmed, Confirmed
  <2>2. l \in landed /\ l.tx = swapRun.tx
    BY <2>1 DEF Landing
  <2>3. /\ PlanOK(swapRun.plan, swapRun.depth) /\ swapRun.plan.issuer \in Issuers /\ swapRun.plan.amount \in Nat
        /\ swapRun.tx.send = swapRun.plan.amount /\ swapRun.tx.min = swapRun.plan.destMin /\ swapRun.tx.kind = "swap"
        /\ swapRun.xlm \in Int /\ swapRun.given \in Nat /\ swapRun.usdc \in Nat /\ swapRun.given <= gifts.xlm
    BY <1>1 DEF DexInv, SwapOK, RunOK, PlanOK, TxOfPlan, Swapping
  <2>4. wallet.xlm \in Int /\ gifts.xlm \in Nat /\ wallet.usdc[swapRun.plan.issuer] \in Nat
    BY <2>3 DEF DexInv, WorldOK, WalletOK, GiftsOK
  <2>5. l.got >= swapRun.plan.destMin
    BY <2>1, <2>2, <2>3 DEF DexInv, WorldOK, LandedOK
  <2>6. l.got \in Nat /\ wallet.usdc[swapRun.plan.issuer] >= swapRun.usdc + l.got
    BY <1>1, <2>1 DEF DexInv, SwapOK, GrowthCovers
  <2>7. received >= l.got
    BY <2>3, <2>4, <2>6
  <2>8. credited \in {0, 1}
    <3>1. wallet.xlm = swapRun.xlm - Fee - swapRun.plan.amount + (gifts.xlm - swapRun.given)
      BY <1>1, <2>1, <2>3 DEF DexInv, SwapOK, SpentIsSent
    <3>2. (swapRun.xlm - wallet.xlm - swapRun.plan.amount) - Fee \in {-1, 0, 1}
      BY <1>4 DEF FeeAgrees
    <3> QED BY <2>3, <2>4, <3>1, <3>2 DEF Fee
  <2> HIDE DEF received, credited
  <2>9. /\ record'.plan = swapRun.plan /\ record'.depth = swapRun.depth /\ record'.tx = swapRun.tx
        /\ record'.received = received /\ record'.credited = credited
    BY <1>4
  <2>10. VerifyArtifact'
    BY <1>4, <2>3, <2>9 DEF VerifyArtifact, PlanOK
  <2>11. RecordOK'
    BY <1>1, <2>1, <2>2, <2>3, <2>5, <2>7, <2>8, <2>9, <2>10 DEF RecordOK, PlanOK
  <2> QED BY <1>2, <1>4, <2>11, EndIsOK DEF DexInv
<1> QED BY <1>3, <1>4 DEF ReadBack

LEMMA EndingKeeps ==
  ASSUME DexInv, GiveUp \/ Die, UNCHANGED matrix
  PROVE  DexInv'
<1>1. UNCHANGED <<wallet, market, inFlight, landed, gifts, record>> /\ (End("UNCONFIRMED") \/ End("DIED"))
  BY DEF GiveUp, Die
<1> QED BY <1>1, WorldKept, RecordKept, EndIsOK DEF DexInv, MatrixOK

\* Of the matrix, what goes over the ceiling or to the listed party is refused.
LEMMA MatrixIsInPolicy ==
  ASSUME NEW depth \in Nat, NEW c \in MatrixOf(depth), c.judged.allowed
  PROVE  c.of.destination = "wallet" /\ c.of.amount <= c.of.rules[1].most
<1> DEFINE policy == DerivePolicy(depth)
           most == policy.rules[1].most
           small == most \div 1000
           swap == [source |-> "wallet", destination |-> "wallet", amount |-> small, minAmount |-> Floor(small, 97),
                    amountB |-> small, path |-> <<>>, rules |-> policy.rules, maxSlippage |-> policy.maxSlippage]
           listed == [swap EXCEPT !.destination = "listed",
                                  !.rules = <<[type |-> "deny_destination", most |-> 0, who |-> "listed"]>>]
           over == [swap EXCEPT !.amount = most * 100, !.minAmount = 0]
<1>1. most = depth \div 100 /\ policy.rules[1].type = "max_amount" /\ 1 \in DOMAIN policy.rules
  BY DEF DerivePolicy
<1>2. \/ c = [of |-> swap, judged |-> GateSwap(swap)] \/ c = [of |-> over, judged |-> GateSwap(over)]
      \/ c = [of |-> listed, judged |-> GateSwap(listed)] \/ c = [of |-> swap, judged |-> GatePathPayment(swap)]
      \/ c = [of |-> swap, judged |-> GateProvideLiquidity(swap)]
  BY DEF MatrixOf
<1> HIDE DEF policy
<1>3. most \in Nat /\ small \in Nat /\ small <= most
  <2>1. most \in Nat
    BY <1>1, ShareIsNat
  <2> HIDE DEF most
  <2> QED BY <2>1
<1>4. swap.destination = "wallet" /\ swap.amount = small /\ swap.rules[1].most = most
  BY DEF swap
<1>5. /\ over.destination = "wallet" /\ over.amount = most * 100 /\ over.rules[1].most = most
      /\ over.rules[1].type = "max_amount" /\ 1 \in DOMAIN over.rules
  BY <1>1
<1>6. /\ listed.destination = "listed"
      /\ listed.rules = <<[type |-> "deny_destination", most |-> 0, who |-> "listed"]>>
  OBVIOUS
<1> HIDE DEF most, small, swap, over, listed
<1>7. ASSUME GateSwap(over).allowed PROVE over.amount <= over.rules[1].most
  <2>1. GateSwap(over).verdict = "VERIFIED"
    BY <1>7 DEF GateSwap, Judged
  <2>2. ~BreaksSwap(over, over.rules[1])
    BY <1>5, <2>1, SwapAllowed
  <2> QED BY <1>3, <1>5, <2>2 DEF BreaksSwap
<1>8. ~GateSwap(listed).allowed
  <2>1. BreaksSwap(listed, listed.rules[1]) /\ 1 \in DOMAIN listed.rules
    BY <1>6 DEF BreaksSwap
  <2>2. GateSwap(listed).verdict # "VERIFIED"
    BY <2>1, SwapAllowed
  <2> QED BY <2>2 DEF GateSwap, Judged
<1> QED BY <1>2, <1>3, <1>4, <1>5, <1>7, <1>8

\* The swap and the matrix (scripts/stellar-dex-swap-executed and -gate-real),
\* for any number of runs of the script and of payments of others.
THEOREM DexEvidenceHolds == DexSpec => []DexEvidenceIsTrue
<1>1. DexInit => DexInv
  <2> SUFFICES ASSUME DexInit PROVE DexInv
    OBVIOUS
  <2>1. wallet \in [xlm : {16000, 3521}, trust : {{}}, usdc : {[i \in Issuers |-> 0]}, seq : {0}]
    BY DEF DexInit
  <2>2. /\ wallet = [xlm |-> wallet.xlm, trust |-> wallet.trust, usdc |-> wallet.usdc, seq |-> wallet.seq]
        /\ wallet.xlm \in {16000, 3521} /\ wallet.trust = {} /\ wallet.usdc = [i \in Issuers |-> 0] /\ wallet.seq = 0
    BY <2>1
  <2>3. WalletOK
    BY <2>2 DEF WalletOK
  <2>4. MarketOK /\ GiftsOK /\ FlightOK /\ LandedOK
    BY DEF DexInit, MarketOK, GiftsOK, FlightOK, LandedOK
  <2>5. swapRun.pc = "idle"
    BY DEF DexInit, NoRun
  <2>6. SwapOK
    BY <2>5 DEF SwapOK, RunOK, TxOfPlan, NothingLater, SpentIsSent, GrowthCovers, AfterIsConfirmed, Swapping
  <2>7. RecordOK /\ MatrixOK
    BY DEF DexInit, RecordOK, MatrixOK
  <2> QED BY <2>3, <2>4, <2>6, <2>7 DEF DexInv, WorldOK
<1>2. DexInv /\ [DexNext]_dexVars => DexInv'
  <2> SUFFICES ASSUME DexInv, [DexNext]_dexVars PROVE DexInv'
    OBVIOUS
  <2>1. ASSUME NEW depth \in {0, 50, 100000000}, RunMatrix(depth) PROVE DexInv'
    <3>1. matrix' = MatrixOf(depth) /\ UNCHANGED <<wallet, market, inFlight, landed, gifts, swapRun, record>>
      BY <2>1 DEF RunMatrix
    <3>2. MatrixOK'
      BY <3>1, MatrixIsInPolicy DEF MatrixOK
    <3>3. WorldOK' /\ RecordOK'
      BY <3>1, WorldKept, RecordKept DEF DexInv
    <3>4. SwapOK'
      BY <3>1 DEF DexInv, SwapOK, RunOK, TxOfPlan, NothingLater, SpentIsSent, GrowthCovers, AfterIsConfirmed,
                  Swapping, Landing, Confirmed
    <3> QED BY <3>2, <3>3, <3>4 DEF DexInv
  <2>2. ASSUME UNCHANGED dexVars PROVE DexInv'
    <3>1. WorldOK' /\ RecordOK' /\ MatrixOK'
      BY <2>2, WorldKept, RecordKept DEF DexInv, dexVars, MatrixOK
    <3>2. SwapOK'
      BY <2>2 DEF dexVars, DexInv, SwapOK, RunOK, TxOfPlan, NothingLater, SpentIsSent, GrowthCovers, AfterIsConfirmed,
                  Swapping, Landing, Confirmed
    <3> QED BY <3>1, <3>2 DEF DexInv
  <2> QED BY <2>1, <2>2, MarketKeeps, ExpiryKeeps, GiftKeeps, LandKeeps, BookKeeps, TrustlineKeeps, PollKeeps,
             SwapKeeps, ReadBackKeeps, EndingKeeps DEF DexNext
<1>3. DexInv => DexEvidenceIsTrue
  BY DEF DexInv, RecordOK, MatrixOK, DexEvidenceIsTrue
<1> QED BY <1>1, <1>2, <1>3, PTL DEF DexSpec
=============================================================================
