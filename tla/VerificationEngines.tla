------------------------ MODULE VerificationEngines -------------------------
(***************************************************************************)
(* The three verifiers of a signed intent and their consensus: A is the    *)
(* JavaScript SDK (packages/sdk/verify-binding.js), B the Rust engine      *)
(* (packages/independent-verifier) and C the Python one                    *)
(* (packages/verifier-c).  Each recomputes the chain intent, manifest,     *)
(* binding, scope, authority from the same arguments and stops at the      *)
(* first stage that fails; the authority of a contract wallet takes two    *)
(* calls of a provider, which every engine makes for itself, at its own    *)
(* time, and which may fail.  A value is named by how it compares with     *)
(* what the engine recomputes.                                             *)
(***************************************************************************)
EXTENDS Integers, FiniteSets

CONSTANTS
  Nothing,        \* null: a stage that lets the request pass
  OddBound     \* bound of the model: how many fields of a request are odd

\* What an engine says: an envelope, or a stage that stops the request.
Stops == [status : {"OK", "NOT_PROVEN", "NOT_RUN", "THROWN"},
          label : {"BOUND", "TypeError", "DECLARATION_MISSING", "DECLARATION_INVALID", "DECLARATION_NOT_BOUND",
                   "BINDING_REFERENCE_MISMATCH", "DECISION_RECORD_MISSING", "DECISION_RECORD_INVALID",
                   "SCOPE_MISMATCH", "SIGNER_MISMATCH", "SIG_MALFORMED", "NO_PROVIDERS", "NO_AUTHORITY_STATE",
                   "EVM_ADAPTER_UNAVAILABLE", "CODE_LOOKUP_ERROR", "NO_CODE_AT_STATE", "NOT_MAGIC", "REVERTED",
                   "HISTORICAL_STATE_UNAVAILABLE", "PROVIDER_ERROR"},
          stage : {"none", "binding", "reference", "scope", "authority", "seam"}]

ASSUME EnginesAssumption == OddBound \in Nat /\ Nothing \notin Stops

VARIABLES
  request,    \* the arguments, the same for all engines
  wallet,     \* the contract wallet at the authority block
  engine,     \* of each engine: where it stands
  envelope,   \* of each engine: what it returned
  consensus   \* what runConsensus made of the envelopes

engineVars == <<request, wallet, engine, envelope, consensus>>

Engines == {"A", "B", "C"}

\* The request that every engine finds bound, and those with a few odd fields.
\* fields: whether the intent has every field of a scope; evm: whether the
\* adapter is injected; post: evidence of an execution among the arguments.
Plain == [kind |-> "EOA", declaration |-> "bound", bytes |-> "some", reference |-> "none",
          decision |-> "frozen", fields |-> "all", signature |-> "signer",
          evm |-> TRUE, providers |-> TRUE, state |-> "decimal", post |-> FALSE]
FieldValues == [kind |-> {"EOA", "EIP1271"},
                declaration |-> {"bound", "missing", "other version", "unbound"},
                bytes |-> {"some", "empty"},
                reference |-> {"none", "equal", "other"},
                decision |-> {"frozen", "missing", "altered", "other scope"},
                fields |-> {"all", "some"},
                signature |-> {"signer", "other", "none"},
                evm |-> BOOLEAN, providers |-> BOOLEAN,
                state |-> {"decimal", "absent"}, post |-> BOOLEAN]
Requests ==
  LET with(k, F, v) == [f \in DOMAIN Plain |-> IF f = "kind" THEN k ELSE IF f \in F THEN v[f] ELSE Plain[f]]
      all(F) == {v \in [F -> UNION {FieldValues[f] : f \in F}] : \A f \in F : v[f] \in FieldValues[f]}
  IN  UNION {UNION {{with(k, F, v) : v \in all(F)} : k \in FieldValues.kind} :
               F \in {S \in SUBSET (DOMAIN Plain \ {"kind"}) : Cardinality(S) <= OddBound}}

Stop(status, label, stage) == [status |-> status, label |-> label, stage |-> stage]
FirstStop(stages) ==   \* the first stage, in order, that does not let pass
  LET stopped == {i \in DOMAIN stages : stages[i] # Nothing}
  IN  IF stopped = {} THEN Nothing
      ELSE stages[CHOOSE i \in stopped : \A j \in stopped : i <= j]

EnginesInit ==
  /\ request = Nothing
  /\ wallet = [code |-> FALSE, approves |-> FALSE]
  /\ engine = [e \in Engines |-> "idle"]
  /\ envelope = [e \in Engines |-> Nothing]
  /\ consensus = Nothing

-----------------------------------------------------------------------------
\* Binding: the shape of the declaration ends it at once, every other fault is
\* collected and reported as one.
Binding(r, envelopeOk) ==
  IF r.declaration = "missing" THEN Stop("NOT_RUN", "DECLARATION_MISSING", "binding")
  ELSE IF r.declaration = "other version" THEN Stop("NOT_PROVEN", "DECLARATION_INVALID", "binding")
  ELSE IF r.declaration = "unbound" \/ ~envelopeOk THEN Stop("NOT_PROVEN", "DECLARATION_NOT_BOUND", "binding")
  ELSE Nothing

HasSignature(r) == r.kind = "EIP1271" \/ r.signature # "none"
\* A takes an EIP-1271 signature of no bytes; B and C want at least one.
SignatureEnvelopeOkA(r) == HasSignature(r)
SignatureEnvelopeOkB(r) == HasSignature(r) /\ (r.kind = "EIP1271" => r.bytes # "empty")
SignatureEnvelopeOkC(r) == HasSignature(r) /\ (r.kind = "EIP1271" => r.bytes # "empty")

BuildAuthorizationA(r) == Binding(r, SignatureEnvelopeOkA(r))
BuildAuthorizationB(r) == Binding(r, SignatureEnvelopeOkB(r))
BuildAuthorizationC(r) == Binding(r, SignatureEnvelopeOkC(r))

Reference(r) ==
  IF r.reference = "other" THEN Stop("NOT_PROVEN", "BINDING_REFERENCE_MISMATCH", "reference") ELSE Nothing

\* The frozen decision record: its scope must be the scope of the intent.
FrozenScope(r, sameScope) ==
  IF r.decision = "missing" THEN Stop("NOT_RUN", "DECISION_RECORD_MISSING", "scope")
  ELSE IF r.decision = "altered" THEN Stop("NOT_RUN", "DECISION_RECORD_INVALID", "scope")
  ELSE IF ~sameScope THEN Stop("NOT_PROVEN", "SCOPE_MISMATCH", "scope")
  ELSE Nothing

\* The firewall froze null for a field the intent lacks.  A and B read null
\* for it, C the empty string.
ScopeOfIntentA(r) == r.decision = "frozen"
ScopeOfIntentB(r) == r.decision = "frozen"
ScopeOfIntentC(r) == r.decision = "frozen" /\ r.fields = "all"

ScopeFromFrozenRecordA(r) == FrozenScope(r, ScopeOfIntentA(r))
ScopeFromFrozenRecordB(r) == FrozenScope(r, ScopeOfIntentB(r))
ScopeFromFrozenRecordC(r) == FrozenScope(r, ScopeOfIntentC(r))

-----------------------------------------------------------------------------
\* Authority.  Bound marks the envelope of a request that passed every stage.
Bound == Stop("OK", "BOUND", "none")
Authority(status, label) == Stop(status, label, "authority")

Recover(r) ==
  CASE r.signature = "signer" -> Bound
    [] r.signature = "other"  -> Authority("NOT_PROVEN", "SIGNER_MISMATCH")
    [] OTHER                  -> Authority("NOT_PROVEN", "SIG_MALFORMED")

\* What stops the probe before the provider is asked; A needs the adapter for
\* every path, B and C recover by themselves.
ProbeStart(r) ==
  IF r.kind = "EOA" THEN Recover(r)
  ELSE IF ~r.providers THEN Authority("NOT_RUN", "NO_PROVIDERS")
  ELSE IF r.state # "decimal" THEN Authority("NOT_RUN", "NO_AUTHORITY_STATE")
  ELSE Nothing

ProbeAuthorizationA(r) ==
  IF ~r.evm THEN Authority("NOT_RUN", "EVM_ADAPTER_UNAVAILABLE") ELSE ProbeStart(r)
ProbeAuthorityB(r) == ProbeStart(r)
ProbeAuthorityC(r) == ProbeStart(r)

CodeAnswer(answer) ==
  CASE answer = "throws" -> Authority("NOT_RUN", "CODE_LOOKUP_ERROR")
    [] answer = "empty"  -> Authority("NOT_PROVEN", "NO_CODE_AT_STATE")
    [] OTHER             -> Nothing

\* The last step: what isValidSignature gave at the authority block.
EthCallAnswer(answer) ==
  CASE answer = "magic"       -> Bound
    [] answer = "other"       -> Authority("NOT_PROVEN", "NOT_MAGIC")
    [] answer = "reverted"    -> Authority("NOT_PROVEN", "REVERTED")
    [] answer = "unavailable" -> Authority("NOT_RUN", "HISTORICAL_STATE_UNAVAILABLE")
    [] OTHER                  -> Authority("NOT_RUN", "PROVIDER_ERROR")
ProcessEthCallB(answer) == EthCallAnswer(answer)
ProcessEthCallC(answer) == EthCallAnswer(answer)
ProcessEthCall(e, answer) ==
  CASE e = "A" -> EthCallAnswer(answer) [] e = "B" -> ProcessEthCallB(answer)
    [] e = "C" -> ProcessEthCallC(answer)

-----------------------------------------------------------------------------
\* The order of the stages in each engine.
VerifyBinding(r) ==
  FirstStop(<<BuildAuthorizationA(r), Reference(r), ScopeFromFrozenRecordA(r), ProbeAuthorizationA(r)>>)
PipelineB(r) ==
  FirstStop(<<BuildAuthorizationB(r), Reference(r), ScopeFromFrozenRecordB(r), ProbeAuthorityB(r)>>)
PipelineC(r) ==
  FirstStop(<<BuildAuthorizationC(r), Reference(r), ScopeFromFrozenRecordC(r), ProbeAuthorityC(r)>>)

\* The seam: evidence of an execution makes every engine throw.
GuardSeam(r) == IF r.post THEN Stop("THROWN", "TypeError", "seam") ELSE Nothing

Outcome(e, r) ==
  FirstStop(<<GuardSeam(r),
              CASE e = "A" -> VerifyBinding(r) [] e = "B" -> PipelineB(r) [] e = "C" -> PipelineC(r)>>)

\* An engine either has its envelope or goes on to the next call.
Proceed(e, result, next) ==
  /\ engine' = [engine EXCEPT ![e] = IF result = Nothing THEN next ELSE "done"]
  /\ envelope' = [envelope EXCEPT ![e] = result]
  /\ UNCHANGED <<request, wallet, consensus>>

Ask(r, code, approves) ==
  /\ request' = r
  /\ wallet' = [code |-> code, approves |-> code /\ approves]
  /\ UNCHANGED <<engine, envelope, consensus>>

Run(e) ==
  /\ request # Nothing /\ engine[e] = "idle"
  /\ Proceed(e, Outcome(e, request), "getCode")

\* The provider tells the truth about the block or fails.
GetCode(e) ==
  /\ engine[e] = "getCode"
  /\ \E answer \in {IF wallet.code THEN "code" ELSE "empty", "throws"} :
       Proceed(e, CodeAnswer(answer), "ethCall")

EthCall(e) ==
  /\ engine[e] = "ethCall"
  /\ \E answer \in {"unavailable", "throws"} \cup (IF wallet.approves THEN {"magic"} ELSE {"other", "reverted"}) :
       Proceed(e, ProcessEthCall(e, answer), "done")

-----------------------------------------------------------------------------
\* Consensus.  An adapter turns an envelope into a token: a bound one is
\* VERIFIED, any other is not; a path that throws counts as UNVERIFIED.
Tokens(e) == CASE envelope[e].status = "OK"         -> {"VERIFIED"}
               [] envelope[e].status = "NOT_PROVEN" -> {"INVALID", "UNVERIFIED"}
               [] OTHER                             -> {"UNVERIFIED"}

\* A mutant: the majority decides.
CombineByMajority(token) ==
  IF 2 * Cardinality({e \in DOMAIN token : token[e] = "VERIFIED"}) > Cardinality(DOMAIN token)
  THEN "VERIFIED" ELSE "INCONCLUSIVE"

\* combineConsensus over the paths it is given; the recomputed references of
\* all engines are the same bytes for the same arguments.
CombineConsensus(token) ==
  LET given == {token[e] : e \in DOMAIN token}
  IN  CASE "INVALID" \in given  -> "INVALID"
        [] given = {"VERIFIED"} -> "VERIFIED"
        [] OTHER                -> "INCONCLUSIVE"

RunConsensus(paths) ==
  /\ consensus = Nothing
  /\ \A e \in paths : engine[e] = "done"
  /\ \E token \in [paths -> {"VERIFIED", "INVALID", "UNVERIFIED"}] :
       /\ \A e \in paths : token[e] \in Tokens(e)
       /\ consensus' = [paths |-> paths, combined |-> CombineConsensus(token)]
  /\ UNCHANGED <<request, wallet, engine, envelope>>

EnginesNext ==
  \/ request = Nothing /\ \E r \in Requests, c, a \in BOOLEAN : Ask(r, c, a)
  \/ \E e \in Engines : Run(e) \/ GetCode(e) \/ EthCall(e)
  \/ \E paths \in SUBSET Engines : RunConsensus(paths)

EnginesSpec == EnginesInit /\ [][EnginesNext]_engineVars

-----------------------------------------------------------------------------
\* The declaration is bound, the decision record frozen, and its signer signed
\* it or its wallet approves it.
Authorised ==
  /\ request.declaration = "bound" /\ request.decision = "frozen"
  /\ request.reference # "other" /\ ~request.post
  /\ IF request.kind = "EOA" THEN request.signature = "signer" ELSE wallet.approves

\* Whoever says the intent is authorised: no engine, and no consensus of
\* engines, calls it bound unless it is, however the provider failed the others.
BoundIsAuthorised ==
  /\ \A e \in Engines : (envelope[e] # Nothing /\ envelope[e].status = "OK") => Authorised
  /\ (consensus # Nothing /\ consensus.combined = "VERIFIED") =>
        Authorised /\ \A e \in consensus.paths : envelope[e] = Bound
=============================================================================
