----------------------------- MODULE Provenance -----------------------------
(***************************************************************************)
(* Who declared an execution (packages/provenance): the manifest and its   *)
(* signature, the contract that approves it, the chain of delegations, the *)
(* attestations about the agent, and what the command line makes of the    *)
(* verdict.  Accounts are named; a digest is what it is the digest of.    *)
(***************************************************************************)
EXTENDS Naturals, Sequences, FiniteSets, SequencesExt, Variants

CONSTANTS
  OddFacts,      \* bound of the model: how many facts about a manifest are odd
  OddLinks       \* bound of the model: and about a link or an attestation

ASSUME ProvenanceAssumption == {OddFacts, OddLinks} \subseteq Nat

VARIABLES
  manifest,     \* the manifest and its evidence: at most one
  verified,     \* the verdict of verifyProvenance on it
  shown         \* what the command line showed: an exit code, a badge, a card

provenanceVars == <<manifest, verified, shown>>

ProvenanceInit == manifest = {} /\ verified = {} /\ shown = {}

Accounts == {"a1", "a2", "a3"}
Fields == {"manufacturer", "model"}      \* two of the three that are alike
NoBlock == 99                            \* no execution block is given
Unstated == "none"

\* A link hands the authority on; its window is open unless it says otherwise:
\* an expiry of 0 is none.
Link(a, g) == [authority |-> a, grantedTo |-> g, signedBy |-> a, after |-> 0, until |-> 0, revokedAt |-> NoBlock]
OddLink == [authority |-> Accounts, grantedTo |-> Accounts, signedBy |-> Accounts \cup {"malformed"},
            after |-> {2}, until |-> {1, 2}, revokedAt |-> {1, 2}]
Links(a, g) == AllBut(Link(a, g), OddLink, OddLinks)
Chains == {<<>>} \cup {<<l>> : l \in Links("a1", "a2")} \cup (Links("a1", "a2") \X Links("a2", "a3"))

\* An attestation of the two fields, in the form that commits to the claims.
PlainAttestation ==
  [type |-> "AGENT_IDENTITY", subject |-> "a1", version |-> "v2", signed |-> "v2", scope |-> "this",
   trusted |-> TRUE, issued |-> 0, until |-> 2, revoked |-> FALSE, claims |-> "these"]
OddAttestation ==
  [type |-> {"OTHER"}, subject |-> {"a2"}, version |-> {"v1", "invalid"}, signed |-> {"v1", "wrong", "malformed"},
   scope |-> {"other", "malformed", "null"}, trusted |-> {FALSE}, issued |-> {2}, until |-> {0},
   revoked |-> {TRUE}, claims |-> {"others"}]
FirstForm == [PlainAttestation EXCEPT !.version = "v1", !.signed = "v1"]
Attested == AllBut(PlainAttestation, OddAttestation, OddLinks) \cup {FirstForm, [FirstForm EXCEPT !.until = 0]}
Attestations == {<<>>} \cup {<<a>> : a \in Attested}
                 \cup {<<PlainAttestation, a>> : a \in Attested} \cup {<<a, FirstForm>> : a \in Attested}

\* The evidence may hold a proof that one attestation was revoked: the place of
\* that one in the list, or 3 for one that is not in it.

\* Call paths by caller and callee.
Paths == UNION {[1..n -> Accounts \X Accounts] : n \in 0..1}
          \cup {<<f, g>> : f \in {<<"a1", "a2">>, <<"a2", "a1">>}, g \in Accounts \X {"a3"}}

\* A manifest of an execution the declared account sent, and what else may be.
PlainManifest ==
  [kind |-> "STAMP", schema |-> "valid", id |-> "matches", binding |-> "EOA", signer |-> "a1",
   recovered |-> "a1", from |-> "a1", block |-> 1, chain |-> <<>>, adapter |-> TRUE,
   providers |-> "both", code |-> "present", answer |-> "magic", rule |-> "TRACE_CALLER",
   path |-> <<<<"a1", "a2">>>>, checker |-> "accepts", attestations |-> <<>>, revocation |-> 0, asOf |-> NoBlock,
   identity |-> [f \in Fields |-> "value"], wellFormed |-> TRUE, sibling |-> Unstated, executor |-> "AI_AGENT"]
OddManifest ==
  [kind |-> {"REGISTRATION"}, schema |-> {"invalid", "malformed"}, id |-> {"differs", "missing"},
   signer |-> {"a2"}, recovered |-> {"a2", "throws"}, from |-> {"a2", "a3"},
   block |-> {2, NoBlock}, chain |-> Chains, adapter |-> {FALSE}, providers |-> {"none", "calls_only"},
   code |-> {"empty", "throws"}, answer |-> {"other", "reverts", "unavailable", "throws"},
   rule |-> {"PROTOCOL_STATE_TRANSITION", Unstated}, path |-> Paths, checker |-> {"rejects", Unstated},
   attestations |-> Attestations, revocation |-> 1..3, asOf |-> {1, 2},
   identity |-> [Fields -> {"value", "null", "absent", "malformed"}], wellFormed |-> {FALSE},
   sibling |-> {"agrees", "conflicts", "elsewhere"}, executor |-> {"HUMAN"}]
ContractOnly == {"providers", "code", "answer", "rule", "path", "checker"}
AccountOnly == {"schema", "signer", "recovered", "chain", "sibling", "wellFormed", "asOf"}
Manifests ==
  AllBut(PlainManifest, [f \in DOMAIN OddManifest \ ContractOnly |-> OddManifest[f]], OddFacts)
    \cup AllBut([PlainManifest EXCEPT !.binding = "EIP1271"],
                [f \in DOMAIN OddManifest \ AccountOnly |-> OddManifest[f]], OddFacts)

Declared == "a1"                         \* declared.signerBinding.address
OnContract(m) == m.binding = "EIP1271"

-----------------------------------------------------------------------------
\* The manifest itself.  The schema ties the scheme of the signature to the kind
\* of the binding and fixes the form of r, s, v and bytes: what is left of the
\* signature is whom it is recovered to.
ValidateManifest(m) == m.schema
Commitment(m) == IF m.id = "matches" THEN "OK" ELSE "NOT_PROVEN"

\* The recovered account is compared with the signer of the envelope.
ManifestSignature(m) ==
  IF OnContract(m) THEN "NOT_APPLICABLE"
  ELSE IF ~m.adapter THEN "NOT_RUN"
  ELSE IF m.recovered = m.signer THEN "OK" ELSE "NOT_PROVEN"

\* EIP-1271, at the block of the execution and at no other.
EvaluateContractAuthorization(m) ==
  IF ~OnContract(m) THEN "NOT_APPLICABLE"
  ELSE IF ~m.adapter \/ m.providers # "both" \/ m.block = NoBlock \/ m.code = "throws" THEN "NOT_RUN"
  ELSE IF m.code = "empty" THEN "NOT_PROVEN"
  ELSE IF m.answer \in {"unavailable", "throws"} THEN "NOT_RUN"
  ELSE IF m.answer = "magic" THEN "OK" ELSE "NOT_PROVEN"

\* The contract acted in this execution: it calls, on one connected path from
\* the sender, or an injected checker says so.
Connected(path) == \A i \in 2..Len(path) : path[i - 1][2] = path[i][1]
EvaluateContractExecutionBinding(m) ==
  IF ~OnContract(m) THEN "NOT_APPLICABLE"
  ELSE IF \/ /\ m.rule = "TRACE_CALLER"
             /\ m.path # <<>> /\ m.path[1][1] = m.from /\ Connected(m.path)
             /\ \E i \in DOMAIN m.path : m.path[i][1] = Declared
          \/ m.rule = "PROTOCOL_STATE_TRANSITION" /\ m.checker = "accepts"
       THEN "OK" ELSE "NOT_PROVEN"

-----------------------------------------------------------------------------
\* Delegation: every link is signed by its authority, continues the one before
\* and is open at the block of the execution, if there is one; the first
\* refusal ends the walk, and without an adapter the first link is not run.
VerifyDelegationLinkSignature(l, adapter) ==
  IF l.signedBy = "malformed" THEN "NOT_PROVEN"
  ELSE IF ~adapter THEN "NOT_RUN"
  ELSE IF l.signedBy = l.authority THEN "OK" ELSE "NOT_PROVEN"
OpenAt(l, b) ==
  b # NoBlock => /\ b >= l.after
                 /\ l.until > 0 => b <= l.until
                 /\ l.revokedAt > b
\* A walk that looks at each link alone.
ForgetsContinuity(m) ==
  IF ~m.adapter THEN "NOT_RUN"
  ELSE IF /\ \A i \in DOMAIN m.chain : VerifyDelegationLinkSignature(m.chain[i], TRUE) = "OK" /\ OpenAt(m.chain[i], m.block)
          /\ Head(m.chain).authority = Declared
       THEN "OK" ELSE "NOT_PROVEN"
VerifyDelegationChain(m) ==
  LET sig(i) == VerifyDelegationLinkSignature(m.chain[i], m.adapter)
      good(i) == /\ sig(i) = "OK" /\ OpenAt(m.chain[i], m.block)
                 /\ i > 1 => m.chain[i - 1].grantedTo = m.chain[i].authority
  IN  IF \E i \in DOMAIN m.chain : sig(i) = "NOT_RUN" /\ \A j \in 1..(i - 1) : good(j) THEN "NOT_RUN"
      ELSE IF (\A i \in DOMAIN m.chain : good(i)) /\ Head(m.chain).authority = Declared THEN "OK"
      ELSE "NOT_PROVEN"

\* On the contract path and of a registration the axis stays as it began.
Delegation(m) ==
  IF OnContract(m) \/ m.kind = "REGISTRATION" \/ m.chain = <<>> THEN "NOT_PROVEN" ELSE VerifyDelegationChain(m)

\* The declared account sent this, or the last grantee of its chain did.
DeclarerBinding(m) ==
  LET signature == ManifestSignature(m)
  IN  IF OnContract(m) THEN "NOT_APPLICABLE"
      ELSE IF m.kind = "REGISTRATION" THEN signature
      ELSE IF ~m.adapter THEN "NOT_RUN"
      ELSE IF \/ Declared = m.from /\ signature = "OK"
              \/ Delegation(m) = "OK" /\ Last(m.chain).grantedTo = m.from
           THEN "OK" ELSE "NOT_PROVEN"

-----------------------------------------------------------------------------
\* Attestations, as the axis of the signatures and that of recognition see them:
\* in the first form, as of the block the policy names, whatever they are about.
VerifyAttestationSignature(m, a) ==
  IF a.signed = "malformed" THEN "NOT_PROVEN"
  ELSE IF ~m.adapter THEN "NOT_RUN"
  ELSE IF a.signed = "v1" /\ a.scope # "malformed" THEN "OK" ELSE "NOT_PROVEN"
RecognizeAttestation(m, a) ==
  LET signature == VerifyAttestationSignature(m, a)
  IN  IF signature # "OK" THEN signature
      ELSE IF ~a.trusted \/ (m.asOf # NoBlock /\ (m.asOf < a.issued \/ m.asOf > a.until)) THEN "NOT_PROVEN"
      ELSE "ATTESTED"
AttestationSignatures(m) ==
  LET of == {VerifyAttestationSignature(m, a) : a \in ToSet(m.attestations)}
  IN  IF "NOT_RUN" \in of THEN "NOT_RUN" ELSE IF "NOT_PROVEN" \in of THEN "NOT_PROVEN" ELSE "OK"
AttestationRecognition(m) ==
  LET of == {RecognizeAttestation(m, a) : a \in ToSet(m.attestations)}
  IN  IF "NOT_RUN" \in of THEN "NOT_RUN" ELSE IF "ATTESTED" \in of THEN "OK" ELSE "NOT_PROVEN"

\* A proof of revocation is about the attestation it names; while there is one,
\* what the others declare of themselves is not looked at.
RevocationStatus(m, i) == IF m.revocation # 0 THEN m.revocation = i ELSE m.attestations[i].revoked

\* The claims about the agent, one field at a time.
ValidateIdentity(m) == IF m.wellFormed THEN m.identity ELSE [f \in Fields |-> "malformed"]
DetectIdentityContradiction(m) ==
  m.kind = "STAMP" /\ m.wellFormed /\ m.sibling = "conflicts" /\ m.identity["model"] # "absent"

ScopeCovers(m, a) == IF m.kind = "STAMP" THEN a.scope = "this" ELSE a.scope = "null"
Nulls(m) == {f \in Fields : m.identity[f] = "null"}
AllNull(m) == Nulls(m) # {} /\ ~\E f \in Fields : m.identity[f] = "value"
AttestationOutcome(m, i) ==
  LET a == m.attestations[i]
  IN  IF a.subject # Declared THEN "NOT_PROVEN"
      ELSE IF a.version = "invalid" THEN "INPUT_ERROR"
      ELSE IF ~ScopeCovers(m, a) \/ ~m.adapter \/ a.signed # a.version THEN "NOT_PROVEN"
      ELSE IF ~a.trusted THEN "DECLARED"
      ELSE IF m.block # NoBlock /\ (m.block < a.issued \/ m.block > a.until) THEN "NOT_PROVEN"
      ELSE IF RevocationStatus(m, i) THEN "NOT_PROVEN"
      ELSE IF a.version = "v1" THEN "DECLARED"
      ELSE IF AllNull(m) THEN "NULL_CLAIM_FORBIDDEN"
      ELSE IF a.claims = "others" THEN "NOT_PROVEN"
      ELSE "ATTESTED_BLOCKED_BY_CAP"

\* Of several attestations the worst decides; a null that one of them vouched
\* for, or would have, is refused.
Covering(m) == {i \in DOMAIN m.attestations : m.attestations[i].type = "AGENT_IDENTITY"}
\* The best of several attestations decides.
BestOutcomeDecides(outcomes, value) ==
  IF value = "null" THEN "UNKNOWN"
  ELSE IF outcomes \cap {"DECLARED", "ATTESTED_BLOCKED_BY_CAP"} # {} THEN "DECLARED" ELSE "NOT_PROVEN"
ApplyOutcomesToField(outcomes, value) ==
  IF value = "null" /\ outcomes \cap {"NULL_CLAIM_FORBIDDEN", "ATTESTED_BLOCKED_BY_CAP"} # {} THEN "NOT_PROVEN"
  ELSE IF "INPUT_ERROR" \in outcomes THEN "INPUT_ERROR"
  ELSE IF outcomes \cap {"NOT_PROVEN", "NULL_CLAIM_FORBIDDEN"} # {} THEN "NOT_PROVEN"
  ELSE IF value = "null" THEN "UNKNOWN" ELSE "DECLARED"
Claim(m, f) ==
  LET value == ValidateIdentity(m)[f]
      base == ManifestSignature(m) = "OK" /\ DeclarerBinding(m) = "OK"
      outcomes == {AttestationOutcome(m, i) : i \in Covering(m)}
  IN  IF value = "malformed" THEN "INPUT_ERROR"
      ELSE IF (DetectIdentityContradiction(m) /\ f = "model") \/ value = "absent" THEN "UNKNOWN"
      ELSE IF value # "null" /\ ~base THEN "NOT_PROVEN"
      ELSE IF outcomes = {} THEN IF value = "null" THEN "UNKNOWN" ELSE "DECLARED"
      ELSE ApplyOutcomesToField(outcomes, value)
ResolveIdentityClaims(m) == [f \in Fields |-> Claim(m, f)]

\* The axis as a whole: an input error, then a contradiction, then the strongest
\* claim there is.
BuildIdentityVerdict(m) ==
  LET claims == {Claim(m, f) : f \in Fields}
  IN  IF Commitment(m) # "OK" THEN "NOT_EVALUATED"
      ELSE IF "INPUT_ERROR" \in claims THEN "INPUT_ERROR"
      ELSE IF DetectIdentityContradiction(m) THEN "NOT_PROVEN"
      ELSE IF "DECLARED" \in claims THEN "DECLARED"
      ELSE IF "NOT_PROVEN" \in claims THEN "NOT_PROVEN" ELSE "UNKNOWN"

-----------------------------------------------------------------------------
\* verifyProvenance: without a valid manifest there is one verdict; otherwise
\* the summary rests on six of the axes, and a chain that fails is not one of
\* the failures.
Summary(m) ==
  LET signature == ManifestSignature(m)
      approval == EvaluateContractAuthorization(m)
      declarer == DeclarerBinding(m)
      fail == "NOT_PROVEN" \in {signature, approval, EvaluateContractExecutionBinding(m), declarer, Commitment(m)}
      notRun == "NOT_RUN" \in {signature, approval, declarer, Delegation(m)}
  IN  IF fail \/ notRun THEN "FAIL_CLOSED"
      ELSE IF OnContract(m) THEN "PROVEN_AND_CONTRACT_BOUND"
      ELSE IF AttestationRecognition(m) = "OK" THEN "PROVEN_AND_ATTESTED" ELSE "PROVEN"
VerifyProvenance(m) ==
  IF ValidateManifest(m) # "valid"
  THEN [summary |-> "FAIL_CLOSED", commitment |-> "NOT_PROVEN", signature |-> Unstated, approval |-> Unstated,
        acted |-> Unstated, declarer |-> Unstated, delegation |-> Unstated, replayed |-> Unstated, recognized |-> Unstated,
        identity |-> Unstated, claims |-> [f \in Fields |-> Unstated]]
  ELSE [summary |-> Summary(m), commitment |-> Commitment(m), signature |-> ManifestSignature(m),
        approval |-> EvaluateContractAuthorization(m), acted |-> EvaluateContractExecutionBinding(m),
        declarer |-> DeclarerBinding(m), delegation |-> Delegation(m), replayed |-> AttestationSignatures(m),
        recognized |-> AttestationRecognition(m), identity |-> BuildIdentityVerdict(m),
        claims |-> IF Commitment(m) = "OK" THEN ResolveIdentityClaims(m) ELSE [f \in Fields |-> Unstated]]

Verify(m) ==
  /\ manifest = {}
  /\ manifest' = {m} /\ verified' = {VerifyProvenance(m)}
  /\ UNCHANGED shown

\* The command line: what was not run outranks what is contradicted; the badge
\* looks at the attestations first, the card at the summary.
Proven(v) == v.summary # "FAIL_CLOSED"
ExitCodeForProvenance(m, v) ==
  IF "NOT_RUN" \in {v.signature, v.approval, v.declarer, v.delegation} THEN 4
  ELSE IF m.schema = "invalid" \/ (m.schema = "valid" /\ m.id = "differs") THEN 2
  ELSE IF "NOT_PROVEN" \in {v.signature, v.approval, v.acted} THEN 2
  ELSE IF Proven(v) THEN 0 ELSE 3
Trusted(m) == IF m.executor = "HUMAN" THEN "DECLARED" ELSE "VERIFIED"
BadgeState(m, v) ==
  IF v.recognized = "OK" THEN "ATTESTED" ELSE IF Proven(v) THEN Trusted(m) ELSE "NOT_PROVEN"
ComposeIdentityCard(m, v) ==
  IF ~Proven(v) THEN "NOT_PROVEN" ELSE IF v.recognized = "OK" THEN "ATTESTED" ELSE Trusted(m)

\* It has no providers to give, so on the contract path the approval is not run.
RunVerifyProvenanceCli(m) ==
  LET asked == [m EXCEPT !.providers = "none"]
      v == VerifyProvenance(asked)
  IN  /\ shown = {} /\ (manifest = {} \/ manifest = {m})
      /\ manifest' = {m} /\ verified' = {v}
      /\ shown' = {[exit |-> ExitCodeForProvenance(asked, v), badge |-> BadgeState(asked, v),
                    card |-> ComposeIdentityCard(asked, v)]}

ProvenanceNext ==
  \/ manifest = {} /\ \E m \in Manifests : Verify(m)
  \/ \E m \in manifest : RunVerifyProvenanceCli(m)

ProvenanceSpec == ProvenanceInit /\ [][ProvenanceNext]_provenanceVars

-----------------------------------------------------------------------------
\* What is proven of an execution ties the sender to the account the manifest
\* declares: the manifest is the one of its id, the signer its envelope names
\* made the signature, and the sender is the declared account, or holds a chain
\* that begins there, breaks nowhere, is signed at every link by who hands on
\* and was open when it was used; or the declared contract approved it then and
\* is on the path of calls.  Who the named signer is stays open: the specification
\* of provenance asks that it be the sender or one of its chain, and the code
\* compares it with the account that is recovered from the signature only.
Reaches(m) ==
  \E n \in 1..Len(m.chain) :
    /\ n = Len(m.chain) /\ m.chain[n].grantedTo = m.from /\ m.chain[1].authority = Declared
    /\ \A i \in 1..n : LET l == m.chain[i] IN
         /\ l.signedBy = l.authority
         /\ i < n => l.grantedTo = m.chain[i + 1].authority
         /\ m.block # NoBlock => l.after <= m.block /\ l.revokedAt > m.block /\ (l.until = 0 \/ m.block <= l.until)
ProvenIsBound ==
  \A m \in manifest, v \in verified :
    /\ Proven(v) =>
         /\ m.schema = "valid" /\ m.id = "matches"
         /\ m.binding = "EOA" => m.recovered = m.signer /\ (m.kind = "STAMP" => m.from = Declared \/ Reaches(m))
         /\ m.binding = "EIP1271" =>
              /\ m.code = "present" /\ m.answer = "magic" /\ m.block # NoBlock
              /\ m.rule = "TRACE_CALLER" => m.path[1][1] = m.from /\ \E i \in DOMAIN m.path : m.path[i][1] = Declared
    /\ \A s \in shown : (s.exit = 0) <=> Proven(v)

\* One refusal spoils a claim: what the report repeats of an agent as declared
\* was signed for by a proven declarer, and no attestation about it is bad,
\* whatever the others say and in whatever order they come.
OneRefusalSpoilsTheClaim ==
  \A m \in manifest, v \in verified, f \in Fields :
    v.claims[f] = "DECLARED" =>
      /\ v.signature = "OK" /\ v.declarer = "OK" /\ m.identity[f] = "value"
      /\ \A i \in Covering(m) : LET a == m.attestations[i] IN
           /\ a.subject = Declared /\ a.signed = a.version
           /\ a.trusted /\ m.block # NoBlock => a.issued <= m.block /\ m.block <= a.until /\ m.revocation # i
           /\ a.trusted /\ a.version = "v2" => a.claims = "these"

\* PROVEN provenance ties the sender to the declared account or contract, and
\* one attestation that fails takes the claim it covers with it.
ProvenanceIsGrounded == ProvenIsBound /\ OneRefusalSpoilsTheClaim
=============================================================================
