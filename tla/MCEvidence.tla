----------------------------- MODULE MCEvidence -----------------------------
(***************************************************************************)
(* From an intent to evidence on record: the firewall before an execution; *)
(* the execution evidence, the three engines, the receipt verifier and the *)
(* provenance verdict after it; the contracts that keep what was found and *)
(* the programs that deploy and call one of them.  Each works on documents *)
(* handed to it or through the network, so a behaviour follows one.        *)
(***************************************************************************)
EXTENDS ExecutionEvidence, VerificationEngines, Firewall, ReceiptVerifier, Provenance,
        Registries, AnchorFlow

VARIABLE part

documentVars == <<evidenceVars, engineVars, firewallVars, receiptVars, provenanceVars>>
chainVars == <<v1Vars, v3Vars, anchorVars, flowVars>>
evidenceRunVars == <<part, documentVars, chainVars>>

EvidenceRunInit ==
  /\ part \in {"evidence", "engines", "firewall", "receipt", "provenance", "V1", "V3", "anchor", "flow"}
  /\ EvidenceInit /\ EnginesInit /\ FirewallInit /\ ReceiptInit /\ ProvenanceInit
  /\ V1Init /\ V3Init /\ AnchorInit /\ FlowInit
  /\ part = "flow" \/ ledger.contracts = {}
  /\ part = "V3" \/ feeWei = 0

\* To verify a receipt and to anchor it read the same material and nothing of each
\* other; only what guard.verify derived goes both ways.  The verdict on an anchor
\* reads the level of the material, one of its oddities.
OddOnce == AllBut(PlainMaterial, OtherMaterial, 1)
Anchorable == OddOnce \cup {Derived(m) : m \in OddOnce}
OneWay ==
  /\ derived' = {} => verdicts' = {} \/ plans' = {}
  /\ anchored' # {} => held' \subseteq Anchorable

Documents ==
  \/ part = "evidence" /\ EvidenceNext /\ UNCHANGED <<engineVars, firewallVars, receiptVars, provenanceVars>>
  \/ part = "engines" /\ EnginesNext /\ UNCHANGED <<evidenceVars, firewallVars, receiptVars, provenanceVars>>
  \/ part = "firewall" /\ FirewallNext /\ UNCHANGED <<evidenceVars, engineVars, receiptVars, provenanceVars>>
  \/ part = "receipt" /\ ReceiptNext /\ OneWay /\ UNCHANGED <<evidenceVars, engineVars, firewallVars, provenanceVars>>
  \/ part = "provenance" /\ ProvenanceNext /\ UNCHANGED <<evidenceVars, engineVars, firewallVars, receiptVars>>

Chain ==
  \/ part = "V1" /\ V1Next /\ UNCHANGED <<v3Vars, anchorVars, flowVars>>
  \/ part = "V3" /\ V3Next /\ UNCHANGED <<v1Vars, anchorVars, flowVars>>
  \/ part = "anchor" /\ AnchorNext /\ UNCHANGED <<v1Vars, v3Vars, flowVars>>
  \/ part = "flow" /\ FlowNext /\ UNCHANGED <<v1Vars, v3Vars, anchorVars>>

EvidenceRunNext ==
  /\ UNCHANGED part
  /\ \/ Documents /\ UNCHANGED chainVars
     \/ Chain /\ UNCHANGED documentVars

EvidenceRunSpec == EvidenceRunInit /\ [][EvidenceRunNext]_evidenceRunVars

\* Proof ids, signers and commitments are interchangeable.
NameSymmetry ==
  Permutations(ProofIds) \cup Permutations(Signers) \cup Permutations(Commitments)
=============================================================================
