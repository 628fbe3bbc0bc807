----------------------------- MODULE Registries -----------------------------
(***************************************************************************)
(* The contracts that keep evidence, side by side: the first registry, the *)
(* third, which the second is part of, and the Soroban anchor.  They share *)
(* nothing and promise the same.                                           *)
(***************************************************************************)
EXTENDS EvidenceRegistryV1, EvidenceRegistryV3, CommitmentAnchor

RegistriesSpec == V1Spec /\ V3Spec /\ AnchorSpec

\* What a contract stored is never rewritten: on the one mapping of the first
\* registry, where proofs and intents meet; under the intent ids and, once a
\* receipt is named, the proof ids of the later ones; and in the Soroban anchor.
RecordsAreWriteOnce ==
  V1IsWriteOnce /\ IntentsAreWriteOnce /\ ReceiptsAreFinal /\ AnchorIsWriteOnce
=============================================================================
