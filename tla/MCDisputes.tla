----------------------------- MODULE MCDisputes -----------------------------
(***************************************************************************)
(* A paid piece of work: the job with its costs, payments and escrow, the  *)
(* service its delivery is submitted to and the conformance checks, and    *)
(* the intake of a dispute about it.  They meet only in the documents they *)
(* hand on, so a behaviour follows one of them.                            *)
(***************************************************************************)
EXTENDS JobFlow, DeliveryEndpoint, DeliveryEvidence, DisputeIntake, TLC

CONSTANTS c1, c2
VARIABLE part

\* Two challenges of different prices, so that mixing them up shows.
TwoPrices == (c1 :> 1) @@ (c2 :> 2)

disputesVars == <<part, paidVars, endpointVars, deliveryVars, disputeVars>>

DisputesInit ==
  /\ part \in {"job", "endpoint", "delivery", "intake"}
  /\ PaidInit /\ EndpointInit /\ DeliveryInit /\ DisputeInit
  /\ part = "job" \/ mode = "LIVE"

DisputesNext ==
  /\ UNCHANGED part
  /\ \/ part = "job" /\ PaidNext /\ UNCHANGED <<endpointVars, deliveryVars, disputeVars>>
     \/ part = "endpoint" /\ EndpointNext /\ UNCHANGED <<paidVars, deliveryVars, disputeVars>>
     \/ part = "delivery" /\ DeliveryNext /\ UNCHANGED <<paidVars, endpointVars, disputeVars>>
     \/ part = "intake" /\ DisputeNext /\ UNCHANGED <<paidVars, endpointVars, deliveryVars>>

DisputesSpec == DisputesInit /\ [][DisputesNext]_disputesVars

\* Reservations are interchangeable.
ReservationSymmetry == Permutations(Reservations)
=============================================================================
