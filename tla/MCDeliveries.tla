---------------------------- MODULE MCDeliveries ----------------------------
(***************************************************************************)
(* The parts that must come to an end whatever others do: the recovery     *)
(* engine with its providers and restarts, the consumer of the dispute     *)
(* feed and the bridge to the Python verifier.  They share no state, so a  *)
(* behaviour follows one of them.                                          *)
(***************************************************************************)
EXTENDS MCRecoveryDriver, WebhookConsumer, VerifierBridge

VARIABLE part

deliveriesVars == <<part, driverVars, consumerVars, bridgeVars>>

DeliveriesInit ==
  /\ part \in {"driver", "consumer", "bridge"}
  /\ DriverInit /\ ConsumerInit /\ BridgeInit

DeliveriesNext ==
  \/ part = "driver" /\ DriverNext /\ UNCHANGED <<part, consumerVars, bridgeVars>>
  \/ part = "consumer" /\ ConsumerNext /\ UNCHANGED <<part, driverVars, bridgeVars>>
  \/ part = "bridge" /\ BridgeNext /\ UNCHANGED <<part, driverVars, consumerVars>>

\* The fairness each part states for itself, in the behaviours of that part.
Works == WF_driverVars(part = "driver" /\ Work) /\ WF_driverVars(part = "driver" /\ Restart)
Redelivers == \A e \in Events : WF_consumerVars(part = "consumer" /\ ConsumeEvent(e, "MATCH"))
TimesOut ==
  /\ \A c \in Callers : WF_bridgeVars(part = "bridge" /\ Timeout(c))
  /\ WF_bridgeVars(part = "bridge" /\ ReadLine) /\ WF_bridgeVars(part = "bridge" /\ NoticeExit)

DeliveriesSpec ==
  DeliveriesInit /\ [][DeliveriesNext]_deliveriesVars /\ Works /\ Redelivers /\ TimesOut

-----------------------------------------------------------------------------
\* EventuallyDecided, of the behaviours of the recovery engine: unless its journal
\* is torn, a run that is started again whenever it dies comes to a verdict.
RunDecides == part = "driver" => EventuallyDecided

\* InOrderCompletes, of the behaviours of the consumer: as long as nothing came
\* out of order, every event is applied.
FeedCompletes == part = "consumer" => InOrderCompletes
=============================================================================
