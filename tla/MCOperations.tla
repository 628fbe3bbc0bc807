---------------------------- MODULE MCOperations ----------------------------
(***************************************************************************)
(* What the repository's own tools say and do: the verification levels,    *)
(* the integration ladder, the claims and their gate, the release of the   *)
(* packages, the push guard, the payments that its examples and scripts    *)
(* gate, send and record, and the receiver of webhooks.  They share no     *)
(* state that more than one of them writes, so a behaviour follows one.    *)
(***************************************************************************)
EXTENDS VerificationLevels, IntegrationLadder, ReleaseGate, PackageRelease, PagesSettle,
        PaymentGates, DexSwap, Pilot, WebhookReceiver

VARIABLE part

sayVars == <<levelsVars, ladderVars, gateVars>>
shipVars == <<releaseVars, pagesVars, receiverVars>>
payVars == <<gatesVars, dexVars, pilotVars>>
operationsVars == <<part, sayVars, shipVars, payVars>>

OperationsInit ==
  /\ part \in {"levels", "ladder", "gate", "release", "pages", "gates", "dex", "pilot", "receiver"}
  /\ LevelsInit /\ LadderInit /\ GateInit /\ ReleaseInit /\ PagesInit
  /\ GatesInit /\ DexInit /\ PilotInit /\ ReceiverInit
  /\ part = "gate" \/ docs.milestones = "none"
  /\ part = "pages" \/ registering = {1}
  /\ part = "dex" \/ wallet.xlm = 16000
  /\ part = "pilot" \/ chain.balance = 0
  /\ part = "receiver" \/ mode = "LIVE"

Say ==
  \/ part = "levels" /\ LevelsNext /\ UNCHANGED <<ladderVars, gateVars>>
  \/ part = "ladder" /\ LadderNext /\ UNCHANGED <<levelsVars, gateVars>>
  \/ part = "gate" /\ GateNext /\ UNCHANGED <<levelsVars, ladderVars>>

Ship ==
  \/ part = "release" /\ ReleaseNext /\ UNCHANGED <<pagesVars, receiverVars>>
  \/ part = "pages" /\ PagesNext /\ UNCHANGED <<releaseVars, receiverVars>>
  \/ part = "receiver" /\ ReceiverNext /\ UNCHANGED <<releaseVars, pagesVars>>

Pay ==
  \/ part = "gates" /\ GatesNext /\ UNCHANGED <<dexVars, pilotVars>>
  \/ part = "dex" /\ DexNext /\ UNCHANGED <<gatesVars, pilotVars>>
  \/ part = "pilot" /\ PilotNext /\ UNCHANGED <<gatesVars, dexVars>>

OperationsNext ==
  /\ UNCHANGED part
  /\ \/ Say /\ UNCHANGED <<shipVars, payVars>>
     \/ Ship /\ UNCHANGED <<sayVars, payVars>>
     \/ Pay /\ UNCHANGED <<sayVars, shipVars>>

OperationsSpec == OperationsInit /\ [][OperationsNext]_operationsVars
=============================================================================
