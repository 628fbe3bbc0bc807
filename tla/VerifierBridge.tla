--------------------------- MODULE VerifierBridge ---------------------------
(***************************************************************************)
(* The bridge to the Python verifier, packages/verifier-c/index.js.  All   *)
(* callers share one child process that reads questions line by line and   *)
(* answers them in order; the wrapper keeps one slot, pending, for the     *)
(* promise the next line of output settles.  A question is named by the    *)
(* caller that asks it, and each caller asks once.                         *)
(***************************************************************************)
EXTENDS Sequences

CONSTANT Callers

VARIABLES
  promise,     \* of each caller: how its promise stands
  pending,     \* the callers whose promise the next answer settles: one or none
  timer,       \* the callers whose 30 second timer runs
  stdin,       \* questions the child has not read
  stdout,      \* answers the wrapper has not read
  child,       \* the process: up, or gone, which the wrapper may not know yet
  exited,      \* what the wrapper knows of it
  writable,    \* child.stdin.writable
  overlapped   \* history: callers whose question was open together with another's

bridgeVars == <<promise, pending, timer, stdin, stdout, child, exited, writable, overlapped>>

BridgeInit ==
  /\ promise = [c \in Callers |-> [state |-> "none"]]
  /\ pending = {} /\ timer = {}
  /\ stdin = <<>> /\ stdout = <<>>
  /\ child = "up" /\ exited = FALSE /\ writable = TRUE
  /\ overlapped = {}

Settle(c, outcome) == promise' = [promise EXCEPT ![c] = outcome]
OpenCallers == {c \in Callers : promise[c].state = "open"}

-----------------------------------------------------------------------------
\* request: the slot is taken, whoever had it.
SendRequest(c) ==
  /\ promise[c].state = "none"
  /\ IF exited \/ ~writable
     THEN /\ Settle(c, [state |-> "rejected"])
          /\ UNCHANGED <<pending, timer, stdin, overlapped>>
     ELSE /\ Settle(c, [state |-> "open"])
          /\ pending' = {c} /\ timer' = timer \cup {c}
          /\ stdin' = Append(stdin, c)
          /\ overlapped' = IF OpenCallers = {} THEN overlapped ELSE overlapped \cup OpenCallers \cup {c}
  /\ UNCHANGED <<stdout, child, exited, writable>>

ChildAnswers ==
  /\ child = "up" /\ stdin # <<>>
  /\ stdin' = Tail(stdin) /\ stdout' = Append(stdout, Head(stdin))
  /\ UNCHANGED <<promise, pending, timer, child, exited, writable, overlapped>>

\* It dies at any time; at the end of its input it must.
ChildDies ==
  /\ child = "up"
  /\ child' = "gone"
  /\ UNCHANGED <<promise, pending, timer, stdin, stdout, exited, writable, overlapped>>

\* The handler of stdout: a line settles whoever is pending, and stops the
\* timer of that caller; a line nobody waits for is dropped.
ReadLine ==
  /\ stdout # <<>>
  /\ stdout' = Tail(stdout)
  /\ promise' = [c \in Callers |-> IF c \in pending THEN [state |-> "answered", of |-> Head(stdout)]
                                   ELSE promise[c]]
  /\ timer' = timer \ pending
  /\ pending' = {}
  /\ UNCHANGED <<stdin, child, exited, writable, overlapped>>

\* The exit and error events reject the pending caller only.  Output may still
\* come after the event.
NoticeExit ==
  /\ child = "gone" /\ ~exited
  /\ exited' = TRUE /\ writable' = FALSE
  /\ promise' = [c \in Callers |-> IF c \in pending THEN [state |-> "rejected"] ELSE promise[c]]
  /\ timer' = timer \ pending
  /\ pending' = {}
  /\ UNCHANGED <<stdin, stdout, child, overlapped>>

\* A mutant: the slot is emptied and nobody is told.
TimeoutInSilence(c) ==
  /\ c \in timer
  /\ timer' = timer \ {c} /\ pending' = {}
  /\ UNCHANGED <<promise, stdin, stdout, child, exited, writable, overlapped>>

\* The timer of c empties the slot, whoever is in it, and rejects c; when the
\* slot is empty it does nothing.
Timeout(c) ==
  /\ c \in timer
  /\ timer' = timer \ {c} /\ pending' = {}
  /\ IF pending # {} THEN Settle(c, [state |-> "rejected"]) ELSE UNCHANGED promise
  /\ UNCHANGED <<stdin, stdout, child, exited, writable, overlapped>>

Close ==
  /\ writable
  /\ writable' = FALSE
  /\ UNCHANGED <<promise, pending, timer, stdin, stdout, child, exited, overlapped>>

BridgeNext ==
  \/ \E c \in Callers : SendRequest(c) \/ Timeout(c)
  \/ ChildAnswers \/ ChildDies \/ ReadLine \/ NoticeExit \/ Close

\* Timers fire and events are delivered; the child may hang for ever.
BridgeFairness ==
  /\ \A c \in Callers : WF_bridgeVars(Timeout(c))
  /\ WF_bridgeVars(ReadLine) /\ WF_bridgeVars(NoticeExit)

BridgeSpec == BridgeInit /\ [][BridgeNext]_bridgeVars /\ BridgeFairness

-----------------------------------------------------------------------------
\* A caller whose question is never open together with another's hears
\* something: an answer, the exit of the child or the timeout, even after
\* other callers timed out, were answered late or were cut off by the exit.
AloneIsSettled ==
  \A c \in Callers :
    promise[c].state = "open" ~> (promise[c].state # "open" \/ c \in overlapped)
=============================================================================
