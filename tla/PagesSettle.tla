----------------------------- MODULE PagesSettle ----------------------------
(***************************************************************************)
(* scripts/pages-settle: the guard that its callers run before a push to   *)
(* main, so that the push does not cancel the Pages build of the commit    *)
(* before it.  Callers: the trend bot of .github/workflows/dde.yml, which  *)
(* asks twice; the pre-push hook of .githooks; somebody who runs the       *)
(* script by hand and pins nothing.  A commit of main is its place on it.  *)
(***************************************************************************)
EXTENDS Naturals

CONSTANTS
  MaxCommits,  \* bound of the model: commits of main
  MaxCalls     \* bound of the model: runs of the guard

ASSUME PagesAssumption == MaxCommits \in Nat \ {0}

VARIABLES
  branch,      \* main: the number of its last commit
  latest,      \* the latest build the builds list holds
  registering, \* the commit pushed whose build the list does not hold yet
  guards,      \* a caller's run of the guard
  calls,       \* runs started
  cancelled    \* builds a push stopped, and how that push was let through

pagesVars == <<branch, latest, registering, guards, calls, cancelled>>

Pushers == {"bot", "hook", "hand"}
NoPin == MaxCommits + 1
Unpushed == 0  \* a commit nobody else has
NoBuild == [commit |-> 0, status |-> "none", aged |-> FALSE]

PagesInit ==
  /\ branch = 1 /\ calls = 0 /\ cancelled = {}
  /\ \/ latest = NoBuild /\ registering = {1}
     \/ latest = [commit |-> 1, status |-> "built", aged |-> TRUE] /\ registering = {}
  /\ guards = [c \in Pushers |-> [pc |-> "idle"]]

-----------------------------------------------------------------------------
\* GitHub: a build is listed some time after its push, runs, and grows old.  A
\* push to main ends the build that is listed or about to be.
Register ==
  /\ \E commit \in registering : latest' = [commit |-> commit, status |-> "building", aged |-> FALSE]
  /\ registering' = {}
  /\ UNCHANGED <<branch, guards, calls, cancelled>>

BuildEnds ==
  /\ latest.status = "building"
  /\ \E status \in {"built", "errored"} : latest' = [latest EXCEPT !.status = status]
  /\ UNCHANGED <<branch, registering, guards, calls, cancelled>>

BuildAges ==
  /\ latest.status # "none" /\ ~latest.aged
  /\ latest' = [latest EXCEPT !.aged = TRUE]
  /\ UNCHANGED <<branch, registering, guards, calls, cancelled>>

-----------------------------------------------------------------------------
\* The builds list: its latest build, none, a token that cannot read it (both
\* committed callers require a site, so that a 404 is one), or no answer.
ReadLatest == {latest} \cup [commit : {0}, status : {"no read", "no answer"}, aged : {FALSE}]

\* Is the pinned commit on main?  A commit that was not pushed answers 404.
ShaOnSourceBranch(pin) == {IF pin \in 1 .. branch THEN "yes" ELSE "no", "unknown"}

Terminal(body) == body.status \in {"built", "errored"}
NeedsProbe(body, pin) ==
  pin # NoPin /\ (body.status = "none" \/ (Terminal(body) /\ body.commit # pin))

\* Mutant of Verdict: any terminal build settles, whatever is pinned.
SettlesOnAnyBuild(body, pin, reachable) ==
  IF body.status = "no read" THEN "unsettled"
  ELSE IF body.status = "no answer" THEN "settled blind"
  ELSE IF Terminal(body) /\ body.aged THEN "settled"
  ELSE "wait"

\* One turn of the loop.  With no build listed and the probe failed the guard
\* knows nothing, and settles, as it does after an error of the API.
Verdict(body, pin, reachable) ==
  IF body.status = "no read" THEN "unsettled"
  ELSE IF body.status = "no answer" THEN "settled blind"
  ELSE IF NeedsProbe(body, pin) /\ reachable = "no" THEN "settled"
  ELSE IF body.status = "none" /\ (NeedsProbe(body, pin) => reachable = "unknown") THEN "settled blind"
  ELSE IF Terminal(body) /\ body.aged /\ ~NeedsProbe(body, pin) THEN "settled"
  ELSE "wait"

-----------------------------------------------------------------------------
\* A caller sees the tip it builds on, and starts the guard.  The bot pins that
\* tip; the hook pins what git says the remote holds, which is that tip too.
Call(c) ==
  /\ guards[c].pc = "idle" /\ calls < MaxCalls
  /\ calls' = calls + 1
  /\ guards' = [guards EXCEPT ![c] =
       [pc |-> "read", base |-> branch, turn |-> 1, blind |-> FALSE,
        pin |-> IF c = "hand" THEN NoPin ELSE branch, body |-> NoBuild]]
  /\ UNCHANGED <<branch, latest, registering, cancelled>>

Read(c) ==
  /\ guards[c].pc = "read"
  /\ \E body \in ReadLatest : guards' = [guards EXCEPT ![c].body = body, ![c].pc = "probe"]
  /\ UNCHANGED <<branch, latest, registering, calls, cancelled>>

\* The branch is asked after the list was.  Out of time, waiting ends unsettled.
\* The bot commits once settled and asks again, pinned to the commit it made.
TakeTurn(c) ==
  /\ guards[c].pc = "probe"
  /\ \E reachable \in ShaOnSourceBranch(guards[c].pin) :
       LET verdict == Verdict(guards[c].body, guards[c].pin, reachable)
           settles == verdict \in {"settled", "settled blind"}
           again == c = "bot" /\ guards[c].turn = 1
           known == [guards[c] EXCEPT !.blind = @ \/ verdict = "settled blind", !.body = NoBuild]
       IN  \/ ~settles /\ guards' = [guards EXCEPT ![c] = [pc |-> "idle"]]
           \/ verdict = "wait" /\ guards' = [guards EXCEPT ![c].pc = "read", ![c].body = NoBuild]
           \/ settles /\ again /\ guards' = [guards EXCEPT ![c] = [known EXCEPT !.pc = "read", !.turn = 2, !.pin = Unpushed]]
           \/ settles /\ ~again /\ guards' = [guards EXCEPT ![c] = [known EXCEPT !.pc = "push"]]
  /\ UNCHANGED <<branch, latest, registering, calls, cancelled>>

\* A push that is not ahead of main is refused.
Push(c) ==
  /\ guards[c].pc = "push"
  /\ guards' = [guards EXCEPT ![c] = [pc |-> "idle"]]
  /\ IF guards[c].base # branch
     THEN UNCHANGED <<branch, latest, registering, cancelled>>
     ELSE /\ branch < MaxCommits
          /\ branch' = branch + 1 /\ registering' = {branch + 1}
          /\ latest' = IF latest.status = "building" THEN [latest EXCEPT !.status = "errored"] ELSE latest
          /\ cancelled' = cancelled \cup
               {[commit |-> commit, by |-> c, blind |-> guards[c].blind] :
                  commit \in registering \cup (IF latest.status = "building" THEN {latest.commit} ELSE {})}
  /\ UNCHANGED calls

PagesNext ==
  \/ Register \/ BuildEnds \/ BuildAges
  \/ \E c \in Pushers : Call(c) \/ Read(c) \/ TakeTurn(c) \/ Push(c)

PagesSpec == PagesInit /\ [][PagesNext]_pagesVars

-----------------------------------------------------------------------------
\* A push that went out behind a pinned guard which could see the queue ended
\* no build: not one that was listed, not one about to be, whoever else pushed
\* between the guard's reads and the push.
PinnedPushSparesBuilds == \A l \in cancelled : l.by = "hand" \/ l.blind
=============================================================================
