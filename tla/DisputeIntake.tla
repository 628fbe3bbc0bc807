---------------------------- MODULE DisputeIntake ----------------------------
(***************************************************************************)
(* What happens to a dispute package (ADAL/1) once it is on disk: its      *)
(* verifier, the dry run and the harness for the People's Court            *)
(* (packages/peoples-court-adapter), the escrow boundary record            *)
(* (packages/agentic-escrow-arbitration), and the reference tribunal with  *)
(* its escrow (examples/reference-tribunal).  Each tool has the verifier   *)
(* run as a process, reads the package again, and writes its files one by  *)
(* one; meanwhile the package may be made anew, and a tool may stop.  The  *)
(* hash of a file is the file.                                             *)
(***************************************************************************)
EXTENDS Naturals, Sequences, FiniteSets, Variants

CONSTANTS
  OddEntries,    \* bound of the model: how many entries of a package are odd
  MaxRuns        \* bound of the model: runs of the tool

ASSUME DisputeAssumption == {OddEntries, MaxRuns} \subseteq Nat

VARIABLES
  tool,         \* the tool that is run here
  delivered,    \* the package directory: the package and what its manifest pins
  making,       \* the package whose manifest is not written yet
  job,          \* the run: where it is, what it read, how it was asked
  out,          \* the files of the output directory that are there
  runs,         \* runs so far
  ending,       \* how the last one ended
  readers       \* what a reader of the output directory was told last

disputeVars == <<tool, delivered, making, job, out, runs, ending, readers>>

\* The package of case A, where both parties assent, and that of case B, as the
\* maker writes them; and what a package handed in may hold instead.
Made(case) ==
  [caseRef |-> case, protocol |-> "ADAL/1", synthetic |-> TRUE,
   aggregate |-> IF case = "A" THEN "FULL" ELSE "PARTIAL", partyA |-> "ASSENTED",
   partyB |-> IF case = "A" THEN "ASSENTED" ELSE "UNKNOWN", derivedFrom |-> "named",
   settlement |-> "split", actual |-> "UNKNOWN", tx |-> "well formed", network |-> "core-mainnet",
   receipt |-> "status", unknowns |-> "merits", award |-> "UNKNOWN", signed |-> "null",
   adjudicator |-> "NONE", escrow |-> "reference", adapter |-> "NOT_BUILT", consumers |-> "none",
   positions |-> "both", closure |-> "given", boundary |-> "negates", parties |-> "given"]
OddEntry ==
  [caseRef |-> {"C"}, protocol |-> {"other"}, synthetic |-> {FALSE}, aggregate |-> {"UNKNOWN", "boolean"},
   partyA |-> {"UNKNOWN", "other"}, partyB |-> {"NOT_ASSENTED", "other"}, derivedFrom |-> {"empty", "missing"},
   settlement |-> {"boolean", "missing"}, actual |-> {"SETTLED"}, tx |-> {"malformed"}, network |-> {"other"},
   receipt |-> {"missing"}, unknowns |-> {"others", "missing"}, award |-> {"DECIDED"}, signed |-> {"text"},
   adjudicator |-> {"CoreGuard"}, escrow |-> {"deployed"}, adapter |-> {"BUILT"}, consumers |-> {"one"},
   positions |-> {"one"}, closure |-> {"missing"}, boundary |-> {"affirms"}, parties |-> {"missing", "malformed"}]
Cases == {"A", "B"}
Packages == UNION {AllBut(Made(c), OddEntry, OddEntries) : c \in Cases}

\* What the directory may be given later: a package made anew, or one in which
\* an adjudicator has filled the award.
Decided == [Made("A") EXCEPT !.award = "DECIDED", !.signed = "text", !.adjudicator = "court"]
Later == {Made(c) : c \in Cases} \cup {Decided}

\* A manifest pins a package, or is silent about it, or says it leaves it out.
Silent == [pins |-> "nothing"]
LeavesOut == [pins |-> "nothing, and says so"]
Pinned(m) == m \notin {Silent, LeavesOut}

Nothing == [kind |-> "nothing"]
Idle == [step |-> "idle", pkg |-> Nothing, revision |-> Nothing, ask |-> "plain", written |-> 0]

Files ==
  [dry |-> <<"expected-request", "expected-response", "adapter-report">>,
   harness |-> <<"packet", "digest", "ledger", "events-log", "report", "harness-hashes">>,
   aea1 |-> <<"boundary", "escrow-interface", "aea1-report", "aea1-hashes">>,
   tribunal |-> <<"award", "settlement">>]
Tools == DOMAIN Files

DisputeInit ==
  /\ tool = "none" /\ delivered = [pkg |-> Nothing, manifest |-> Silent]
  /\ making = Nothing /\ job = Idle /\ out = <<>> /\ runs = 0 /\ ending = "none" /\ readers = {}

-----------------------------------------------------------------------------
\* verify-dispute-package: the pin, then the nine groups of checks.
VerifyDisputePackage(d) ==
  LET p == d.pkg
  IN  /\ IF Pinned(d.manifest) THEN d.manifest = p ELSE d.manifest = LeavesOut
      /\ p.protocol = "ADAL/1" /\ p.caseRef \in Cases /\ p.synthetic
      /\ p.aggregate # "boolean" /\ p.derivedFrom = "named" /\ p.settlement = "split"
      /\ p.tx = "well formed" /\ p.unknowns = "merits"
      /\ p.award = "UNKNOWN" /\ p.signed = "null" /\ p.adjudicator = "NONE"
      /\ p.escrow = "reference" /\ p.adapter = "NOT_BUILT" /\ p.consumers = "none"
      /\ p.positions = "both" /\ p.closure = "given" /\ p.boundary = "negates"

\* Labels of a package that relies on the verifier for the award.
TrustsTheVerifier(p) ==
  /\ p.protocol = "ADAL/1" /\ p.aggregate # "boolean" /\ "other" \notin {p.partyA, p.partyB}
  /\ p.network = "core-mainnet" /\ p.tx = "well formed" /\ p.receipt = "status"
  /\ p.settlement = "split" /\ p.parties # "missing" /\ p.escrow = "reference"

\* deriveLabels: every label can be given.
DeriveLabels(p) ==
  /\ p.protocol = "ADAL/1"
  /\ p.aggregate # "boolean" /\ "other" \notin {p.partyA, p.partyB} /\ p.derivedFrom # "missing"
  /\ p.network = "core-mainnet" /\ p.tx = "well formed" /\ p.receipt = "status"
  /\ p.settlement = "split" /\ p.unknowns # "missing"
  /\ p.award = "UNKNOWN" /\ p.signed = "null" /\ p.adjudicator = "NONE"
  /\ p.parties # "missing" /\ p.escrow = "reference"

\* The schemas of the four mappings: a revision, and addresses of the parties.
ValidateMappings(p, revision) == Pinned(revision) /\ p.parties = "given"

\* adjudicate: of the scenarios only A leads to an award.
Adjudicate(scenario, p) ==
  /\ scenario = "plain"
  /\ p.aggregate # "boolean" /\ p.partyA = "ASSENTED" /\ p.partyB = "ASSENTED"
  /\ p.settlement = "split" /\ p.actual = "UNKNOWN"
  /\ p.award = "UNKNOWN" /\ p.adjudicator = "NONE" /\ p.escrow = "reference" /\ p.adapter = "NOT_BUILT"

\* What is in the way after the package was loaded; the harness builds its
\* packet on the revision and refuses a feed with a tampered event, not one
\* with a gap.
Proceeds(t, p, revision, ask) ==
  CASE t = "dry"      -> DeriveLabels(p) /\ ValidateMappings(p, revision)
    [] t = "harness"  -> DeriveLabels(p) /\ Pinned(revision) /\ ask # "tampered feed"
    [] t = "aea1"     -> Pinned(revision)
    [] t = "tribunal" -> Adjudicate(ask, p)

-----------------------------------------------------------------------------
\* A package is delivered, with its manifest or another, for one of the tools.
HandOver ==
  /\ tool = "none" /\ tool' \in Tools
  /\ \E p \in Packages, m \in {Made("A"), Silent, LeavesOut} :
       delivered' \in {[pkg |-> p, manifest |-> p], [pkg |-> p, manifest |-> m]}
  /\ UNCHANGED <<making, job, out, runs, ending, readers>>

\* Later another one: as make-dispute-package does, first the package and then
\* the manifest.
MakePackage(p) ==
  /\ tool # "none" /\ making = Nothing /\ delivered.pkg # p
  /\ making' = p /\ delivered' = [delivered EXCEPT !.pkg = p]
  /\ UNCHANGED <<tool, job, out, runs, ending, readers>>
MakeManifest ==
  /\ making # Nothing
  /\ delivered' = [delivered EXCEPT !.manifest = making] /\ making' = Nothing
  /\ UNCHANGED <<tool, job, out, runs, ending, readers>>

\* The two command lines refuse a directory with files they do not know; the
\* other two write where they are told.
KnownFiles(t) == IF t = "dry" THEN {"expected-request", "expected-response", "adapter-report"}
                 ELSE {"packet", "digest", "ledger", "events-log", "report"}
RefusesDirectory(t) == t \in {"dry", "harness"} /\ ~(DOMAIN out \subseteq KnownFiles(t))
Asks(t) == CASE t = "harness" -> {"plain", "tampered feed", "feed with a gap"}
             [] t = "tribunal" -> {"plain", "scenario B"}
             [] OTHER -> {"plain"}

Start(ask) ==
  /\ job = Idle /\ runs < MaxRuns
  /\ runs' = runs + 1
  /\ IF RefusesDirectory(tool)
     THEN ending' = "foreign files" /\ UNCHANGED job
     ELSE ending' = "none" /\ job' = [Idle EXCEPT !.step = "verify", !.ask = ask]
  /\ UNCHANGED <<tool, delivered, making, out, readers>>

EndWith(outcome) == job' = Idle /\ ending' = outcome

Verify ==
  /\ job.step = "verify"
  /\ IF VerifyDisputePackage(delivered) THEN job' = [job EXCEPT !.step = "load"] /\ UNCHANGED ending
     ELSE EndWith("failed at verify")
  /\ UNCHANGED <<tool, delivered, making, out, runs, readers>>

\* The package is read again, not handed over by the verifier, and then the
\* manifest: loadPackage of the adapter, and the same in the other two.
LoadPackage ==
  /\ job.step = "load"
  /\ job' = [job EXCEPT !.step = "pin", !.pkg = delivered.pkg]
  /\ UNCHANGED <<tool, delivered, making, out, runs, ending, readers>>
LoadManifest ==
  /\ job.step = "pin"
  /\ LET revision == delivered.manifest
     IN  IF Proceeds(tool, job.pkg, revision, job.ask)
         THEN job' = [job EXCEPT !.step = "write", !.revision = revision] /\ UNCHANGED ending
         ELSE EndWith("failed")
  /\ UNCHANGED <<tool, delivered, making, out, runs, readers>>

\* What the signature of an award is made over.
Signed(a) == [of |-> a.of, case |-> a.case]

\* Mutant of Content: the settlement is stamped with the revision that is
\* delivered when it is written.
StampsLate(file, j) ==
  IF file = "settlement" THEN [of |-> delivered.manifest, award |-> [of |-> j.revision, case |-> j.pkg.caseRef]]
  ELSE IF file = "aea1-hashes" THEN out
  ELSE [of |-> j.revision, case |-> j.pkg.caseRef, from |-> j.pkg]
\* One file: of what was loaded; the settlement quotes the signature of the
\* award it was made with, the hashes what is in the directory when they are
\* made.  The package a file was written from is remembered beside it.
Content(file, j) ==
  CASE file = "settlement"  -> [of |-> j.revision, award |-> [of |-> j.revision, case |-> j.pkg.caseRef]]
    [] file = "aea1-hashes" -> [f \in {"boundary", "escrow-interface", "aea1-report"} |-> out[f]]
    [] file = "escrow-interface" -> Nothing
    [] file = "boundary"    -> [of |-> j.revision, case |-> j.pkg.caseRef]
    [] file = "aea1-report" -> [of |-> j.revision]
    [] OTHER                -> [of |-> j.revision, case |-> j.pkg.caseRef, from |-> j.pkg]
WriteFile ==
  LET file == Files[tool][job.written + 1]
  IN  /\ job.step = "write"
      /\ out' = [f \in DOMAIN out \cup {file} |-> IF f = file THEN Content(file, job) ELSE out[f]]
      /\ IF job.written + 1 = Len(Files[tool]) THEN EndWith("ready")
         ELSE job' = [job EXCEPT !.written = @ + 1] /\ UNCHANGED ending
      /\ UNCHANGED <<tool, delivered, making, runs, readers>>

\* The tool may stop between any two of its steps.
Stop ==
  /\ job # Idle
  /\ EndWith("stopped")
  /\ UNCHANGED <<tool, delivered, making, out, runs, readers>>

\* verifyAea1 reads the hashes and what they name; without hashes or boundary
\* it throws.
VerifyAea1(o) == \A f \in DOMAIN o["aea1-hashes"] : f \in DOMAIN o /\ o[f] = o["aea1-hashes"][f]
ReadAea1 ==
  /\ tool = "aea1" /\ {"aea1-hashes", "boundary"} \subseteq DOMAIN out
  /\ readers' = {[accepted |-> VerifyAea1(out), files |-> out]}
  /\ UNCHANGED <<tool, delivered, making, job, out, runs, ending>>

\* The escrow executes a settlement that quotes the signature of the award that
\* is presented.
ExecuteSettlement(o) == o["settlement"].award = Signed(o["award"])
Execute ==
  /\ tool = "tribunal" /\ {"award", "settlement"} \subseteq DOMAIN out
  /\ readers' = {[accepted |-> ExecuteSettlement(out), files |-> out]}
  /\ UNCHANGED <<tool, delivered, making, job, out, runs, ending>>

DisputeNext ==
  \/ HandOver
  \/ \E p \in Later : MakePackage(p)
  \/ MakeManifest
  \/ tool # "none" /\ \E a \in Asks(tool) : Start(a)
  \/ Verify \/ LoadPackage \/ LoadManifest \/ WriteFile \/ Stop
  \/ ReadAea1 \/ Execute

DisputeSpec == DisputeInit /\ [][DisputeNext]_disputeVars

-----------------------------------------------------------------------------
\* No output prefills the award: what the dry run, the harness or the tribunal
\* writes comes from a package whose award is open and whose escrow is only a
\* reference, and the tribunal's from one both parties assent to, whatever
\* became of the directory after the verifier looked at it.
ReadyIsUnadjudicated ==
  tool # "aea1" =>
    \A f \in DOMAIN out \ {"settlement"} : LET p == out[f].from IN
      /\ p.award = "UNKNOWN" /\ p.adjudicator = "NONE" /\ p.escrow = "reference" /\ p.settlement = "split"
      /\ tool = "tribunal" => {p.partyA, p.partyB} = {"ASSENTED"}
      /\ tool # "tribunal" => p.signed = "null" /\ p.aggregate # "boolean"

\* Half a directory misleads nobody: a reader accepts files of one package
\* only, though the writer stopped between them and wrote others before.
HalfWrittenIsRefused ==
  \A r \in readers : r.accepted =>
    /\ tool = "aea1" => /\ DOMAIN r.files = {"boundary", "escrow-interface", "aea1-report", "aea1-hashes"}
                        /\ r.files["boundary"].of = r.files["aea1-report"].of
    /\ tool = "tribunal" => r.files["settlement"].of = r.files["award"].of
=============================================================================
