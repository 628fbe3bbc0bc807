--------------------------- MODULE PackageRelease ---------------------------
(***************************************************************************)
(* scripts/publish-check and scripts/release-please: the check of the      *)
(* packages that npm would ship, and the publishing of them in dependency  *)
(* order.  Three of the thirteen packages stand for all; a package's files *)
(* are the entry point its exports name and one file that it imports.      *)
(***************************************************************************)
EXTENDS Naturals, Sequences, FiniteSets, SequencesExt

CONSTANTS
  MaxReleases, \* bound of the model: runs of release-please
  MaxVersion   \* bound of the model: the version every package is bumped to

VARIABLES
  tree,        \* the packages of the checkout a run works on
  registry,    \* what npm holds: a package, its version, what was packed
  release      \* the run of release-please

releaseVars == <<tree, registry, release>>

PackageOrder == <<"canonical", "evm", "provenance">>
Packages == Range(PackageOrder)

\* A package as its directory is: what npm packs of it, what its shipped code
\* imports by path, and the packages it imports and declares.
Sound(p) ==
  [named |-> p, private |-> FALSE, packs |-> {"index.js", "part.js"}, exports |-> "index.js",
   paths |-> "part.js", version |-> 1,
   imports |-> CASE p = "canonical" -> {} [] p = "evm" -> {"canonical"} [] OTHER -> {"canonical", "evm"},
   declares |-> CASE p = "canonical" -> {} [] p = "evm" -> {"canonical"} [] OTHER -> {"canonical", "evm"}]
Slips ==
  [named |-> {"elsewhere"}, private |-> {TRUE}, packs |-> {{}, {"index.js"}, {"part.js"}},
   exports |-> {"missing.js"}, paths |-> {"outside", "sibling"},
   imports |-> {{"canonical"}, {}}, declares |-> {{}, {"canonical", "outsider"}}]

ReleaseInit ==
  /\ tree = [p \in Packages |-> Sound(p)] /\ registry = {}
  /\ release = [pc |-> "idle", count |-> 0]

-----------------------------------------------------------------------------
\* The four checks of a package.  A path that leaves the package is one that
\* does not begin with the package's directory: "sibling" is packages/evm-x for
\* packages/evm, and begins so.
FilesCovered(k) == k.packs # {} /\ k.exports \in k.packs
NoEscapes(k) == "index.js" \in k.packs => k.paths # "outside"
ImportsOf(k) == IF k.packs = {} THEN {} ELSE k.imports
DependencyTruth(k) == ImportsOf(k) = k.declares

\* Packed with all it depends on and installed: npm finds every declared package
\* among the tarballs, and every entry point imports.
Closed(ks, S) == \A q \in S : ks[q].declares \cap Packages \subseteq S
Closure(ks, p) == {q \in Packages : \A S \in SUBSET Packages : p \in S /\ Closed(ks, S) => q \in S}
Imports(ks, p) ==
  /\ ks[p].exports \in ks[p].packs
  /\ ks[p].exports = "index.js" => ks[p].paths \in ks[p].packs
InstallParity(ks, p) ==
  /\ \A q \in Closure(ks, p) : ks[q].named = q /\ ks[q].declares \subseteq Packages
  /\ \A q \in Closure(ks, p) : Imports(ks, q) /\ ks[q].imports \subseteq Closure(ks, p)

\* Mutant of Publishable: installing is left to those who install.
PublishableUnprobed(ks, p) ==
  LET k == ks[p]
  IN  k.named = p /\ ~k.private /\ FilesCovered(k) /\ NoEscapes(k) /\ DependencyTruth(k)

Publishable(ks, p) ==
  LET k == ks[p]
  IN  /\ k.named = p /\ ~k.private /\ FilesCovered(k) /\ NoEscapes(k) /\ DependencyTruth(k)
      /\ InstallParity(ks, p)

PublishCheck(ks) == \A p \in Packages : Publishable(ks, p)

-----------------------------------------------------------------------------
\* The owner, between two runs: a bump of every version, or one slip of one package.
EditTree ==
  /\ release.pc = "idle"
  /\ \/ \E p \in Packages, f \in DOMAIN Slips : \E slip \in Slips[f] :
          tree' = [q \in Packages |-> IF q = p THEN [Sound(q) EXCEPT ![f] = slip, !.version = tree[q].version]
                                               ELSE [Sound(q) EXCEPT !.version = tree[q].version]]
     \/ /\ \A p \in Packages : tree[p].version < MaxVersion
        /\ tree' = [p \in Packages |-> [tree[p] EXCEPT !.version = @ + 1]]
     \/ tree' = [p \in Packages |-> [Sound(p) EXCEPT !.version = tree[p].version]]
  /\ UNCHANGED <<registry, release>>

\* The gates: a credential, the check of all packages, and the end of a dry run.
StartRelease(token, dryRun) ==
  /\ release.pc = "idle" /\ release.count < MaxReleases
  /\ release' = IF token /\ ~dryRun /\ PublishCheck(tree)
                THEN [pc |-> "publish", next |-> 1, count |-> release.count + 1]
                ELSE [pc |-> "idle", count |-> release.count + 1]
  /\ UNCHANGED <<tree, registry>>

Stop == release' = [pc |-> "idle", count |-> release.count]
Released(p) == [named |-> tree[p].named, version |-> tree[p].version, packed |-> tree[p]]
Taken(p) == \E r \in registry : r.named = tree[p].named /\ r.version = tree[p].version

\* Mutant of Continue: a failed publish does not stop the ones after it.
ContinueAnyway(succeeded) ==
  release' = IF release.next < Len(PackageOrder) THEN [release EXCEPT !.next = @ + 1]
                                                 ELSE [pc |-> "idle", count |-> release.count]

Continue(succeeded) ==
  IF succeeded /\ release.next < Len(PackageOrder) THEN release' = [release EXCEPT !.next = @ + 1] ELSE Stop

\* npm refuses a version it holds; otherwise it publishes, or fails, or publishes
\* and its answer is lost.
Publish ==
  /\ release.pc = "publish"
  /\ \E takes \in BOOLEAN, succeeded \in BOOLEAN :
       /\ takes => ~Taken(PackageOrder[release.next])
       /\ succeeded => takes
       /\ registry' = IF takes THEN registry \cup {Released(PackageOrder[release.next])} ELSE registry
       /\ Continue(succeeded)
  /\ UNCHANGED tree

Killed == release.pc = "publish" /\ Stop /\ UNCHANGED <<tree, registry>>

ReleaseNext ==
  EditTree \/ Publish \/ Killed \/ \E token \in BOOLEAN, dryRun \in BOOLEAN : StartRelease(token, dryRun)

ReleaseSpec == ReleaseInit /\ [][ReleaseNext]_releaseVars

-----------------------------------------------------------------------------
\* Whoever installs a package from npm at any moment, whether a release is half
\* done, was killed or lost an answer, finds all that its code imports, of a
\* version no older, and an entry point that loads.
RegistryInstalls ==
  \A r \in registry :
    /\ ~r.packed.private /\ Imports([p \in {r.named} |-> r.packed], r.named)
    /\ \A q \in r.packed.imports : \E s \in registry : s.named = q /\ s.version >= r.version
=============================================================================
