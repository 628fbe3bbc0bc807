# CoreGuard in TLA+

TLA+ specifications of this repository's code, the TLC configurations that check
them on small instances, and TLAPS proofs, for instances of any size, of every
safety property that those configurations find to hold. Every definition follows the
code under `src/` (written below without that prefix); `PROJECT.json` maps each
one to the lines it models.

## 1. Inventory of the system

CoreGuard decides whether an agent may act, lets it pay, and leaves evidence of
what happened that others can verify.

### Before an execution

| component | state | operations | correct means |
|---|---|---|---|
| firewall, `packages/firewall` | decision, review and annotation records | decideFirewall, resolveReview, annotateConformance | ALLOW only when binding, authority, policy and simulation all allow; a review releases its own parent only |
| verification engines, `packages/sdk/verify-binding.js` (A), `packages/independent-verifier` (B), `packages/verifier-c` (C), `packages/consensus` | one result per engine | verify, combine | BOUND only of what its signer, or its wallet, authorised |
| bridge to engine C, `packages/verifier-c/index.js` | a child process, one pending slot, timers | sendRequest, close | a caller that asks alone hears something |
| budget ledger, `packages/budget/ledger.mjs` | jobs, scopes, reservations | openJob, openScope, reserve, commit, release, meter, hold, disposition | no job passes its ceiling at any depth of sub-agents; totals equal the reservations; escrow loses no cent |
| x402 harness, `packages/x402/index.mjs` | Map challenge → reservation, metrics | sign, settle | every live payment is backed by a reservation; what is committed was settled |
| acceptance and job flow, `packages/acceptance`, `packages/job-integration` | the ledger's job | createJobFlow, deliver | escrow moves only on a verdict and the right way |
| payment gates, `packages/stellar`, `packages/stellar-agent` and the packages built on them | none | gateSwap, gatePathPayment, gateProvideLiquidity, verifyAgentPayment, checks of an execution | a payment that conforms to an allowed one breaks no rule |

### What happened

| component | state | operations | correct means |
|---|---|---|---|
| execution evidence, `packages/execution` | what was read, an attestation | verifyExecutionEvidence, buildExecutionAttestation, verifyExecutionAttestation | VERIFIED only of a transaction that was read whole, at one pin, and is the one decided on |
| receipts, `packages/verifier`, `policy`, `replay`, `evidence`, `packages/sdk/guard.js`, `scripts/anchor-verdict.mjs` | none | derive, verify, bind to the chain, judge an anchor | VERIFIED only of what the receipt commits to; a check that did not run is not passed |
| provenance, `packages/provenance` | none | verify manifest, delegation chain, attestations | PROVEN only of what the declared account sent, or what its wallet approved |
| recovery engine, `packages/recovery` | a journal file, a process | declareSendIntent, recordSendResult, recordReceiptRead, markReconstruction, resolveVerdict, runRecovery | the journal is true at any crash; no second send after a journaled hash; a verdict in the end |
| registries, `contracts/*.sol` | mappings on chain, a treasury | commitIntent, anchorProof, withdrawTreasury | write-once; proofs follow intents and authorizations; the recorded treasury is the money |
| Soroban anchor, `soroban/commitment-anchor`; its callers `packages/stellar-soroban`, `scripts/*soroban*` | storage on chain; transactions of one account, files | commit, assert_anchored; deploy, invoke, record | the first write wins, everybody is told the same; what is reported as anchored is |
| webhook receiver, `packages/webhook` | a bounded Map of keys | handle, reset | the Map holds the latest keys, oldest forgotten first |
| feed consumer, `packages/peoples-court-adapter/webhook-consumer.mjs` | cursor, acks | consumeEvent | what is applied is 1, 2, 3, ... without gaps |

### Delivery and dispute

| component | state | operations | correct means |
|---|---|---|---|
| delivery evidence, `packages/delivery` | none | gate over ten records, release, projection | a release rests on records that hold; every defect is named |
| delivery service, `packages/delivery/http.js` | the limiter's buckets, requests being read | the request handler, the limiter and its sweep | less than twice the limit within the time of one window |
| dispute package, `examples/*` and `packages/peoples-court-adapter`, `agentic-escrow-arbitration` | directories of files | verify, dry run, harness, boundary record, tribunal, escrow | no output prefills the award; files of two runs are not taken for one |

### The repository's own tools

| component | state | operations | correct means |
|---|---|---|---|
| verification levels, `scripts/ladder/verification-levels.mjs` | none | L1, replay, Merkle proofs | a yes is a whole yes |
| integration ladder, `scripts/ladder` | an integration's state and evidence | evaluateTransition, evaluateConformance, level | authority only through the facts it asks for |
| claims, release gate, pre-push check, `scripts` | registry and artifact files | build, audit, gate, check | green only on what the sources say now |
| package release, `scripts/publish-check.mjs`, `release-please.mjs` | checkout, npm | check, publish | what is on npm installs at any moment |
| Pages guard, `scripts/pages-settle.mjs` | none; the queue of builds is GitHub's | settle | a pinned push ends no build |
| DEX swap, `scripts/stellar-dex-*` | a wallet on chain, an artifact | discover, gate, swap, verify | CONFIRMED only of a swap that happened as recorded |
| pilot, `examples/pilot` | artifacts, one account on chain | declare, preflight, staged, run, capture | one staging pays at most once |

How they interact. The harness is given a ledger and a job (and maybe a scope)
and calls `reserve`, `commit` and `release` on it; a job flow opens its job on
a ledger, spends on it, and settles its escrow by the verdict of
`evaluateAcceptance`, one check of which reads the ledger back. The recovery
engine talks to the network only through the callbacks `broadcast` and
`readReceiptByTxHash`. V3 is V2 with a commission, and a withdrawal calls an
address outside, which may call back. The anchor's callers meet it over the
network, and each other only through it and the file one leaves to the other.
The gates, engines and verdicts hand records on; each recomputes what it is
given. The dispute tools have another process verify a directory, then read it
again themselves.

What is hard. Draws of sub-agents on one ceiling in any order; calls in an order
nobody wrote down (double release, hold after spending, settling twice);
crashes between a send and its record, and in the middle of a file write; a
chain that changes forks between two reads; receipts of before and after a
restart, from providers that disagree; at-least-once delivery, reordering, a
full Map; one slot shared by several callers with timeouts; a directory that
changes between its verification and its use; decisions over many inputs where
two unusual ones together escape. `PROJECT.json` lists these hazards at their
lines with the properties about them.

## 2. Modules

| module | models |
|---|---|
| `BudgetLedger` | the ledger, one action per method; sums of amounts; the mapping to `SpendAuthority` |
| `SpendAuthority` | what the ledger promises: purses between which money moves |
| `X402Harness`, `JobFlow` | payments; job flow and verdict, with the payments on the same ledger |
| `RecoveryRun`, `RecoveryDriver` | the journal and the methods of a run; `runRecovery`, crashes, restarts, the network |
| `WriteOnce` | what a registry promises: an id gets one value and keeps it |
| `EvidenceRegistryV1`, `V2`, `V3`, `CommitmentAnchor` | the contracts |
| `Registries` | V1, V3 and the anchor side by side, and what none of them does |
| `AnchorFlow` | the programs that deploy and call the Soroban anchor, and the network between |
| `WebhookReceiver`, `WebhookConsumer`, `VerifierBridge` | the two webhook parts; the bridge to engine C |
| `Firewall`, `VerificationEngines`, `ExecutionEvidence`, `ReceiptVerifier`, `Provenance` | the decisions of section 1 |
| `DeliveryEvidence`, `DeliveryEndpoint`, `DisputeIntake` | delivery gate, HTTP service, dispute tools |
| `VerificationLevels`, `IntegrationLadder`, `ReleaseGate`, `PackageRelease`, `PagesSettle`, `PaymentGates`, `DexSwap`, `Pilot` | the tools and the gates |
| `Variants` | records that differ from a plain one in at most n fields, and the lemma on the values of their fields |
| `MC*` | the compositions TLC checks, values and symmetry sets |
| `*Proofs` | the proofs |

Conventions.

* A call the code refuses, or that throws or reverts without an effect, is a
  stuttering step; the model has the guard of the call that succeeds.
* A synchronous JavaScript method and an EVM call are one action, unless it
  calls out in the middle: `withdrawTreasury` is split at its external call,
  programs at each `await` behind which others can act, file writers at each
  file.
* Identifiers, digests and payloads are members of small sets; a digest is the
  thing hashed, a signature the membership of its digest in a set of approved
  ones. A value that a pure function compares is named by how it compares
  ("other", "missing", "expired").
* A document is a plain record in which at most n fields are odd, every choice
  of them (`Variants`). A decision that is wrong for a combination of n unusual
  inputs is found; the product of all values is not needed.
* A chain of early returns is IF, ELSE IF in the code's order; the arms of a
  CASE exclude each other.
* Operators introduced as "Mutant of X" are X with a plausible mistake. No
  specification uses them; each shows that a property notices that mistake.
* Bounds that exist only in the models are declared as "bound of the model".
* Variables that only remember (what was proven for an integration and which
  resumed, which results a badge rests on, what each client was let through) are
  read by properties, never by a guard.

The four composed modules (`MCEvidence`, `MCDisputes`, `MCDeliveries`,
`MCOperations`) put parts next to each other that share no state; a variable
`part`, chosen at the start, says which one a behaviour follows. What a property
says of a part is thus checked on all that part's behaviours, and nothing is
gained or lost by the others. Parts that do share state are composed for real:
`JobFlow` (one ledger), `RecoveryDriver` (the journal), `EvidenceRegistryV3`
(over V2), `AnchorFlow` (two programs, one account).

### Notes on single models

**Ledger.** A scope is named by its job and its own id. A draw of a scope is
recorded three times (the reservation, the scope's totals, the job's totals), a
share twice (the scope, its parent). Every guard reads one record; the
properties relate them. In the mapping to purses a scope's draws leave its own
purse only; `jobAvailable` takes them off the job as well, so the code's guard is
narrower than the purse, never wider.

**Paid job.** The flow's other spending may use any reservation but the
harness's. `settle` asks for no live reservation, so a challenge may be settled
without one and what is committed is only bounded by what was settled.

**Recovery.** `journal` is the entries in memory and in the file, as `push`
persists before it returns; `torn` says that a crash interrupted the in-place
overwrite of the file, after which every start throws. The network's variables
survive crashes. A broadcast may fail with or without having sent. An honest
provider reports what the chain holds or fails, any other says anything. A
restart may come with other calldata.

**Contracts.** Other deployments of the same contract exist in the model as the
authorizations made for them. In V3 `calls` is the stack of open withdrawals:
while it is not empty only the innermost callee acts, and a failing call
restores the snapshot taken when it began.

**Anchor flow.** Transactions of one account are applied in the order of their
sequence numbers, later or never. A program that gives up on one may see it
applied afterwards.

**Execution evidence, engines.** A provider is asked once per item; between two
answers the chain may switch forks, and the caller's pin may be of a fork that is
not the provider's. Every engine asks for itself, at its own
time, and each question may fail.

**Delivery service.** The guards of a request are one step, its body arrives in
chunks while others are served. `LessThanTwiceTheLimit` is what a fixed window can
promise, and fails when a live bucket is swept.

**Dispute tools.** The package may be replaced at any time, between the two files
a tool loads as well; a tool may stop
between two files, and another run may have written before it.

**Ladder.** A result of the suite is a pass, a failure, absent, or anything else
(a null, a word), which the code counts as passed. `resumed` marks the
integrations that left SUSPENDED, from where the code asks for the owner's
approval only.

**Pilot, DEX swap, Pages guard, package release.** Each command is a process
that may end at any of its steps; the chain, GitHub and npm act on their own;
what survives are files and what those hold. Amounts are coarse (percents,
hundredths), prices one number; the arithmetic is the code's. A payment of the
pilot may revert on chain, and another account may pay the declared recipient
the declared amount.

## 3. Runs

Passing runs and what their properties say (the statement stands above each
definition):

| run | property | of |
|---|---|---|
| `Ledger` | `OneCeiling`, `WithinShare` | what job and sub-agents drew and may still draw stays in ceiling and shares |
| | `BooksBalance`, `SharesCarved` | totals are sums of reservations and of shares |
| | `HeldIffLocked`, `MoneyStaysPut` | escrow's state and cents; nobody is poorer by another's draw |
| | `ImplementsAuthority` | the ledger implements `SpendAuthority` |
| `Evidence` | `ReleasesAreEarned`, `BoundIsAuthorised` | firewall and reviews; engines and consensus |
| | `IntactVerifiedIsComplete`, `ReceiptsAreEvident`, `ProvenanceIsGrounded` | attestations, receipts and anchors, provenance |
| | `ProofsAreGrounded`, `TreasuryIsTrue`, `RecordsAreWriteOnce` | the registries |
| | `AnswersAgree`, `InvokedIsAnchored` | the Soroban anchor and its callers |
| `Deliveries` | `JournalIsTrue` | recovery: intent before send, recorded hashes were sent, reads and verdict are of that hash |
| | `JournalIsFinal` | the journal only grows, nothing is sent after a recorded hash |
| | `VerifiedIsTrue` | a liar cannot verify |
| | `RunDecides` | a verdict in the end, unless the file was torn |
| | `AppliedIsPrefix`, `FeedCompletes` | the feed |
| | `AloneIsSettled` | the bridge to engine C |
| `Disputes` | `PaymentsAreAccounted`, `EscrowFollowsVerdict` | the paid job |
| | `LessThanTwiceTheLimit`, `DeliveryIsGrounded` | the delivery service and gate |
| | `ReadyIsUnadjudicated`, `HalfWrittenIsRefused` | the dispute tools |
| `Operations` | `YesIsWhole`, `GrantsWereEarned`, `GreenIsChecked` | levels, ladder, claims and gate |
| | `RegistryInstalls`, `PinnedPushSparesBuilds` | npm release, push guard |
| | `ConformingIsInPolicy`, `DexEvidenceIsTrue`, `StagingIsPaidOnce` | gates, swap, pilot |
| | `MemoryIsRecent` | the webhook receiver |

Bounds, and why they are enough.

* `Ledger`: one job (jobs share nothing but the identifiers of reservations),
  three scopes (a chain of three, or siblings under a parent), three
  reservations, a ceiling of 3 with amounts 1 and 2 (exact fits and misses by
  one), escrow of 2 in total (a hold disposed of in parts, and a second hold).
* `Evidence`: two forks and one switch; inputs odd in two places (material of a
  receipt, facts of a manifest, inputs of a decision) or one (the states of an
  anchor's checks, links and attestations, a request to the engines, an input of
  a decision made again, the material of an anchored receipt), and a receipt is
  verified or anchored, not both in one behaviour (neither reads the other's result);
  two deployments, one intent, two proofs, two signers,
  three authorizations, commissions 0 and 2 with 0, 2 or 3 sent, withdrawals two
  deep, two times; the anchor with two ids and two hashes over ledgers 0 to 3;
  two scripts over two ledgers.
* `Deliveries`: two providers of which one may lie, two hashes, two receipt
  views, two calldata, two crashes or failed broadcasts (a crash of the run that
  recovers from a crash); four events with three kinds of copies; three callers
  (one whose question times out, one that is answered with the late line, one
  alone).
* `Disputes`: one job with one scope, three reservations, two challenges of
  prices 1 and 2, two signatures and one settlement each; one host in two
  spellings of its address, a window of 2, a limit of 2, times up to 3 (two
  windows that touch, and three admissions within one window's time), four
  admissions; two odd records of a fixture, one odd entry of a package, two runs
  of the tools.
* `Operations`: three items of evidence, trees of up to five leaves (odd rows at
  two heights), one integration, two changes of the sources, three releases of
  versions up to 2, three commits and three runs of the guard, two odd fields of
  a payment and one of its execution, two swaps and one gift, two stagings,
  three blocks and one payment of another account; three keys for a Map of two,
  four handled deliveries, a skew of one.

Deadlock checking is off: all these systems may come to rest (nothing left to
spend, a final verdict, a program that ended), and bounded counters stop in any
case.

### Where the code does not do what the repository says

Seven runs end in a counterexample. Each states a sentence of the repository:

* `RecoveryProviders`: the engine asks for agreement of two independent
  providers and counts reads. A provider asked before and after a restart
  counts twice. With two different providers in the list it cannot happen
  (`VerifiedByEnoughListed`).
* `ForkedEvidence`: evidence is to be read at one pinned block, number and hash.
  `extractExecutionEvidence` hands the pin to the provider and takes any block
  that comes back; its hash is compared with none of the pin, the transaction and
  the receipt. Evidence of another fork than the pinned one is VERIFIED without any
  switch of the chain, and evidence of two forks with one.
* `RegistrySingleton`: proof ids are called singletons; a proof anchored with
  `receiptId` zero does not count as anchored and is overwritten. No other way
  leads to a second anchoring (`NamedProofsAreSingletons`).
* `ConsumerHeld`: out-of-order events are "held" but acked and dropped; their
  redelivery is a duplicate, so the cursor never passes the gap, however many
  events there are (`CursorStopsAtGap`).
* `MerkleLeaves`: `merkleProof` leaves out the step in which the last leaf of an
  odd row is paired with itself, and `verifyMerkle` refuses the proof;
  `ProofsAreExact` says of trees of any size which proofs those are.
* `ExternalClaim`: an external claim with an undefined derived value (a
  milestones document of another shape) is VERIFIED, though "an external claim
  is never VERIFIED by this repository alone".
* `LadderLevel`: levels are reached by place in a list in which DEPRECATED,
  SUSPENDED and REVOKED come last, so a revoked integration that did nothing
  carries the platform to every level. Without one that is revoked or deprecated
  a level is earned (`LevelHoldsInService`).

Divergences without a run of their own. The models do what the code does, and the
properties are weakened by just these cases:

* Provenance: CGEP-1 (`spec/CGEP-1-AGENT-PROVENANCE.md` 240-243, 313) wants the
  manifest's signer to be the sender of the transaction or a grantee, and the
  label says "DIRECT (signer = tx.from)". The code compares the recovered key
  with the signer that the signature names (`packages/provenance/index.js` 313)
  and the sender with the account the manifest declares (383-385), and never
  these two with each other. `ProvenIsBound` therefore ties the sender to the
  declared account only.
* Delivery, `packages/delivery/index.js`: an ACCEPTED without a list of bases
  passes B1 (comment at 299); a verdict rests for B2 on any evaluation, named
  criterion or not (comment at 318-322), while F2 drops those without one, so
  that a fixture with no criteria and one evaluation of nothing is released; E5
  takes two grants of one party for those of both (383).
* Delivery service: a configured empty list of addresses opens the gate (a
  comment at `http.js` 135 says it is refused); the hex spelling of a mapped
  address is not collapsed (103-107), so a host has two buckets and may be on
  the list in one.
* Ladder: "PRODUCTION stays unreachable without partnerApproval"
  (`conformance.mjs` 11) fails for an integration that is suspended before, at
  any state with authority: it resumes to PRODUCTION on the owner's approval
  (`state-machine.mjs` 103). A result of the suite that is no boolean is neither
  missing nor failed and makes a CONFORMANT, where the comment at
  `conformance.mjs` 51 asks for a boolean map.
* Webhook receiver: a repeated key "never re-runs the handler"
  (`packages/webhook/index.mjs` 10-12); a key that the full Map forgot inside its
  window does. `MemoryIsRecent` says which keys those are.
* Pre-push check: its header (32) allows SKIP for offline advisory checks; a
  missing verifier skips the freeze check too (87), so a push whose record does
  not hold is called safe. `GreenIsChecked` speaks of the record only where the
  verifier is there.
* Payments: `submitAgentPayment` "Returns NOT_PERFORMED unless a submitter is
  injected" (`stellar-agent/index.mjs` 133); with only a signer it says
  SUBMITTED of what was not performed, and with a submitter too of what was
  rejected, since the intents it builds have no xdr to submit and it never reads
  the answer; `checkConformance` compares no amountB, and an asset, as any
  field, only when both sides name it.
* Pilot: a pin is to be of the genuine "pre-execution block" (`docs/pilot-1.md`
  86-88). After a second staging it is of a block behind the first payment.
  `capture.mjs` records the status of the receipt and tests it nowhere, so a
  payment that reverted is VALID.

Other behaviour that the models have and that no sentence of the repository
decides: escrow that is held can still be reserved by other costs;
`jobAvailable` takes a scope's draw off the job a second time, so a job is
refused money that it has; `settle` counts a settlement without a reservation; a
crash before the hash is journaled makes the restart broadcast again; V3 keeps
value sent along when its commission is zero; an event without `payloadHash` is
applied; the receiver's handler is not awaited; callers of the bridge
overwrite one another's slot; the deploy script records a creation that never happened when its wait ends with
NOT_FOUND or ERROR; `universalDappShield` does not read its policy; the pre-push
hook pins the remote's old tip; `--only --write` replaces a whole gate's artifact
by that of one leg; the swap's poll gives up before the transaction's validity
ends; a second staging after a crash is a second payment; CL-REVENUE-ZERO derives
a constant whatever the milestones say.

## 4. Fairness

Safety runs assume none.

* `Deliveries`, recovery: weak fairness of the process's own steps and of its
  restart. The code waits for others only in `broadcast` and in receipt reads,
  whose callbacks return or throw. Crashes and failures are not fair, and
  bounded.
* `Deliveries` and `ConsumerHeld`, feed: weak fairness of the arrival of an
  intact copy of each event, which is what at-least-once delivery of an event
  that the consumer has not applied means.
* `Deliveries`, bridge: timers fire, lines and the exit of the child are
  delivered. The child itself may hang for ever.

## 5. Proofs

All are for any values of the constants that meet the named assumptions, which
TLC evaluates in every run whose module extends the one that declares them.

| module | theorems |
|---|---|
| `BudgetLedgerProofs` | `LedgerInvariant`, `TypeCorrect`, `CeilingHolds`, `ShareHolds`, `BooksHold`, `SharesHold`, `EscrowStateHolds`, `MoneyKept`, `LedgerImplements`; sums of finitely many amounts |
| `RecoveryProofs` | `JournalTold`, `VerifiedTold`, `JournalKept`, `VerifiedByAll`, `VerifiedByEnoughListed` |
| `RegistryProofs` | `AnswersHold`, `AnchorImplements`, `V1Implements`, `ProofsGrounded`, `NamedProofsAreSingletons`, `PaidProofsGrounded`, `TreasuryHolds`, `ReceiptsStay`, `IntentsImplement`, `RecordsHold` |
| `WebhookProofs` | `PrefixHolds`, `CursorStopsAtGap`, `MemoryHolds` |
| `DisputesProofs` | `PaidLedgerInvariant`, `PaidImplements`, `PaidMoneyKept`, `PaymentsHold`, `EscrowMovesOnVerdict`, `LimitHolds`, `GroundsHold`, `ReadyHolds`, `HalfWrittenHolds` |
| `EvidenceProofs` | `AnchorHolds`, `ReleasesHold`, `BoundHolds`, `AttestationHolds`, `ReceiptsHold`, `ProvenanceHolds` |
| `OperationsProofs` | `YesHolds`, `ProofsAreExact`, `GrantsHold`, `LevelHoldsInService`, `GreenHolds`, `InstallHolds`, `GuardHolds`, `ConformityHolds`, `DexEvidenceHolds`, `PaymentHolds` |
| `Variants` | `VariantFields` |

The statement above each theorem says it in words; `PROJECT.json` names the
property of a run it is about.

**Ledger** (`IdsAssumption`, `AmountsAssumption`). `OneCeiling` is not inductive:
that a draw of a scope is safe depends on the shares below the job adding up,
which depends on every parent having given its children's shares up. `IInv` adds
types, balanced books, carved and conserved shares, no negative allowance and
the escrow state. The lemmas about `Total` rest on a bijection between sets of
cents, not on recursion over the owners. For the refinement (`LedgerImplements`)
`RefineInv` adds that only open jobs have scopes and that reservations hold
amounts somebody may ask for; `PurseIs` says that a purse is what its holder was
given less its own draws, and `RemainingInPurse` that the code's guard never
allows more than that. Each action then maps to one step of the purses, the
escrow half to none.

**Recovery** (`RecoveryAssumption`, `DriverAssumption`). `DriverInv` has three
parts: types; the journal (at most one hash and one verdict, every read after
the hash and of it, what an honest provider answered is still what the chain
shows); and what a process knows at each of its steps (before the next provider
is asked, all earlier ones have a read). `VerifiedIsTrue` follows because a
verdict takes the reads of all providers in the list, an honest one among them.
Whom to trust is left out of `VerifiedByAll`: `UnanimousInv` says of every
VERIFIED verdict in the journal that all listed providers were read, and that no
read of any process contradicts it. It is inductive because a verdict closes the
journal: what was true of the reads when it was decided stays so. `OneView`
counts the views that successes show. From this follows under which conditions
the word of the file's header about two independent providers does hold.

**Registries** (`CommissionAssumption`, `RegistryAssumption`, `V1Assumption`,
`AnchorAssumption`). `Grounded` relates the mappings, the events and the
approvals: every proof follows an intent of its signer, whose authorization for
this deployment is approved. In V3 a failing call restores a snapshot, so the
invariant must hold of every snapshot on the stack as well, and each snapshot's
books must balance with what was paid out since; that is what makes it inductive
under reentrancy. That nothing is rewritten (`RecordsHold`) is said of what the
chain shows, which is the outermost snapshot while a withdrawal is open.
`KeptInv`: the present mappings and every snapshot above the outermost keep what
that one remembers, so whichever of them a return or a failure brings to light
rewrites nothing. `NamedProofsAreSingletons` has as a hypothesis that no proof
on record names the receipt zero, in any state of the behaviour; it leaves the
repository's word about singletons true of every other use.

**Webhooks** (`ConsumerAssumption`, `ReceiverAssumption`). `FeedInv` types the
feed's sequences and has `AppliedIsPrefix`, which is inductive with the acks it
speaks of. `AsideIsAhead` adds that what was set aside is not behind the cursor,
since all that is behind is acked and would be a duplicate; when the cursor
comes to it, it is not fresh, so the cursor stops there. `MapInv`: the Map is as
long as the history until it is full, and holds its latest keys.

**Paid job** (`FlowAssumption`, `HarnessAssumption`, and the ledger's). Two
programs draw on one ledger, so the ledger's own `IInv` is part of the
invariant: the flow and the harness only take steps the ledger allows. `PaidInv`
adds that what a challenge holds is a live reservation of the harness's own, of
that challenge's price and held by no other; that every live reservation of the
harness is held by a challenge; and that what is committed was settled. For
`PaidImplements` every step of the two is a step of the ledger on an open job,
or idle, except the flow's creation, which opens the job and locks its escrow at
once and maps to one funding. `EscrowFollowsVerdict` is an action property: a
step that moves escrow is a delivery, and the direction is read off the verdict
it computed.

**Delivery service** (`EndpointAssumption`). `LessThanTwiceTheLimit` counts
admissions in any stretch as long as a window, which no bucket holds.
`LimiterInv` ties the two: a bucket counts what it admitted since it began, all
earlier admissions of that client lie before its beginning, and an address
without a bucket was swept at rest. A stretch shorter than a window then meets
at most two of them, and since the second begins with an admission and the first
a whole window before it, the first admission of the first is not in the stretch.

**Dispute tools** (`DisputeAssumption`). `IntakeInv` says, for each position
between two files, which files there are and of which revision; `BoundaryInv`
and `SettlementInv` are the two records whose parts quote one another.

**Anchor flow** (`AnchorFlowAssumption`). `FlowInv`: a commit that succeeded is
on record in the contract it was sent to, a runner is always at the contract it
read from its file, and a file that says SUBMITTED names a contract. Late
transactions only add to the records.

**Engines and consensus** (`EnginesAssumption`: "no request" is not an
answer). `EnginesInv`: an engine that asks the chain has passed all earlier
checks on this very request; an envelope says BOUND only after the question
that its path asks; consensus says it only with such an envelope.

**Execution evidence** (`EvidenceAssumption`: "unread" is neither a fork nor a
judgement). `EvidenceInv` keeps, through switches of the chain between two
reads, what a VERIFIED verdict was computed from, and that an intact record is
of that verdict.

**Decisions over documents** (firewall `FirewallAssumption`, receipts
`ReceiptAssumption`, provenance `ProvenanceAssumption`, delivery
`DeliveryAssumption`, payment gates). The state holds a document and what was
said of it; the invariant is that what was said is the function of what is
held. The weight is in lemmas about the functions: what each check that did not
stop leaves true. `VariantFields` gives the values a field may have, whatever
the number of odd fields, so the theorems hold for any number, where a run has
one or two.

**Verification levels** (`LevelsAssumption`). A Merkle tree is built row by row
and a proof read step by step, both by recursive functions over numbers. That
such a function has a solution, and what it computes, is shown by taking the
least number at which it would not (`WellFoundedInduction` gives the least
element of a set, without an operator as a parameter). `TreeIs` says that the
rows end in one root, `AboveIs` and `ClimbHolds` which entry of each row a place
is under and which steps its proof has by then. As hashes are injective, the
hash reached names the leaf and its place: `DownThePath` and `UpThePath` are the
two directions of `ProofsAreExact`.

**The repository's tools.** Ladder: what an integration has proven grows only,
each step records the facts it asks for, and only one with authority, hence with
the sandbox's facts, can be suspended; `resumed` separates those of which more
is not known. Gate (`GateInv`): each green output is of the registry or the legs
it was read from. npm release (`ReleaseInv`): the checkout has one slip at most,
and a publish goes on from what it checked. Push guard (`PagesAssumption`;
`PagesInv`): the queue holds nothing younger than the tip, a pinned base is a
tip that was there, and what the guard saw ended stays ended until somebody
pushes. Pilot (`PilotInv`): only signed transactions are sent, one staging signs
one, an account number is spent once, and what another account paid is in no
staging (`OwnBlocks`). DEX swap (`DexInv`): the wallet, the run and the record
are related at every step of the run; the heart is that no transaction of the
wallet lands after the run's own swap (sequence numbers), so that its growth is
the swap and gifts.

Only model-checked:

* liveness (`RunDecides`, `FeedCompletes`, `AloneIsSettled`), which is out
  of the prover's reach;
* the seven counterexamples of section 3, which are about small instances by
  nature.

## 6. Not modelled

* Encodings and primitives (`canonical`, `crypto`, `evm`, `trace`, building of
  intents): pure, and used in the models as injective names. Their correctness
  is about bytes, not about states.
* The computation inside a replay, the decoding of traces, the legs of the
  release gate: an outcome, chosen freely.
* Descriptors and plans without a decision of their own (Pi and CoreDAO
  adapters, SaaS gateway, pricing, badges, mandate, selective disclosure,
  refusal audit), the argument handling of the command line, the web pages,
  fixture generators, benchmarks and reports.
* In the parts that are modelled: wording, logging, formats of reports, and the
  helpers that only build texts. `PROJECT.json` says so per component.
* Limits of the models themselves: `handle` of the receiver is one step although
  its handler may call back; a fixture on which the delivery gate throws ends
  the process, and what Node does with the open request is not modelled; amounts
  in gates and swaps are coarse, so rounding below a hundredth is not seen.
* Of single operations: `settle` books the amount of the challenge it is handed,
  and without an envelope (`x402/index.mjs` 251) nobody checks that against the
  id; the model's callers hand over the challenge that was signed. A `_persist`
  that throws leaves an entry in memory that is not in the file
  (`recovery/index.js` 137-139). In V3 only the innermost callee acts, and only
  as one address: not one that calls a treasurer contract which withdraws in
  turn (307-308); Ether that is forced on the contract is left out, so the
  recorded treasury is compared with what was paid. A malformed chain id or
  execution block of a manifest; in an execution, `rawTx` and `rawReceipt` are
  set before their items are built (no property sees it). Published packages
  share one version, and their ranges (`^0.1.0`) are not resolved:
  `RegistryInstalls` is about what the registry has, not about what npm picks. A
  second run's trustline is taken for the one that landed, although its time
  bounds differ, which only adds behaviours.
