------------------------------- MODULE DexSwap ------------------------------
(***************************************************************************)
(* scripts/stellar-dex-swap-executed: one gated swap of XLM for USDC on    *)
(* the real order book, its artifact, and the --verify of it; the issuer   *)
(* discovery and the read-only matrix of scripts/stellar-dex-gate-real.    *)
(* The owner runs the script again when a run ends, whatever it ended as.  *)
(* Amounts are hundredths, prices USDC per hundred XLM.                    *)
(***************************************************************************)
EXTENDS PaymentGates

CONSTANTS
  MaxSwapRuns,  \* bound of the model: runs of the script
  MaxGifts      \* bound of the model: payments of others to the wallet

VARIABLES
  wallet,    \* on chain: XLM, issuers trusted, USDC of each, the sequence number
  market,    \* the USDC price, which moves
  inFlight,  \* transactions submitted, not yet in a ledger nor expired
  landed,    \* transactions in a ledger: applied, or failed with their fee taken
  gifts,     \* what others paid the wallet
  swapRun,   \* the run under way
  record,    \* docs/evidence/stellar-dex-swap-executed.json
  matrix     \* docs/evidence/stellar-dex-gate-executed.json

dexVars == <<wallet, market, inFlight, landed, gifts, swapRun, record, matrix>>

Issuers == {"circle", "other"}
Reserve == 1000
Fee == 3
FeeBudget == 6
Margin == 500
Liquid == 1000
NoRun == [pc |-> "idle", count |-> 0]

\* What discovery sees of an issuer: accounts authorized, displayed ask depth.
Listings == [Issuers -> {[accounts |-> 9, depth |-> 1000000], [accounts |-> 9, depth |-> 0],
                         [accounts |-> 5, depth |-> 500000]}]

DexInit ==
  /\ wallet \in [xlm : {16000, 3521}, trust : {{}}, usdc : {[i \in Issuers |-> 0]}, seq : {0}]
  /\ market = 30 /\ inFlight = {} /\ landed = {} /\ gifts = [xlm |-> 0, count |-> 0]
  /\ swapRun = NoRun /\ record = [is |-> "none"] /\ matrix = {}

-----------------------------------------------------------------------------
\* The network and everybody else on it.
MarketMoves == market' \in {20, 29, 30} \ {market} /\ UNCHANGED <<wallet, inFlight, landed, gifts, swapRun, record>>

SwapPays(tx) == (tx.send * market) \div 100
TxSucceeds(tx) ==
  /\ tx.kind = "trust" \/ /\ tx.issuer \in wallet.trust
                          /\ wallet.xlm - tx.send >= (2 + Cardinality(wallet.trust)) * Reserve
                          /\ SwapPays(tx) >= tx.min

\* A transaction of the next sequence number enters a ledger and pays its fee,
\* whether or not it succeeds; one of a used number never does.
Land(tx) ==
  /\ tx.seq = wallet.seq + 1
  /\ LET ok == TxSucceeds(tx)
         got == IF ok /\ tx.kind = "swap" THEN SwapPays(tx) ELSE 0
     IN  /\ wallet' = [wallet EXCEPT !.seq = tx.seq, !.xlm = @ - Fee - (IF ok THEN tx.send ELSE 0),
                                     !.trust = IF ok THEN @ \cup {tx.issuer} ELSE @,
                                     !.usdc[tx.issuer] = @ + got]
         /\ landed' = landed \cup {[tx |-> tx, ok |-> ok, got |-> got]}
  /\ inFlight' = inFlight \ {tx}
  /\ UNCHANGED <<market, gifts, swapRun, record>>

Expire(tx) == inFlight' = inFlight \ {tx} /\ UNCHANGED <<wallet, market, landed, gifts, swapRun, record>>

Give ==
  /\ gifts.count < MaxGifts
  /\ \/ \E n \in {1, 50} : /\ wallet' = [wallet EXCEPT !.xlm = @ + n]
                           /\ gifts' = [xlm |-> gifts.xlm + n, count |-> gifts.count + 1]
     \/ \E i \in wallet.trust : /\ wallet' = [wallet EXCEPT !.usdc[i] = @ + 7]
                                /\ gifts' = [gifts EXCEPT !.count = @ + 1]
  /\ UNCHANGED <<market, inFlight, landed, swapRun, record>>

-----------------------------------------------------------------------------
\* The candidate with most accounts whose book clears the bar; none ends the run.
Liquids(listing) == {i \in Issuers : listing[i].depth >= Liquid}
ProbeIssuer(listing) ==
  {i \in Liquids(listing) : \A k \in Liquids(listing) : listing[i].accounts >= listing[k].accounts}

\* The ceiling of both scripts: one percent of the displayed depth.
DerivePolicy(depth) ==
  [maxSlippage |-> 5, rules |-> <<[type |-> "max_amount", most |-> depth \div 100, who |-> "nobody"]>>]

\* Asks filled in order: here half of the depth at the price, half one lower.
Asks(depth) == <<[amount |-> depth \div 2, price |-> market], [amount |-> depth \div 2, price |-> market - 1]>>
WalkedReceive(send, asks) ==
  FoldLeft(LAMBDA w, a : LET take == IF w.left < a.amount THEN w.left ELSE a.amount
                         IN  [left |-> w.left - take, got |-> w.got + take * a.price],
           [left |-> send, got |-> 0], asks).got \div 100

Floor(n, percent) == (n * percent) \div 100
LesserOf(a, b) == IF a < b THEN a ELSE b
Budget(trusted) ==
  wallet.xlm - (2 + Cardinality(wallet.trust) + (IF trusted THEN 0 ELSE 1)) * Reserve - FeeBudget - Margin

SwapPlan(issuer, depth) ==
  LET policy == DerivePolicy(depth)
      send == LesserOf(policy.rules[1].most, Budget(issuer \in wallet.trust))
      expected == WalkedReceive(send, Asks(depth))
  IN  [source |-> "wallet", destination |-> "wallet", issuer |-> issuer, amount |-> send,
       minAmount |-> Floor(send, 97), destMin |-> Floor(expected, 100 - policy.maxSlippage),
       path |-> <<>>, rules |-> policy.rules, maxSlippage |-> policy.maxSlippage]
GatesAllow(plan) == GateSwap(plan).allowed /\ GatePathPayment(plan).allowed

End(how) == swapRun' = [pc |-> "idle", count |-> swapRun.count, ended |-> how]
Goto(pc) == swapRun' = [swapRun EXCEPT !.pc = pc]

\* runFlow to its gates: the depth the plan is made for is read after discovery.
\* (A behaviour of the model runs one of the two scripts: they share no state.)
ReadBook(dryRun, issuer, depth) ==
  /\ matrix = {} /\ swapRun.pc = "idle" /\ swapRun.count < MaxSwapRuns
  /\ \E listing \in Listings : issuer \in ProbeIssuer(listing)
  /\ LET plan == SwapPlan(issuer, depth)
         refused == depth = 0 \/ Budget(issuer \in wallet.trust) <= 0 \/ plan.destMin <= 0
         ends(how) == swapRun' = [pc |-> "idle", count |-> swapRun.count + 1, ended |-> how]
     IN  \/ refused /\ ends("REFUSED")
         \/ ~refused /\ ~GatesAllow(plan) /\ ends("REJECTED")
         \/ ~refused /\ GatesAllow(plan) /\ dryRun /\ ends("DRY_RUN")
         \/ /\ ~refused /\ GatesAllow(plan) /\ ~dryRun
            /\ swapRun' = [pc |-> IF issuer \in wallet.trust THEN "before" ELSE "trust",
                           count |-> swapRun.count + 1, plan |-> plan, trusted |-> issuer \in wallet.trust,
                           depth |-> depth, seq |-> wallet.seq, tx |-> [kind |-> "none"]]
  /\ UNCHANGED <<wallet, market, inFlight, landed, gifts, record>>

\* The trustline is of the sequence number that was read with the book; one
\* that has landed is not sent again.
SubmitTrustline ==
  /\ swapRun.pc = "trust"
  /\ LET tx == [kind |-> "trust", issuer |-> swapRun.plan.issuer, send |-> 0, min |-> 0, seq |-> swapRun.seq + 1]
     IN  /\ inFlight' = inFlight \cup ({tx} \ {l.tx : l \in landed})
         /\ swapRun' = [swapRun EXCEPT !.pc = "trusting", !.tx = tx]
  /\ UNCHANGED <<wallet, market, landed, gifts, record>>

Sent == swapRun.pc \in {"trusting", "swapping"}
Landing == {l \in landed : l.tx = swapRun.tx}
Confirmed == \E l \in Landing : l.ok

\* The submission or its poll gives up (60 seconds) before the transaction is
\* void (90 seconds); or the transaction is seen to have failed.
GiveUp == Sent /\ End("UNCONFIRMED") /\ UNCHANGED <<wallet, market, inFlight, landed, gifts, record>>

PollTransaction ==
  /\ Sent /\ Landing # {}
  /\ IF Confirmed THEN Goto(IF swapRun.pc = "trusting" THEN "before" ELSE "after") ELSE End("FAILED")
  /\ UNCHANGED <<wallet, market, inFlight, landed, gifts, record>>

\* The balances before, and the swap: a wallet that had no trustline is taken
\* to have had no USDC.
SubmitSwap ==
  /\ swapRun.pc = "before"
  /\ LET tx == [kind |-> "swap", issuer |-> swapRun.plan.issuer, send |-> swapRun.plan.amount,
                min |-> swapRun.plan.destMin, seq |-> wallet.seq + 1]
     IN  /\ inFlight' = inFlight \cup {tx}
         /\ swapRun' = [pc |-> "swapping", count |-> swapRun.count, plan |-> swapRun.plan, depth |-> swapRun.depth,
                        tx |-> tx, xlm |-> wallet.xlm, given |-> gifts.xlm,
                        usdc |-> IF swapRun.trusted THEN wallet.usdc[swapRun.plan.issuer] ELSE 0]
  /\ UNCHANGED <<wallet, market, landed, gifts, record>>

\* Mutant of FeeAgrees: the fee the wire reports is written down unchecked.
FeeUnchecked(before, after, sent, charged) == TRUE

FeeAgrees(before, after, sent, charged) == (before - after - sent) - charged \in {-1, 0, 1}

ReadBack ==
  /\ swapRun.pc = "after"
  /\ LET received == wallet.usdc[swapRun.plan.issuer] - swapRun.usdc
     IN  IF received > 0 /\ FeeAgrees(swapRun.xlm, wallet.xlm, swapRun.plan.amount, Fee)
         THEN /\ record' = [is |-> "swap", plan |-> swapRun.plan, depth |-> swapRun.depth, tx |-> swapRun.tx,
                            received |-> received, credited |-> gifts.xlm - swapRun.given]
              /\ End("CONFIRMED")
         ELSE UNCHANGED record /\ End("MISMATCH")
  /\ UNCHANGED <<wallet, market, inFlight, landed, gifts>>

Die == swapRun.pc # "idle" /\ End("DIED") /\ UNCHANGED <<wallet, market, inFlight, landed, gifts, record>>

-----------------------------------------------------------------------------
\* The matrix of the read-only script, of a hundred thousandth of the depth, of
\* all of it, and to a listed party; the last replaces the ceiling.
MatrixOf(depth) ==
  LET policy == DerivePolicy(depth)
      small == policy.rules[1].most \div 1000
      swap == [source |-> "wallet", destination |-> "wallet", amount |-> small, minAmount |-> Floor(small, 97),
               amountB |-> small, path |-> <<>>, rules |-> policy.rules, maxSlippage |-> policy.maxSlippage]
      listed == [swap EXCEPT !.destination = "listed",
                             !.rules = <<[type |-> "deny_destination", most |-> 0, who |-> "listed"]>>]
      over == [swap EXCEPT !.amount = policy.rules[1].most * 100, !.minAmount = 0]
  IN  {[of |-> swap, judged |-> GateSwap(swap)], [of |-> over, judged |-> GateSwap(over)],
       [of |-> listed, judged |-> GateSwap(listed)], [of |-> swap, judged |-> GatePathPayment(swap)],
       [of |-> swap, judged |-> GateProvideLiquidity(swap)]}

RunMatrix(depth) ==
  /\ swapRun.count = 0 /\ matrix = {} /\ depth > 0
  /\ matrix' = MatrixOf(depth)
  /\ UNCHANGED <<wallet, market, inFlight, landed, gifts, swapRun, record>>

DexNext ==
  \/ \E depth \in {0, 50, 100000000} : RunMatrix(depth)
  \/ /\ UNCHANGED matrix
     /\ \/ MarketMoves \/ Give
        \/ \E tx \in inFlight : Land(tx) \/ Expire(tx)
        \/ \E dryRun \in BOOLEAN, i \in Issuers, depth \in {0, 1000000} : ReadBook(dryRun, i, depth)
        \/ SubmitTrustline \/ SubmitSwap \/ PollTransaction \/ GiveUp \/ ReadBack \/ Die

DexSpec == DexInit /\ [][DexNext]_dexVars

-----------------------------------------------------------------------------
\* --verify: the gates again, from the plan and policy on record.
VerifyArtifact ==
  GatesAllow(record.plan) /\ record.received > 0 /\ record.plan.amount <= record.plan.rules[1].most

\* An artifact that says CONFIRMED is about a swap that landed and succeeded:
\* it sent what was planned, within a hundredth of the depth the book showed;
\* it brought in at least destMin, and what is recorded as received covers it;
\* nobody else's XLM is hidden in its arithmetic; and --verify accepts it.  The
\* matrix allows nothing over its ceiling, and nothing to the listed party.
DexEvidenceIsTrue ==
  /\ record.is = "swap" =>
       /\ \E l \in landed : /\ l.tx = record.tx /\ l.ok
                            /\ l.tx.send = record.plan.amount
                            /\ l.got >= record.plan.destMin /\ record.received >= l.got
       /\ record.plan.amount <= record.depth \div 100
       /\ record.credited \in {0, 1}
       /\ VerifyArtifact
  /\ \A c \in matrix : c.judged.allowed =>
       c.of.destination = "wallet" /\ c.of.amount <= c.of.rules[1].most
=============================================================================
