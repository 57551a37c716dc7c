---------------------------- MODULE AssertedTrade ----------------------------
(***************************************************************************)
(* What one cycle becomes on chain: its legs resolved and checked against  *)
(* the oracle (dl-app/src/opportunity.rs, live.rs:151-208, dl-oracle), one *)
(* Jupiter quote and swap transaction per leg (dl-executor/src/jupiter.rs),*)
(* the assert and tip transactions, the bundle builder's checks            *)
(* (bundle.rs), the simulation (simulate.rs), the execution of the bundle  *)
(* with the assert program (dl-assert-program), the funding of its vault   *)
(* (live.rs:375-470) and the landing poll (landing.rs).                    *)
(*                                                                         *)
(* Amounts are small numbers of one unit.  The cycle runs through the      *)
(* tokens 0, 1, 2 and back to 0, which is SOL: hold[0] is what the signer  *)
(* has in lamports.                                                        *)
(***************************************************************************)
EXTENDS Integers, Sequences

CONSTANTS
    InputAmount,        \* default_input_amount_lamports of the cycle
    Outs,               \* what one leg may return for it
    MinNet, Tip, Fee,   \* min_net_pnl_lamports, the tip, a transaction's fee
    StartHold,          \* what the wallet holds of each token
    StartVaults,        \* and what its vault may hold
    MaxAge, Skew, Ages, \* oracle: limits, and ages a price may have
    PollTimeout, PollFirst, PollCap, CallTime, \* LandingPollConfig, one call
    MaxBundles          \* bound: bundles built

ASSUME TradeAssumption ==
    /\ {InputAmount, MinNet, Tip, Fee} \subseteq Nat
    /\ StartVaults \subseteq Nat /\ Outs \subseteq Nat
    /\ {PollTimeout, PollFirst, PollCap, CallTime} \subseteq Nat
    /\ StartHold \in [0 .. 2 -> Nat]
    /\ PollFirst <= PollCap

Tokens == 0 .. 2

VARIABLES
    at,         \* where the cycle in hand stands
    txs,        \* the transactions of its bundle, in order
    hold,       \* what the signer holds of each token
    vault,      \* lamports in the vault account
    transfer,   \* lamports of a funding transfer sent and not confirmed
    engine,     \* what became of the bundle in hand
    late,       \* earlier ones, given up and still undecided
    waited,     \* time since the poll loop began
    interval,   \* its next sleep
    bundles,    \* bundles built
    floor       \* history: what the last landed bundle left guaranteed

cycleVars == <<at, txs>>
fateVars  == <<engine, late>>
chainVars == <<hold, vault, transfer>>
pollVars  == <<waited, interval>>
counts    == <<bundles, floor>>
tradeVars == <<cycleVars, fateVars, chainVars, pollVars, counts>>

TradeInit ==
    /\ at = "idle" /\ txs = <<>>
    /\ hold = StartHold /\ vault \in StartVaults /\ transfer = 0
    /\ engine = "none" /\ late = 0 /\ waited = 0 /\ interval = PollFirst
    /\ bundles = 0 /\ floor = 0

-----------------------------------------------------------------------------
(* The gates. *)

(* Price::is_fresh: a price may be from a little in the future. *)
Fresh(age) == IF age < 0 THEN -age <= Skew ELSE age <= MaxAge

(* resolve_cycle_legs: exactly three legs, each with a known pool. *)
Resolves(n, known) == n = 3 /\ known

(* fetch_fresh: the answer to a request for one price is its age, or none. *)
NoPrice == -999
FetchFresh(answer) == answer # NoPrice /\ Fresh(answer)

(* Both mints of every leg, when there is an oracle; feeds are the mints   *)
(* that have one.                                                          *)
PricesPass(oracle, feeds, answers) ==
    oracle => \A t \in Tokens : t \in feeds /\ FetchFresh(answers[t])

(* The call returns; its local state is gone. *)
Return == at' = "idle" /\ txs' = <<>>

Refuse ==
    /\ Return
    /\ UNCHANGED <<fateVars, chainVars, pollVars, counts>>

(* submit_opportunity up to the oracle gate. *)
Gate(n, known, oracle, feeds, answers) ==
    /\ at = "idle" /\ bundles < MaxBundles
    /\ IF Resolves(n, known) /\ PricesPass(oracle, feeds, answers)
       THEN /\ at' = "build"
            /\ UNCHANGED <<txs, fateVars, chainVars, pollVars, counts>>
       ELSE Refuse

-----------------------------------------------------------------------------
(* build_unsigned_bundle. *)

(* build_swap_tx for the next leg: every leg asks for the same amount.     *)
QuoteLeg ==
    /\ at = "build" /\ Len(txs) < 3 /\ txs' = Append(txs, "swap")
    /\ UNCHANGED <<at, fateVars, chainVars, pollVars, counts>>

(* The quote, the swap request or the decoding of its answer fails. *)
QuoteFails == at = "build" /\ Len(txs) < 3 /\ Refuse

(* The assert and tip transactions follow the swaps. *)
AssertThenTip == txs \o <<"assert", "tip">>

(* BundleBuilder::build with assert_program_id: the counts, and the        *)
(* program that the slot behind the swaps calls.                           *)
BuilderAccepts(bundle) == Len(bundle) = 5 /\ bundle[4] = "assert"

(* Building, signing and assembling; signing sets one signature each. *)
Assemble ==
    /\ at = "build" /\ Len(txs) = 3
    /\ txs' = AssertThenTip /\ at' = "simulate" /\ bundles' = bundles + 1
    /\ UNCHANGED <<fateVars, chainVars, pollVars, floor>>

-----------------------------------------------------------------------------
(* Execution: one transaction after the other, all or nothing. *)

(* A swap pays InputAmount of token i - 1 and receives out of the next.    *)
Swapped(h, i, out) ==
    [h EXCEPT ![i - 1] = @ - InputAmount, ![i % 3] = @ + out]

(* Mutant: the balance is compared with the vault alone. *)
AssertHoldsNoMin(sol) == sol >= vault

(* assert_min_pnl: signer.lamports() - vault.lamports() >= min. *)
AssertHolds(sol) == sol - vault >= MinNet

(* The holdings after one transaction, or <<>> when it fails.  Each pays    *)
(* its fee first; swap i is the i-th.                                      *)
Applied(h, what, i, outs) ==
    LET paid == [h EXCEPT ![0] = @ - Fee] IN
    IF \/ paid[0] < 0
       \/ what = "swap" /\ paid[i - 1] < InputAmount
       \/ what = "assert" /\ ~AssertHolds(paid[0])
       \/ what = "tip" /\ paid[0] < Tip
    THEN <<>>
    ELSE CASE what = "swap" -> Swapped(paid, i, outs[i])
           [] what = "assert" -> paid
           [] what = "tip" -> [paid EXCEPT ![0] = @ - Tip]

Then(h, bundle, i, outs) ==
    IF h = <<>> THEN <<>> ELSE Applied(h, bundle[i], i, outs)

(* A bundle that the builder accepted has five transactions. *)
Executed(bundle, outs) ==
    LET one == Then(hold, bundle, 1, outs)
        two == Then(one, bundle, 2, outs)
        three == Then(two, bundle, 3, outs)
        four == Then(three, bundle, 4, outs)
    IN  Then(four, bundle, 5, outs)

(* What the swaps return when they run is what was quoted or moved on. *)
Markets == [1 .. 3 -> Outs]

(* simulate_bundle: every transaction but the assert one is simulated by   *)
(* itself on the state as it is.                                           *)
SimulatesAlone(outs) ==
    \A i \in DOMAIN txs :
        txs[i] # "assert" => Applied(hold, txs[i], i, outs) # <<>>

-----------------------------------------------------------------------------
(* From the simulate gate to the answer. *)

Simulated(outs) ==
    /\ at = "simulate"
    /\ IF SimulatesAlone(outs)
       THEN /\ at' = "submit"
            /\ UNCHANGED <<txs, fateVars, chainVars, pollVars, counts>>
       ELSE Refuse

(* No simulate_rpc_url: the bundle goes to the engine as built. *)
NotSimulated ==
    /\ at = "simulate" /\ at' = "submit"
    /\ UNCHANGED <<txs, fateVars, chainVars, pollVars, counts>>

Submit ==
    /\ at = "submit"
    /\ IF BuilderAccepts(txs)
       THEN /\ at' = "poll" /\ engine' = "pending"
            /\ waited' = 0 /\ interval' = PollFirst
            /\ UNCHANGED <<txs, late, chainVars, counts>>
       ELSE Refuse

(* The engine executes a bundle, all of it or nothing. *)
Lands(bundle, outs) ==
    /\ Executed(bundle, outs) # <<>> /\ hold' = Executed(bundle, outs)
    /\ floor' = vault + MinNet - Tip - Fee
    /\ UNCHANGED <<cycleVars, vault, transfer, pollVars, bundles>>

Land(outs) ==
    engine = "pending" /\ engine' = "landed" /\ Lands(txs, outs)
    /\ UNCHANGED late

LateLand(outs) ==
    late > 0 /\ late' = late - 1
    /\ Lands(<<"swap", "swap", "swap", "assert", "tip">>, outs)
    /\ UNCHANGED engine

Drop ==
    /\ engine = "pending" /\ engine' = "lost"
    /\ UNCHANGED <<cycleVars, late, chainVars, pollVars, counts>>

LateDrop ==
    /\ late > 0 /\ late' = late - 1
    /\ UNCHANGED <<cycleVars, engine, chainVars, pollVars, counts>>

(* next_interval: half as long again, up to max_poll_interval. *)
NextInterval(i) == IF (3 * i) \div 2 > PollCap THEN PollCap ELSE (3 * i) \div 2

(* poll_bundle_landing, one round: ask, then give up or sleep. *)
PollAgain ==
    /\ at = "poll" /\ engine = "pending"
    /\ waited + CallTime < PollTimeout
    /\ waited' = waited + CallTime + interval
    /\ interval' = NextInterval(interval)
    /\ UNCHANGED <<cycleVars, fateVars, chainVars, counts>>

(* A bundle that is given up while undecided lands or is dropped on its    *)
(* own; every one has the same five transactions.                          *)
LateAfter == IF engine = "pending" THEN late + 1 ELSE late

(* An answer, or the time is up: the bundle is not asked after again.      *)
PollDone ==
    /\ at = "poll"
    /\ engine # "pending" \/ waited + CallTime >= PollTimeout
    /\ Return /\ waited' = waited + CallTime
    /\ engine' = "none" /\ late' = LateAfter
    /\ UNCHANGED <<chainVars, interval, counts>>

(* poll_landing fails: the error is propagated at once. *)
PollFails ==
    /\ at = "poll" /\ Return
    /\ engine' = "none" /\ late' = LateAfter
    /\ UNCHANGED <<chainVars, pollVars, counts>>

-----------------------------------------------------------------------------
(* The vault. *)

(* pre_fund_vault_if_needed reads both balances and sends the difference. *)
SendFunding ==
    /\ transfer = 0 /\ vault < hold[0]
    /\ transfer' = hold[0] - vault
    /\ UNCHANGED <<cycleVars, fateVars, hold, vault, pollVars, counts>>

AlreadyFunded == vault >= hold[0]

(* The transfer is refused when the signer cannot pay it and its fee. *)
FundingLands ==
    /\ transfer > 0 /\ hold[0] >= transfer + Fee
    /\ hold' = [hold EXCEPT ![0] = @ - transfer - Fee]
    /\ vault' = vault + transfer /\ transfer' = 0 /\ floor' = 0
    /\ UNCHANGED <<cycleVars, fateVars, pollVars, bundles>>

FundingFails ==
    /\ transfer > 0 /\ transfer' = 0
    /\ UNCHANGED <<cycleVars, fateVars, hold, vault, pollVars, counts>>

-----------------------------------------------------------------------------
TradeStep ==
    \/ \E n \in 2 .. 4, known, oracle \in BOOLEAN, feeds \in {Tokens, {0, 1}},
         answer \in Ages \cup {NoPrice} :
          Gate(n, known, oracle, feeds, [t \in Tokens |-> IF t = 1 THEN answer ELSE 0])
    \/ QuoteLeg \/ QuoteFails \/ Assemble
    \/ \E outs \in Markets : Simulated(outs)
    \/ NotSimulated \/ Submit \/ PollAgain \/ PollDone \/ PollFails

Settlement ==
    \/ \E outs \in Markets : Land(outs) \/ LateLand(outs)
    \/ Drop \/ LateDrop

-----------------------------------------------------------------------------
(* A landed bundle leaves the signer with the vault's amount and the       *)
(* asked minimum, less the tip that is paid behind the assert, and no      *)
(* later bundle of any outcome takes the signer below that                 *)
(* (dl-assert-program/src/lib.rs:121-140, opportunity.rs:221-227).         *)
GainKept == hold[0] >= floor

=============================================================================
