------------------------------- MODULE Replay -------------------------------
(* Deterministic replay (dl-recon pipeline.rs): the pools of one           *)
(* observation point become a registry, a price graph, cycles and          *)
(* evaluated records; the records are written as a paper ledger            *)
(* (dl-ledger) and the ledger is reconciled later (dl-recon reconcile.rs,  *)
(* emit-reconciliation) by another process, which may find it torn.       *)
EXTENDS PriceGraph, Pricing, LedgerSummary

CONSTANTS Snapshots,    \* the pool records that may be observed
          MaxGiven,     \* bound: pools of one observation
          MaxInput, Cost, Optimistic, Conservative, MaxCycleLegsSearched  \* ReplayParams

(* A bound of the expected value: a probability of detection, integers for *)
(* what competition, landing and failed attempts take from it.             *)
EvalParams(p) ==
    /\ p.detect \in 0..Certain /\ p.tip \in Nat
    /\ p.competition.threshold \in Int /\ {p.competition.base, p.competition.decay} \subseteq Nat
    /\ p.latency \in Seq(Nat) /\ {p.landing.grace, p.landing.decay} \subseteq Nat
    /\ {p.failed.attempts, p.failed.each} \subseteq Nat

ASSUME ReplayConstants ==
    /\ \A p \in Snapshots : {p.rb, p.rq, p.fee, p.sqrt, p.x, p.y} \subseteq Nat
    /\ ByAddress \in Seq({p.address : p \in Snapshots})
    /\ {MaxGiven, MaxInput, MaxCycleLegsSearched} \subseteq Nat
    /\ {Cost.signatures, Cost.cu, Cost.price, Cost.tip} \subseteq Nat
    /\ EvalParams(Optimistic) /\ EvalParams(Conservative)

VARIABLES
    given,     \* the pools as the caller lists them
    report,    \* << >> or <<ReconReport>>
    ledger,    \* entries written so far
    cut,      \* the writer stopped inside the frame after them
    recon      \* << >> or <<ReconciliationReport>>

replayVars == <<given, report, ledger, cut, recon>>

ReplayInit ==
    /\ given = <<>> /\ report = <<>>
    /\ ledger = <<>> /\ cut = FALSE
    /\ recon = <<>>

(***************************************************************************)
(* fixture.rs: the pools of a synthetic universe.  Consecutive pools share *)
(* a mint, and the last one closes the circle.                             *)
(***************************************************************************)
SynthesizePools(specs, mints) ==
    [i \in DOMAIN specs |->
        [address |-> specs[i].address, kind |-> "raydium",
         base |-> mints[1 + ((i - 1) % Len(mints))], quote |-> mints[1 + (i % Len(mints))],
         rb |-> specs[i].base_reserve, rq |-> specs[i].quote_reserve,
         fee |-> specs[i].fee_bps, slot |-> 1, sqrt |-> 0, x |-> 0, y |-> 0]]

(***************************************************************************)
(* registry.rs and replay_pools_to_ledger                                  *)
(***************************************************************************)
(* insert replaces the pool of the same address.                           *)
Registry(pools) ==
    [a \in {pools[i].address : i \in DOMAIN pools} |->
        LET last == CHOOSE i \in DOMAIN pools :
                       /\ pools[i].address = a
                       /\ \A j \in DOMAIN pools : pools[j].address = a => j <= i
        IN  pools[last]]

SortedPools(pools, registry) ==
    LET present == Listed(DOMAIN registry)
    IN  [n \in DOMAIN present |-> registry[present[n]]]

CycleHash(legs) == [n \in DOMAIN legs |-> <<legs[n].pool, legs[n].b2q>>]

(* Mutant: the optimistic bound gates the trade. *)
DecisionHopeful(outcome) ==
    IF outcome.optimistic > 0 THEN "WouldTrade" ELSE "WouldNotTrade"

Decision(outcome) ==
    IF outcome.conservative > 0 THEN "WouldTrade" ELSE "WouldNotTrade"

Entry(seq, legs, net, outcome) ==
    [seq |-> seq, cycle_hash |-> CycleHash(legs), net |-> net, ev |-> outcome,
     decision |-> Decision(outcome)]

(* The input simulated: the sizer's, or half the limit when it found none. *)
InputOf(sizing) == IF sizing.trade THEN sizing.amount ELSE MaxInput \div 2

CycleRecord(seq, cycle, net, outcome) ==
    [ok |-> TRUE, cycle |-> cycle, entry |-> Entry(seq, cycle.legs, net, outcome)]

EvaluateCycle(seq, cycle, registry) ==
    LET sizing == FindOptimalInput(cycle.legs, registry, Cost, MaxInput)
        gross  == SimulateCycle(cycle.legs, registry, InputOf(sizing))
        net    == NetProfit(InputOf(sizing), gross, Cost)
        record == CycleRecord(seq, cycle, net, Evaluate(net, Optimistic, Conservative))
    IN  [record EXCEPT !.ok = ~sizing.fails /\ gross # SimErr]

(* The report over the evaluated cycles.  Its hash covers seq and entry of *)
(* every record: it is that list.                                          *)
ReconReport(records) ==
    [ok |-> TRUE, entries |-> [n \in DOMAIN records |-> records[n].entry],
     cycles |-> [n \in DOMAIN records |-> records[n].cycle],
     summary |-> FromEntries([n \in DOMAIN records |-> records[n].entry]),
     divergences |-> <<>>, events |-> 0]

ReconError == [ReconReport(<<>>) EXCEPT !.ok = FALSE]

(* graph.rs reads a fee in bps on its own scale.                           *)
GraphPool(p) == [p EXCEPT !.fee = (p.fee * One) \div FeeDenom]

ReplayPoolsToLedger(pools) ==
    LET registry == Registry(pools)
        slice    == SortedPools(pools, registry)
        forGraph == [n \in DOMAIN slice |-> GraphPool(slice[n])]
        graph    == BuildFromPools(forGraph)
        cycles   == FindNegativeCycles(graph, MaxCycleLegsSearched)
        records  == [n \in DOMAIN cycles |->
                       EvaluateCycle(n - 1, NewCycle(graph.edges, cycles[n]), registry)]
    IN  CASE pools = <<>> -> ReconReport(<<>>)
          [] pools # <<>> /\ ~Buildable(forGraph) -> ReconError
          [] OTHER -> IF \A n \in DOMAIN records : records[n].ok
                      THEN ReconReport(records) ELSE ReconError

Observe(p) ==
    /\ report = <<>> /\ Len(given) < MaxGiven
    /\ given' = Append(given, p)
    /\ UNCHANGED <<report, ledger, cut, recon>>

ReplayPools ==
    /\ report = <<>>
    /\ report' = << ReplayPoolsToLedger(given) >>
    /\ UNCHANGED <<given, ledger, cut, recon>>

(***************************************************************************)
(* The ledger, and reconcile_ledger.                                       *)
(***************************************************************************)
WriteEntry ==
    /\ report # <<>> /\ recon = <<>> /\ ~cut
    /\ Len(ledger) < Len(report[1].entries)
    /\ ledger' = Append(ledger, report[1].entries[Len(ledger) + 1])
    /\ UNCHANGED <<given, report, cut, recon>>

StopInEntry ==
    /\ report # <<>> /\ recon = <<>> /\ ~cut
    /\ Len(ledger) < Len(report[1].entries)
    /\ cut' = TRUE
    /\ UNCHANGED <<given, report, ledger, recon>>

ReconRow(e) ==
    [seq |-> e.seq, cycle_hash |-> e.cycle_hash, predicted |-> e.ev.optimistic,
     realized |-> e.ev.conservative, delta |-> e.ev.optimistic - e.ev.conservative,
     decision |-> e.decision]

(* Mutant: a torn last entry ends the report without an error. *)
ReconcileLenient(entries, short) ==
    LET rows == [n \in DOMAIN entries |-> ReconRow(entries[n])]
    IN  [ok |-> TRUE, rows |-> rows,
         predicted |-> Total(rows, LAMBDA r : r.predicted),
         realized |-> Total(rows, LAMBDA r : r.realized),
         traded |-> Count(rows, "WouldTrade"), not_traded |-> Count(rows, "WouldNotTrade")]

ReconcileLedger(entries, short) ==
    LET rows == [n \in DOMAIN entries |-> ReconRow(entries[n])]
    IN  [ok |-> ~short, rows |-> IF short THEN <<>> ELSE rows,
         predicted |-> Total(rows, LAMBDA r : r.predicted),
         realized |-> Total(rows, LAMBDA r : r.realized),
         traded |-> Count(rows, "WouldTrade"), not_traded |-> Count(rows, "WouldNotTrade")]

Reconcile ==
    /\ report # <<>> /\ recon = <<>>
    /\ recon' = << ReconcileLedger(ledger, cut) >>
    /\ UNCHANGED <<given, report, ledger, cut>>

ReplayNext ==
    \/ \E p \in Snapshots : Observe(p)
    \/ ReplayPools
    \/ WriteEntry
    \/ StopInEntry
    \/ Reconcile

ReplaySpec == ReplayInit /\ [][ReplayNext]_replayVars

(***************************************************************************)
(* Properties.                                                             *)
(***************************************************************************)
(* A record that would trade gains at the input it names: its legs, filled *)
(* one after the other from the pools of the registry, return more than    *)
(* the input, all costs and the expected failed attempts.  It is no gain   *)
(* that rounding makes: no pool of two reserves pays out its whole         *)
(* reserve, and going through one and back never gains (ev.rs evaluate,    *)
(* sizing.rs, fill_raydium.rs, fill_meteora.rs).                           *)
TradesPay ==
    /\ report # <<>> =>
         \A n \in DOMAIN report[1].entries :
             LET e == report[1].entries[n]
             IN  e.decision = "WouldTrade" =>
                   /\ e.net.input \in 1..MaxInput
                   /\ SimulateCycle(report[1].cycles[n].legs, Registry(given), e.net.input)
                         > e.net.input + TotalCost(Cost) + ExpectedFailedCost(Conservative.failed)
    /\ \A n \in DOMAIN given : given[n].kind # "whirlpool" =>
         \A b2q \in BOOLEAN, amount \in 1..MaxInput :
             LET out == SimulateOneLeg(given[n], b2q, amount)
                 held == IF given[n].kind = "raydium"
                         THEN IF b2q THEN given[n].rq ELSE given[n].rb
                         ELSE IF b2q THEN given[n].y ELSE given[n].x
             IN  out > 0 => out < held /\ SimulateOneLeg(given[n], ~b2q, out) <= amount

(* A ledger that was written whole reconciles to the summary of the replay *)
(* that wrote it, and one that stops inside an entry is refused.           *)
ReconcileAgrees ==
    recon # <<>> =>
        LET r == recon[1] s == report[1].summary
        IN  /\ r.ok = ~cut
            /\ r.ok /\ Len(ledger) = s.total =>
                  /\ r.predicted = s.optimistic /\ r.realized = s.conservative
                  /\ r.traded = s.would_trade /\ r.not_traded = s.would_not_trade

=============================================================================
