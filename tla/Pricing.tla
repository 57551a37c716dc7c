------------------------------ MODULE Pricing -------------------------------
(* What a cycle is worth: the fills of the three pool kinds (dl-sim        *)
(* fill.rs, fill_orca.rs, fill_meteora.rs), the walk along the legs        *)
(* (simulate.rs), the cost stack and net profit (cost.rs, net_profit.rs),  *)
(* the search for the input size (sizing.rs) and the two bounds of the     *)
(* expected value (ev.rs, prob.rs).                                        *)
(*                                                                         *)
(* Scales are constants: FeeDenom is 10_000 bps, Q64 and U64 are 2^64,     *)
(* Certain is the probability 1.0 (1e18, or 1_000_000 ppm), PhiNum/PhiDen  *)
(* the inverse golden ratio.  SimErr stands for every SimError.            *)
EXTENDS Integers, Sequences, SequencesExt

CONSTANTS FeeDenom, Q64, U64, MinSqrtPrice, MaxSqrtPrice, PhiNum, PhiDen, MaxIters,
          Tolerance,      \* 10_000: the bracket is closed at max_input / Tolerance
          BaseSigFee, TipFeeBps, TipFeeDenom, PriorityScale, Certain

ASSUME PricingConstants ==
    /\ {FeeDenom, Q64, U64, PhiDen, Tolerance, TipFeeDenom, PriorityScale, Certain} \subseteq Nat \ {0}
    /\ {MinSqrtPrice, MaxSqrtPrice, PhiNum, MaxIters, BaseSigFee, TipFeeBps} \subseteq Nat
    /\ PhiNum < PhiDen /\ MinSqrtPrice > 0

SimErr == -1

Bigger(a, b) == IF a > b THEN a ELSE b
Smaller(a, b) == IF a < b THEN a ELSE b

(***************************************************************************)
(* The fills.                                                              *)
(***************************************************************************)
FillConstantProduct(rin, rout, fee, amount) ==
    CASE amount = 0 -> 0
      [] amount > 0 /\ (rin = 0 \/ rout = 0 \/ fee >= FeeDenom) -> SimErr
      [] OTHER -> LET dx == (amount * (FeeDenom - fee)) \div FeeDenom
                  IN  (rout * dx) \div (rin + dx)

ValidSqrtPrice(p) == p \in MinSqrtPrice..MaxSqrtPrice

(* The virtual output reserve against Q64 of the input.                    *)
VirtualReserve(p) == IF p <= Bigger((Q64 * Q64 - 1) \div p, 1) THEN (p * p) \div Q64 ELSE p

FillOrcaSingleTick(p, amount, fee) ==
    IF ValidSqrtPrice(p) THEN FillConstantProduct(Q64, VirtualReserve(p), fee, amount)
    ELSE SimErr

(* The amount is cast to u64 before the fill.                              *)
FillMeteoraSingleBin(rin, rout, fee, amount) ==
    FillConstantProduct(rin, rout, fee, amount % U64)

(* A pool record holds rb, rq, fee and kind; whirlpools their sqrt, DLMM   *)
(* pools the amounts x, y of the active bin.                               *)
Fill(pool, b2q, amount) ==
    CASE pool.kind = "raydium" ->
            IF b2q THEN FillConstantProduct(pool.rb, pool.rq, pool.fee, amount)
            ELSE FillConstantProduct(pool.rq, pool.rb, pool.fee, amount)
      [] pool.kind = "whirlpool" -> FillOrcaSingleTick(pool.sqrt, amount, pool.fee)
      [] OTHER ->
            IF b2q THEN FillMeteoraSingleBin(pool.x, pool.y, pool.fee, amount)
            ELSE FillMeteoraSingleBin(pool.y, pool.x, pool.fee, amount)

SimulateOneLeg(pool, b2q, amount) ==
    IF pool.fee > FeeDenom THEN SimErr ELSE Fill(pool, b2q, amount)

MaxCycleLegs == 16

(* The output of a cycle, a sequence of edges of the price graph.          *)
SimulateCycle(legs, registry, input) ==
    IF Len(legs) > MaxCycleLegs THEN SimErr
    ELSE FoldLeft(LAMBDA amount, leg :
                    IF amount = SimErr \/ leg.pool \notin DOMAIN registry THEN SimErr
                    ELSE SimulateOneLeg(registry[leg.pool], leg.b2q, amount),
                  input, legs)

(***************************************************************************)
(* Costs, net profit, and the input that maximises it.                     *)
(***************************************************************************)
TotalCost(c) ==
    BaseSigFee * c.signatures + (c.cu * c.price) \div PriorityScale
    + c.tip + (c.tip * TipFeeBps) \div TipFeeDenom

NetProfit(input, gross, cost) ==
    LET net == gross - input - TotalCost(cost)
    IN  [input |-> input, gross |-> gross, net |-> net, profitable |-> net > 0,
         bps |-> IF input = 0 THEN 0
                 ELSE IF net >= 0 THEN (net * 10000) \div input
                      ELSE -((-net * 10000) \div input)]  \* division rounds to zero

NoTrade(best) == [trade |-> FALSE, amount |-> 0, net |-> best, fails |-> FALSE]
Failed == [trade |-> FALSE, amount |-> 0, net |-> 0, fails |-> TRUE]

Offset(span) == (span * PhiNum) \div PhiDen

(* One turn of the loop.  The first m1 is right of the first m2.           *)
Narrow(s, f) ==
    IF f[s.m1] < f[s.m2]
    THEN [lo |-> s.m1, hi |-> s.hi, m1 |-> s.m2, m2 |-> s.m1 + Offset(s.hi - s.m1)]
    ELSE [lo |-> s.lo, hi |-> s.m2, m2 |-> s.m1, m1 |-> s.m2 - Offset(s.m2 - s.lo)]

(* An unsigned hi - lo below zero ends the build with checks in a panic.   *)
Golden(f, max) ==
    LET turn[n \in 0..MaxIters] ==
          LET s == turn[n - 1]
          IN  IF n = 0 THEN [lo |-> 0, hi |-> max, m1 |-> Offset(max), m2 |-> max - Offset(max)]
              ELSE IF s.hi - s.lo <= max \div Tolerance THEN s ELSE Narrow(s, f)
        last == turn[MaxIters]
    IN  [last EXCEPT !.lo = (last.lo + last.hi) \div 2]   \* lo: the midpoint

BestOf(f, s) ==
    LET m == IF f[s.m1] > f[s.lo] THEN s.m1 ELSE s.lo
        b == IF f[s.m2] > f[m] THEN s.m2 ELSE m
    IN  [amount |-> b, net |-> f[b]]

FindOptimalInput(legs, registry, cost, max) ==
    LET out[i \in 0..max] == SimulateCycle(legs, registry, i)
        f[i \in 0..max] == out[i] - i - TotalCost(cost)
        best == BestOf(f, Golden(f, max))
    IN  CASE max = 0 -> NoTrade(0)
          [] max > 0 /\ \E i \in {0, max, max \div 2} : out[i] = SimErr -> Failed
          [] max > 0 /\ \A i \in {0, max, max \div 2} : out[i] # SimErr /\ f[i] <= 0 ->
                NoTrade(Bigger(f[0], Bigger(f[max], f[max \div 2])))
          [] OTHER -> IF best.net > 0
                      THEN [trade |-> TRUE, amount |-> best.amount, net |-> best.net, fails |-> FALSE]
                      ELSE NoTrade(best.net)

(***************************************************************************)
(* Expected value.                                                         *)
(***************************************************************************)
Combine(p, q) == (p * q) \div Certain

(* Applied to the magnitude: a loss and a gain round towards zero.         *)
ApplyTo(p, v) == IF v < 0 THEN -((-v * p) \div Certain) ELSE (v * p) \div Certain

PWin(bps, c) ==
    IF bps <= c.threshold THEN Smaller(c.base, Certain)
    ELSE Smaller(Bigger(c.base - (bps - c.threshold) * c.decay, 0), Certain)

TotalMs(budget) == FoldLeft(LAMBDA a, b : a + b, 0, budget)

PLand(budget, l) ==
    IF TotalMs(budget) <= l.grace THEN Certain
    ELSE Bigger(Certain - (TotalMs(budget) - l.grace) * l.decay, 0)

ExpectedFailedCost(m) == IF m.path = "spam" THEN m.attempts * m.each ELSE 0

Haircut(net, p) ==
    Combine(Combine(p.detect, PWin(net.bps, p.competition)), PLand(p.latency, p.landing))

EvaluateOne(net, p) ==
    ApplyTo(Haircut(net, p), net.net) - ExpectedFailedCost(p.failed)
    - (p.tip * Haircut(net, p)) \div Certain

Evaluate(net, optimistic, conservative) ==
    [optimistic |-> EvaluateOne(net, optimistic),
     conservative |-> EvaluateOne(net, conservative)]

(* The presets.  Unbounded stands for i32::MAX bps and u32::MAX ms. *)
Unbounded == 2147483647
Percent(n) == (Certain * n) \div 100

AlwaysWins  == [base |-> Certain, threshold |-> Unbounded, decay |-> 0]
RarelyWins  == [base |-> Percent(30), threshold |-> 10, decay |-> Percent(1)]
Instantly   == <<0, 0, 0, 0, 0>>
AuctionLong == <<10, 5, 5, 30, 200>>    \* detect, decide, build, network, auction
AlwaysLands == [grace |-> Unbounded, decay |-> 0]
LandsInTime == [grace |-> 50, decay |-> Certain \div 500]
BundleFails == [attempts |-> 0, each |-> 0, path |-> "jito"]
SpamFails   == [attempts |-> 24, each |-> BaseSigFee, path |-> "spam"]

OptimisticBound ==
    [detect |-> Certain, competition |-> AlwaysWins, latency |-> Instantly,
     landing |-> AlwaysLands, failed |-> BundleFails, tip |-> 0]

ConservativeDefault(tip) ==
    [detect |-> Percent(70), competition |-> RarelyWins, latency |-> AuctionLong,
     landing |-> LandsInTime, failed |-> SpamFails, tip |-> tip]
=============================================================================
