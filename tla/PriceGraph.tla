----------------------------- MODULE PriceGraph -----------------------------
(* The price graph of dl-detect (graph.rs), the depth-first search for     *)
(* negative cycles (bellman_ford.rs) and the stale edge prune              *)
(* (staleness.rs), as operators on a record [tokens, edges].               *)
(*                                                                         *)
(* Fixed point: One stands for 1e18, a fee is a fraction of One, and       *)
(* MaxWeight stands for i64::MAX (9.22 times One), so the sums that leave  *)
(* an i64 leave -MaxWeight-1 .. MaxWeight here.                            *)
EXTENDS Integers, Sequences, FiniteSets, SequencesExt

CONSTANTS One,        \* 1e18
          MaxWeight,  \* i64::MAX
          BitWeight,  \* 1e18 / 32, the weight of one bit of a streamed rate
          ByAddress   \* the addresses in byte order

ASSUME GraphConstants ==
    /\ One \in Nat \ {0}
    /\ MaxWeight \in Nat /\ MaxWeight >= One
    /\ BitWeight \in Nat

MinWeight == -MaxWeight - 1

(* The elements of a sequence that are in S, in their order.               *)
Picked(s, S) == FoldLeft(LAMBDA k, x : IF x \in S THEN Append(k, x) ELSE k, <<>>, s)

(* The addresses of a registry, sorted.                                    *)
Listed(known) == Picked(ByAddress, known)

(* checked_add: a sum outside the i64 range is None in the code.           *)
Fits(w) == w \in MinWeight..MaxWeight

(***************************************************************************)
(* graph.rs                                                                *)
(***************************************************************************)
FeeMultiplier(fee) == IF fee > One THEN 0 ELSE One - fee

EffectiveRate(other, this, fee) ==
    (((other * One) \div this) * FeeMultiplier(fee)) \div One

WeightFromRate(rate) ==
    IF One - rate < MinWeight THEN MinWeight ELSE One - rate

NoGraph == [tokens |-> <<>>, edges |-> <<>>]

Interned(tokens, mint) ==
    IF mint \in ToSet(tokens) THEN tokens ELSE Append(tokens, mint)

TokenId(tokens, mint) == CHOOSE i \in DOMAIN tokens : tokens[i] = mint  \* from 1

BuiltEdge(from, to, rate, pool, b2q) ==
    [from |-> from, to |-> to, weight |-> WeightFromRate(rate),
     pool |-> pool, b2q |-> b2q]

(* The two directed edges a pool contributes.                              *)
PushPool(g, p) ==
    LET tokens == Interned(Interned(g.tokens, p.base), p.quote)
        b == TokenId(tokens, p.base)
        q == TokenId(tokens, p.quote)
    IN  [tokens |-> tokens,
         edges  |-> g.edges \o
            << BuiltEdge(b, q, EffectiveRate(p.rq, p.rb, p.fee), p.address, TRUE),
               BuiltEdge(q, b, EffectiveRate(p.rb, p.rq, p.fee), p.address, FALSE) >>]

(* EmptyGraph and DivByZero are the two ways the builder can refuse.       *)
Buildable(pools) ==
    /\ pools # <<>>
    /\ \A i \in DOMAIN pools : pools[i].rb > 0 /\ pools[i].rq > 0

BuildFromPools(pools) == FoldLeft(PushPool, NoGraph, pools)

(***************************************************************************)
(* bellman_ford.rs.  A path is a sequence of edge indices.                 *)
(***************************************************************************)
PathWeight(edges, path) ==
    FoldLeft(LAMBDA w, i : w + edges[i].weight, 0, path)

(* Mutant: a cycle of max_legs legs is over the limit. *)
ClosesEarly(edges, maxLegs, path, i) ==
    /\ Len(path) + 1 < maxLegs
    /\ LET total == PathWeight(edges, path) + edges[i].weight
       IN  Fits(total) /\ total < 0

Closes(edges, maxLegs, path, i) ==
    /\ Len(path) + 1 <= maxLegs
    /\ LET total == PathWeight(edges, path) + edges[i].weight
       IN  Fits(total) /\ total < 0

(* The simple paths from start back to start, in the order of the search.  *)
PathsFrom(edges, start, maxLegs) ==
    LET dfs[path \in Seq(DOMAIN edges)] ==
          LET cur     == IF path = <<>> THEN start ELSE edges[Last(path)].to
              visited == {start} \union {edges[i].to : i \in ToSet(path)}
              try(i)  ==
                IF edges[i].to = start /\ path # <<>>
                THEN IF Closes(edges, maxLegs, path, i) THEN << Append(path, i) >> ELSE <<>>
                ELSE IF \/ edges[i].to \in visited
                        \/ Len(path) + 1 >= maxLegs
                        \/ ~Fits(PathWeight(edges, path) + edges[i].weight)
                     THEN <<>> ELSE dfs[Append(path, i)]
          IN  FlattenSeq([i \in DOMAIN edges |->
                            IF edges[i].from = cur THEN try(i) ELSE <<>>])
    IN  dfs[<<>>]

(* Cycle::new and compute_profit_bps: a cycle with its legs, in order.     *)
ProfitBps(weightSum) ==
    LET w == IF weightSum = MinWeight THEN -MaxWeight ELSE weightSum
    IN  IF w <= 0 THEN (-w * 10000) \div One ELSE -((w * 10000) \div One)

NewCycle(edges, path) ==
    [legs |-> [k \in DOMAIN path |-> edges[path[k]]],
     weight_sum |-> PathWeight(edges, path),
     expected_profit_bps |-> ProfitBps(PathWeight(edges, path))]

(* A cycle found again from another of its tokens is dropped by its sorted *)
(* (pool, direction) signature.                                            *)
Signature(edges, path) == {<<edges[i].pool, edges[i].b2q>> : i \in ToSet(path)}

FindNegativeCycles(g, maxLegs) ==
    IF maxLegs < 2 THEN <<>>
    ELSE LET paths == FlattenSeq([t \in DOMAIN g.tokens |->
                                    PathsFrom(g.edges, t, maxLegs)])
             sig   == [k \in DOMAIN paths |-> Signature(g.edges, paths[k])]
             again(k) == \E j \in 1..(k-1) : sig[j] = sig[k]
         IN  FlattenSeq([k \in DOMAIN paths |-> IF again(k) THEN <<>> ELSE <<paths[k]>>])

(***************************************************************************)
(* staleness.rs.  The pools consulted are a set of snapshots.              *)
(***************************************************************************)
Age(now, p) == IF now > p.slot THEN now - p.slot ELSE 0

StaleEdges(edges, pools, now, maxAge) ==
    Picked([i \in DOMAIN edges |-> i],
         {i \in DOMAIN edges :
             \E p \in pools : p.address = edges[i].pool /\ Age(now, p) > maxAge})

SwapRemove(s, i) ==
    IF i = Len(s) THEN Front(s) ELSE [Front(s) EXCEPT ![i] = Last(s)]

(* Mutant: swap_remove in ascending order. *)
PruneForward(edges, drops) ==
    FoldLeft(LAMBDA s, i : IF i <= Len(s) THEN SwapRemove(s, i) ELSE s, edges, drops)

(* swap_remove in descending order of the indices taken before.            *)
PruneStale(edges, drops) == FoldLeft(SwapRemove, edges, Reverse(drops))
=============================================================================
