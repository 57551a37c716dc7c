----------------------------- MODULE Detection ------------------------------
(* Two graphs over the same pools.  The live loop feeds every pool update  *)
(* to the streaming graph of dl-stream (detector.rs), whose edges it       *)
(* rewrites in place; replay and reconciliation build a batch graph from   *)
(* the registry (dl-detect graph.rs) and may prune the edges of stale      *)
(* pools (staleness.rs).  Both are searched by find_negative_cycles.       *)
EXTENDS PriceGraph, FiniteSetsExt

CONSTANTS Pools,       \* what is listed on chain: address -> [base, quote, fee]
          Seed,        \* the pool the streaming graph is built from
          Reserves,    \* pairs of reserves a pool may report
          MaxSlot,     \* bound: slots
          MaxAge,      \* max_pool_age_slots
          MaxLegs,     \* max_cycle_legs of the batch search (the live one is 4)
          MaxUpdates   \* bound: pool updates

ASSUME DetectionConstants ==
    /\ Seed \in DOMAIN Pools
    /\ {MaxSlot, MaxAge, MaxLegs, MaxUpdates} \subseteq Nat
    /\ \A a \in DOMAIN Pools : Pools[a].fee \in Nat
    /\ Reserves \subseteq Nat \X Nat
    /\ ByAddress \in Seq(DOMAIN Pools)
    /\ \A i, j \in DOMAIN ByAddress : ByAddress[i] = ByAddress[j] => i = j
    /\ Pools[Seed].base # Pools[Seed].quote
    /\ (MaxLegs - 1) * One <= MaxWeight  \* 4 legs by default, i64::MAX is 9.2 times 1e18

VARIABLES
    now,      \* current slot
    pool,     \* snapshots the loop holds: address -> pool record
    stream,   \* StreamingGraph.graph
    live,     \* StreamingGraph.pool_to_edges: address -> edge indices
    streamed, \* history: the pools whose edges were rewritten by an update
    batch,    \* the graph of the last build_from_pools
    built,    \* history: the snapshots it was built from
    dropped,   \* PruneReport.dropped of the last prune
    updates   \* pool updates so far (bound)

detectionVars == <<now, pool, stream, live, streamed, batch, built, dropped, updates>>

Snapshot(a, r, slot) ==
    [address |-> a, base |-> Pools[a].base, quote |-> Pools[a].quote,
     rb |-> r[1], rq |-> r[2], fee |-> Pools[a].fee, slot |-> slot]

Known == DOMAIN pool

(* StreamingGraph::new over a placeholder pool that is not on chain.       *)
DetectionInit ==
    /\ now = 0
    /\ pool = <<>>
    /\ stream = BuildFromPools(<<Snapshot(Seed, <<One, One>>, 0)>>)
    /\ live = [a \in {Seed} |-> {1, 2}]
    /\ streamed = {}
    /\ batch = NoGraph
    /\ built = {}
    /\ dropped = <<>>
    /\ updates = 0

NextSlot ==
    /\ now < MaxSlot
    /\ now' = now + 1
    /\ UNCHANGED <<pool, stream, live, streamed, batch, built, dropped, updates>>

(***************************************************************************)
(* detector.rs                                                             *)
(***************************************************************************)
StreamFee(fee) == IF fee >= One THEN 0 ELSE One - fee

StreamRate(in, out, fee) ==
    IF out = 0 THEN 0 ELSE (in * StreamFee(fee)) \div out

(* 128 - leading_zeros; bound: rates below 2^31.                            *)
BitLength(n) == Cardinality({b \in 0..30 : 2^b <= n})

StreamWeight(rate) ==
    IF rate = 0 THEN MaxWeight ELSE -(BitLength(rate) * BitWeight)

Reweighted(e, p) ==
    [e EXCEPT !.weight =
        StreamWeight(IF e.b2q THEN StreamRate(p.rb, p.rq, p.fee)
                              ELSE StreamRate(p.rq, p.rb, p.fee))]

(* Mutant: the index is taken to be one behind. *)
RewrittenBehind(edges, index, p) ==
    [i \in DOMAIN edges |->
        IF i - 1 \in index[p.address] THEN Reweighted(edges[i], p) ELSE edges[i]]

(* update_pool: rewrites the edges the index lists for this pool.          *)
Rewritten(edges, index, p) ==
    [i \in DOMAIN edges |->
        IF i \in index[p.address] THEN Reweighted(edges[i], p) ELSE edges[i]]

(* add_pool: the edges of a one-pool graph are appended as they are, with  *)
(* the token ids of that graph.                                            *)
Addition(p) == IF Buildable(<<p>>) THEN BuildFromPools(<<p>>).edges ELSE <<>>

(* on_pool_update *)
Update(p) ==
    \/ /\ p.address \in DOMAIN live
       /\ stream' = [stream EXCEPT !.edges = Rewritten(@, live, p)]
       /\ live' = live
       /\ streamed' = streamed \union {p.address}
    \/ /\ p.address \notin DOMAIN live
       /\ Addition(p) # <<>>
       /\ LET n == Len(stream.edges)
              index == [a \in DOMAIN live \union {p.address} |->
                          IF a \in DOMAIN live THEN live[a] ELSE {n + 1, n + 2}]
          IN  /\ stream' = [stream EXCEPT
                    !.edges = Rewritten(@ \o Addition(p), index, p)]
              /\ live' = index
       /\ streamed' = streamed \union {p.address}
    \/ /\ p.address \notin DOMAIN live
       /\ Addition(p) = <<>>
       /\ UNCHANGED <<stream, live, streamed>>

PoolUpdate(a, r) ==
    /\ updates < MaxUpdates
    /\ updates' = updates + 1
    /\ LET p == Snapshot(a, r, now)
       IN  /\ pool' = [b \in Known \union {a} |-> IF b = a THEN p ELSE pool[b]]
           /\ Update(p)
    /\ UNCHANGED <<now, batch, built, dropped>>

(***************************************************************************)
(* graph.rs and staleness.rs                                               *)
(***************************************************************************)
Rebuild ==
    /\ LET pools == [i \in DOMAIN Listed(Known) |-> pool[Listed(Known)[i]]]
       IN  /\ Buildable(pools)
           /\ batch' = BuildFromPools(pools)
           /\ built' = ToSet(pools)
    /\ dropped' = <<>>
    /\ UNCHANGED <<now, pool, stream, live, streamed, updates>>

(* prune_stale_edges, consulting the current snapshots of some pools.      *)
Prune(S) ==
    LET consulted == {pool[a] : a \in S}
        drops == IF MaxAge = 0 THEN <<>>
                 ELSE StaleEdges(batch.edges, consulted, now, MaxAge)
    IN  /\ batch' = [batch EXCEPT !.edges = PruneStale(@, drops)]
        /\ dropped' = [k \in DOMAIN drops |->
              [pool |-> batch.edges[drops[k]].pool, edge |-> drops[k]]]
        /\ UNCHANGED <<now, pool, stream, live, streamed, built, updates>>

DetectionNext ==
    \/ NextSlot
    \/ \E a \in DOMAIN Pools \ {Seed}, r \in Reserves : PoolUpdate(a, r)
    \/ Rebuild
    \/ \E S \in SUBSET Known : S # {} /\ Prune(S)

DetectionSpec == DetectionInit /\ [][DetectionNext]_detectionVars

(***************************************************************************)
(* Properties                                                              *)
(***************************************************************************)
(* What a cycle is, without a search: a set of edges that enters and       *)
(* leaves each of its tokens once and has no smaller one inside it.        *)
Closed(edges, L) ==
    LET from == {edges[i].from : i \in L}
    IN  /\ from = {edges[i].to : i \in L}
        /\ Cardinality(from) = Cardinality(L)

Cycles(edges, maxLegs) ==
    LET longest == Min({maxLegs, Cardinality({e.from : e \in ToSet(edges)})})
    IN  {L \in UNION {kSubset(k, DOMAIN edges) : k \in 2..longest} :
        /\ Closed(edges, L)
        /\ \A K \in (SUBSET L) \ {{}, L} : ~Closed(edges, K)}

(* The cycle walked from edge i, and whether its sums stay within i64.     *)
Walk(edges, L, i) ==
    LET walk[n \in 1..Cardinality(L)] ==
          IF n = 1 THEN <<i>>
          ELSE Append(walk[n-1], CHOOSE j \in L : edges[j].from = edges[Last(walk[n-1])].to)
    IN  walk[Cardinality(L)]

SumsFit(edges, L) ==
    \E i \in L : \A n \in 1..Cardinality(L) :
        Fits(PathWeight(edges, SubSeq(Walk(edges, L, i), 1, n)))

Sum(edges, L) == MapThenSumSet(LAMBDA i : edges[i].weight, L)

SearchIsExact(g, maxLegs) ==
    LET found == FindNegativeCycles(g, maxLegs)
    IN  /\ {ToSet(found[k]) : k \in DOMAIN found} =
              {L \in Cycles(g.edges, maxLegs) : Sum(g.edges, L) < 0 /\ SumsFit(g.edges, L)}
        /\ IsInjective([k \in DOMAIN found |-> ToSet(found[k])])

(* StreamCurrent: in the streaming graph every pool has exactly its two    *)
(* directions, at the places the index names, and after an update both     *)
(* carry the weight of the reserves last reported, whichever pools were    *)
(* added, refused or updated in between (detector.rs, update_pool,         *)
(* add_pool).                                                              *)
StreamCurrent ==
    /\ {e.pool : e \in ToSet(stream.edges)} = DOMAIN live
    /\ \A a \in DOMAIN live :
          /\ live[a] = {i \in DOMAIN stream.edges : stream.edges[i].pool = a}
          /\ {stream.edges[i].b2q : i \in live[a]} = BOOLEAN
          /\ Cardinality(live[a]) = 2
    /\ \A a \in streamed : \A i \in live[a] :
          stream.edges[i] = Reweighted(stream.edges[i], pool[a])

(* Gains: a unit sent round the cycle at the spot rates, fees taken, comes *)
(* back as more than a unit.                                               *)
SpotRate(i) ==
    LET e == batch.edges[i]
        p == CHOOSE p \in built : p.address = e.pool
    IN  IF e.b2q THEN EffectiveRate(p.rq, p.rb, p.fee) ELSE EffectiveRate(p.rb, p.rq, p.fee)

Product(S, f(_)) == FoldSet(LAMBDA i, acc : acc * f(i), 1, S)

Gains(L) == Product(L, SpotRate) > Product(L, LAMBDA i : One)

(* ProfitableReported: on either graph the depth-first search reports the  *)
(* cycles of at most max_legs legs whose weights add up to a loss, each    *)
(* once, whatever token it was entered from; it passes over one only if    *)
(* every way to walk it leaves the i64 range.  On the batch graph a cycle  *)
(* that gains is one of them, although each weight is rounded and clamped  *)
(* (bellman_ford.rs dfs, graph.rs:20-37 weight_from_rate).                 *)
ProfitableReported ==
    /\ SearchIsExact(batch, MaxLegs) /\ SearchIsExact(stream, 4)
    /\ \A L \in Cycles(batch.edges, MaxLegs) : Gains(L) => Sum(batch.edges, L) < 0

TooOld(e, S) == /\ MaxAge > 0 /\ e.pool \in S
                /\ now > pool[e.pool].slot + MaxAge

(* PruneExact: a prune removes the edges of the consulted pools that are   *)
(* too old and no others, though every removal moves the last edge into    *)
(* the hole; the report lists their places before the prune in ascending   *)
(* order (staleness.rs, prune_stale_edges).                                *)
PruneExact ==
    [][\A S \in SUBSET Known : S # {} /\ updates' = updates /\ Prune(S) =>
          /\ ToSet(batch'.edges) = {e \in ToSet(batch.edges) : ~TooOld(e, S)}
          /\ Len(batch'.edges) = Cardinality(ToSet(batch'.edges))
          /\ {r.edge : r \in ToSet(dropped')} =
                {i \in DOMAIN batch.edges : TooOld(batch.edges[i], S)}
          /\ \A i, j \in DOMAIN dropped' : i < j => dropped'[i].edge < dropped'[j].edge]_detectionVars
=============================================================================
