------------------------ MODULE PoolTrackingProofs --------------------------
(***************************************************************************)
(* What the loop and the detector know of each other, for any pools,       *)
(* layouts, vault sizes, amounts and order of updates.                     *)
(***************************************************************************)
EXTENDS PoolTracking, SequenceTheorems, WellFoundedInduction, TLAPS

(* Updates carry an account as it is, or as it is when it was closed. *)
Updates ==
    {Update(key, size, n) : key \in Accounts, size \in {0} \cup {SizeOf(k) : k \in Accounts},
                            n \in 0 .. MaxAmount}

(* What the loop tracks is an account that its bytes make a pool, so the   *)
(* last resort never finds it again and cannot empty its edges; the        *)
(* detector has no pool the loop does not track.                           *)
Known ==
    /\ queue \in Seq(Updates)
    /\ \A k \in DOMAIN queue : queue[k].size \in {0, SizeOf(queue[k].key)}
    /\ DOMAIN edges \subseteq DOMAIN tracked
    /\ \A a \in DOMAIN tracked : Taken(SizeOf(a)) \in DOMAIN Offsets
    /\ DetectorKnows

-----------------------------------------------------------------------------
LEMMA NothingDecodesEmpty ==
  /\ Taken(0) = "none"
  /\ ~Decodes(LastResort(0), Account(0))
<1>1. Needs.lb_pair = 2236 /\ Needs.whirlpool_real = 653 /\ Needs.token = 165
  BY DEF Needs, BinWindow
<1>2. Ladder(0) = <<"whirlpool_real", "none", "none", "token">>
  BY <1>1 DEF Ladder
<1>3. \A k \in 1 .. 4 : Ladder(0)[k] # "none" => ~Decodes(Ladder(0)[k], Account(0))
  <2>1. ~Decodes("whirlpool_real", Account(0)) /\ ~Decodes("token", Account(0))
    BY <1>1 DEF Decodes, Account
  <2> QED BY <1>2, <2>1
<1>4. LastResort(0) = "lb_pair"
  BY DEF LastResort
<1>5. ~Decodes("lb_pair", Account(0))
  BY <1>1 DEF Decodes, Account
<1> QED BY <1>3, <1>4, <1>5 DEF Taken

LEMMA NamesOfPools == "none" \notin DOMAIN Offsets /\ "token" \notin DOMAIN Offsets
BY DEF Offsets

LEMMA EmptyIsNotTwoSided == ~TwoSided(Empty)
BY DEF TwoSided, Empty, Sides

LEMMA NoPoolFromEmpty ==
  ASSUME NEW a, OnPoolUpdate(a, Empty)
  PROVE  edges' = IF a \in DOMAIN edges THEN Put(edges, a, Empty) ELSE edges
BY EmptyIsNotTwoSided DEF OnPoolUpdate

(* The head of the queue, and what is left of it. *)
LEMMA HeadFacts ==
  ASSUME Known, queue # <<>>, queue' = Tail(queue), network' = network
  PROVE  /\ Head(queue).size \in {0, SizeOf(Head(queue).key)}
         /\ Len(queue') = Len(queue) - 1
         /\ queue' \in Seq(Updates')
         /\ (\A k \in DOMAIN queue : queue[k].size \in {0, SizeOf(queue[k].key)})'
<1>1. /\ queue \in Seq(Updates) /\ Len(queue) \in Nat \ {0} /\ Head(queue) = queue[1]
      /\ DOMAIN queue = 1 .. Len(queue)
  BY EmptySeq, LenProperties, HeadTailProperties DEF Known
<1>2. /\ Tail(queue) \in Seq(Updates) /\ Len(Tail(queue)) = Len(queue) - 1
      /\ \A i \in 1 .. Len(Tail(queue)) : Tail(queue)[i] = queue[i + 1]
  BY <1>1, HeadTailProperties
<1>3. Updates' = Updates /\ \A key : SizeOf(key)' = SizeOf(key)
  BY DEF Updates, SizeOf, LayoutOf
<1>4. DOMAIN Tail(queue) = 1 .. Len(queue) - 1
  BY <1>2, LenProperties
<1> QED BY <1>1, <1>2, <1>3, <1>4 DEF Known

(* A change on chain reaches the end of the queue. *)
LEMMA Queued ==
  ASSUME Known, UNCHANGED <<network, loopVars>>,
         queue' = queue \/ \E key \in Accounts, n \in 0 .. MaxAmount :
                              \E size \in {0, SizeOf(key)} :
                                 queue' = Append(queue, Update(key, size, n))
  PROVE  Known'
<1>1. Updates' = Updates /\ \A key : SizeOf(key)' = SizeOf(key)
  BY DEF Updates, SizeOf, LayoutOf
<1>2. ASSUME NEW key \in Accounts, NEW size \in {0, SizeOf(key)}, NEW n \in 0 .. MaxAmount,
             queue' = Append(queue, Update(key, size, n))
      PROVE  /\ queue' \in Seq(Updates)
             /\ \A k \in DOMAIN queue' : queue'[k].size \in {0, SizeOf(queue'[k].key)}
  <2> DEFINE u == Update(key, size, n)
  <2>1. u \in Updates /\ u.key = key /\ u.size = size
    <3>1. size \in {0} \cup {SizeOf(k) : k \in Accounts}
      OBVIOUS
    <3>2. u \in Updates
      BY SMTT(30), <3>1 DEF Updates
    <3> QED BY <3>2 DEF Update
  <2>2. /\ queue' \in Seq(Updates) /\ Len(queue') = Len(queue) + 1
        /\ \A i \in 1 .. Len(queue) : queue'[i] = queue[i]
        /\ queue'[Len(queue) + 1] = u
    BY <1>2, <2>1, AppendProperties DEF Known
  <2>3. Len(queue) \in Nat /\ DOMAIN queue = 1 .. Len(queue)
        /\ DOMAIN queue' = 1 .. Len(queue) + 1
    BY <2>2, LenProperties DEF Known
  <2> QED BY <2>1, <2>2, <2>3 DEF Known
<1>3. /\ queue' \in Seq(Updates)
      /\ \A k \in DOMAIN queue' : queue'[k].size \in {0, SizeOf(queue'[k].key)}
  BY <1>2 DEF Known
<1> QED BY <1>1, <1>3 DEF Known, loopVars, DetectorKnows

-----------------------------------------------------------------------------
(* Of a pool that the map has with both reserves, a simulation sees what   *)
(* was detected; pools other than a keep theirs.                           *)
LEMMA Explained ==
  ASSUME Known, NEW a, Evaluate(tracked) \/ Evaluate(tracked'),
         \A q : q # a /\ q \in DOMAIN edges' => q \in DOMAIN edges /\ edges'[q] = edges[q],
         \A q \in DOMAIN tracked : q # a => tracked'[q] = tracked[q]
  PROVE  \A q \in mismatch' : q = a \/ ~TwoSided(tracked'[q])
<1> SUFFICES ASSUME NEW q \in mismatch', q # a PROVE ~TwoSided(tracked'[q])
  OBVIOUS
<1>1. q \in DOMAIN edges'
  BY DEF Evaluate
<1>2. q \in DOMAIN tracked /\ tracked'[q] = tracked[q] /\ edges'[q] = edges[q]
  BY <1>1 DEF Known
<1>3. tracked[q] # edges[q]
  BY <1>2 DEF Evaluate
<1> QED BY <1>2, <1>3 DEF Known, DetectorKnows

(* Both facts of one step: the invariant, and whom its evaluation can      *)
(* have missed.                                                            *)
LEMMA PoolStep ==
  ASSUME Known, NEW refused, PoolUpdate(refused)
  PROVE  Known' /\ \A q \in mismatch' : q[1] = Head(queue).key[1] \/ ~TwoSided(tracked'[q])
<1> DEFINE a == Head(queue).key
<1>1. /\ queue # <<>> /\ queue' = Tail(queue) /\ network' = network
      /\ Taken(Head(queue).size) \in DOMAIN Offsets
      /\ tracked' = Put(tracked, a, Empty) /\ OnPoolUpdate(a, Empty) /\ Evaluate(tracked')
  BY DEF PoolUpdate, chainVars, TakenAs
<1>2. Taken(SizeOf(a)) \in DOMAIN Offsets
  BY <1>1, HeadFacts, NothingDecodesEmpty, NamesOfPools
<1>3. edges' = IF a \in DOMAIN edges THEN Put(edges, a, Empty) ELSE edges
  BY <1>1, NoPoolFromEmpty
<1> HIDE DEF a
<1>4. /\ DOMAIN tracked' = DOMAIN tracked \cup {a} /\ tracked'[a] = Empty
      /\ \A q \in DOMAIN tracked : q # a => tracked'[q] = tracked[q]
  BY <1>1 DEF Put
<1>5. DOMAIN edges' = DOMAIN edges /\ \A q \in DOMAIN edges : q # a => edges'[q] = edges[q]
  BY <1>3 DEF Put
<1>6. \A q : SizeOf(q)' = SizeOf(q)
  BY <1>1 DEF SizeOf, LayoutOf
<1>7. Known'
  BY <1>1, <1>2, <1>4, <1>5, <1>6, HeadFacts, EmptyIsNotTwoSided DEF Known, DetectorKnows
<1>8. \A q \in mismatch' : q = a \/ ~TwoSided(tracked'[q])
  BY <1>1, <1>4, <1>5, Explained
<1> QED BY <1>7, <1>8 DEF a

LEMMA VaultStep ==
  ASSUME Known, VaultUpdate
  PROVE  Known' /\ \A q \in mismatch' : q[1] = Head(queue).key[1] \/ ~TwoSided(tracked'[q])
<1>1. queue # <<>> /\ queue' = Tail(queue) /\ network' = network
  BY DEF VaultUpdate, chainVars
<1>2. \A q : SizeOf(q)' = SizeOf(q)
  BY <1>1 DEF SizeOf, LayoutOf
<1>3. CASE Parents(Head(queue)) = {}
  <2>1. mismatch' = {} /\ UNCHANGED <<tracked, edges>>
    BY <1>3 DEF VaultUpdate
  <2> QED BY <1>1, <1>2, <2>1, HeadFacts DEF Known, DetectorKnows
<1>4. CASE Parents(Head(queue)) # {}
  <2>1. PICK a, r :
           /\ a \in Parents(Head(queue))
           /\ tracked' = [tracked EXCEPT ![a] = r]
           /\ IF TwoSided(r) THEN OnPoolUpdate(a, r) /\ Evaluate(tracked)
                             ELSE mismatch' = {} /\ UNCHANGED edges
    BY <1>4 DEF VaultUpdate
  <2>2. a \in DOMAIN tracked /\ a[1] = Head(queue).key[1]
    BY <2>1 DEF Parents, VaultsRead, VaultKey
  <2>3. /\ DOMAIN tracked' = DOMAIN tracked /\ tracked'[a] = r
        /\ \A q \in DOMAIN tracked : q # a => tracked'[q] = tracked[q]
    BY <2>1, <2>2
  <2>4. CASE TwoSided(r)
    <3>1. edges' = Put(edges, a, r)
      BY <2>1, <2>4 DEF OnPoolUpdate
    <3>2. /\ DOMAIN edges' = DOMAIN edges \cup {a} /\ edges'[a] = r
          /\ \A q \in DOMAIN edges : q # a => edges'[q] = edges[q]
      BY <3>1 DEF Put
    <3>3. Known'
      BY <1>1, <1>2, <2>2, <2>3, <3>2, HeadFacts DEF Known, DetectorKnows
    <3>4. \A q \in mismatch' : q = a \/ ~TwoSided(tracked'[q])
      BY <2>1, <2>3, <2>4, <3>2, Explained
    <3> QED BY <2>2, <3>3, <3>4
  <2>5. CASE ~TwoSided(r)
    <3>1. mismatch' = {} /\ edges' = edges
      BY <2>1, <2>5
    <3> QED BY <1>1, <1>2, <2>3, <2>5, <3>1, HeadFacts DEF Known, DetectorKnows
  <2> QED BY <2>4, <2>5
<1> QED BY <1>3, <1>4

LEMMA OtherStep ==
  ASSUME Known, Other
  PROVE  Known' /\ \A q \in mismatch' : ~TwoSided(tracked'[q])
<1> DEFINE a == Head(queue).key
<1>1. /\ queue # <<>> /\ queue' = Tail(queue) /\ network' = network
      /\ Taken(Head(queue).size) = "none" /\ UNCHANGED tracked
  BY DEF Other, chainVars, TakenAs
<1>2. \A q : SizeOf(q)' = SizeOf(q)
  BY <1>1 DEF SizeOf, LayoutOf
<1>3. CASE ~Decodes(LastResort(Head(queue).size), Account(Head(queue).size))
  <2>1. mismatch' = {} /\ UNCHANGED edges
    BY <1>3 DEF Other
  <2> QED BY <1>1, <1>2, <2>1, HeadFacts DEF Known, DetectorKnows
<1>4. CASE Decodes(LastResort(Head(queue).size), Account(Head(queue).size))
  <2>1. OnPoolUpdate(a, Empty) /\ Evaluate(tracked)
    BY <1>4 DEF Other
  <2>2. Head(queue).size = SizeOf(a)
    BY <1>1, <1>4, HeadFacts, NothingDecodesEmpty
  <2>3. a \notin DOMAIN tracked
    BY <1>1, <2>2, NamesOfPools DEF Known
  <2>4. edges' = edges
    BY <2>1, <2>3, NoPoolFromEmpty DEF Known
  <2>5. Known'
    BY <1>1, <1>2, <2>4, HeadFacts DEF Known, DetectorKnows
  <2>6. ASSUME NEW q \in mismatch' PROVE ~TwoSided(tracked'[q])
    <3>1. q \in DOMAIN edges /\ tracked[q] # edges[q]
      BY <2>1, <2>4, <2>6 DEF Evaluate
    <3> QED BY <1>1, <3>1 DEF Known, DetectorKnows
  <2> QED BY <2>5, <2>6
<1> QED BY <1>3, <1>4

LEMMA KnownStep ==
  ASSUME Known, [Next]_vars
  PROVE  /\ Known'
         /\ Len(queue') < Len(queue) =>
              \A q \in mismatch' : q[1] = Head(queue).key[1] \/ ~TwoSided(tracked'[q])
<1>1. Len(queue) \in Nat
  BY LenProperties DEF Known
<1>2. CASE UNCHANGED vars
  <2>1. UNCHANGED <<queue, network, loopVars>>
    BY <1>2 DEF vars, chainVars
  <2> QED BY <1>1, <2>1, Queued
<1>3. ASSUME UNCHANGED <<network, loopVars>>, NEW key \in Accounts,
             NEW size \in {0, SizeOf(key)}, NEW n \in 0 .. MaxAmount,
             queue' = queue \/ queue' = Append(queue, Update(key, size, n))
      PROVE  Known' /\ ~(Len(queue') < Len(queue))
  <2>1. Update(key, size, n) \in Updates
    BY <1>3 DEF Updates
  <2>2. Len(queue') \in {Len(queue), Len(queue) + 1}
    BY <1>3, <2>1, AppendProperties DEF Known
  <2> QED BY <1>1, <1>3, <2>2, Queued
<1>4. ASSUME NEW v \in Vaults, NEW n \in 0 .. MaxAmount, Swap(v, n)
      PROVE  Known' /\ ~(Len(queue') < Len(queue))
  <2>1. v \in Accounts
    BY DEF Accounts
  <2> QED BY <1>3, <1>4, <2>1 DEF Swap
<1>5. ASSUME NEW v \in Vaults, Close(v) PROVE Known' /\ ~(Len(queue') < Len(queue))
  <2>1. v \in Accounts /\ 0 \in 0 .. MaxAmount
    BY TrackingAssumption DEF Accounts
  <2> QED BY <1>3, <1>5, <2>1 DEF Close
<1>6. ASSUME NEW p \in Pools, TouchPool(p) PROVE Known' /\ ~(Len(queue') < Len(queue))
  <2>1. <<p, "pool">> \in Accounts /\ 0 \in 0 .. MaxAmount
    BY TrackingAssumption DEF Accounts
  <2> QED BY <1>3, <1>6, <2>1 DEF TouchPool
<1>7. CASE Step
  BY <1>7, PoolStep, VaultStep, OtherStep DEF Step
<1> QED BY <1>2, <1>4, <1>5, <1>6, <1>7 DEF Next

LEMMA KnownHolds == Spec => []Known
<1>1. Init => Known
  BY DEF Init, Known, DetectorKnows
<1>2. Known /\ [Next]_vars => Known'
  BY KnownStep
<1> QED BY <1>1, <1>2, PTL DEF Spec

(* For any pools, layouts and vault sizes, and any order of their updates, *)
(* a pool with both reserves has in the detector the reserves it has in    *)
(* the map (main.rs:1325-1396).                                            *)
THEOREM DetectorIsTold == Spec => []DetectorKnows
<1>1. Known => DetectorKnows
  BY DEF Known
<1> QED BY <1>1, KnownHolds, PTL

(* For any of them, a simulation differs from what was detected only in    *)
(* the pool just updated and in pools with an empty side                   *)
(* (main.rs:1372-1392).                                                    *)
THEOREM MismatchIsExplained == Spec => MismatchExplained
<1>1. Known /\ [Next]_vars =>
        [Len(queue') < Len(queue) =>
           \A a \in mismatch' :
              a[1] = Head(queue).key[1] \/ ~TwoSided(tracked'[a])]_vars
  BY KnownStep
<1> QED BY <1>1, KnownHolds, PTL DEF Spec, MismatchExplained

-----------------------------------------------------------------------------
(* Induction over the numbers, from the least element of a set. *)

LEMMA Induct ==
  ASSUME NEW S, 0 \in S, \A n \in Nat : n \in S => n + 1 \in S
  PROVE  Nat \subseteq S
<1> DEFINE Less == OpToRel(<, Nat)
           T == Nat \ S
<1>1. IsWellFoundedOn(Less, Nat)
  BY NatLessThanWellFounded
<1>2. \A m, n \in Nat : m < n => <<m, n>> \in Less
  BY DEF OpToRel
<1> HIDE DEF Less
<1> SUFFICES ASSUME T # {} PROVE FALSE
  OBVIOUS
<1>3. PICK m \in T : \A k \in T : ~ (<<k, m>> \in Less)
  <2>1. T \subseteq Nat
    OBVIOUS
  <2> HIDE DEF T
  <2> QED BY <1>1, <2>1, WFMin
<1>4. m # 0 /\ m \in Nat
  BY <1>3
<1>5. m - 1 \in Nat /\ m - 1 < m /\ (m - 1) + 1 = m
  BY <1>4
<1>6. m - 1 \in S
  BY <1>2, <1>3, <1>4, <1>5
<1> QED BY <1>3, <1>5, <1>6

LEMMA InductUpTo ==
  ASSUME NEW N \in Nat, NEW S, 0 \in S,
         \A n \in 0 .. N : n < N /\ n \in S => n + 1 \in S
  PROVE  \A n \in 0 .. N : n \in S
<1> DEFINE T == {n \in Nat : n <= N => n \in S}
<1>1. 0 \in T
  OBVIOUS
<1>2. ASSUME NEW n \in Nat, n \in T PROVE n + 1 \in T
  BY <1>2
<1>3. Nat \subseteq T
  <2> HIDE DEF T
  <2> QED BY <1>1, <1>2, Induct
<1> QED BY <1>3

-----------------------------------------------------------------------------
(* Where the fields of a layout end: the layouts are joined of parts, and  *)
(* a part is moved by what stands before it.                               *)
FieldNames ==
    {"min_separate_numerator", "min_separate_denominator",
     "trade_fee_numerator", "trade_fee_denominator", "pnl_numerator",
     "pnl_denominator", "swap_fee_numerator", "swap_fee_denominator",
     "need_take_pnl_coin", "need_take_pnl_pc", "total_pnl_pc",
     "total_pnl_coin", "pool_open_time", "padding", "orderbook_to_init_time",
     "swap_coin_in_amount", "swap_pc_out_amount", "swap_acc_pc_fee",
     "swap_pc_in_amount", "swap_coin_out_amount", "swap_acc_coin_fee",
     "status", "nonce", "order_num", "depth", "base_decimals",
     "quote_decimals", "state", "reset_flag", "min_size",
     "vol_max_cut_ratio", "amount_wave", "coin_lot_size", "pc_lot_size",
     "min_price_multiplier", "max_price_multiplier", "sys_decimal_value",
     "base_vault", "quote_vault", "base_mint", "quote_mint", "lp_mint",
     "open_orders", "market", "market_program", "target_orders", "padding1",
     "amm_owner", "lp_amount", "client_order_id", "recent_epoch", "padding2",
     "sqrt_price", "tick_current_index", "tick_spacing", "liquidity",
     "extra", "fee_rate", "bin_step", "active_id", "x_program_flag",
     "y_program_flag", "bin_amount_x", "bin_amount_y", "bin_price",
     "discriminator", "bump", "unread", "protocol_fee_rate",
     "protocol_fee_owed_a", "protocol_fee_owed_b", "reward_infos",
     "reward_last_updated", "mint", "owner", "amount", "rest"}

Fields == FieldNames \X Nat

LEMMA EndsIs ==
  ASSUME NEW l \in Seq(Fields)
  PROVE  /\ EndsAt(l)[0] = 0
         /\ \A n \in 1 .. Len(l) : EndsAt(l)[n] = EndsAt(l)[n - 1] + l[n][2]
         /\ \A n \in 0 .. Len(l) : EndsAt(l)[n] \in Nat
<1> DEFINE N == Len(l)
           Def(g, n) == g = [i \in 0 .. n |-> IF i = 0 THEN 0 ELSE g[i - 1] + l[i][2]]
           S == {n \in Nat : \E g : Def(g, n)}
           e == EndsAt(l)
<1>0. N \in Nat /\ \A i \in 1 .. N : l[i][2] \in Nat
  BY LenProperties, ElementOfSeq DEF Fields
<1>1. 0 \in S
  <2> DEFINE g == [i \in 0 .. 0 |-> 0]
  <2>1. Def(g, 0)
    OBVIOUS
  <2> QED BY <2>1
<1>2. ASSUME NEW n \in Nat, n \in S PROVE n + 1 \in S
  <2>1. PICK g : Def(g, n)
    BY <1>2
  <2> DEFINE h == [i \in 0 .. n + 1 |-> IF i = n + 1 THEN g[n] + l[n + 1][2] ELSE g[i]]
  <2>2. \A i \in 0 .. n : g[i] = IF i = 0 THEN 0 ELSE g[i - 1] + l[i][2]
    BY <2>1, Zenon
  <2>3. ASSUME NEW i \in 0 .. n + 1
        PROVE  h[i] = IF i = 0 THEN 0 ELSE h[i - 1] + l[i][2]
    <3>1. CASE i = n + 1
      <4>1. h[i] = g[n] + l[n + 1][2] /\ h[i - 1] = g[n] /\ i # 0
        BY <3>1
      <4> QED BY <3>1, <4>1
    <3>2. CASE i \in 0 .. n
      <4>1. h[i] = g[i] /\ (i # 0 => h[i - 1] = g[i - 1])
        BY <3>2
      <4> HIDE DEF h
      <4> QED BY <2>2, <3>2, <4>1
    <3> QED BY <3>1, <3>2
  <2>4. DOMAIN h = 0 .. n + 1 /\ h = [i \in 0 .. n + 1 |-> h[i]]
    OBVIOUS
  <2>5. Def(h, n + 1)
    <3> HIDE DEF h
    <3> QED BY <2>3, <2>4, Zenon
  <2> HIDE DEF h, Def
  <2> QED BY <2>5
<1>3. N \in S
  <2> HIDE DEF S, N
  <2> QED BY <1>0, <1>1, <1>2, Induct
<1>4. Def(e, N)
  <2>1. \E g : Def(g, N)
    BY <1>3
  <2>2. e = CHOOSE g : Def(g, N)
    BY Zenon DEF EndsAt
  <2> HIDE DEF Def, e
  <2> QED BY <2>1, <2>2, Zenon
<1> HIDE DEF e
<1>5. \A i \in 0 .. N : e[i] = IF i = 0 THEN 0 ELSE e[i - 1] + l[i][2]
  BY <1>4, Zenon
<1> HIDE DEF N
<1> DEFINE P == {n \in Nat : e[n] \in Nat}
<1>6. 0 \in P
  BY <1>0, <1>5
<1>7. ASSUME NEW n \in 0 .. N, n < N, n \in P PROVE n + 1 \in P
  <2>1. n + 1 \in 0 .. N /\ n + 1 \in 1 .. N /\ n + 1 # 0 /\ (n + 1) - 1 = n
    BY <1>0, <1>7
  <2>2. e[n + 1] = e[n] + l[n + 1][2]
    BY <1>5, <2>1
  <2> QED BY <1>0, <1>7, <2>1, <2>2
<1>8. \A n \in 0 .. N : n \in P
  <2> HIDE DEF P
  <2> QED BY <1>0, <1>6, <1>7, InductUpTo
<1>9. 0 \in 0 .. N /\ \A i \in 1 .. N : i \in 0 .. N /\ i # 0
  BY <1>0
<1> QED BY <1>5, <1>8, <1>9 DEF N, e

Total(l) == EndsAt(l)[Len(l)]

LEMMA TotalIs == ASSUME NEW l \in Seq(Fields) PROVE Total(l) \in Nat
<1>1. Len(l) \in Nat
  BY LenProperties
<1>2. Len(l) \in 0 .. Len(l)
  BY <1>1
<1> QED BY <1>2, EndsIs DEF Total

LEMMA JoinedEnds ==
  ASSUME NEW a \in Seq(Fields), NEW b \in Seq(Fields)
  PROVE  /\ a \o b \in Seq(Fields) /\ Len(a \o b) = Len(a) + Len(b)
         /\ \A n \in 0 .. Len(a) : EndsAt(a \o b)[n] = EndsAt(a)[n]
         /\ \A n \in 0 .. Len(b) : EndsAt(a \o b)[Len(a) + n] = Total(a) + EndsAt(b)[n]
         /\ Total(a \o b) = Total(a) + Total(b)
<1> DEFINE c == a \o b
           A == Len(a)
           B == Len(b)
           S == {n \in Nat : EndsAt(c)[n] = EndsAt(a)[n]}
           T == {n \in Nat : EndsAt(c)[A + n] = Total(a) + EndsAt(b)[n]}
<1>1. A \in Nat /\ B \in Nat /\ A \in 0 .. A /\ B \in 0 .. B
  <2>1. Len(a) \in Nat /\ Len(b) \in Nat
    BY LenProperties
  <2> QED BY <2>1
<1>2. /\ c \in Seq(Fields) /\ Len(c) = A + B
      /\ \A i \in 1 .. A : c[i] = a[i]
      /\ \A i \in 1 .. B : c[A + i] = b[i]
  <2>1. /\ c \in Seq(Fields) /\ Len(c) = A + B
        /\ \A i \in 1 .. A + B : c[i] = IF i <= A THEN a[i] ELSE b[i - A]
    BY ConcatProperties
  <2> HIDE DEF c, A, B
  <2>2. ASSUME NEW i \in 1 .. A PROVE c[i] = a[i]
    BY <1>1, <2>1
  <2>3. ASSUME NEW i \in 1 .. B PROVE c[A + i] = b[i]
    <3>1. A + i \in 1 .. A + B /\ ~ (A + i <= A) /\ (A + i) - A = i
      BY <1>1
    <3> QED BY <2>1, <3>1
  <2> QED BY <2>1, <2>2, <2>3
<1> HIDE DEF c
<1>3. /\ EndsAt(c)[0] = 0
      /\ \A n \in 1 .. A + B : EndsAt(c)[n] = EndsAt(c)[n - 1] + c[n][2]
  BY <1>2, EndsIs
<1>4. /\ EndsAt(a)[0] = 0
      /\ \A n \in 1 .. A : EndsAt(a)[n] = EndsAt(a)[n - 1] + a[n][2]
      /\ \A n \in 0 .. A : EndsAt(a)[n] \in Nat
  BY EndsIs
<1>5. /\ EndsAt(b)[0] = 0
      /\ \A n \in 1 .. B : EndsAt(b)[n] = EndsAt(b)[n - 1] + b[n][2]
      /\ \A n \in 0 .. B : EndsAt(b)[n] \in Nat
      /\ \A n \in 1 .. B : b[n][2] \in Nat
  BY EndsIs, ElementOfSeq DEF Fields
<1>6. 0 \in S
  BY <1>3, <1>4
<1>7. ASSUME NEW n \in 0 .. A, n < A, n \in S PROVE n + 1 \in S
  <2>1. n + 1 \in 1 .. A /\ n + 1 \in 1 .. A + B /\ (n + 1) - 1 = n /\ n + 1 \in Nat
    BY <1>1, <1>7
  <2>2. EndsAt(c)[n + 1] = EndsAt(c)[n] + c[n + 1][2]
    BY <1>3, <2>1
  <2>3. EndsAt(a)[n + 1] = EndsAt(a)[n] + a[n + 1][2]
    BY <1>4, <2>1
  <2>4. EndsAt(c)[n] = EndsAt(a)[n] /\ c[n + 1] = a[n + 1]
    BY <1>2, <1>7, <2>1
  <2> QED BY <2>1, <2>2, <2>3, <2>4
<1>8. \A n \in 0 .. A : n \in S
  <2> HIDE DEF S, A
  <2> QED BY <1>1, <1>6, <1>7, InductUpTo
<1>9. 0 \in T
  <2>1. EndsAt(c)[A] = EndsAt(a)[A] /\ EndsAt(a)[A] \in Nat
    BY <1>1, <1>4, <1>8
  <2> QED BY <1>1, <1>5, <2>1 DEF Total
<1>10. ASSUME NEW n \in 0 .. B, n < B, n \in T PROVE n + 1 \in T
  <2>1. /\ n + 1 \in 1 .. B /\ A + (n + 1) \in 1 .. A + B /\ (n + 1) - 1 = n
        /\ n + 1 \in Nat /\ (A + (n + 1)) - 1 = A + n
    BY <1>1, <1>10
  <2>2. EndsAt(c)[A + (n + 1)] = EndsAt(c)[A + n] + c[A + (n + 1)][2]
    BY <1>3, <2>1
  <2>3. EndsAt(b)[n + 1] = EndsAt(b)[n] + b[n + 1][2] /\ b[n + 1][2] \in Nat
    BY <1>5, <2>1
  <2>4. EndsAt(c)[A + n] = Total(a) + EndsAt(b)[n] /\ c[A + (n + 1)] = b[n + 1]
    BY <1>2, <1>10, <2>1
  <2>5. Total(a) \in Nat /\ EndsAt(b)[n] \in Nat
    BY <1>5, TotalIs
  <2> DEFINE x == EndsAt(b)[n]
             y == EndsAt(b)[n + 1]
             w == b[n + 1][2]
             z == EndsAt(c)[A + (n + 1)]
  <2>6. z = (Total(a) + x) + w /\ y = x + w /\ w \in Nat /\ x \in Nat
    BY <2>2, <2>3, <2>4, <2>5
  <2> HIDE DEF x, y, w, z
  <2>7. z = Total(a) + y
    BY <2>5, <2>6
  <2> QED BY <2>1, <2>7 DEF z, y
<1>11. \A n \in 0 .. B : n \in T
  <2> HIDE DEF T, B
  <2> QED BY <1>1, <1>9, <1>10, InductUpTo
<1>12. Total(c) = Total(a) + Total(b)
  BY <1>1, <1>2, <1>11 DEF Total
<1> QED BY <1>2, <1>8, <1>11, <1>12 DEF c

(* Fields of one width. *)
LEMMA EachIs ==
  ASSUME NEW names \in Seq(FieldNames), NEW w \in Nat
  PROVE  /\ Each(names, w) \in Seq(Fields) /\ Len(Each(names, w)) = Len(names)
         /\ \A n \in 1 .. Len(names) : Each(names, w)[n] = <<names[n], w>>
         /\ \A n \in 0 .. Len(names) : EndsAt(Each(names, w))[n] = n * w
         /\ Total(Each(names, w)) = Len(names) * w
<1> DEFINE N == Len(names)
           l == Each(names, w)
           S == {n \in Nat : EndsAt(l)[n] = n * w}
<1>1. N \in Nat /\ DOMAIN names = 1 .. N /\ \A n \in 1 .. N : names[n] \in FieldNames
  BY LenProperties, ElementOfSeq
<1>2. l = [n \in 1 .. N |-> <<names[n], w>>]
  BY <1>1 DEF Each
<1>3. l \in [1 .. N -> Fields]
  BY <1>1, <1>2 DEF Fields
<1>4. l \in Seq(Fields) /\ Len(l) = N
  <2> HIDE DEF l, N
  <2> QED BY <1>1, <1>3
<1>5. \A n \in 1 .. N : l[n] = <<names[n], w>>
  BY <1>2
<1> HIDE DEF l, N
<1>6. 0 \in S
  BY <1>4, EndsIs
<1>7. ASSUME NEW n \in 0 .. N, n < N, n \in S PROVE n + 1 \in S
  <2>1. n + 1 \in 1 .. N /\ (n + 1) - 1 = n /\ n + 1 \in Nat
    BY <1>1, <1>7
  <2>2. EndsAt(l)[n + 1] = EndsAt(l)[n] + l[n + 1][2]
    BY <1>4, <2>1, EndsIs
  <2>3. l[n + 1][2] = w /\ EndsAt(l)[n] = n * w
    BY <1>5, <1>7, <2>1
  <2>4. n * w + w = (n + 1) * w
    BY <2>1
  <2> QED BY <2>1, <2>2, <2>3, <2>4
<1>8. \A n \in 0 .. N : n \in S
  <2> HIDE DEF S
  <2> QED BY <1>1, <1>6, <1>7, InductUpTo
<1>9. N \in 0 .. N
  BY <1>1
<1> QED BY <1>4, <1>5, <1>8, <1>9 DEF Total, l, N

-----------------------------------------------------------------------------
(* The places of the two vaults in a layout: base begins at B and quote    *)
(* at Q, wherever the layout has them.                                     *)
VaultsAt(l, B, Q) ==
    \A n \in 1 .. Len(l) :
        /\ l[n][1] = "base_vault" => EndsAt(l)[n - 1] = B
        /\ l[n][1] = "quote_vault" => EndsAt(l)[n - 1] = Q

NoVaults(l) == \A n \in 1 .. Len(l) : l[n][1] \notin Sides

LEMMA NoVaultsAnywhere ==
  ASSUME NEW l, NoVaults(l), NEW B, NEW Q
  PROVE  VaultsAt(l, B, Q)
BY DEF NoVaults, VaultsAt, Sides

LEMMA JoinedVaults ==
  ASSUME NEW a \in Seq(Fields), NEW b \in Seq(Fields), NEW B \in Nat, NEW Q \in Nat,
         VaultsAt(a, Total(a) + B, Total(a) + Q), VaultsAt(b, B, Q)
  PROVE  VaultsAt(a \o b, Total(a) + B, Total(a) + Q)
<1> DEFINE c == a \o b
           A == Len(a)
           N == Len(b)
<1>1. A \in Nat /\ N \in Nat
  <2>1. Len(a) \in Nat /\ Len(b) \in Nat
    BY LenProperties
  <2> QED BY <2>1
<1>2. /\ c \in Seq(Fields) /\ Len(c) = A + N
      /\ \A i \in 1 .. A + N : c[i] = IF i <= A THEN a[i] ELSE b[i - A]
  BY ConcatProperties
<1>3. /\ \A n \in 0 .. A : EndsAt(c)[n] = EndsAt(a)[n]
      /\ \A n \in 0 .. N : EndsAt(c)[A + n] = Total(a) + EndsAt(b)[n]
  BY JoinedEnds
<1> HIDE DEF c
<1>4. ASSUME NEW n \in 1 .. A + N
      PROVE  /\ c[n][1] = "base_vault" => EndsAt(c)[n - 1] = Total(a) + B
             /\ c[n][1] = "quote_vault" => EndsAt(c)[n - 1] = Total(a) + Q
  <2>1. CASE n <= A
    <3>1. n \in 1 .. A /\ n - 1 \in 0 .. A
      BY <1>1, <2>1
    <3>2. c[n] = a[n] /\ EndsAt(c)[n - 1] = EndsAt(a)[n - 1]
      BY <1>2, <1>3, <2>1, <3>1
    <3> QED BY <3>1, <3>2 DEF VaultsAt
  <2>2. CASE ~ (n <= A)
    <3>1. n - A \in 1 .. N /\ (n - A) - 1 \in 0 .. N /\ n - 1 = A + ((n - A) - 1)
      BY <1>1, <2>2
    <3>2. c[n] = b[n - A] /\ EndsAt(c)[n - 1] = Total(a) + EndsAt(b)[(n - A) - 1]
      BY <1>2, <1>3, <2>2, <3>1
    <3>3. /\ b[n - A][1] = "base_vault" => EndsAt(b)[(n - A) - 1] = B
          /\ b[n - A][1] = "quote_vault" => EndsAt(b)[(n - A) - 1] = Q
      BY <3>1 DEF VaultsAt
    <3> QED BY <3>2, <3>3
  <2> QED BY <2>1, <2>2
<1>5. VaultsAt(c, Total(a) + B, Total(a) + Q)
  BY <1>2, <1>4 DEF VaultsAt
<1> QED BY <1>5 DEF c

(* A part without vaults before or behind a part with them. *)
LEMMA VaultsBehind ==
  ASSUME NEW a \in Seq(Fields), NEW b \in Seq(Fields), NEW B \in Nat, NEW Q \in Nat,
         NEW t \in Nat, Total(a) = t, NoVaults(a), VaultsAt(b, B, Q)
  PROVE  VaultsAt(a \o b, t + B, t + Q)
BY NoVaultsAnywhere, JoinedVaults

LEMMA VaultsBefore ==
  ASSUME NEW a \in Seq(Fields), NEW b \in Seq(Fields), NEW B \in Nat, NEW Q \in Nat,
         VaultsAt(a, B, Q), NoVaults(b)
  PROVE  VaultsAt(a \o b, B, Q)
<1> DEFINE c == a \o b
           A == Len(a)
           N == Len(b)
<1>1. A \in Nat /\ N \in Nat
  <2>1. Len(a) \in Nat /\ Len(b) \in Nat
    BY LenProperties
  <2> QED BY <2>1
<1>2. /\ c \in Seq(Fields) /\ Len(c) = A + N
      /\ \A i \in 1 .. A + N : c[i] = IF i <= A THEN a[i] ELSE b[i - A]
  BY ConcatProperties
<1>3. \A n \in 0 .. A : EndsAt(c)[n] = EndsAt(a)[n]
  BY JoinedEnds
<1> HIDE DEF c
<1>4. ASSUME NEW n \in 1 .. A + N
      PROVE  /\ c[n][1] = "base_vault" => EndsAt(c)[n - 1] = B
             /\ c[n][1] = "quote_vault" => EndsAt(c)[n - 1] = Q
  <2>1. CASE n <= A
    <3>1. n \in 1 .. A /\ n - 1 \in 0 .. A
      BY <1>1, <2>1
    <3>2. c[n] = a[n] /\ EndsAt(c)[n - 1] = EndsAt(a)[n - 1]
      BY <1>2, <1>3, <2>1, <3>1
    <3> QED BY <3>1, <3>2 DEF VaultsAt
  <2>2. CASE ~ (n <= A)
    <3>1. n - A \in 1 .. N
      BY <1>1, <2>2
    <3>2. c[n] = b[n - A]
      BY <1>2, <2>2
    <3>3. c[n][1] \notin Sides
      BY <3>1, <3>2 DEF NoVaults
    <3> QED BY <3>3 DEF Sides
  <2> QED BY <2>1, <2>2
<1> QED BY <1>2, <1>4 DEF VaultsAt, c

LEMMA NoVaultsJoined ==
  ASSUME NEW a \in Seq(Fields), NEW b \in Seq(Fields), NoVaults(a), NoVaults(b)
  PROVE  NoVaults(a \o b)
<1>1. Len(a) \in Nat /\ Len(b) \in Nat
  BY LenProperties
<1>2. /\ Len(a \o b) = Len(a) + Len(b)
      /\ \A i \in 1 .. Len(a) + Len(b) : (a \o b)[i] = IF i <= Len(a) THEN a[i] ELSE b[i - Len(a)]
  BY ConcatProperties
<1> DEFINE A == Len(a)
           N == Len(b)
           c == a \o b
<1> HIDE DEF A, N, c
<1>3. ASSUME NEW i \in 1 .. A + N PROVE c[i][1] \notin Sides
  <2>1. CASE i <= A
    <3>1. i \in 1 .. A /\ c[i] = a[i]
      BY <1>1, <1>2, <2>1 DEF A, N, c
    <3> QED BY <3>1 DEF NoVaults, A
  <2>2. CASE ~ (i <= A)
    <3>1. i - A \in 1 .. N /\ c[i] = b[i - A]
      BY <1>1, <1>2, <2>2 DEF A, N, c
    <3> QED BY <3>1 DEF NoVaults, N
  <2> QED BY <2>1, <2>2
<1> QED BY <1>2, <1>3 DEF NoVaults, A, N, c

(* The four keys of a pool account, with the vaults behind the mints. *)
FourKeys == Each(<<"base_mint", "quote_mint", "base_vault", "quote_vault">>, 32)

LEMMA FourKeysAt ==
  FourKeys \in Seq(Fields) /\ Total(FourKeys) = 128 /\ VaultsAt(FourKeys, 64, 96)
<1> DEFINE names == <<"base_mint", "quote_mint", "base_vault", "quote_vault">>
<1>1. names \in Seq(FieldNames) /\ Len(names) = 4
  BY DEF FieldNames
<1>2. /\ FourKeys \in Seq(Fields) /\ Len(FourKeys) = 4
      /\ \A n \in 1 .. 4 : FourKeys[n] = <<names[n], 32>>
      /\ \A n \in 0 .. 4 : EndsAt(FourKeys)[n] = n * 32
      /\ Total(FourKeys) = 4 * 32
  BY <1>1, EachIs DEF FourKeys
<1>3. ASSUME NEW n \in 1 .. 4
      PROVE  /\ FourKeys[n][1] = "base_vault" => n = 3
             /\ FourKeys[n][1] = "quote_vault" => n = 4
  <2>1. FourKeys[n][1] = names[n]
    BY <1>2
  <2> QED BY <2>1
<1>4. EndsAt(FourKeys)[2] = 64 /\ EndsAt(FourKeys)[3] = 96
  BY <1>2
<1> QED BY <1>2, <1>3, <1>4 DEF VaultsAt

(* The layouts. *)
LEMMA WhirlpoolAt == Whirlpool \in Seq(Fields) /\ VaultsAt(Whirlpool, 108, 140)
<1> DEFINE a == <<<<"sqrt_price", 16>>, <<"tick_current_index", 4>>, <<"tick_spacing", 2>>,
                  <<"padding", 6>>, <<"liquidity", 16>>>>
           z == <<<<"extra", 82>>, <<"fee_rate", 2>>>>
<1>1. a \in Seq(Fields) /\ Len(a) = 5 /\ z \in Seq(Fields) /\ Len(z) = 2
  BY DEF Fields, FieldNames
<1>2. NoVaults(a) /\ NoVaults(z)
  BY <1>1 DEF NoVaults, Sides
<1>3. /\ a[1][2] = 16 /\ a[2][2] = 4 /\ a[3][2] = 2 /\ a[4][2] = 6 /\ a[5][2] = 16
  OBVIOUS
<1>4. Whirlpool = (a \o FourKeys) \o z
  BY DEF Whirlpool, FourKeys
<1> HIDE DEF a, z
<1>5. Total(a) = 44
  <2> DEFINE e == EndsAt(a)
  <2>1. e[0] = 0 /\ \A n \in 1 .. 5 : e[n] = e[n - 1] + a[n][2]
    BY <1>1, EndsIs
  <2> HIDE DEF e
  <2>2. /\ e[1] = e[0] + 16 /\ e[2] = e[1] + 4 /\ e[3] = e[2] + 2 /\ e[4] = e[3] + 6
        /\ e[5] = e[4] + 16
    BY <1>3, <2>1
  <2>3. e[5] = 44
    BY <2>1, <2>2
  <2> QED BY <1>1, <2>3 DEF Total, e
<1>6. a \o FourKeys \in Seq(Fields) /\ VaultsAt(a \o FourKeys, 108, 140)
  <2>1. VaultsAt(a \o FourKeys, 44 + 64, 44 + 96)
    BY <1>1, <1>2, <1>5, FourKeysAt, VaultsBehind
  <2> QED BY <1>1, <2>1, FourKeysAt, JoinedEnds
<1> QED BY ZenonT(30), <1>1, <1>2, <1>4, <1>6, JoinedEnds, VaultsBefore

LEMMA WhirlpoolRealAt == WhirlpoolReal \in Seq(Fields) /\ VaultsAt(WhirlpoolReal, 152, 184)
<1> DEFINE a == <<<<"discriminator", 8>>, <<"bump", 1>>, <<"tick_spacing", 2>>, <<"unread", 2>>,
                  <<"fee_rate", 2>>, <<"protocol_fee_rate", 2>>, <<"padding", 15>>,
                  <<"liquidity", 16>>, <<"sqrt_price", 16>>, <<"tick_current_index", 4>>,
                  <<"padding", 4>>, <<"protocol_fee_owed_a", 8>>, <<"protocol_fee_owed_b", 8>>>>
           z == <<<<"reward_infos", 384>>, <<"reward_last_updated", 53>>>>
<1>1. a \in Seq(Fields) /\ Len(a) = 13 /\ z \in Seq(Fields) /\ Len(z) = 2
  BY DEF Fields, FieldNames
<1>2. NoVaults(a) /\ NoVaults(z)
  BY <1>1 DEF NoVaults, Sides
<1>3. /\ a[1][2] = 8 /\ a[2][2] = 1 /\ a[3][2] = 2 /\ a[4][2] = 2 /\ a[5][2] = 2
      /\ a[6][2] = 2 /\ a[7][2] = 15 /\ a[8][2] = 16 /\ a[9][2] = 16 /\ a[10][2] = 4
      /\ a[11][2] = 4 /\ a[12][2] = 8 /\ a[13][2] = 8
  OBVIOUS
<1>4. WhirlpoolReal = (a \o FourKeys) \o z
  BY DEF WhirlpoolReal, FourKeys
<1> HIDE DEF a, z
<1>5. Total(a) = 88
  <2> DEFINE e == EndsAt(a)
  <2>1. e[0] = 0 /\ \A n \in 1 .. 13 : e[n] = e[n - 1] + a[n][2]
    BY <1>1, EndsIs
  <2> HIDE DEF e
  <2>2. /\ e[1] = e[0] + 8 /\ e[2] = e[1] + 1 /\ e[3] = e[2] + 2 /\ e[4] = e[3] + 2
        /\ e[5] = e[4] + 2 /\ e[6] = e[5] + 2 /\ e[7] = e[6] + 15 /\ e[8] = e[7] + 16
        /\ e[9] = e[8] + 16 /\ e[10] = e[9] + 4 /\ e[11] = e[10] + 4
        /\ e[12] = e[11] + 8 /\ e[13] = e[12] + 8
    BY <1>3, <2>1
  <2>3. e[13] = 88
    BY <2>1, <2>2
  <2> QED BY <1>1, <2>3 DEF Total, e
<1>6. a \o FourKeys \in Seq(Fields) /\ VaultsAt(a \o FourKeys, 152, 184)
  <2>1. VaultsAt(a \o FourKeys, 88 + 64, 88 + 96)
    BY <1>1, <1>2, <1>5, FourKeysAt, VaultsBehind
  <2> QED BY <1>1, <2>1, FourKeysAt, JoinedEnds
<1>7. (a \o FourKeys) \o z \in Seq(Fields) /\ VaultsAt((a \o FourKeys) \o z, 152, 184)
  <2> DEFINE b == a \o FourKeys
  <2>1. b \in Seq(Fields) /\ VaultsAt(b, 152, 184) /\ 152 \in Nat /\ 184 \in Nat
    BY <1>6
  <2> HIDE DEF b
  <2>2. b \o z \in Seq(Fields)
    BY <1>1, <2>1, JoinedEnds
  <2>3. z \in Seq(Fields) /\ NoVaults(z)
    BY <1>1, <1>2
  <2>4. VaultsAt(b \o z, 152, 184)
    BY <2>1, <2>3, VaultsBefore, Zenon
  <2> QED BY <2>2, <2>4 DEF b
<1> QED BY <1>4, <1>7

LEMMA TokenAt == TokenAccount \in Seq(Fields) /\ NoVaults(TokenAccount)
<1>1. TokenAccount \in Seq(Fields) /\ Len(TokenAccount) = 4
  BY DEF TokenAccount, Fields, FieldNames
<1> QED BY <1>1 DEF NoVaults, TokenAccount, Sides

(* Fields of a least width, and names that are no vaults. *)
LEMMA WideEnough ==
  ASSUME NEW l \in Seq(Fields), NEW w \in Nat, \A n \in 1 .. Len(l) : l[n][2] >= w
  PROVE  Total(l) >= Len(l) * w
<1> DEFINE N == Len(l)
           e == EndsAt(l)
           S == {n \in Nat : e[n] >= n * w}
<1>1. N \in Nat /\ \A n \in 1 .. N : l[n][2] \in Nat
  BY LenProperties, ElementOfSeq DEF Fields
<1>2. /\ e[0] = 0 /\ \A n \in 1 .. N : e[n] = e[n - 1] + l[n][2]
      /\ \A n \in 0 .. N : e[n] \in Nat
  BY EndsIs
<1> HIDE DEF e
<1>3. 0 \in S
  BY <1>2
<1>4. ASSUME NEW n \in 0 .. N, n < N, n \in S PROVE n + 1 \in S
  <2>1. n + 1 \in 1 .. N /\ (n + 1) - 1 = n /\ n + 1 \in Nat
    BY <1>1, <1>4
  <2>2. e[n + 1] = e[n] + l[n + 1][2] /\ l[n + 1][2] >= w /\ l[n + 1][2] \in Nat
    BY <1>1, <1>2, <2>1
  <2>3. e[n] >= n * w /\ e[n] \in Nat
    BY <1>2, <1>4
  <2>4. (n + 1) * w = n * w + w /\ n * w \in Nat
    BY <2>1
  <2> QED BY <2>1, <2>2, <2>3, <2>4
<1>5. \A n \in 0 .. N : n \in S
  <2> HIDE DEF S, N
  <2> QED BY <1>1, <1>3, <1>4, InductUpTo
<1>6. N \in 0 .. N
  BY <1>1
<1> QED BY <1>5, <1>6 DEF Total, e

OtherNames == FieldNames \ Sides

LEMMA OthersAreNoVaults ==
  ASSUME NEW names \in Seq(OtherNames), NEW w \in Nat
  PROVE  /\ Each(names, w) \in Seq(Fields) /\ NoVaults(Each(names, w))
         /\ Total(Each(names, w)) = Len(names) * w
<1>1. names \in Seq(FieldNames) /\ \A n \in 1 .. Len(names) : names[n] \notin Sides
  <2>1. /\ Len(names) \in Nat /\ names \in [1 .. Len(names) -> OtherNames]
        /\ \A n \in 1 .. Len(names) : names[n] \in OtherNames
    BY LenProperties, ElementOfSeq
  <2>2. names \in [1 .. Len(names) -> FieldNames]
    BY <2>1 DEF OtherNames
  <2> QED BY <2>1, <2>2 DEF OtherNames
<1>2. /\ Each(names, w) \in Seq(Fields) /\ Len(Each(names, w)) = Len(names)
      /\ \A n \in 1 .. Len(names) : Each(names, w)[n] = <<names[n], w>>
      /\ Total(Each(names, w)) = Len(names) * w
  BY <1>1, EachIs
<1>3. ASSUME NEW n \in 1 .. Len(names) PROVE Each(names, w)[n][1] \notin Sides
  <2>1. Each(names, w)[n] = <<names[n], w>>
    BY <1>2
  <2> QED BY <1>1, <2>1
<1> QED BY <1>2, <1>3 DEF NoVaults

LEMMA AsSequence ==
  ASSUME NEW N \in Nat, NEW l \in [1 .. N -> Fields]
  PROVE  l \in Seq(Fields) /\ Len(l) = N
OBVIOUS

LEMMA LbPairAt ==
  LbPair \in Seq(Fields) /\ VaultsAt(LbPair, 76, 108) /\ Total(LbPair) > 256
<1> DEFINE a == <<<<"bin_step", 2>>, <<"active_id", 4>>, <<"padding", 6>>>>
           y == <<<<"x_program_flag", 1>>, <<"y_program_flag", 1>>, <<"padding", 14>>>>
           z == [n \in 1 .. 3 * BinWindow |->
                   CASE n % 3 = 1 -> <<"bin_amount_x", 8>> [] n % 3 = 2 -> <<"bin_amount_y", 8>>
                     [] OTHER -> <<"bin_price", 16>>]
<1>1. /\ a \in Seq(Fields) /\ Len(a) = 3 /\ NoVaults(a)
      /\ y \in Seq(Fields) /\ Len(y) = 3 /\ NoVaults(y)
  <2>1. a \in Seq(Fields) /\ Len(a) = 3 /\ y \in Seq(Fields) /\ Len(y) = 3
    BY DEF Fields, FieldNames
  <2> QED BY <2>1 DEF NoVaults, Sides
<1>2. z \in Seq(Fields) /\ Len(z) = 195 /\ NoVaults(z) /\ \A n \in 1 .. 195 : z[n][2] >= 8
  <2>1. 3 * BinWindow = 195
    BY DEF BinWindow
  <2>2. ASSUME NEW n \in 1 .. 195
        PROVE  z[n] \in {<<"bin_amount_x", 8>>, <<"bin_amount_y", 8>>, <<"bin_price", 16>>}
    BY <2>1
  <2>3. DOMAIN z = 1 .. 195 /\ z = [n \in 1 .. 195 |-> z[n]]
    BY <2>1
  <2> HIDE DEF z
  <2>4. {<<"bin_amount_x", 8>>, <<"bin_amount_y", 8>>, <<"bin_price", 16>>} \subseteq Fields
    BY DEF Fields, FieldNames
  <2>5. z \in [1 .. 195 -> Fields]
    BY <2>2, <2>3, <2>4
  <2>6. z \in Seq(Fields) /\ Len(z) = 195
    BY <2>5, AsSequence, 195 \in Nat, Zenon
  <2>7. ASSUME NEW n \in 1 .. 195 PROVE z[n][1] \notin Sides /\ z[n][2] >= 8
    <3>1. \/ z[n] = <<"bin_amount_x", 8>> \/ z[n] = <<"bin_amount_y", 8>>
          \/ z[n] = <<"bin_price", 16>>
      BY <2>2
    <3> QED BY <3>1 DEF Sides
  <2>8. NoVaults(z)
    <3>1. ASSUME NEW n \in 1 .. Len(z) PROVE z[n][1] \notin Sides
      <4>1. n \in 1 .. 195
        BY <2>6
      <4> QED BY <2>7, <4>1
    <3> QED BY <3>1 DEF NoVaults
  <2>9. \A n \in 1 .. 195 : z[n][2] >= 8
    BY <2>7
  <2> QED BY <2>6, <2>8, <2>9
<1>3. a[1][2] = 2 /\ a[2][2] = 4 /\ a[3][2] = 6
  OBVIOUS
<1>4. LbPair = ((a \o FourKeys) \o y) \o z
  BY DEF LbPair, FourKeys
<1> HIDE DEF a, y, z
<1>5. Total(a) = 12
  <2> DEFINE e == EndsAt(a)
  <2>1. e[0] = 0 /\ \A n \in 1 .. 3 : e[n] = e[n - 1] + a[n][2]
    BY <1>1, EndsIs
  <2> HIDE DEF e
  <2>2. e[1] = e[0] + 2 /\ e[2] = e[1] + 4 /\ e[3] = e[2] + 6
    BY <1>3, <2>1
  <2>3. e[3] = 12
    BY <2>1, <2>2
  <2> QED BY <1>1, <2>3 DEF Total, e
<1> DEFINE b == a \o FourKeys
           c == b \o y
<1>6. b \in Seq(Fields) /\ VaultsAt(b, 76, 108)
  <2>1. VaultsAt(a \o FourKeys, 12 + 64, 12 + 96)
    BY <1>1, <1>5, FourKeysAt, VaultsBehind
  <2> QED BY <1>1, <2>1, FourKeysAt, JoinedEnds
<1>7. 76 \in Nat /\ 108 \in Nat
  OBVIOUS
<1> HIDE DEF b
<1>8. c \in Seq(Fields) /\ VaultsAt(c, 76, 108)
  <2>1. b \o y \in Seq(Fields)
    BY <1>1, <1>6, JoinedEnds
  <2>2. VaultsAt(b \o y, 76, 108)
    BY <1>1, <1>6, <1>7, VaultsBefore, Zenon
  <2> QED BY <2>1, <2>2
<1> HIDE DEF c
<1>9. c \o z \in Seq(Fields) /\ VaultsAt(c \o z, 76, 108)
  <2>1. c \o z \in Seq(Fields)
    BY <1>2, <1>8, JoinedEnds
  <2>2. VaultsAt(c \o z, 76, 108)
    <3>1. z \in Seq(Fields) /\ NoVaults(z)
      BY <1>2
    <3> QED BY <3>1, <1>7, <1>8, VaultsBefore, Zenon
  <2> QED BY <2>1, <2>2
<1>10. Total(c \o z) > 256
  <2>1. Total(c \o z) = Total(c) + Total(z) /\ Total(c) \in Nat /\ Total(z) \in Nat
    BY <1>2, <1>8, JoinedEnds, TotalIs
  <2>2. Total(z) >= 195 * 8
    <3>1. z \in Seq(Fields) /\ 8 \in Nat /\ \A n \in 1 .. Len(z) : z[n][2] >= 8
      BY <1>2
    <3>2. Total(z) >= Len(z) * 8
      BY <3>1, WideEnough, Zenon
    <3> QED BY <1>2, <3>2
  <2> QED BY <2>1, <2>2
<1> QED BY <1>4, <1>9, <1>10 DEF b, c

(* Parts without vaults, and how long they are. *)
Plain(l, t) == l \in Seq(Fields) /\ NoVaults(l) /\ t \in Nat /\ Total(l) = t

LEMMA PlainJoined ==
  ASSUME NEW a, NEW b, NEW t, NEW u, Plain(a, t), Plain(b, u)
  PROVE  Plain(a \o b, t + u)
<1>1. a \in Seq(Fields) /\ b \in Seq(Fields)
  BY DEF Plain
<1>2. a \o b \in Seq(Fields) /\ Total(a \o b) = Total(a) + Total(b)
  BY <1>1, JoinedEnds
<1>3. NoVaults(a \o b)
  BY <1>1, NoVaultsJoined DEF Plain
<1> QED BY <1>2, <1>3 DEF Plain

LEMMA PlainEach ==
  ASSUME NEW names \in Seq(OtherNames), NEW w \in Nat, NEW t \in Nat, Len(names) * w = t
  PROVE  Plain(Each(names, w), t)
BY OthersAreNoVaults DEF Plain

LEMMA PlainOne ==
  ASSUME NEW name \in OtherNames, NEW w \in Nat
  PROVE  Plain(<<<<name, w>>>>, w)
<1> DEFINE l == <<<<name, w>>>>
<1>1. l \in Seq(Fields) /\ Len(l) = 1 /\ l[1] = <<name, w>>
  BY DEF OtherNames, Fields
<1>2. NoVaults(l)
  BY <1>1 DEF NoVaults, OtherNames
<1>3. Total(l) = w
  <2> HIDE DEF l
  <2> DEFINE e == EndsAt(l)
  <2>1. e[0] = 0 /\ \A n \in 1 .. 1 : e[n] = e[n - 1] + l[n][2]
    BY <1>1, EndsIs
  <2> HIDE DEF e
  <2>2. e[1] = w
    BY <1>1, <2>1
  <2> QED BY <1>1, <2>2 DEF Total, e
<1> QED BY <1>1, <1>2, <1>3 DEF Plain

LEMMA AmmInfoAt == AmmInfo \in Seq(Fields) /\ VaultsAt(AmmInfo, 336, 368)
<1> DEFINE n1 == <<"status", "nonce", "order_num", "depth", "base_decimals", "quote_decimals",
                   "state", "reset_flag", "min_size", "vol_max_cut_ratio", "amount_wave",
                   "coin_lot_size", "pc_lot_size", "min_price_multiplier",
                   "max_price_multiplier", "sys_decimal_value">>
           n2 == <<"min_separate_numerator", "min_separate_denominator",
                   "trade_fee_numerator", "trade_fee_denominator", "pnl_numerator",
                   "pnl_denominator", "swap_fee_numerator", "swap_fee_denominator">>
           n3 == <<"need_take_pnl_coin", "need_take_pnl_pc", "total_pnl_pc",
                   "total_pnl_coin", "pool_open_time", "padding", "padding",
                   "orderbook_to_init_time">>
           n4 == <<"swap_coin_in_amount", "swap_pc_out_amount">>
           n5 == <<"swap_pc_in_amount", "swap_coin_out_amount">>
           n6 == <<"base_vault", "quote_vault", "base_mint", "quote_mint", "lp_mint",
                   "open_orders", "market", "market_program", "target_orders">>
           n7 == <<"lp_amount", "client_order_id", "recent_epoch", "padding2">>
           f1 == <<<<"swap_acc_pc_fee", 8>>>>
           f2 == <<<<"swap_acc_coin_fee", 8>>>>
           f3 == <<<<"padding1", 64>>, <<"amm_owner", 32>>>>
<1>1. /\ n1 \in Seq(OtherNames) /\ Len(n1) = 16 /\ n2 \in Seq(OtherNames) /\ Len(n2) = 8
      /\ n3 \in Seq(OtherNames) /\ Len(n3) = 8 /\ n4 \in Seq(OtherNames) /\ Len(n4) = 2
      /\ n5 \in Seq(OtherNames) /\ Len(n5) = 2 /\ n7 \in Seq(OtherNames) /\ Len(n7) = 4
  BY DEF OtherNames, FieldNames, Sides
<1>2. {"swap_acc_pc_fee", "swap_acc_coin_fee", "padding1", "amm_owner"} \subseteq OtherNames
  BY DEF OtherNames, FieldNames, Sides
<1>3. n6 \in Seq(FieldNames) /\ Len(n6) = 9
  BY DEF FieldNames
<1>4. /\ \A n \in 1 .. 9 : n6[n] = "base_vault" => n = 1
      /\ \A n \in 1 .. 9 : n6[n] = "quote_vault" => n = 2
  OBVIOUS
<1> DEFINE state == (((Each(n3, 8) \o Each(n4, 16)) \o f1) \o Each(n5, 16)) \o f2
           a == (Each(n1, 8) \o Each(n2, 8)) \o state
           k == Each(n6, 32)
           z == Each(n7, 8)
<1>5. AmmInfo = ((a \o k) \o f3) \o z
  BY DEF AmmInfo, Fees, StateData
<1> HIDE DEF n1, n2, n3, n4, n5, n6, n7
<1>6. Plain(a, 336)
  <2>1. /\ Plain(Each(n1, 8), 128) /\ Plain(Each(n2, 8), 64) /\ Plain(Each(n3, 8), 64)
        /\ Plain(Each(n4, 16), 32) /\ Plain(Each(n5, 16), 32)
    <3>1. /\ Len(n1) * 8 = 128 /\ Len(n2) * 8 = 64 /\ Len(n3) * 8 = 64
          /\ Len(n4) * 16 = 32 /\ Len(n5) * 16 = 32
      BY <1>1
    <3>2. /\ 8 \in Nat /\ 16 \in Nat /\ 32 \in Nat /\ 64 \in Nat /\ 128 \in Nat
      OBVIOUS
    <3>3. \A m \in Seq(OtherNames) : \A w, t \in Nat : Len(m) * w = t => Plain(Each(m, w), t)
      BY PlainEach
    <3>4. n1 \in Seq(OtherNames) /\ n2 \in Seq(OtherNames) /\ n3 \in Seq(OtherNames)
      BY <1>1
    <3>5. n4 \in Seq(OtherNames) /\ n5 \in Seq(OtherNames)
      BY <1>1
    <3>6. Len(n1) * 8 = 128 => Plain(Each(n1, 8), 128)
      BY <3>2, <3>3, <3>4
    <3>7. Len(n2) * 8 = 64 => Plain(Each(n2, 8), 64)
      BY <3>2, <3>3, <3>4
    <3>8. Len(n3) * 8 = 64 => Plain(Each(n3, 8), 64)
      BY <3>2, <3>3, <3>4
    <3>9. Len(n4) * 16 = 32 => Plain(Each(n4, 16), 32)
      BY <3>2, <3>3, <3>5
    <3>10. Len(n5) * 16 = 32 => Plain(Each(n5, 16), 32)
      BY <3>2, <3>3, <3>5
    <3> QED BY <3>1, <3>6, <3>7, <3>8, <3>9, <3>10
  <2>2. Plain(f1, 8) /\ Plain(f2, 8)
    BY <1>2, PlainOne
  <2> HIDE DEF f1, f2
  <2>3. Plain(Each(n3, 8) \o Each(n4, 16), 64 + 32)
    BY <2>1, PlainJoined
  <2>4. Plain((Each(n3, 8) \o Each(n4, 16)) \o f1, (64 + 32) + 8)
    BY <2>2, <2>3, PlainJoined
  <2>5. Plain(((Each(n3, 8) \o Each(n4, 16)) \o f1) \o Each(n5, 16), ((64 + 32) + 8) + 32)
    BY <2>1, <2>4, PlainJoined
  <2>6. Plain(state, (((64 + 32) + 8) + 32) + 8)
    BY <2>2, <2>5, PlainJoined
  <2>7. Plain(Each(n1, 8) \o Each(n2, 8), 128 + 64)
    BY <2>1, PlainJoined
  <2> HIDE DEF state
  <2>8. Plain(a, (128 + 64) + ((((64 + 32) + 8) + 32) + 8))
    BY <2>6, <2>7, PlainJoined
  <2>9. (128 + 64) + ((((64 + 32) + 8) + 32) + 8) = 336
    OBVIOUS
  <2> HIDE DEF a
  <2> QED BY <2>8, <2>9
<1>7. k \in Seq(Fields) /\ VaultsAt(k, 0, 32)
  <2>1. /\ k \in Seq(Fields) /\ Len(k) = 9 /\ \A n \in 1 .. 9 : k[n] = <<n6[n], 32>>
        /\ \A n \in 0 .. 9 : EndsAt(k)[n] = n * 32
    BY SMTT(30), <1>3, EachIs
  <2> HIDE DEF k
  <2>2. ASSUME NEW n \in 1 .. 9
        PROVE  /\ k[n][1] = "base_vault" => EndsAt(k)[n - 1] = 0
               /\ k[n][1] = "quote_vault" => EndsAt(k)[n - 1] = 32
    <3>1. k[n][1] = n6[n]
      BY <2>1
    <3>2. EndsAt(k)[1 - 1] = 0 /\ EndsAt(k)[2 - 1] = 32
      BY <2>1
    <3> QED BY <1>4, <3>1, <3>2
  <2> QED BY <2>1, <2>2 DEF VaultsAt
<1> HIDE DEF a, k
<1>8. a \o k \in Seq(Fields) /\ VaultsAt(a \o k, 336 + 0, 336 + 32)
  <2>1. a \in Seq(Fields) /\ NoVaults(a) /\ Total(a) = 336 /\ 336 \in Nat /\ 0 \in Nat /\ 32 \in Nat
    BY <1>6 DEF Plain
  <2>2. a \o k \in Seq(Fields)
    BY <1>7, <2>1, JoinedEnds
  <2>3. VaultsAt(a \o k, 336 + 0, 336 + 32)
    BY <1>7, <2>1, VaultsBehind
  <2> QED BY <2>2, <2>3
<1> DEFINE b == a \o k
           c == b \o f3
<1>9. b \in Seq(Fields) /\ VaultsAt(b, 336, 368) /\ 336 \in Nat /\ 368 \in Nat
  <2>1. 336 + 0 = 336 /\ 336 + 32 = 368
    OBVIOUS
  <2> QED BY <1>8, <2>1
<1>10. f3 \in Seq(Fields) /\ NoVaults(f3) /\ z \in Seq(Fields) /\ NoVaults(z)
  <2>1. Plain(z, 32)
    <3>1. Len(n7) * 8 = 32 /\ 8 \in Nat /\ 32 \in Nat
      BY <1>1
    <3> QED BY <1>1, <3>1, PlainEach, Zenon
  <2>2. f3 \in Seq(Fields) /\ Len(f3) = 2 /\ f3[1][1] = "padding1" /\ f3[2][1] = "amm_owner"
    BY DEF Fields, FieldNames
  <2>3. f3[1][1] \notin Sides /\ f3[2][1] \notin Sides
    BY <2>2 DEF Sides
  <2> HIDE DEF f3
  <2>4. NoVaults(f3)
    BY <2>2, <2>3 DEF NoVaults
  <2> QED BY <2>1, <2>2, <2>4 DEF Plain
<1> HIDE DEF b, f3, z
<1>11. c \in Seq(Fields) /\ VaultsAt(c, 336, 368)
  <2>1. b \o f3 \in Seq(Fields)
    BY <1>9, <1>10, JoinedEnds
  <2>2. VaultsAt(b \o f3, 336, 368)
    BY <1>9, <1>10, VaultsBefore, Zenon
  <2> QED BY <2>1, <2>2
<1> HIDE DEF c
<1>12. c \o z \in Seq(Fields) /\ VaultsAt(c \o z, 336, 368)
  <2>1. c \o z \in Seq(Fields)
    BY <1>10, <1>11, JoinedEnds
  <2>2. \A B, Q \in Nat : VaultsAt(c, B, Q) => VaultsAt(c \o z, B, Q)
    BY <1>10, <1>11, VaultsBefore, Zenon
  <2>3. VaultsAt(c \o z, 336, 368)
    BY <1>11, <2>2
  <2> QED BY <2>1, <2>3
<1> QED BY <1>5, <1>12 DEF b, c

-----------------------------------------------------------------------------
(* What a decoder reads at the offset of a key. *)
LEMMA ReadsVaults ==
  ASSUME NEW l \in Seq(Fields), NEW B, NEW Q, VaultsAt(l, B, Q), NEW o
  PROVE  /\ FieldAt(l, o, 32) = "base_vault" => o = B
         /\ FieldAt(l, o, 32) = "quote_vault" => o = Q
<1> DEFINE end == EndsAt(l)
           here == {n \in DOMAIN l : end[n - 1] = o /\ l[n][2] = 32}
           m == CHOOSE n \in here : TRUE
<1>1. FieldAt(l, o, 32) = IF here = {} THEN "mixed" ELSE l[m][1]
  BY DEF FieldAt
<1>2. CASE here = {}
  BY <1>1, <1>2
<1>3. CASE here # {}
  <2>1. m \in here
    BY <1>3
  <2>2. DOMAIN l = 1 .. Len(l)
    BY LenProperties
  <2>3. m \in 1 .. Len(l) /\ end[m - 1] = o
    BY <2>1, <2>2
  <2> HIDE DEF m, here, end
  <2>4. /\ l[m][1] = "base_vault" => EndsAt(l)[m - 1] = B
        /\ l[m][1] = "quote_vault" => EndsAt(l)[m - 1] = Q
    BY <2>3 DEF VaultsAt
  <2> QED BY <1>1, <1>3, <2>3, <2>4 DEF end
<1> QED BY <1>2, <1>3

LEMMA ReadsNoVaults ==
  ASSUME NEW l \in Seq(Fields), NoVaults(l), NEW o \in Nat
  PROVE  FieldAt(l, o, 32) \notin Sides
<1> DEFINE B == o + 1
<1>1. VaultsAt(l, B, B) /\ o # B
  BY NoVaultsAnywhere
<1> HIDE DEF B
<1>2. FieldAt(l, o, 32) # "base_vault" /\ FieldAt(l, o, 32) # "quote_vault"
  BY <1>1, ReadsVaults
<1> QED BY <1>2 DEF Sides

LEMMA KeysAre ==
  ASSUME NEW d \in {"whirlpool", "whirlpool_real"}, NEW l \in DOMAIN Layouts, NEW s \in Sides,
         d = "whirlpool" => l # "lb_pair", Keys[d][l][s] \in Sides
  PROVE  Keys[d][l][s] = s /\ l # "token"
<1>1. /\ Keys[d][l][s] = FieldAt(Layouts[l], Offsets[d][s], 32)
  <2>1. d \in DOMAIN Offsets /\ s \in DOMAIN Offsets[d]
    BY DEF Offsets, Sides, ReadsWhirlpool, ReadsWhirlpoolReal
  <2> QED BY <2>1, Zenon DEF Keys
<1>2. /\ d = "whirlpool" => Offsets[d]["base_vault"] = 108 /\ Offsets[d]["quote_vault"] = 140
      /\ d = "whirlpool_real" => Offsets[d]["base_vault"] = 152 /\ Offsets[d]["quote_vault"] = 184
  BY DEF Offsets, ReadsWhirlpool, ReadsWhirlpoolReal
<1>3. l \in {"amm_info", "whirlpool", "lb_pair", "whirlpool_real", "token"}
  BY DEF Layouts
<1> DEFINE k == Keys[d][l][s]
           o == Offsets[d][s]
<1>4. k \in {"base_vault", "quote_vault"} /\ s \in {"base_vault", "quote_vault"}
  BY DEF Sides
<1>5. /\ d = "whirlpool" => o = IF s = "base_vault" THEN 108 ELSE 140
      /\ d = "whirlpool_real" => o = IF s = "base_vault" THEN 152 ELSE 184
  BY <1>2, <1>4
<1>6. CASE l = "token"
  <2>1. Layouts[l] = TokenAccount
    BY <1>6 DEF Layouts
  <2>2. o \in Nat
    BY <1>5
  <2> HIDE DEF o
  <2>3. FieldAt(TokenAccount, o, 32) \notin Sides
    BY <2>2, TokenAt, ReadsNoVaults
  <2> QED BY <1>1, <2>1, <2>3 DEF o
<1>7. CASE l = "whirlpool"
  <2>1. Layouts[l] = Whirlpool
    BY <1>7 DEF Layouts
  <2>2. (k = "base_vault" => o = 108) /\ (k = "quote_vault" => o = 140)
    BY <1>1, <2>1, WhirlpoolAt, ReadsVaults
  <2> HIDE DEF k, o
  <2>3. k = s
    BY <1>4, <1>5, <2>2
  <2> QED BY <1>7, <2>3 DEF k
<1>8. CASE l = "whirlpool_real"
  <2>1. Layouts[l] = WhirlpoolReal
    BY <1>8 DEF Layouts
  <2>2. (k = "base_vault" => o = 152) /\ (k = "quote_vault" => o = 184)
    BY <1>1, <2>1, WhirlpoolRealAt, ReadsVaults
  <2> HIDE DEF k, o
  <2>3. k = s
    BY <1>4, <1>5, <2>2
  <2> QED BY <1>8, <2>3 DEF k
<1>9. CASE l = "lb_pair"
  <2>1. Layouts[l] = LbPair
    BY <1>9 DEF Layouts
  <2>2. (k = "base_vault" => o = 76) /\ (k = "quote_vault" => o = 108)
    BY <1>1, <2>1, LbPairAt, ReadsVaults
  <2> HIDE DEF k, o
  <2>3. FALSE
    BY <1>4, <1>5, <1>9, <2>2
  <2> QED BY <2>3
<1>10. CASE l = "amm_info"
  <2>1. Layouts[l] = AmmInfo
    BY <1>10 DEF Layouts
  <2>2. (k = "base_vault" => o = 336) /\ (k = "quote_vault" => o = 368)
    BY <1>1, <2>1, AmmInfoAt, ReadsVaults
  <2> HIDE DEF k, o
  <2>3. FALSE
    BY <1>4, <1>5, <2>2
  <2> QED BY <2>3
<1> QED BY <1>3, <1>6, <1>7, <1>8, <1>9, <1>10

(* What the ladder takes for a pool it takes for a Whirlpool. *)
LEMMA TakenIs ==
  ASSUME NEW size \in Nat, Taken(size) \in DOMAIN Offsets
  PROVE  \/ size = 256 /\ Taken(size) = "whirlpool"
         \/ Taken(size) = "whirlpool_real"
<1> DEFINE ladder == Ladder(size)
           ok == {k \in 1 .. 4 : ladder[k] # "none" /\ Decodes(ladder[k], Account(size))}
           m == CHOOSE k \in ok : \A i \in ok : k <= i
<1>1. Taken(size) = IF ok = {} THEN "none" ELSE ladder[m]
  BY DEF Taken
<1>2. /\ ladder[1] = IF size = 256 THEN "whirlpool"
                     ELSE IF size \in 234 .. 256 THEN "none" ELSE "whirlpool_real"
      /\ ladder[2] = IF size >= Needs.lb_pair THEN "lb_pair" ELSE "none"
      /\ ladder[3] = IF size = 752 THEN "amm_info" ELSE "none"
      /\ ladder[4] = "token"
  BY DEF Ladder
<1>3. Needs.lb_pair = 2236 /\ Needs.whirlpool_real = 653 /\ Needs.whirlpool = 256
  BY DEF Needs, BinWindow
<1>4. Decodes("whirlpool", Account(size)) <=> size >= 256
  BY <1>3 DEF Decodes, Account
<1>5. Decodes("whirlpool_real", Account(size)) <=> size >= 653
  BY <1>3 DEF Decodes, Account
<1> HIDE DEF ladder
<1>6. CASE 1 \in ok
  <2>1. \A i \in ok : 1 <= i
    OBVIOUS
  <2>2. m \in ok /\ \A i \in ok : m <= i
    BY <1>6, <2>1
  <2>3. m = 1
    BY <1>6, <2>2
  <2>4. Taken(size) = ladder[1] /\ ladder[1] # "none"
    BY <1>1, <1>6, <2>3
  <2> QED BY <1>2, <2>4
<1>7. CASE 1 \notin ok
  <2>1. size # 256 /\ ~ (size >= 653)
    <3>1. ladder[1] = "none" \/ ~Decodes(ladder[1], Account(size))
      BY <1>7
    <3> QED BY <1>2, <1>4, <1>5, <3>1
  <2>2. ladder[2] = "none" /\ ladder[3] = "none"
    BY <1>2, <1>3, <2>1
  <2>3. \A k \in ok : k = 4
    BY <1>7, <2>2
  <2>4. CASE ok = {}
    BY <1>1, <2>4, NamesOfPools
  <2>5. CASE ok # {}
    <3>1. PICK j \in ok : TRUE
      BY <2>5
    <3>2. 4 \in ok /\ \A i \in ok : 4 <= i
      BY <2>3, <3>1
    <3>3. m \in ok
      BY <3>2
    <3>4. Taken(size) = "token"
      BY <1>1, <1>2, <2>3, <2>5, <3>3
    <3> QED BY <3>4, NamesOfPools
  <2> QED BY <2>4, <2>5
<1> QED BY <1>6, <1>7

LEMMA SizeIs ==
  ASSUME network \in Networks, NEW a \in Accounts
  PROVE  /\ SizeOf(a) \in Nat /\ LayoutOf(a) \in DOMAIN Layouts
         /\ a = <<a[1], a[2]>> /\ a[1] \in Pools
         /\ a[2] \in Sides \cup {"pool"}
         /\ a[2] # "pool" => LayoutOf(a) = "token"
         /\ LayoutOf(a) = "lb_pair" => SizeOf(a) > 256
<1>1. /\ a = <<a[1], a[2]>> /\ a[1] \in Pools /\ a[2] \in Sides \cup {"pool"}
  BY DEF Accounts, Vaults
<1>2. network.layout \in [Pools -> DOMAIN Offsets] /\ network.size \in [Pools -> Nat]
  BY TrackingAssumption
<1>3. DOMAIN Offsets \subseteq DOMAIN Layouts /\ "token" \in DOMAIN Layouts
  BY DEF Offsets, Layouts
<1>4. LayoutOf(a) = IF a[2] = "pool" THEN network.layout[a[1]] ELSE "token"
  BY DEF LayoutOf
<1>5. LayoutOf(a) \in DOMAIN Layouts
  <2>1. network.layout[a[1]] \in DOMAIN Offsets
    BY <1>1, <1>2
  <2> QED BY <1>3, <1>4, <2>1
<1>6. ASSUME NEW l \in DOMAIN Layouts
      PROVE  Sizes[l] \in Nat /\ (l = "lb_pair" => Sizes[l] > 256)
  <2>1. l \in {"amm_info", "whirlpool", "lb_pair", "whirlpool_real", "token"}
    BY DEF Layouts
  <2>2. /\ Layouts["amm_info"] = AmmInfo /\ Layouts["whirlpool"] = Whirlpool
        /\ Layouts["lb_pair"] = LbPair /\ Layouts["whirlpool_real"] = WhirlpoolReal
        /\ Layouts["token"] = TokenAccount
    BY DEF Layouts
  <2>3. Layouts[l] \in Seq(Fields)
    BY <2>1, <2>2, AmmInfoAt, WhirlpoolAt, LbPairAt, WhirlpoolRealAt, TokenAt
  <2>4. Sizes[l] = Total(Layouts[l])
    BY Zenon DEF Sizes, Total
  <2>5. Total(Layouts[l]) \in Nat
    BY <2>3, TotalIs
  <2>6. l = "lb_pair" => Total(Layouts[l]) > 256
    BY <2>2, LbPairAt
  <2> QED BY <2>4, <2>5, <2>6
<1>7. SizeOf(a) = IF a[2] = "quote_vault" THEN network.size[a[1]] ELSE Sizes[LayoutOf(a)]
  BY DEF SizeOf
<1>8. network.size[a[1]] \in Nat
  BY <1>1, <1>2
<1>9. SizeOf(a) \in Nat
  BY <1>5, <1>6, <1>7, <1>8
<1>10. LayoutOf(a) = "lb_pair" => SizeOf(a) > 256
  <2>1. "token" # "lb_pair"
    OBVIOUS
  <2>2. LayoutOf(a) = "lb_pair" => a[2] = "pool"
    BY <1>4, <2>1
  <2>3. "pool" # "quote_vault"
    OBVIOUS
  <2>4. LayoutOf(a) = "lb_pair" => SizeOf(a) = Sizes[LayoutOf(a)]
    BY <1>7, <2>2, <2>3
  <2> QED BY <1>5, <1>6, <2>4
<1> QED BY <1>1, <1>4, <1>5, <1>9, <1>10

(* Among the keys read from an account that is taken for a pool, a vault   *)
(* is the one it is read for, and only a pool account has them.            *)
LEMMA VaultsAreRead ==
  ASSUME network \in Networks, NEW a \in Accounts, Taken(SizeOf(a)) \in DOMAIN Offsets,
         NEW s \in Sides, VaultKey(a, s) \in Vaults
  PROVE  VaultKey(a, s) = <<a[1], s>> /\ a = <<a[1], "pool">>
<1> DEFINE d == Taken(SizeOf(a))
           l == LayoutOf(a)
<1>1. /\ SizeOf(a) \in Nat /\ l \in DOMAIN Layouts /\ a = <<a[1], a[2]>>
      /\ a[2] # "pool" => l = "token"
      /\ l = "lb_pair" => SizeOf(a) > 256
  BY SizeIs
<1>2. (SizeOf(a) = 256 /\ d = "whirlpool") \/ d = "whirlpool_real"
  BY <1>1, TakenIs
<1>3. VaultKey(a, s) = <<a[1], Keys[d][l][s]>>
  BY DEF VaultKey
<1> HIDE DEF d, l
<1>4. Keys[d][l][s] \in Sides
  BY <1>3 DEF Vaults
<1>5. d \in {"whirlpool", "whirlpool_real"} /\ (d = "whirlpool" => l # "lb_pair")
  BY <1>1, <1>2
<1>6. Keys[d][l][s] = s /\ l # "token"
  BY <1>1, <1>4, <1>5, KeysAre
<1> QED BY <1>1, <1>3, <1>6

(* The vaults of a pool are told to the pool they are read from, and no    *)
(* other account of the pool is ever given reserves.                       *)
Reported ==
    /\ network \in Networks
    /\ DOMAIN tracked \subseteq Accounts
    /\ \A a \in DOMAIN tracked : tracked[a] \in [Sides -> Nat]
    /\ \A a \in DOMAIN tracked : a[2] # "pool" => tracked[a] = Empty
    /\ DOMAIN told = Vaults
    /\ ReservesWereReported

LEMMA ReportedStep == Known /\ Reported /\ [Next]_vars => Reported'
<1> SUFFICES ASSUME Known, Reported, [Next]_vars PROVE Reported'
  OBVIOUS
<1>1. ASSUME UNCHANGED <<network, tracked, told>> PROVE Reported'
  BY <1>1 DEF Reported, ReservesWereReported
<1>2. ASSUME queue # <<>>
      PROVE  /\ Head(queue).key \in Accounts /\ Head(queue).amount \in Nat
             /\ Head(queue).size \in {0, SizeOf(Head(queue).key)}
  <2>1. queue \in Seq(Updates) /\ Len(queue) \in Nat \ {0} /\ Head(queue) = queue[1]
        /\ DOMAIN queue = 1 .. Len(queue)
    BY <1>2, HeadTailProperties, LenProperties, EmptySeq DEF Known
  <2>2. 1 \in DOMAIN queue /\ queue[1] \in Updates
    BY <2>1, ElementOfSeq
  <2>3. \A u \in Updates : u.key \in Accounts /\ u.amount \in 0 .. MaxAmount
    BY DEF Updates, Update
  <2>4. 0 .. MaxAmount \subseteq Nat
    BY TrackingAssumption
  <2> QED BY <2>1, <2>2, <2>3, <2>4 DEF Known
<1>3. ASSUME queue # <<>>, NEW refused, PoolUpdate(refused) PROVE Reported'
  <2> DEFINE a == Head(queue).key
  <2>1. /\ a \in Accounts /\ tracked' = Put(tracked, a, Empty)
        /\ UNCHANGED <<network, told>>
    BY <1>2, <1>3 DEF PoolUpdate, chainVars
  <2> HIDE DEF a
  <2>2. /\ DOMAIN tracked' = DOMAIN tracked \cup {a}
        /\ \A b \in DOMAIN tracked' : tracked'[b] = IF b = a THEN Empty ELSE tracked[b]
    BY <2>1 DEF Put
  <2>3. Empty \in [Sides -> Nat] /\ \A s \in Sides : Empty[s] = 0
    BY DEF Empty
  <2>4. ReservesWereReported'
    <3> SUFFICES ASSUME NEW b \in DOMAIN tracked', NEW s \in Sides
                 PROVE  tracked'[b][s] \in {0, told'[<<b[1], s>>]}
      BY DEF ReservesWereReported
    <3> QED BY <2>1, <2>2, <2>3 DEF Reported, ReservesWereReported
  <2> QED BY <2>1, <2>2, <2>3, <2>4 DEF Reported
<1>4. ASSUME VaultUpdate, Parents(Head(queue)) # {} PROVE Reported'
  <2> DEFINE u == Head(queue)
             side(a) == IF VaultKey(a, "base_vault") = u.key THEN "base_vault" ELSE "quote_vault"
             res(a) == [tracked[a] EXCEPT ![side(a)] = u.amount]
  <2>1. PICK a \in Parents(u) :
          /\ told' = [told EXCEPT ![u.key] = u.amount]
          /\ tracked' = [tracked EXCEPT ![a] = res(a)]
    BY <1>4, Zenon DEF VaultUpdate
  <2>2. network' = network /\ queue # <<>>
    BY <1>4 DEF VaultUpdate, chainVars
  <2>3. a \in DOMAIN tracked /\ u.key \in VaultsRead(a)
    BY <2>1 DEF Parents
  <2>4. a \in Accounts /\ Taken(SizeOf(a)) \in DOMAIN Offsets
    BY <2>3 DEF Reported, Known
  <2>5. u.key \in Vaults /\ \E s \in Sides : u.key = VaultKey(a, s)
    BY <2>3, <2>4 DEF VaultsRead
  <2> DEFINE t == side(a)
             r == res(a)
             n == u.amount
             k == u.key
  <2>6. PICK s \in Sides : k = VaultKey(a, s)
    BY <2>5
  <2>7. k = <<a[1], s>> /\ a = <<a[1], "pool">>
    BY <2>4, <2>5, <2>6, VaultsAreRead DEF Reported
  <2>8. t = s
    <3>1. "base_vault" \in Sides /\ (VaultKey(a, "base_vault") = k =>
             VaultKey(a, "base_vault") = <<a[1], "base_vault">>)
      BY <2>4, <2>5, VaultsAreRead DEF Reported, Sides
    <3>2. VaultKey(a, "base_vault") = k <=> s = "base_vault"
      BY <2>6, <2>7, <3>1
    <3> QED BY <3>2 DEF Sides
  <2>9. tracked[a] \in [Sides -> Nat] /\ n \in Nat /\ k \in DOMAIN told
    BY <1>2, <2>2, <2>3, <2>5 DEF Reported
  <2>10. r = [tracked[a] EXCEPT ![s] = n]
    BY <2>8
  <2>11. told' = [told EXCEPT ![k] = n] /\ tracked' = [tracked EXCEPT ![a] = r]
    BY <2>1
  <2> HIDE DEF t, r, n, k, u
  <2>12. /\ r \in [Sides -> Nat] /\ r[s] = n
         /\ \A x \in Sides : x # s => r[x] = tracked[a][x]
    BY <2>9, <2>10
  <2>13. /\ DOMAIN tracked' = DOMAIN tracked /\ tracked'[a] = r
         /\ \A b \in DOMAIN tracked : b # a => tracked'[b] = tracked[b]
    BY <2>3, <2>11
  <2>14. /\ DOMAIN told' = Vaults /\ told'[k] = n
         /\ \A v \in Vaults : v # k => told'[v] = told[v]
    BY <2>9, <2>11 DEF Reported
  <2>15. ASSUME NEW b \in DOMAIN tracked, NEW x \in Sides
         PROVE  tracked'[b][x] \in {0, told'[<<b[1], x>>]}
    <3>1. tracked[b][x] \in {0, told[<<b[1], x>>]}
      BY DEF Reported, ReservesWereReported
    <3>2. b \in Accounts /\ b = <<b[1], b[2]>> /\ <<b[1], x>> \in Vaults
      BY SizeIs DEF Reported, Vaults
    <3>3. CASE b = a /\ x = s
      BY <2>7, <2>12, <2>13, <2>14, <3>3
    <3>4. CASE b = a /\ x # s
      <4>1. <<b[1], x>> # k
        BY <2>7, <3>4
      <4> QED BY <2>12, <2>13, <2>14, <3>1, <3>2, <3>4, <4>1
    <3>5. CASE b # a /\ <<b[1], x>> # k
      BY <2>13, <2>14, <3>1, <3>2, <3>5
    <3>6. CASE b # a /\ <<b[1], x>> = k
      <4>1. b[1] = a[1] /\ b[2] # "pool"
        BY <2>7, <3>2, <3>6
      <4>2. tracked[b] = Empty
        BY <4>1 DEF Reported
      <4> QED BY <2>13, <3>6, <4>2 DEF Empty
    <3> QED BY <3>3, <3>4, <3>5, <3>6
  <2>16. ReservesWereReported'
    BY <2>13, <2>15 DEF ReservesWereReported
  <2>17. \A b \in DOMAIN tracked' : b[2] # "pool" => tracked'[b] = Empty
    <3>1. a[2] = "pool"
      BY <2>7
    <3> QED BY <2>13, <3>1 DEF Reported
  <2> QED BY <2>2, <2>12, <2>13, <2>14, <2>16, <2>17 DEF Reported
<1>5. ASSUME VaultUpdate, Parents(Head(queue)) = {} PROVE Reported'
  BY <1>1, <1>5 DEF VaultUpdate, chainVars
<1>6. CASE Step
  BY <1>1, <1>3, <1>4, <1>5, <1>6 DEF Step, Other, chainVars
<1>7. CASE UNCHANGED vars
  BY <1>1, <1>7 DEF vars, chainVars, loopVars
<1>8. ASSUME NEW v \in Vaults, NEW n \in 0 .. MaxAmount, Swap(v, n) PROVE Reported'
  BY <1>1, <1>8 DEF Swap, loopVars
<1>9. ASSUME NEW v \in Vaults, Close(v) PROVE Reported'
  BY <1>1, <1>9 DEF Close, loopVars
<1>10. ASSUME NEW p \in Pools, TouchPool(p) PROVE Reported'
  BY <1>1, <1>10 DEF TouchPool, loopVars
<1> QED BY <1>6, <1>7, <1>8, <1>9, <1>10 DEF Next

(* For any pools, layouts and vault sizes, and any order of updates, a     *)
(* reserve is zero or the last amount reported for that very vault: base   *)
(* and quote are not mixed up on the way from the bytes of the pool        *)
(* account (the offsets of the decoders, main.rs:1285-1343).               *)
THEOREM ReservesAreReported == Spec => []ReservesWereReported
<1>1. Init => Reported
  BY DEF Init, Reported, ReservesWereReported
<1>2. Known /\ Reported /\ [Next]_vars => Reported'
  BY ReportedStep
<1>3. Reported => ReservesWereReported
  BY DEF Reported
<1> QED BY <1>1, <1>2, <1>3, KnownHolds, PTL DEF Spec
=============================================================================
