---------------------------- MODULE PoolTracking ----------------------------
(***************************************************************************)
(* The event loop of the live paper trader (dl-app/src/main.rs:1072-1436)  *)
(* and what it knows of the chain.  An account update is tried against one *)
(* decoder after the other, by its size alone.  A pool update registers    *)
(* the pool with reserves of zero and subscribes to its vaults; a vault    *)
(* update sets one reserve of the pool that refers to it.  The reserves    *)
(* live in two places: the loop's maps of pools, which simulation reads,   *)
(* and the edge weights of the StreamingDetector, which detection reads.   *)
(*                                                                         *)
(* The accounts of pool p are <<p, "pool">>, <<p, "base_vault">> and       *)
(* <<p, "quote_vault">>.                                                   *)
(***************************************************************************)
EXTENDS Decoders, FiniteSets, Functions

CONSTANTS
    Pools,      \* pool accounts subscribed to (DL_LIVE_POOL_PUBKEYS)
    Networks,   \* what the pools may be: [layout : pool -> layout,
                \* size : pool -> bytes of its quote vault]
    MaxAmount,  \* bound: tokens in a vault
    MaxQueue,   \* bound: events on their way to the loop
    MaxChanges  \* bound: changes on chain

Sides == {"base_vault", "quote_vault"}
Vaults == Pools \X Sides
Accounts == Vaults \cup (Pools \X {"pool"})

ASSUME TrackingAssumption ==
    /\ \A n \in Networks : /\ n.layout \in [Pools -> DOMAIN Offsets]
                           /\ n.size \in [Pools -> Nat]
    /\ MaxAmount \in Nat /\ MaxQueue \in Nat /\ MaxChanges \in Nat

Reserves == [Sides -> 0 .. MaxAmount]
Empty == [s \in Sides |-> 0]
TwoSided(r) == \A s \in Sides : r[s] > 0

VARIABLES
    network,    \* what the pools are
    chain,      \* what each vault holds
    queue,      \* account updates on their way to the loop, in order
    changes,    \* changes on chain so far
    \* the loop
    tracked,    \* the pool maps: the reserves of the pools seen so far
    followed,   \* subscribed_vaults
    asked,      \* history: confirmed subscriptions of each vault
    \* the detector
    edges,      \* the reserves its edge weights were computed from
    \* history
    told,       \* the amounts the loop was last told of
    mismatch    \* the pools that the last event's evaluation simulated
                \* with reserves other than those it was detected on

chainVars == <<network, chain, changes>>
loopVars == <<tracked, followed, asked, edges, told, mismatch>>
vars == <<chainVars, queue, loopVars>>

Init ==
    /\ network \in Networks
    /\ chain = [v \in Vaults |-> 1] /\ queue = <<>> /\ changes = 0
    /\ tracked = [a \in {} |-> Empty] /\ edges = [a \in {} |-> Empty]
    /\ followed = {} /\ asked = [v \in Vaults |-> 0]
    /\ told = [v \in Vaults |-> 0] /\ mismatch = {}

(* An update: the account's key, its size in bytes, and a vault's amount.  *)
Update(key, size, amount) == [key |-> key, size |-> size, amount |-> amount]

LayoutOf(key) == IF key[2] = "pool" THEN network.layout[key[1]] ELSE "token"

SizeOf(key) ==
    IF key[2] = "quote_vault" THEN network.size[key[1]] ELSE Sizes[LayoutOf(key)]

-----------------------------------------------------------------------------
(* What an update is taken for. *)

Account(size) == [size |-> size, status |-> 1]

Ladder(size) ==
    <<IF size = 256 THEN "whirlpool"
      ELSE IF size \in 234 .. 256 THEN "none" ELSE "whirlpool_real",
      IF size >= Needs.lb_pair THEN "lb_pair" ELSE "none",
      IF size = 752 THEN "amm_info" ELSE "none",
      "token">>

(* The first decoder of the ladder that does not fail.                     *)
Taken(size) ==
    LET ok == {k \in 1 .. 4 : /\ Ladder(size)[k] # "none"
                              /\ Decodes(Ladder(size)[k], Account(size))}
    IN  IF ok = {} THEN "none"
        ELSE Ladder(size)[CHOOSE k \in ok : \A i \in ok : k <= i]

TakenAs(u) == Taken(u.size)

(* decode_pool_update, for what the ladder leaves.                         *)
LastResort(size) ==
    CASE size = 752 -> "amm_info" [] size = 653 -> "whirlpool" [] OTHER -> "lb_pair"

(* The key that its decoder reads for one of the vaults in a pool account. *)
VaultKey(key, s) ==
    <<key[1], Keys[Taken(SizeOf(key))][LayoutOf(key)][s]>>

(* The vaults among these; other bytes are no account and stay silent.     *)
VaultsRead(key) ==
    IF Taken(SizeOf(key)) \in DOMAIN Offsets
    THEN {VaultKey(key, s) : s \in Sides} \cap Vaults ELSE {}

-----------------------------------------------------------------------------
(* The chain. *)

Swap(v, n) ==
    /\ changes < MaxChanges /\ Len(queue) < MaxQueue /\ n # chain[v]
    /\ chain' = [chain EXCEPT ![v] = n] /\ changes' = changes + 1
    /\ queue' = IF v \in followed THEN Append(queue, Update(v, SizeOf(v), n))
                                  ELSE queue
    /\ UNCHANGED <<network, loopVars>>

(* The pool account itself changes: its price, a fee counter, its status.  *)
TouchPool(p) ==
    /\ changes < MaxChanges /\ Len(queue) < MaxQueue
    /\ changes' = changes + 1
    /\ queue' = Append(queue, Update(<<p, "pool">>, SizeOf(<<p, "pool">>), 0))
    /\ UNCHANGED <<network, chain, loopVars>>

(* A vault is emptied and closed: its account has no bytes left.           *)
Close(v) ==
    /\ changes < MaxChanges /\ Len(queue) < MaxQueue /\ v \in followed
    /\ chain' = [chain EXCEPT ![v] = 0] /\ changes' = changes + 1
    /\ queue' = Append(queue, Update(v, 0, 0))
    /\ UNCHANGED <<network, loopVars>>

-----------------------------------------------------------------------------
(* The loop. *)

Put(f, p, r) == [q \in DOMAIN f \cup {p} |-> IF q = p THEN r ELSE f[q]]

(* StreamingDetector::on_pool_update: the edges of a known pool get the    *)
(* weights of its reserves; a new one is added only with both reserves,    *)
(* build_from_pools refusing to divide by zero.                            *)
OnPoolUpdate(p, r) ==
    edges' = IF p \in DOMAIN edges \/ TwoSided(r) THEN Put(edges, p, r) ELSE edges

(* evaluate_and_write_cycles with a snapshot of the pools: which of those  *)
(* the detector has a price for does it see otherwise?                     *)
Evaluate(snapshot) ==
    mismatch' = {q \in DOMAIN edges' :
                   TwoSided(edges'[q]) /\ snapshot[q] # edges'[q]}

(* Subscribe to the vaults not followed yet; the node refuses some, which  *)
(* are tried again at the pool's next update.                              *)
Follow(a, refused) ==
    /\ followed' = followed \cup (VaultsRead(a) \ refused)
    /\ asked' = [v \in Vaults |->
                  IF v \in VaultsRead(a) \ (refused \cup followed)
                    THEN asked[v] + 1 ELSE asked[v]]

(* Taken for a pool: subscribe, track it with no reserves, detect.         *)
PoolUpdate(refused) ==
    /\ queue # <<>> /\ TakenAs(Head(queue)) \in DOMAIN Offsets
    /\ queue' = Tail(queue)
    /\ LET a == Head(queue).key
       IN  /\ Follow(a, refused)
           /\ tracked' = Put(tracked, a, Empty)
           /\ OnPoolUpdate(a, Empty)
    /\ Evaluate(tracked')
    /\ UNCHANGED <<chainVars, told>>

(* The tracked pools that refer to the account of an update.               *)
Parents(u) == {a \in DOMAIN tracked : u.key \in VaultsRead(a)}

(* Mutant: a changed pool is passed on only when its base changed. *)
VaultUpdateBaseOnly ==
    /\ queue # <<>> /\ TakenAs(Head(queue)) = "token" /\ queue' = Tail(queue)
    /\ IF Parents(Head(queue)) = {}
       THEN mismatch' = {} /\ UNCHANGED <<tracked, followed, asked, edges, told>>
       ELSE \E a \in Parents(Head(queue)) :
            LET s == IF VaultKey(a, "base_vault") = Head(queue).key THEN "base_vault" ELSE "quote_vault"
                r == [tracked[a] EXCEPT ![s] = Head(queue).amount]
            IN  /\ told' = [told EXCEPT ![Head(queue).key] = Head(queue).amount]
                /\ tracked' = [tracked EXCEPT ![a] = r]
                /\ IF TwoSided(r) /\ s = "base_vault"
                     THEN OnPoolUpdate(a, r) /\ Evaluate(tracked)
                     ELSE mismatch' = {} /\ UNCHANGED edges
                /\ UNCHANGED <<followed, asked>>
    /\ UNCHANGED chainVars

(* Taken for a vault: set the reserve of its pool.  Detection and           *)
(* evaluation run only with both reserves, and before the pool is put      *)
(* back, so the snapshot has the old reserves of this pool.                *)
VaultUpdate ==
    /\ queue # <<>> /\ TakenAs(Head(queue)) = "token" /\ queue' = Tail(queue)
    /\ IF Parents(Head(queue)) = {}
       THEN mismatch' = {} /\ UNCHANGED <<tracked, followed, asked, edges, told>>
       ELSE \E a \in Parents(Head(queue)) :
            LET s == IF VaultKey(a, "base_vault") = Head(queue).key THEN "base_vault" ELSE "quote_vault"
                r == [tracked[a] EXCEPT ![s] = Head(queue).amount]
            IN  /\ told' = [told EXCEPT ![Head(queue).key] = Head(queue).amount]
                /\ tracked' = [tracked EXCEPT ![a] = r]
                /\ IF TwoSided(r) THEN OnPoolUpdate(a, r) /\ Evaluate(tracked)
                                  ELSE mismatch' = {} /\ UNCHANGED edges
                /\ UNCHANGED <<followed, asked>>
    /\ UNCHANGED chainVars

(* Taken for neither: what is known of the account stays, unless the last  *)
(* resort finds a pool, which goes to the detector only.                   *)
Other ==
    /\ queue # <<>> /\ TakenAs(Head(queue)) = "none" /\ queue' = Tail(queue)
    /\ IF Decodes(LastResort(Head(queue).size), Account(Head(queue).size))
         THEN OnPoolUpdate(Head(queue).key, Empty) /\ Evaluate(tracked)
         ELSE mismatch' = {} /\ UNCHANGED edges
    /\ UNCHANGED <<chainVars, tracked, followed, asked, told>>

Step ==
    \/ VaultUpdate
    \/ Other
    \/ /\ queue # <<>>
       /\ \E refused \in SUBSET VaultsRead(Head(queue).key) :
            PoolUpdate(refused)

Next ==
    \/ \E v \in Vaults, n \in 0 .. MaxAmount : Swap(v, n)
    \/ \E v \in Vaults : Close(v)
    \/ \E p \in Pools : TouchPool(p)
    \/ Step

Spec == Init /\ [][Next]_vars

-----------------------------------------------------------------------------
(* Properties. *)

(* A pool with both reserves has the same ones in the loop's map and in    *)
(* the detector, whatever the order of pool and vault updates              *)
(* (main.rs:1325-1396).                                                    *)
DetectorKnows ==
    \A a \in DOMAIN tracked :
        TwoSided(tracked[a]) => a \in DOMAIN edges /\ edges[a] = tracked[a]

(* Base and quote are not mixed up on the way from the bytes of the pool   *)
(* account to its reserves: a reserve is zero or the last amount reported  *)
(* for that very vault (the offsets of the decoders, main.rs:1285-1343).   *)
ReservesWereReported ==
    \A a \in DOMAIN tracked : \A s \in Sides :
        tracked[a][s] \in {0, told[<<a[1], s>>]}

(* A simulation differs from what was detected at most in the pool just    *)
(* updated and in pools the map has with an empty side.                    *)
MismatchExplained ==
    [][Len(queue') < Len(queue) =>
         \A a \in mismatch' :
            a[1] = Head(queue).key[1] \/ ~TwoSided(tracked'[a])]_vars
=============================================================================
