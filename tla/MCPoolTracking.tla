--------------------------- MODULE MCPoolTracking ---------------------------
(* Two pools: each layout the loop knows how to follow, an AmmInfo and an  *)
(* LbPair, which it reads as Whirlpools, and vaults of three sizes, the    *)
(* largest read as a Whirlpool too.                                        *)
EXTENDS PoolTracking

CONSTANTS p1, p2

MCPools == {p1, p2}
Pair(a, b) == [p \in MCPools |-> IF p = p1 THEN a ELSE b]
MCNetworks ==
    { [layout |-> Pair("whirlpool_real", "whirlpool"), size |-> Pair(165, 234)],
      [layout |-> Pair("whirlpool_real", "amm_info"), size |-> Pair(234, 165)],
      [layout |-> Pair("whirlpool", "lb_pair"), size |-> Pair(700, 165)] }
=============================================================================
