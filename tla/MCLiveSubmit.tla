---------------------------- MODULE MCLiveSubmit ----------------------------
(* Values for TLC: a daily cap of three units that two bundles can exhaust, *)
(* a bid above the per-bundle cap, and a loss limit two bundles reach.      *)
EXTENDS LiveSubmit

MCTips == {2, 3}
=============================================================================
