------------------------------ MODULE MCWsFeed ------------------------------
(* A feed for TLC: one account and one program to subscribe to.            *)
EXTENDS WsFeed

CONSTANTS f1, pool, dex

MCAccounts == {pool, dex}
MCPrograms == {dex}
MCFeeds    == {f1}
=============================================================================
