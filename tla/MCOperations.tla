---------------------------- MODULE MCOperations ----------------------------
EXTENDS Operations, TLC

(* A wallet of 9 lamports beside a vault that is empty, short or full;     *)
(* swaps of 2 that return 1, 2 or 8.                                       *)
MCHold == 0 :> 9 @@ 1 :> 0 @@ 2 :> 0

(* A bundle wins two or loses one. *)
MCDeltas == {2, -1}

(* Accounts as numbers in the order of their bytes, and jitters on both    *)
(* sides of the limit.                                                     *)
MCAccounts == 1..2
MCSeeds == {-20, -2, 0, 3}
=============================================================================
