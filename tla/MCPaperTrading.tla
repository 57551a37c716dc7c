--------------------------- MODULE MCPaperTrading ---------------------------
(* The wallet and the detector share no state, so a behaviour is about one *)
(* of them, the one that "work" names.  A wallet of three units: one loss  *)
(* it can bear, and a second one it cannot.  Three pools over three mints  *)
(* beside the placeholder: a triangle.                                     *)
EXTENDS PaperWallet, Detection

VARIABLE work

MCProfits == {1, -2}

MCPools ==
    "seed" :> [base |-> "s1", quote |-> "s2", fee |-> 0]
    @@ "ab" :> [base |-> "a", quote |-> "b", fee |-> 0]
    @@ "bc" :> [base |-> "b", quote |-> "c", fee |-> 1]
    @@ "ca" :> [base |-> "c", quote |-> "a", fee |-> 0]

MCByAddress == <<"ab", "bc", "ca">>
MCReserves == {<<1, 12>>, <<8, 7>>, <<16, 1>>, <<0, 8>>}

MCInit == Init /\ DetectionInit /\ work \in {"wallet", "detector"}

MCNext ==
    \/ work = "wallet" /\ Next /\ UNCHANGED <<detectionVars, work>>
    \/ work = "detector" /\ DetectionNext /\ UNCHANGED <<vars, work>>

MCSpec == MCInit /\ [][MCNext]_<<vars, detectionVars, work>>
=============================================================================
