----------------------------- MODULE Operations -----------------------------
(***************************************************************************)
(* One host and its wallet: processes that start, are refused, run and die *)
(* (Startup), the status and the meters of the process that is ready       *)
(* (StatusBoard, Meters), the bundles it sends with the assert program     *)
(* behind them (AssertedTrade), the guards around its feed (FeedGuards)    *)
(* and a run of the streaming pipeline (StreamRun).                        *)
(*                                                                         *)
(* The vault is funded in the start's prefund stage, from the balances of  *)
(* that moment, and a transfer that was sent outlives its process; so does *)
(* a bundle.                                                               *)
(*                                                                         *)
(* As the program stands a ready process writes its status and waits for   *)
(* Ctrl-C; submit_opportunity, the recorders and the adapter are called by *)
(* what the operator wires to them.  Bundles, the status, the recorders,   *)
(* the adapter, the pipeline and the guards share no state with each       *)
(* other, only with the start and the end of the process: "work" names the *)
(* one a behaviour is about.                                               *)
(***************************************************************************)
EXTENDS Startup, StatusBoard, Meters, AssertedTrade, StreamRun, FeedGuards

VARIABLE work       \* what is wired to the ready process

partVars == <<boardVars, meterVars, tradeVars, streamVars, guardVars>>
vars == <<startVars, partVars, work>>

(* The vault of a host without a cycle stream is full. *)
Init ==
    /\ StartupInit /\ BoardInit /\ MetersInit /\ TradeInit /\ StreamInit
    /\ GuardsInit
    /\ work \in {"bundles", "status", "recorders", "adapter", "stream", "guards"}
    /\ work = "bundles" \/ AlreadyFunded

-----------------------------------------------------------------------------
(* The wallet on chain is that of the first key. *)
Ours == key = 1

(* A step of the process that leaves its other parts as they are, and one  *)
(* that ends it: its cycle is forgotten, what it sent is not.              *)
Alive == stage = "down" \/ stage' # "down"

Forgotten ==
    /\ Return
    /\ engine' = "none" /\ late' = LateAfter
    /\ waited' = 0 /\ interval' = PollFirst
    /\ UNCHANGED <<chainVars, bundles, floor>>

Lifecycle ==
    /\ StartupStep \/ Crash
    /\ IF Alive THEN UNCHANGED partVars
       ELSE BoardEnds /\ MetersEnd /\ Forgotten /\ StreamEnds /\ GuardsEnd

(* pre_fund_vault_if_needed: it waits for its transfer, and the stage is   *)
(* over when it landed, failed or was not needed.                          *)
Prefund ==
    /\ stage = "prefund"
    /\ \/ Ours /\ SendFunding /\ UNCHANGED startVars
       \/ /\ transfer = 0 \/ ~Ours \/ AlreadyFunded
          /\ Prefunded /\ UNCHANGED tradeVars
    /\ UNCHANGED <<boardVars, meterVars, streamVars, guardVars>>

Funding ==
    (FundingLands \/ FundingFails) /\ UNCHANGED <<startVars, boardVars, meterVars, streamVars, guardVars>>

Ready(this) == work = this /\ stage = "ready"

Trade ==
    /\ Ready("bundles") /\ Ours
    /\ TradeStep /\ UNCHANGED <<startVars, boardVars, meterVars, streamVars, guardVars>>

Board ==
    /\ Ready("status")
    /\ BoardStep(cap) /\ UNCHANGED <<startVars, meterVars, tradeVars, streamVars, guardVars>>

(* The registry belongs to another command, `metrics prom`.  Bound: the    *)
(* first process stands for all, since nothing of the meters is kept.      *)
Meter ==
    /\ \/ work = "recorders" /\ stage = "other" /\ starts = 1 /\ Record
       \/ Ready("adapter") /\ AdapterStep(DailyCap - cap)
    /\ UNCHANGED <<startVars, boardVars, tradeVars, streamVars, guardVars>>

(* The streaming pipeline is another program over a feed, run by hand.     *)
Stream ==
    /\ work = "stream" /\ stage = "other" /\ starts = 1
    /\ StreamStep /\ UNCHANGED <<startVars, boardVars, meterVars, tradeVars, guardVars>>

(* The guards are around the feed of the process; none of the commands     *)
(* constructs them yet.                                                    *)
Guard ==
    /\ work = "guards" /\ stage = "other" /\ starts = 1
    /\ GuardsStep /\ UNCHANGED <<startVars, boardVars, meterVars, tradeVars, streamVars>>

(* What is on chain or under way to it settles with or without a process. *)
Settle == Settlement /\ UNCHANGED <<startVars, boardVars, meterVars, streamVars, guardVars>>

Next ==
    /\ Lifecycle \/ Prefund \/ Funding \/ Trade \/ Board \/ Meter \/ Stream \/ Guard \/ Settle
    /\ UNCHANGED work

Spec == Init /\ [][Next]_vars
=============================================================================
