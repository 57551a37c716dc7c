----------------------------- MODULE LiveSubmit -----------------------------
(***************************************************************************)
(* The live submit path: one call of submit_opportunity per detected       *)
(* cycle (dl-app/src/live.rs:109-364), and the safety state it goes        *)
(* through.  That state is the daily cap (dl-signer/src/cap.rs), the rate  *)
(* limit (dl-signer/src/ratelimit.rs), the kill switch                     *)
(* (dl-executor/src/killswitch.rs) and the block engine behind the Jito    *)
(* client (dl-executor/src/jito.rs).  The calls are sequential, since the  *)
(* function borrows the cap and the kill switch mutably for its whole run, *)
(* but each network call takes time in which the operator, the clock and   *)
(* the block engine act and the process may die: every such call is a step *)
(* of its own.                                                             *)
(*                                                                         *)
(* The engine answers about a bundle and decides about it independently:   *)
(* `fate` is what became of the bundle, `outcome` what the program         *)
(* believes.                                                               *)
(***************************************************************************)
EXTENDS Naturals

CONSTANTS
    DailyCap, PerBundleCap, \* CapConfig, in units of lamports
    Tips,                   \* what tip_lamports may bid for a cycle
    MaxLosses,              \* KillSwitchConfig::max_consecutive_losses
    Bucket,                 \* RateLimitConfig::bundles_per_minute
    Simulates,              \* is LiveConfig::simulate_rpc_url set?
    MaxDay, MaxSeq, MaxBoots \* bounds: days, cycles per process, processes

ASSUME LiveAssumption ==
    /\ DailyCap \in Nat /\ PerBundleCap \in Nat /\ PerBundleCap <= DailyCap
    /\ Tips \subseteq Nat
    /\ MaxLosses \in Nat /\ Bucket \in Nat
    /\ Simulates \in BOOLEAN
    /\ MaxDay \in Nat /\ MaxSeq \in Nat /\ MaxBoots \in Nat

Days == 0 .. MaxDay

VARIABLES
    \* the cycle in hand
    pc,         \* where submit_opportunity stands; "idle" between calls
    tip,        \* its bid
    charge,     \* its charge against the cap: "none", "held", "kept", "back"
    verdict,    \* its simulate verdict, "none" when not simulated
    fate,       \* what the engine did with it
    outcome,    \* the OpportunityOutcome last returned
    \* the process
    spent,      \* CapState::spent_today
    lastReset,  \* CapState::last_reset
    seq,        \* LiveMetrics::cycles_evaluated
    landed,     \* LiveMetrics::bundles_landed
    failed,     \* LiveMetrics::bundles_failed
    tokens,     \* RateLimit's whole tokens
    losses,     \* KillSwitch::consecutive_losses
    boots,      \* processes started so far
    \* the world
    snap,       \* the cap snapshot file: none, or the day it was stored for
    captures,   \* calibration captures on disk, counted by cycle_seq
    stop,       \* is the STOP file there?
    today,      \* the UTC date
    \* history
    exposure,   \* by day of charge, the tips of bundles the engine took
    excused,    \* by day, what was refunded or forgotten all the same
    sinceStop   \* bundles the engine took since STOP was last touched

cycleVars == <<pc, tip, charge, verdict, fate, outcome>>
cap       == <<spent, lastReset>>
metrics   == <<seq, landed, failed>>
procVars  == <<cap, metrics, tokens, losses, boots>>
worldVars == <<snap, captures, stop, today>>
history   == <<exposure, excused, sinceStop>>
vars == <<cycleVars, procVars, worldVars, history>>

-----------------------------------------------------------------------------
Zero == [d \in Days |-> 0]

Init ==
    /\ pc = "down" /\ tip = 0 /\ charge = "none" /\ verdict = "none"
    /\ fate = "none" /\ outcome = "none"
    /\ spent = 0 /\ lastReset = 0
    /\ seq = 0 /\ landed = 0 /\ failed = 0
    /\ tokens = Bucket /\ losses = 0 /\ boots = 0
    /\ snap = {} /\ captures = [s \in 1 .. MaxSeq |-> 0]
    /\ stop = FALSE /\ today = 0
    /\ exposure = Zero /\ excused = Zero /\ sinceStop = 0

-----------------------------------------------------------------------------
(* Helpers: CapState, KillSwitch and LiveMetrics operations. *)

SatSub(a, b) == IF a < b THEN 0 ELSE a - b

(* CapState::reset_if_new_day: what is spent once today's books are open. *)
SpentToday == IF today # lastReset THEN 0 ELSE spent

(* Mutant: today's spending is compared with the cap before the tip counts. *)
AffordableLate(t) == t <= PerBundleCap /\ SpentToday <= DailyCap

(* CapState::try_charge succeeds: both limits hold after the roll-over. *)
Affordable(t) ==
    /\ t <= PerBundleCap
    /\ t <= SatSub(DailyCap, SpentToday)

(* What the cap counts for a bundle that is not sent yet. *)
Held == IF charge = "held" THEN tip ELSE 0

(* CapState::refund *)
Refund ==
    /\ spent' = SatSub(spent, tip) /\ UNCHANGED lastReset
    /\ charge' = "back"

CountFailed == failed' = failed + 1 /\ UNCHANGED <<seq, landed>>
CountLanded == landed' = landed + 1 /\ UNCHANGED <<seq, failed>>

(* Mutant: the STOP file is not looked at. *)
SwitchOpenNoStop == losses >= MaxLosses

(* KillSwitch::check *)
SwitchOpen == stop \/ losses >= MaxLosses

(* The call returns o. *)
Return(o) == pc' = "idle" /\ outcome' = o

(* The engine takes the bundle: the tip may now be paid at any time. *)
EngineTakes ==
    /\ fate' = "pending"
    /\ exposure' = [exposure EXCEPT ![lastReset] = @ + tip]
    /\ sinceStop' = IF stop THEN sinceStop + 1 ELSE 0

-----------------------------------------------------------------------------
(* submit_opportunity, one action per outcome of each step. *)

NewCycle(t) ==
    /\ pc = "idle" /\ seq < MaxSeq
    /\ seq' = seq + 1 /\ UNCHANGED <<landed, failed>>
    /\ tip' = t /\ charge' = "none" /\ verdict' = "none" /\ fate' = "none"
    /\ UNCHANGED <<cap, tokens, losses, boots, worldVars, history>>

(* Threshold, leg resolution, niche filter or price gate say no. *)
RejectAtGates(t) ==
    /\ NewCycle(t)
    /\ Return("NotSubmitted")

PassGates(t) ==
    /\ NewCycle(t)
    /\ pc' = "charge" /\ outcome' = "none"

ChargeCap ==
    /\ pc = "charge" /\ Affordable(tip)
    /\ spent' = SpentToday + tip /\ lastReset' = today
    /\ charge' = "held" /\ pc' = "rate"
    /\ UNCHANGED <<tip, verdict, fate, outcome, metrics, tokens, losses, boots,
                   worldVars, history>>

ChargeRefused ==
    /\ pc = "charge" /\ ~Affordable(tip)
    /\ spent' = SpentToday /\ lastReset' = today
    /\ CountFailed /\ Return("NotSubmitted")
    /\ UNCHANGED <<tip, charge, verdict, fate, tokens, losses, boots,
                   worldVars, history>>

AcquireToken ==
    /\ pc = "rate" /\ tokens >= 1
    /\ tokens' = tokens - 1 /\ pc' = "kill"
    /\ UNCHANGED <<tip, charge, verdict, fate, outcome, cap, metrics, losses,
                   boots, worldVars, history>>

RateLimited ==
    /\ pc = "rate" /\ tokens < 1
    /\ Refund /\ Return("NotSubmitted")
    /\ UNCHANGED <<tip, verdict, fate, metrics, tokens, losses, boots,
                   worldVars, history>>

SwitchClosed ==
    /\ pc = "kill" /\ ~SwitchOpen
    /\ pc' = "build"
    /\ UNCHANGED <<tip, charge, verdict, fate, outcome, procVars, worldVars,
                   history>>

(* Mutant: an open kill switch returns without the refund. *)
SwitchRefusesKeeping ==
    /\ pc = "kill" /\ SwitchOpen
    /\ Return("NotSubmitted")
    /\ UNCHANGED <<tip, charge, verdict, fate, procVars, worldVars, history>>

SwitchRefuses ==
    /\ pc = "kill" /\ SwitchOpen
    /\ Refund /\ Return("NotSubmitted")
    /\ UNCHANGED <<tip, verdict, fate, metrics, tokens, losses, boots,
                   worldVars, history>>

(* build_unsigned_bundle: quotes from Jupiter, the assert and tip txs. *)
BuildBundle ==
    /\ pc = "build"
    /\ pc' = IF Simulates THEN "simulate" ELSE "sign"
    /\ UNCHANGED <<tip, charge, verdict, fate, outcome, procVars, worldVars,
                   history>>

BuildFails ==
    /\ pc = "build"
    /\ Refund /\ CountFailed /\ Return("NotSubmitted")
    /\ UNCHANGED <<tip, verdict, fate, tokens, losses, boots, worldVars,
                   history>>

(* Mutant: a simulation that errs lets the bundle pass. *)
SimulateFailsOpen(v) ==
    /\ pc = "simulate"
    /\ verdict' = v /\ pc' = "sign"
    /\ UNCHANGED <<tip, charge, fate, outcome, procVars, worldVars, history>>

(* simulate_and_classify; an RPC error is refused like a bad verdict, and  *)
(* neither is recorded with the kill switch.                               *)
SimulatePositive ==
    /\ pc = "simulate"
    /\ verdict' = "Positive" /\ pc' = "sign"
    /\ UNCHANGED <<tip, charge, fate, outcome, procVars, worldVars, history>>

SimulateRejects(v) ==
    /\ pc = "simulate"
    /\ verdict' = v
    /\ Refund /\ Return("Rejected")
    /\ UNCHANGED <<tip, fate, metrics, tokens, losses, boots, worldVars,
                   history>>

SignAndAssemble ==
    /\ pc = "sign"
    /\ pc' = "submit"
    /\ UNCHANGED <<tip, charge, verdict, fate, outcome, procVars, worldVars,
                   history>>

SignOrAssembleFails ==
    /\ pc = "sign"
    /\ Refund /\ Return("NotSubmitted")
    /\ UNCHANGED <<tip, verdict, fate, metrics, tokens, losses, boots,
                   worldVars, history>>

SubmitAccepted ==
    /\ pc = "submit"
    /\ EngineTakes
    /\ charge' = "kept" /\ pc' = "poll"
    /\ UNCHANGED <<tip, verdict, outcome, procVars, worldVars, excused>>

(* The engine never took the bundle: connection refused or an error page. *)
SubmitRefused ==
    /\ pc = "submit"
    /\ Refund /\ CountFailed /\ Return("NotSubmitted")
    /\ UNCHANGED <<tip, verdict, fate, tokens, losses, boots, worldVars,
                   history>>

(* The engine took the bundle but its answer was lost, timed out or did    *)
(* not decode: for the client that is the same error.                      *)
SubmitReplyLost ==
    /\ pc = "submit"
    /\ EngineTakes
    /\ Refund /\ CountFailed /\ Return("NotSubmitted")
    /\ excused' = [excused EXCEPT ![lastReset] = @ + tip]
    /\ UNCHANGED <<tip, verdict, tokens, losses, boots, worldVars>>

(* The single poll.  A capture is appended best-effort. *)
PollLanded ==
    /\ pc = "poll" /\ fate = "landed"
    /\ CountLanded /\ losses' = 0 /\ Return("Landed")
    /\ \/ captures' = [captures EXCEPT ![seq] = @ + 1]
       \/ UNCHANGED captures
    /\ UNCHANGED <<tip, charge, verdict, fate, cap, tokens, boots, snap, stop,
                   today, history>>

(* Mutant: a bundle that did not land gives its tip back. *)
RecordLostRefunding ==
    /\ CountFailed /\ losses' = losses + 1 /\ Refund
    /\ UNCHANGED <<tip, verdict, fate, tokens, boots, worldVars, history>>

RecordLost ==
    /\ CountFailed /\ losses' = losses + 1
    /\ UNCHANGED <<tip, charge, verdict, fate, cap, tokens, boots, worldVars,
                   history>>

(* LandingResult::Pending or Lost.  An empty status list reads as Pending, *)
(* so a bundle of any fate may be answered for this way.                   *)
PollNotLanded == pc = "poll" /\ Return("Lost") /\ RecordLost

PollFails == pc = "poll" /\ Return("NotSubmitted") /\ RecordLost

Pipeline ==
    \/ ChargeCap \/ ChargeRefused
    \/ AcquireToken \/ RateLimited
    \/ SwitchClosed \/ SwitchRefuses
    \/ BuildBundle \/ BuildFails
    \/ SimulatePositive
    \/ \E v \in {"NonPositive", "Error"} : SimulateRejects(v)
    \/ SignAndAssemble \/ SignOrAssembleFails
    \/ SubmitAccepted \/ SubmitRefused \/ SubmitReplyLost
    \/ PollLanded \/ PollNotLanded \/ PollFails

Detect == \E t \in Tips : RejectAtGates(t) \/ PassGates(t)

-----------------------------------------------------------------------------
(* The world around a call. *)

EngineDecides(f) ==
    /\ fate = "pending" /\ fate' = f
    /\ UNCHANGED <<pc, tip, charge, verdict, outcome, procVars, worldVars,
                   history>>

Midnight ==
    /\ today < MaxDay /\ today' = today + 1
    /\ UNCHANGED <<cycleVars, procVars, snap, captures, stop, history>>

TouchStop ==
    /\ ~stop /\ stop' = TRUE /\ sinceStop' = 0
    /\ UNCHANGED <<cycleVars, procVars, snap, captures, today, exposure,
                   excused>>

ClearStop ==
    /\ stop /\ stop' = FALSE
    /\ UNCHANGED <<cycleVars, procVars, snap, captures, today, history>>

(* Time has passed for one more whole token (RateLimit::try_acquire). *)
Refill ==
    /\ pc # "down" /\ tokens < Bucket /\ tokens' = tokens + 1
    /\ UNCHANGED <<cycleVars, cap, metrics, losses, boots, worldVars, history>>

(* The process dies.  What its cap had counted for bundles already sent is *)
(* on no disk, and nothing reads the dead process's state again.           *)
Crash ==
    /\ pc # "down" /\ pc' = "down"
    /\ excused' = [excused EXCEPT ![lastReset] = @ + (spent - Held)]
    /\ UNCHANGED <<tip, charge, verdict, fate, outcome, procVars, worldVars,
                   exposure, sinceStop>>

(* run_live_submit starts: CapState::load_or_init, which only ever stores  *)
(* the snapshot of a cap nothing was charged to, and fresh everything      *)
(* else.  A snapshot that is not there, or whose path cannot be looked at, *)
(* means a fresh cap, whose persist is best-effort.                        *)
Boot ==
    /\ pc = "down" /\ boots < MaxBoots
    /\ pc' = "idle" /\ boots' = boots + 1
    /\ spent' = 0
    /\ \/ lastReset' \in snap /\ UNCHANGED snap
       \/ lastReset' = today /\ snap' \in {snap, {today}}
    /\ seq' = 0 /\ landed' = 0 /\ failed' = 0
    /\ tokens' = Bucket /\ losses' = 0
    /\ charge' = IF charge = "held" THEN "none" ELSE charge
    /\ UNCHANGED <<tip, verdict, fate, outcome, captures, stop, today,
                   history>>

Environment ==
    \/ \E f \in {"landed", "dropped"} : EngineDecides(f)
    \/ Midnight \/ TouchStop \/ ClearStop \/ Refill \/ Crash \/ Boot

Next == Detect \/ Pipeline \/ Environment

(* Every network client in the path has a timeout, so a started call is    *)
(* carried on until it returns.                                            *)
Spec == Init /\ [][Next]_vars /\ WF_vars(Pipeline)

-----------------------------------------------------------------------------
(* Properties *)

Stages == {"charge", "rate", "kill", "build", "simulate", "sign", "submit",
           "poll"}

CycleTypeOK ==
    /\ pc \in Stages \cup {"idle", "down"}
    /\ tip \in Nat
    /\ charge \in {"none", "held", "kept", "back"}
    /\ verdict \in {"none", "Positive", "NonPositive", "Error"}
    /\ fate \in {"none", "pending", "landed", "dropped"}
    /\ outcome \in {"none", "NotSubmitted", "Rejected", "Landed", "Lost"}

ProcTypeOK ==
    /\ spent \in Nat /\ lastReset \in Days
    /\ seq \in 0 .. MaxSeq /\ landed \in Nat /\ failed \in Nat
    /\ tokens \in 0 .. Bucket
    /\ losses \in Nat
    /\ boots \in 0 .. MaxBoots

WorldTypeOK ==
    /\ snap \in SUBSET Days
    /\ captures \in [1 .. MaxSeq -> Nat]
    /\ stop \in BOOLEAN
    /\ today \in Days

HistoryTypeOK ==
    /\ exposure \in [Days -> Nat] /\ excused \in [Days -> Nat]
    /\ sinceStop \in Nat

TypeOK == CycleTypeOK /\ ProcTypeOK /\ WorldTypeOK /\ HistoryTypeOK

(* The worst case of a day.  The tips of all bundles the engine took on    *)
(* one day's charge exceed the daily cap by no more than what was refunded *)
(* after an ambiguous submit or forgotten by a restart: every other path   *)
(* through refunds, roll-overs at midnight in the middle of a call, and    *)
(* several processes on one day keeps to the cap (cap.rs:190-223,          *)
(* live.rs:213-317).                                                       *)
OverspendExplained == \A d \in Days : exposure[d] <= DailyCap + excused[d]

(* STOP is read once, before the quotes, the simulation and the signature  *)
(* (live.rs:226).  So the operator who touches it sees at most one more    *)
(* bundle reach the engine, across restarts too.                           *)
StopLetsOneThrough == sinceStop <= 1

(* What reaches the engine has passed every gate, in whatever order the    *)
(* world moved meanwhile: its tip is charged and within the per-bundle     *)
(* cap, the loss streak as the program counts it is below the limit, and   *)
(* it simulated well if simulation is configured (live.rs:211-310).  The   *)
(* program does not count what killswitch.rs says it does: RejectedIsLoss. *)
OnlyVettedReachEngine ==
    [][fate = "none" /\ fate' = "pending" =>
         /\ charge = "held" /\ tip <= PerBundleCap /\ tip <= spent
         /\ losses < MaxLosses
         /\ Simulates => verdict = "Positive"]_vars

(* The two counters disagree about a cycle in no outcome: one cycle is at  *)
(* most one landed or failed bundle, so landed + failed never overtakes    *)
(* the cycles evaluated (metrics.rs:16-39, and every return of live.rs).   *)
CountedAtMostOnce == landed + failed <= seq

(* cycle_seq is a join key within one process only: a restart starts the   *)
(* sequence again, and one key may stand for as many landed bundles as     *)
(* there were processes, never more (metrics.rs:34-39, 138-140).           *)
CaptureKeyPerProcess == \A s \in 1 .. MaxSeq : captures[s] <= boots

(* The cap implements the budget of TipBudget: reservations, refunds and *)
(* roll-overs at midnight happen as it allows, and no others.              *)
Budget == INSTANCE TipBudget WITH
    reserved <- Held, committed <- spent - Held, day <- lastReset,
    up <- pc # "down"

ImplementsBudget == Budget!Spec

(* A charge is never left undecided: the bundle is handed to the engine,   *)
(* the tip comes back, or the process dies (live.rs:213-317).              *)
ChargeSettles == charge = "held" ~> charge # "held" \/ pc = "down"

(* What the simulation gate rejects counts toward the loss breaker, as     *)
(* killswitch.rs:10-12 and 53-55 say (live.rs:273-283 returns without      *)
(* telling the kill switch).                                               *)
RejectedIsLoss ==
    [][pc = "simulate" /\ verdict' = "NonPositive" => losses' = losses + 1]_vars

(* NotSubmitted and Rejected mean what they say: the bundle did not pay    *)
(* a tip (cap.rs:221-226, live.rs:73-93).                                  *)
RefundedNeverPaid == charge = "back" => fate # "landed"
=============================================================================
