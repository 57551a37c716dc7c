----------------------------- MODULE StreamRun ------------------------------
(***************************************************************************)
(* The streaming pipeline of dl-stream: it takes events of a feed until    *)
(* the deadline, the shutdown signal or the end of the feed, measures what *)
(* it recognises, and writes the percentiles of its latency histogram      *)
(* (pipeline.rs, latency.rs).                                              *)
(***************************************************************************)
EXTENDS Integers, Sequences, FiniteSets

CONSTANTS
    Delays,         \* milliseconds a measurement may take
    MaxEvents       \* bound: events taken

NBuckets == 12
Bounds == <<1, 2, 4, 8, 16, 32, 64, 128, 256, 512, 1024, 2147483647>>
UpTo(i) == Bounds[i]    \* the last: u64::MAX

ASSUME StreamAssumption == Delays \subseteq 0 .. UpTo(NBuckets) /\ MaxEvents \in Nat

VARIABLES
    spc,        \* "check", "take" or "exit"
    signal,     \* shutdown_signal
    expired,    \* has shutdown_after passed?
    events,     \* events taken
    buckets,    \* LatencyHistogram
    latency,    \* its count and sum
    runLog,     \* the file at cycle_log: << >> or <<exit, snapshot>>
    measured,   \* history: the latencies recorded
    lateTaken        \* history: events taken after the signal

streamVars == <<spc, signal, expired, events, buckets, latency, runLog, measured, lateTaken>>

StreamInit ==
    /\ spc = "check" /\ signal = FALSE /\ expired = FALSE
    /\ events = 0 /\ buckets = [i \in 1 .. NBuckets |-> 0]
    /\ latency = [count |-> 0, sum |-> 0]
    /\ runLog = <<>> /\ measured = <<>> /\ lateTaken = 0

-----------------------------------------------------------------------------
(* The histogram. *)

Below(cells, i) ==
    LET cumulative[k \in 0 .. NBuckets] ==
            IF k = 0 THEN 0 ELSE cumulative[k - 1] + cells[k]
    IN  cumulative[i]

(* The bound of the first bucket at which a count is reached.              *)
FirstReaching(target) ==
    UpTo(CHOOSE i \in 1 .. NBuckets :
            /\ Below(buckets, i) >= target
            /\ \A j \in 1 .. i - 1 : Below(buckets, j) < target)

(* Mutant: the fraction is taken of the count without the last one. *)
PercentileShort(percent) ==
    IF latency.count = 0 THEN 0 ELSE FirstReaching(((latency.count - 1) * percent) \div 100)

Percentile(percent) ==
    IF latency.count = 0 THEN 0 ELSE FirstReaching((latency.count * percent) \div 100)

StreamSnapshot ==
    [p50 |-> Percentile(50), p95 |-> Percentile(95), p99 |-> Percentile(99),
     count |-> latency.count,
     mean |-> IF latency.count = 0 THEN 0 ELSE latency.sum \div latency.count]

MeetsBudget(s) == s.count = 0 \/ s.p99 < 80

BucketOf(ms) ==
    CHOOSE i \in 1 .. NBuckets : ms <= UpTo(i) /\ \A j \in 1 .. i - 1 : ms > UpTo(j)

RecordLatency(ms) ==
    /\ latency' = [count |-> latency.count + 1, sum |-> latency.sum + ms]
    /\ buckets' = [buckets EXCEPT ![BucketOf(ms)] = @ + 1]
    /\ measured' = Append(measured, ms)

-----------------------------------------------------------------------------
(* run. *)

cycles == 0     \* nothing in the loop adds to it
CycleLimit == 1

StreamExit(how) ==
    /\ spc' = "exit" /\ runLog' = <<how, StreamSnapshot>>
    /\ UNCHANGED <<signal, expired, events, buckets, latency, measured, lateTaken>>

StreamCheck ==
    /\ spc = "check"
    /\ CASE expired -> StreamExit("TimeLimit")
         [] ~expired /\ cycles >= CycleLimit -> StreamExit("CycleLimit")
         [] ~expired /\ cycles < CycleLimit /\ signal -> StreamExit("GracefulShutdown")
         [] OTHER ->
              /\ spc' = "take"
              /\ UNCHANGED <<signal, expired, events, buckets, latency, runLog, measured, lateTaken>>

(* An account of at least 32 bytes that start with a known program.        *)
Recognised(e) == e = "pool"

TakeEvent(e, ms) ==
    /\ spc = "take" /\ events < MaxEvents
    /\ spc' = "check" /\ events' = events + 1
    /\ lateTaken' = IF signal THEN lateTaken + 1 ELSE lateTaken
    /\ IF Recognised(e) THEN RecordLatency(ms) ELSE UNCHANGED <<buckets, latency, measured>>
    /\ UNCHANGED <<signal, expired, runLog>>

Exhausted == spc = "take" /\ StreamExit("FeedExhausted")

Interrupt ==
    /\ signal' = TRUE
    /\ UNCHANGED <<spc, expired, events, buckets, latency, runLog, measured, lateTaken>>

Expire ==
    /\ expired' = TRUE
    /\ UNCHANGED <<spc, signal, events, buckets, latency, runLog, measured, lateTaken>>

StreamStep ==
    \/ StreamCheck
    \/ \E e \in {"pool", "other"}, ms \in Delays : TakeEvent(e, ms)
    \/ Exhausted
    \/ Interrupt
    \/ Expire

StreamEnds ==
    /\ spc' = "check" /\ signal' = FALSE /\ expired' = FALSE
    /\ events' = 0 /\ buckets' = [i \in 1 .. NBuckets |-> 0]
    /\ latency' = [count |-> 0, sum |-> 0]
    /\ runLog' = <<>> /\ measured' = <<>> /\ lateTaken' = 0

-----------------------------------------------------------------------------
(* Properties. *)

MeasuredUpTo(ms) == Cardinality({k \in DOMAIN measured : measured[k] <= ms})

(* The log tells of every measurement, and its percentiles are of the      *)
(* measurements themselves: each is the least bucket bound that the given  *)
(* share of them, rounded down to a whole number, does not exceed; a run   *)
(* that meets the budget has at most one in a hundred above it, and one    *)
(* more for the rounding; and after the signal at most the event under way *)
(* is taken (pipeline.rs run, latency.rs quantile and snapshot).           *)
LatencyLogged ==
    /\ lateTaken <= 1
    /\ runLog # <<>> =>
         LET s == runLog[2]
             n == Len(measured)
             Covers(p, percent) ==
                 /\ MeasuredUpTo(p) >= (n * percent) \div 100
                 /\ \A i \in 1 .. NBuckets :
                        UpTo(i) < p => MeasuredUpTo(UpTo(i)) < (n * percent) \div 100
         IN  /\ s.count = n
             /\ n > 0 => Covers(s.p50, 50) /\ Covers(s.p95, 95) /\ Covers(s.p99, 99)
             /\ MeetsBudget(s) => 100 * (n - MeasuredUpTo(64)) < n + 100
=============================================================================
