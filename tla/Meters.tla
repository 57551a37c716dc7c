------------------------------- MODULE Meters -------------------------------
(***************************************************************************)
(* The meters of a running program, as the threads that feed them and the  *)
(* one that reads them interleave:                                         *)
(*                                                                         *)
(*   - a histogram of the registry (dl-app metrics.rs), which every        *)
(*     observation changes under its lock and then publishes to the sinks, *)
(*     each part read under the lock taken anew;                           *)
(*   - the ring of the latest landing latencies and the totals of          *)
(*     LiveMetrics (dl-executor metrics.rs), with its percentiles;         *)
(*   - LiveMetricsAdapter::poll (live_metrics.rs), which copies totals to  *)
(*     counters by their differences, and what is left of the cap and the  *)
(*     profit to gauges;                                                   *)
(*   - the text a scrape gets (metrics_prom.rs).                           *)
(***************************************************************************)
EXTENDS Integers, Sequences, FiniteSets, FiniteSetsExt, SequencesExt, Functions

CONSTANTS
    Recorders,      \* threads that observe and record
    Values,         \* what they observe
    Deltas,         \* profits and losses of a landed bundle
    MaxBuckets,     \* MAX_BUCKETS
    RingSize,       \* LANDING_LATENCY_CAPACITY
    PnlMax,         \* i64::MAX
    MaxObserved, MaxSubmitted   \* bounds: values recorded, bundles counted

ASSUME MetersAssumption ==
    /\ Values \subseteq Nat /\ Deltas \subseteq Int
    /\ MaxBuckets \in Nat \ {0, 1} /\ RingSize \in Nat \ {0}
    /\ {PnlMax, MaxObserved, MaxSubmitted} \subseteq Nat

VARIABLES
    hist,       \* HistogramInner
    thread,     \* per recorder: where it stands, the value or what it has read
    published,  \* the histogram a sink was told last
    lastMs,     \* last_submission_latency_ms
    ring,       \* LandingLatencyRing: samples, and how many there were
    observed,   \* history: the values observed, in order
    taken,      \* history: the values that went into the ring, in order
    totals,     \* LiveMetrics: bundles submitted, bundles landed
    pnl,        \* PnLTracker
    ppc,        \* where a poll of the adapter stands
    saw,        \* the totals it loaded
    last,       \* LiveMetricsAdapter's last_submitted, last_landed
    counters,   \* the two counters of the registry
    gauges      \* its two gauges: the cap that is left, the profit

histVars == <<hist, published, observed>>
ringVars == <<lastMs, ring, taken>>
sources  == <<totals, pnl>>
adapterVars == <<ppc, saw, last, counters, gauges>>
meterVars == <<histVars, thread, ringVars, sources, adapterVars>>

Empty == [count |-> 0, sum |-> 0, buckets |-> [i \in 0 .. MaxBuckets - 1 |-> 0]]
Idle == [at |-> "idle", value |-> 0, told |-> Empty]

MetersInit ==
    /\ hist = Empty /\ published = Empty /\ observed = <<>>
    /\ thread = [r \in Recorders |-> Idle]
    /\ lastMs = 0 /\ ring = [samples |-> <<>>, total |-> 0] /\ taken = <<>>
    /\ totals = <<0, 0>> /\ pnl = 0
    /\ ppc = "idle" /\ saw = <<0, 0>> /\ last = <<0, 0>>
    /\ counters = <<0, 0>> /\ gauges = <<0, 0>>

-----------------------------------------------------------------------------
(* Histogram *)

(* The powers of two. *)
Pow2[i \in 0 .. MaxBuckets] == IF i = 0 THEN 1 ELSE 2 * Pow2[i - 1]

(* The highest bit, of those that have a bucket.                           *)
HighBit(v) == Max({i \in 0 .. MaxBuckets - 1 : Pow2[i] <= v})

(* Mutant: the underflow is not given a bucket of its own. *)
BucketIndexNoUnderflow(v) ==
    IF v = 0 THEN 0
    ELSE IF HighBit(v) >= MaxBuckets - 1 THEN MaxBuckets - 1 ELSE HighBit(v)

(* bucket_index: one more than the highest bit, up to the last bucket.     *)
BucketIndex(v) ==
    IF v = 0 THEN 0
    ELSE IF HighBit(v) >= MaxBuckets - 1 THEN MaxBuckets - 1 ELSE HighBit(v) + 1

Step(r, from, to, value, told) ==
    /\ thread[r].at = from
    /\ thread' = [thread EXCEPT ![r] = [at |-> to, value |-> value, told |-> told]]

Observe(r) ==
    \E v \in Values :
        /\ Len(observed) + Len(taken) < MaxObserved
        /\ Step(r, "idle", "sum", v, Empty)
        /\ hist' = [hist EXCEPT !.count = @ + 1, !.sum = @ + v,
                                !.buckets[BucketIndex(v)] = @ + 1]
        /\ observed' = Append(observed, v)
        /\ UNCHANGED <<published, ringVars, sources, adapterVars>>

(* emit_histogram: three looks at the histogram. *)
ReadSum(r) ==
    /\ Step(r, "sum", "count", thread[r].value,
            [thread[r].told EXCEPT !.sum = hist.sum])
    /\ UNCHANGED <<histVars, ringVars, sources, adapterVars>>

ReadCount(r) ==
    /\ Step(r, "count", "buckets", thread[r].value,
            [thread[r].told EXCEPT !.count = hist.count])
    /\ UNCHANGED <<histVars, ringVars, sources, adapterVars>>

ReadBuckets(r) ==
    /\ Step(r, "buckets", "publish", thread[r].value,
            [thread[r].told EXCEPT !.buckets = hist.buckets])
    /\ UNCHANGED <<histVars, ringVars, sources, adapterVars>>

Publish(r) ==
    /\ Step(r, "publish", "idle", 0, Empty)
    /\ published' = thread[r].told
    /\ UNCHANGED <<hist, observed, ringVars, sources, adapterVars>>

(* The sum of n numbers of f, from f[a] on. *)
SumFrom(f, a, n) ==
    LET sum[k \in 0 .. n] == IF k = 0 THEN 0 ELSE sum[k - 1] + f[a + k - 1]
    IN  sum[n]

SumOf(s) == SumFrom(s, 1, Len(s))

SumBelow(buckets, i) == SumFrom(buckets, 0, i + 1)

(* render_snapshot: the cumulative counts under le="2^i", and under        *)
(* le="+Inf" for the last bucket.                                          *)
Rendered(buckets) == [i \in DOMAIN buckets |-> SumBelow(buckets, i)]

(* What a scrape finds: each part of the registry under its lock. *)
Scraped ==
    [counters |-> counters, gauges |-> gauges, le |-> Rendered(hist.buckets)]

-----------------------------------------------------------------------------
(* LiveMetrics *)

Pushed(samples, ms) ==
    IF Len(samples) < RingSize THEN Append(samples, ms)
                               ELSE Append(Tail(samples), ms)

(* record_landing_latency_ms: the latest value is stored first, ... *)
StoreLatest(r) ==
    \E v \in Values :
        /\ Len(observed) + Len(taken) < MaxObserved
        /\ Step(r, "idle", "push", v, Empty)
        /\ lastMs' = v
        /\ UNCHANGED <<histVars, ring, taken, sources, adapterVars>>

(* ... then the sample is pushed, under the lock of the ring.              *)
PushSample(r) ==
    /\ Step(r, "push", "idle", 0, Empty)
    /\ ring' = [samples |-> Pushed(ring.samples, thread[r].value),
                total   |-> ring.total + 1]
    /\ taken' = Append(taken, thread[r].value)
    /\ UNCHANGED <<histVars, lastMs, sources, adapterVars>>

(* The samples in ascending order: the nth has fewer than n below it and   *)
(* at least n up to it.                                                    *)
Sorted(samples) ==
    [n \in DOMAIN samples |->
       CHOOSE v \in {samples[k] : k \in DOMAIN samples} :
         /\ Cardinality({k \in DOMAIN samples : samples[k] < v}) < n
         /\ n <= Cardinality({k \in DOMAIN samples : samples[k] <= v})]

(* percentile: between the two nearest ranks, in hundredths, rounded down. *)
Quantile(sorted, pct) ==
    LET pos == pct * (Len(sorted) - 1)
        lo  == sorted[pos \div 100 + 1]
        hi  == sorted[(pos + 99) \div 100 + 1]
    IN  lo + ((hi - lo) * (pos % 100)) \div 100

(* landing_latency_snapshot; zeros for an empty ring. *)
LatencySnapshot ==
    LET sorted == Sorted(ring.samples)
        n      == Len(sorted)
    IN  IF n = 0 THEN [count |-> 0, sum |-> 0, min |-> 0, max |-> 0,
                       p50 |-> 0, p95 |-> 0]
        ELSE [count |-> n, sum |-> SumOf(ring.samples),
              min |-> sorted[1], max |-> sorted[n],
              p50 |-> Quantile(sorted, 50), p95 |-> Quantile(sorted, 95)]

(* render_landing_latency_summary: what of it a scrape shows. *)
Summary == Restrict(LatencySnapshot, {"p50", "p95", "count", "sum"})

CountSubmitted ==
    /\ totals[1] < MaxSubmitted /\ totals' = [totals EXCEPT ![1] = @ + 1]
    /\ UNCHANGED <<pnl, thread, histVars, ringVars, adapterVars>>

(* PnLTracker::add saturates. *)
Saturated(n) == Max({0 - PnlMax, Min({PnlMax, n})})

(* A bundle lands: it is counted, and its profit is added. *)
CountLanded ==
    \E delta \in Deltas :
        /\ totals[2] < totals[1] /\ totals' = [totals EXCEPT ![2] = @ + 1]
        /\ pnl' = Saturated(pnl + delta)
        /\ UNCHANGED <<thread, histVars, ringVars, adapterVars>>

-----------------------------------------------------------------------------
(* LiveMetricsAdapter::poll. *)

(* The totals are loaded one after the other, ... *)
Load(n, from, to) ==
    /\ ppc = from /\ ppc' = to
    /\ saw' = [saw EXCEPT ![n] = totals[n]]
    /\ UNCHANGED <<thread, histVars, ringVars, sources, last, counters, gauges>>

(* What a counter is behind; a total that fell adds nothing. *)
Grown(now, before) == IF now > before THEN now - before ELSE 0

(* ... each counter grows by what is new to it, ...                        *)
AddTo(n, from, to) ==
    /\ ppc = from /\ ppc' = to
    /\ counters' = [counters EXCEPT ![n] = @ + Grown(saw[n], last[n])]
    /\ last' = [last EXCEPT ![n] = saw[n]]
    /\ saw' = [saw EXCEPT ![n] = 0]
    /\ UNCHANGED <<thread, histVars, ringVars, sources, gauges>>

(* ... and the gauges are set.                                             *)
SetGauge(n, value, from, to) ==
    /\ ppc = from /\ ppc' = to
    /\ gauges' = [gauges EXCEPT ![n] = value]
    /\ UNCHANGED <<thread, histVars, ringVars, sources, saw, last, counters>>

Poll(remaining) ==
    \/ Load(1, "idle", "load landed") \/ Load(2, "load landed", "add")
    \/ AddTo(1, "add", "add landed") \/ AddTo(2, "add landed", "cap")
    \/ SetGauge(1, remaining, "cap", "profit")
    \/ SetGauge(2, pnl, "profit", "idle")

Record ==
    \E r \in Recorders :
        \/ Observe(r) \/ ReadSum(r) \/ ReadCount(r) \/ ReadBuckets(r)
        \/ Publish(r) \/ StoreLatest(r) \/ PushSample(r)

AdapterStep(remaining) == CountSubmitted \/ CountLanded \/ Poll(remaining)

(* The process is gone, and its meters with it. *)
MetersEnd ==
    /\ hist' = Empty /\ published' = Empty /\ observed' = <<>>
    /\ thread' = [r \in Recorders |-> Idle]
    /\ lastMs' = 0 /\ ring' = [samples |-> <<>>, total |-> 0] /\ taken' = <<>>
    /\ totals' = <<0, 0>> /\ pnl' = 0
    /\ ppc' = "idle" /\ saw' = <<0, 0>> /\ last' = <<0, 0>>
    /\ counters' = <<0, 0>> /\ gauges' = <<0, 0>>

-----------------------------------------------------------------------------
(* Properties. *)

HowMany(s, Test(_)) == Cardinality({k \in DOMAIN s : Test(s[k])})

(* What a sink is told is behind what happened and true of it.  A          *)
(* histogram's mean is never too large: its sum is of no more observations *)
(* than its count, and the count of no more than the buckets; a scrape     *)
(* counts under each bound all that is below it, nothing above it, and     *)
(* under +Inf all (emit_histogram, bucket_index, render_snapshot).  The    *)
(* ring of landing latencies holds the latest samples in the order they    *)
(* came, at least half of them no smaller than the median                  *)
(* (record_landing_latency_ms, landing_latency_snapshot).                  *)
MetersBehind ==
    /\ \E k \in 0 .. published.count : published.sum = SumOf(SubSeq(observed, 1, k))
    /\ published.count <= SumBelow(published.buckets, MaxBuckets - 1)
    /\ SumBelow(hist.buckets, MaxBuckets - 1) = Len(observed)
    /\ \A i \in 0 .. MaxBuckets - 2 :
         /\ Scraped.le[i] >= HowMany(observed, LAMBDA v : v < Pow2[i])
         /\ Scraped.le[i] <= HowMany(observed, LAMBDA v : v <= Pow2[i])
    /\ ring.samples = SubSeq(taken, Max({1, Len(taken) - RingSize + 1}), Len(taken))
    /\ ring.total = Len(taken)
    /\ LET s == Summary
       IN  /\ s.p50 <= s.p95
           /\ 2 * HowMany(ring.samples, LAMBDA v : v >= s.p50) >= s.count
           /\ s.p50 * s.count <= 2 * s.sum
=============================================================================
