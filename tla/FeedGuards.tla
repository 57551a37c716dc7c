----------------------------- MODULE FeedGuards -----------------------------
(* The guards of dl-feed: the staleness guard that halts on a silent       *)
(* account (staleness.rs), the list of accounts to subscribe again         *)
(* (registry.rs), the backoff between attempts to reconnect and the        *)
(* detector of reconnect storms (reconnect.rs).  They are driven by the    *)
(* notifications of a feed, in the order of their arrival: an account      *)
(* update may carry an older slot than the one before it.                  *)
EXTENDS Integers, Sequences, FiniteSets

CONSTANTS Accounts,       \* pubkeys, as numbers in their byte order
          MaxStaleness,   \* max_staleness_slots; 0 disables the guard
          MaxSlot,        \* bound: slots
          BaseDelay, CapDelay, JitterBps, Scale,  \* backoff; Scale is 10_000 bps
          Seeds,          \* jitter seeds the caller may pass
          StormThreshold, StormWindow,
          MaxAttempts     \* bound: attempts in a row (policy: retry forever)

ASSUME GuardConstants ==
    /\ Accounts \subseteq Nat
    /\ {MaxStaleness, MaxSlot, BaseDelay, CapDelay, JitterBps, StormThreshold,
        StormWindow, MaxAttempts} \subseteq Nat
    /\ Scale \in Nat \ {0} /\ JitterBps <= Scale
    /\ Seeds \subseteq Int

VARIABLES
    lastSeen,   \* StalenessGuard.last_seen: account -> slot, 0 is never
    now,        \* now_slot
    tripped,    \* << >>, or <<[account, slot, staleness]>> of the trip
    entries,    \* SubscriptionRegistry.entries
    attempts,   \* slots of the recent attempts
    storms,     \* storm_count
    attempt,    \* attempts since the last connection
    delay,      \* << >>, or <<the backoff computed last>>
    newest,     \* history: account -> newest slot it reported
    tried       \* history: the slots of all attempts, in order

guard == <<lastSeen, now, tripped>>
reconnect == <<attempts, storms, attempt, delay, tried>>
guardVars == <<guard, entries, reconnect, newest>>

GuardsInit ==
    /\ lastSeen = [a \in {} |-> 0] /\ now = 0 /\ tripped = <<>>
    /\ entries = {}
    /\ attempts = <<>> /\ storms = 0 /\ attempt = 0 /\ delay = <<>> /\ tried = <<>>
    /\ newest = [a \in Accounts |-> 0]

Larger(a, b) == IF a > b THEN a ELSE b
AgeAt(slot, last) == IF slot > last THEN slot - last ELSE 0

(***************************************************************************)
(* staleness.rs                                                            *)
(***************************************************************************)
Silent(seen, slot) ==
    {a \in DOMAIN seen : seen[a] > 0 /\ AgeAt(slot, seen[a]) > MaxStaleness}

(* The one seen longest ago; of those the lowest pubkey.                   *)
Worst(seen, silent) ==
    CHOOSE a \in silent : \A b \in silent :
        seen[a] < seen[b] \/ (seen[a] = seen[b] /\ a <= b)

Check(seen, slot) ==
    IF MaxStaleness = 0 \/ slot = 0 \/ Silent(seen, slot) = {} THEN <<>>
    ELSE LET a == Worst(seen, Silent(seen, slot))
         IN  <<[account |-> a, slot |-> slot, staleness |-> AgeAt(slot, seen[a])]>>

With(f, a, v) == [x \in DOMAIN f \union {a} |-> IF x = a THEN v ELSE f[x]]

(* SubscriptionRegistry::insert, read back by every reconnect.             *)
Subscribed(a) == entries \union {a}

(* A vault is registered with the guard and for subscription.              *)
Register(a) ==
    /\ a \notin DOMAIN lastSeen
    /\ lastSeen' = With(lastSeen, a, 0)
    /\ entries' = Subscribed(a)
    /\ UNCHANGED <<now, tripped, reconnect, newest>>

(* Mutant: the account that reported is not checked against the others. *)
UpdateUnchecked(a, slot) ==
    /\ tripped = <<>>
    /\ now' = Larger(now, slot)
    /\ lastSeen' = With(lastSeen, a, slot)
    /\ newest' = [newest EXCEPT ![a] = Larger(@, slot)]
    /\ UNCHANGED <<tripped, entries, reconnect>>

Update(a, slot) ==
    /\ tripped = <<>>
    /\ now' = Larger(now, slot)
    /\ lastSeen' = With(lastSeen, a, slot)
    /\ tripped' = Check(lastSeen', now')
    /\ newest' = [newest EXCEPT ![a] = Larger(@, slot)]
    /\ UNCHANGED <<entries, reconnect>>

NotifySlotAdvance(slot) ==
    /\ tripped = <<>>
    /\ now' = Larger(now, slot)
    /\ tripped' = Check(lastSeen, now')
    /\ UNCHANGED <<lastSeen, entries, reconnect, newest>>

(***************************************************************************)
(* reconnect.rs                                                            *)
(***************************************************************************)
Doubled[n \in 0 .. MaxAttempts] == IF n = 0 THEN 1 ELSE 2 * Doubled[n - 1]

Clamped(s) == IF s > JitterBps THEN JitterBps ELSE IF s < -JitterBps THEN -JitterBps ELSE s

NextBackoff(n, seed) ==
    LET raw == BaseDelay * Doubled[n]
        capped == IF raw > CapDelay THEN CapDelay ELSE raw
        jittered == (capped * (Scale + Clamped(seed))) \div Scale
    IN  IF JitterBps = 0 THEN capped
        ELSE IF jittered > CapDelay THEN CapDelay ELSE jittered

(* retain: the slots after the cutoff, in order. *)
Retained(slots, cutoff) ==
    LET kept[i \in 0 .. Len(slots)] ==
            IF i = 0 THEN <<>>
            ELSE IF slots[i] > cutoff THEN Append(kept[i - 1], slots[i])
            ELSE kept[i - 1]
    IN  kept[Len(slots)]

(* Mutant: the slot at which the window begins is within it. *)
RecentInclusive(slot) ==
    IF StormWindow = 0 THEN attempts
    ELSE Retained(attempts, Larger(slot - StormWindow, 0) - 1)

(* A window of zero slots prunes nothing. *)
Recent(slot) ==
    IF StormWindow = 0 THEN attempts
    ELSE Retained(attempts, Larger(slot - StormWindow, 0))

IsStorm(recent) == StormThreshold > 0 /\ Len(recent) > StormThreshold

(* One attempt: recorded at the current slot, then the sleep.              *)
RecordAttempt(seed) ==
    /\ attempt < MaxAttempts
    /\ attempts' = Append(Recent(now), now)
    /\ storms' = storms + (IF IsStorm(attempts') THEN 1 ELSE 0)
    /\ delay' = << NextBackoff(attempt, seed) >>
    /\ attempt' = attempt + 1
    /\ tried' = Append(tried, now)
    /\ UNCHANGED <<guard, entries, newest>>

Connected ==
    /\ attempt > 0
    /\ attempt' = 0 /\ delay' = <<>>
    /\ UNCHANGED <<guard, entries, attempts, storms, tried, newest>>

GuardsStep ==
    \/ \E a \in Accounts : Register(a)
    \/ \E a \in entries, slot \in 1..MaxSlot : Update(a, slot)
    \/ \E slot \in 1..MaxSlot : NotifySlotAdvance(slot)
    \/ Len(tried) < MaxAttempts /\ \E seed \in Seeds : RecordAttempt(seed)
    \/ Connected

(* The process is gone; none of this was on disk. *)
GuardsEnd ==
    /\ lastSeen' = [a \in {} |-> 0] /\ now' = 0 /\ tripped' = <<>>
    /\ entries' = {}
    /\ attempts' = <<>> /\ storms' = 0 /\ attempt' = 0 /\ delay' = <<>> /\ tried' = <<>>
    /\ newest' = [a \in Accounts |-> 0]

(***************************************************************************)
(* Properties.                                                             *)
(***************************************************************************)
(* While the guard has not tripped no account that ever reported is older  *)
(* than the threshold: trading never goes on over a silent account.        *)
HaltTimely ==
    tripped = <<>> /\ MaxStaleness > 0 =>
        \A a \in DOMAIN lastSeen : lastSeen[a] > 0 => AgeAt(now, lastSeen[a]) <= MaxStaleness

(* Attempts within the window before the i-th; all, with no window. *)
InWindow(i) ==
    {j \in 1..i : StormWindow = 0 \/ tried[j] > tried[i] - StormWindow}

(* Attempts to reconnect are paced: the sleep before the next is within    *)
(* the jitter of the exponential delay, never above the cap and never zero *)
(* while the base is not; a storm is reported for more than the threshold  *)
(* of attempts within the window and not for fewer, once slots are known   *)
(* (reconnect.rs).                                                         *)
ReconnectsPaced ==
    /\ delay # <<>> =>
         LET raw == BaseDelay * Doubled[attempt - 1]
             full == IF raw > CapDelay THEN CapDelay ELSE raw
         IN  /\ delay[1] <= CapDelay
             /\ delay[1] * Scale <= full * (Scale + JitterBps)
             /\ (delay[1] + 1) * Scale > full * (Scale - JitterBps)
    /\ tried # <<>> /\ StormThreshold > 0 /\ tried[1] > 0 =>
         (IsStorm(attempts) <=> Cardinality(InWindow(Len(tried))) > StormThreshold)
=============================================================================
