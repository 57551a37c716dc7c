-------------------------- MODULE OperationsProofs --------------------------
(***************************************************************************)
(* Theorems about Operations for every value of its constants: what a      *)
(* crash leaves on disk, what the status file says, when the guard halts,  *)
(* what the assert program keeps for the wallet, and what the meters show  *)
(* of what was recorded in them.  Each part of the host has an invariant   *)
(* of its own; a step of another part leaves it.                           *)
(***************************************************************************)
EXTENDS Operations, SequenceTheorems, FiniteSetTheorems, WellFoundedInduction, TLAPS

(* Who moves which part. *)
LEMMA Frames ==
  ASSUME [Next]_vars
  PROVE  /\ UNCHANGED startVars \/ Lifecycle \/ Prefunded
         /\ \/ UNCHANGED boardVars \/ BoardEnds \/ BoardStep(cap)
         /\ UNCHANGED guardVars \/ GuardsEnd \/ GuardsStep
         /\ \/ UNCHANGED tradeVars \/ Forgotten \/ SendFunding \/ FundingLands
            \/ FundingFails \/ TradeStep \/ Settlement
BY DEF Next, vars, partVars, Lifecycle, Prefund, Funding, Trade, Board, Meter,
       Stream, Guard, Settle

-----------------------------------------------------------------------------
(* The cap and its snapshot. *)

IsSnap(s) == \E form, spent, old : spent \in Nat /\ s = Snap(form, spent, old)

(* There is no temporary file unless a process is ready. *)
CapInv ==
    /\ cap \in Nat /\ IsSnap(snap) /\ IsSnap(tmp)
    /\ tmp # NoSnap => stage = "ready"

LEMMA SnapOf == ASSUME NEW n \in Nat, NEW form, NEW old PROVE IsSnap(Snap(form, n, old))
BY DEF IsSnap

LEMMA SnapIs ==
  ASSUME NEW s, IsSnap(s), NEW form, NEW old
  PROVE  /\ IsSnap([s EXCEPT !.form = form]) /\ IsSnap([s EXCEPT !.past = old])
         /\ [s EXCEPT !.past = old].form = s.form /\ s.spent \in Nat
<1>1. PICK f, n, o : n \in Nat /\ s = Snap(f, n, o)
  BY DEF IsSnap
<1>2. [s EXCEPT !.form = form] = Snap(form, n, o) /\ [s EXCEPT !.past = old] = Snap(f, n, old)
  BY <1>1 DEF Snap
<1>3. IsSnap(Snap(form, n, o)) /\ IsSnap(Snap(f, n, old))
  BY <1>1, SnapOf
<1>4. Snap(f, n, old).form = f /\ s.form = f /\ s.spent = n
  BY <1>1 DEF Snap
<1> QED BY <1>1, <1>2, <1>3, <1>4

LEMMA NoSnapIs == IsSnap(NoSnap)
BY SnapOf DEF NoSnap

LEMMA EndCap == ASSUME CapInv, Exit PROVE CapInv'
BY NoSnapIs DEF CapInv, Exit, End

LEMMA CapStep == CapInv /\ [Next]_vars => CapInv'
<1> SUFFICES ASSUME CapInv, [Next]_vars PROVE CapInv'
  OBVIOUS
<1> USE DEF CapInv
<1>1. CASE UNCHANGED <<stage, capVars>>
  BY <1>1 DEF capVars
<1>2. ASSUME NEW t \in 1 .. PerBundle + 1, Charge(t) \/ Refund(t) PROVE CapInv'
  <2>1. cap' \in Nat
    <3>1. SpentToday \in Nat /\ t \in Nat
      BY StartupAssumption DEF SpentToday
    <3>2. CASE Charge(t)
      BY <3>1, <3>2 DEF Charge
    <3>3. CASE Refund(t)
      BY <3>1, <3>3 DEF Refund
    <3> QED BY <1>2, <3>2, <3>3
  <2>2. UNCHANGED <<stage, snap, tmp>>
    BY <1>2 DEF Charge, Refund
  <2> QED BY <2>1, <2>2
<1>3. ASSUME NEW form \in {"bad", "good"}, PersistWrite(form) PROVE CapInv'
  BY <1>3, SnapOf DEF PersistWrite
<1>4. CASE PersistRename
  BY <1>4, NoSnapIs DEF PersistRename
<1>5. CASE PersistFails
  BY <1>5, NoSnapIs DEF PersistFails
<1>6. ASSUME NEW seen, LoadOrInit(seen) PROVE CapInv'
  <2>1. CASE Exit
    BY <2>1, EndCap
  <2>2. CASE FreshCap
    BY <2>2, SnapOf DEF FreshCap
  <2>3. CASE LoadSnapshot /\ snap.form = "good"
    BY <2>3, SnapIs DEF LoadSnapshot
  <2> QED BY <1>6, <2>1, <2>2, <2>3 DEF LoadOrInit, LoadSnapshot
<1>7. CASE Damage \/ Midnight
  <2>1. CASE Damage
    BY <2>1, SnapIs DEF Damage
  <2>2. CASE Midnight
    <3>1. IsSnap(snap') /\ IsSnap(tmp') /\ UNCHANGED <<stage, cap>>
      BY <2>2, SnapIs DEF Midnight
    <3>2. CASE tmp = NoSnap
      <4>1. tmp' = NoSnap
        BY <2>2, <3>2, Zenon DEF Midnight, NoSnap, Snap
      <4> QED BY <3>1, <4>1
    <3>3. CASE tmp # NoSnap
      BY <3>1, <3>3
    <3> QED BY <3>2, <3>3
  <2> QED BY <1>7, <2>1, <2>2
<1>8. CASE Exit
  BY <1>8, EndCap
<1>9. CASE Saved
  BY <1>9, NoSnapIs DEF Saved, End
<1>10. CASE stage' # "ready" /\ stage # "ready" /\ UNCHANGED capVars
  BY <1>10 DEF capVars
<1>11. CASE Lifecycle
  <2>1. CASE Start
    BY <2>1, <1>10, <1>1 DEF Start, StartAs, Reached, Reaches, SignerReached,
          SignerReaches
  <2>2. ASSUME NEW answer, NEW argument, TipAccounts(answer, argument) PROVE CapInv'
    BY <2>2, <1>8, <1>10 DEF TipAccounts
  <2>3. CASE LoadKey
    BY <2>3, <1>8, <1>10 DEF LoadKey
  <2>4. ASSUME NEW part, SavePart(part) PROVE CapInv'
    BY <2>4, <1>10 DEF SavePart
  <2>5. CASE OtherEnds \/ SaveFails \/ Verify \/ Interrupted \/ Crash
    BY <2>5, <1>8 DEF OtherEnds, SaveFails, Verify, Interrupted, Crash
  <2> QED BY <1>11, <1>2, <1>3, <1>4, <1>5, <1>6, <1>7, <1>9, <2>1, <2>2, <2>3,
             <2>4, <2>5 DEF Lifecycle, StartupStep
<1>12. CASE UNCHANGED startVars \/ Prefunded
  BY <1>12, <1>1, <1>10 DEF startVars, Prefunded, capVars
<1> QED BY <1>11, <1>12, Frames

LEMMA CapHolds == Spec => []CapInv
<1>1. Init => CapInv
  BY NoSnapIs DEF Init, StartupInit, CapInv
<1> QED BY <1>1, CapStep, PTL DEF Spec

(* For any amounts, any number of processes, and stops, failed writes and  *)
(* midnights anywhere: only a damaged disk turns a snapshot of the cap     *)
(* into one that the next start must refuse (cap.rs:246-276).              *)
THEOREM SnapshotsAreWhole == Spec => SnapshotWhole
<1>1. CapInv /\ [Next]_vars => [snap'.form = "bad" => snap.form = "bad" \/ stage = "down"]_snap
  <2> SUFFICES ASSUME CapInv, [Next]_vars, snap' # snap, snap'.form = "bad"
               PROVE  snap.form = "bad" \/ stage = "down"
    OBVIOUS
  <2>1. Lifecycle
    BY Frames DEF startVars, capVars, Prefunded
  <2>2. ASSUME NEW seen, LoadOrInit(seen) PROVE FALSE
    BY <2>2 DEF LoadOrInit, LoadSnapshot, FreshCap, Exit, Snap
  <2>3. CASE PersistRename
    BY <2>3 DEF PersistRename
  <2>4. CASE Damage
    BY <2>4 DEF Damage
  <2>5. CASE Midnight
    BY <2>5, SnapIs DEF Midnight, CapInv
  <2>6. (\E seen \in BOOLEAN : LoadOrInit(seen)) \/ PersistRename \/ Damage \/ Midnight
    BY <2>1 DEF Lifecycle, StartupStep, Crash, Exit, Start, StartAs, OtherEnds,
         SaveFails, Verify, LoadKey, TipAccounts, SavePart, Saved,
         PersistFails, Interrupted, Charge, Refund, PersistWrite, capVars
  <2> QED BY <2>2, <2>3, <2>4, <2>5, <2>6
<1> QED BY <1>1, CapHolds, PTL DEF Spec, SnapshotWhole

-----------------------------------------------------------------------------
(* The status file. *)

Reports == [spent : Nat, open : BOOLEAN, stop : BOOLEAN, losses : Nat,
            whole : BOOLEAN]

(* A report that shows the breaker at its limit shows it open. *)
Coherent(r) == r.losses >= MaxLosses => r.open

(* Between the check and the fields the switch is locked, so the losses    *)
(* the tick reads are those it checked; what is in the temporary file when *)
(* it is renamed is whole.                                                 *)
BoardInv ==
    /\ draft \in Reports /\ statusTmp \in Reports /\ status \in Reports
    /\ losses \in Nat /\ stopFile \in BOOLEAN
    /\ wpc \in {"wait", "check", "stop", "losses", "write", "sync", "rename"}
    /\ wpc \in {"check", "stop", "losses"} => ksHeld
    /\ wpc \in {"stop", "losses"} => (losses >= MaxLosses => draft.open)
    /\ wpc \in {"write", "sync", "rename"} => Coherent(draft)
    /\ wpc = "rename" => statusTmp.whole /\ Coherent(statusTmp)
    /\ status # NoStatus => status.whole /\ Coherent(status)

LEMMA BoardStepInv == CapInv /\ BoardInv /\ [Next]_vars => BoardInv'
<1> SUFFICES ASSUME CapInv, BoardInv, [Next]_vars PROVE BoardInv'
  OBVIOUS
<1> USE BoardAssumption DEF BoardInv, Reports, Coherent, NoStatus, switchVars, tickVars
<1>1. CASE UNCHANGED boardVars
  BY <1>1 DEF boardVars
<1>2. CASE BoardEnds
  BY <1>2 DEF BoardEnds
<1>3. CASE RecordLost
  BY <1>3 DEF RecordLost
<1>4. CASE RecordLanded
  BY <1>4 DEF RecordLanded
<1>5. CASE TouchStop
  BY <1>5 DEF TouchStop
<1>6. CASE TickCap(cap)
  BY <1>6 DEF TickCap, CapInv
<1>7. CASE TickCheck
  BY <1>7 DEF TickCheck, Tick
<1>8. CASE TickStop
  BY <1>8 DEF TickStop, Tick
<1>9. CASE TickLosses
  BY <1>9 DEF TickLosses, Tick
<1>10. CASE WritePart
  BY <1>10 DEF WritePart
<1>11. CASE WriteSync
  BY <1>11 DEF WriteSync, Written
<1>12. CASE Rename
  BY <1>12 DEF Rename
<1>13. CASE WriteFails
  BY <1>13 DEF WriteFails
<1> QED BY <1>1, <1>2, <1>3, <1>4, <1>5, <1>6, <1>7, <1>8, <1>9, <1>10, <1>11,
           <1>12, <1>13, Frames DEF BoardStep

(* For any limit and any interleaving of the trader, the STOP file, the    *)
(* writer and crashes, live_status.json is whole and never shows the       *)
(* breaker at its limit beside a closed switch (live_status.rs:274-309).   *)
THEOREM StatusIsTruthful == Spec => []StatusTruthful
<1>1. Init => BoardInv
  <2> SUFFICES ASSUME BoardInit PROVE BoardInv
    BY DEF Init
  <2>1. NoStatus \in Reports
    BY DEF NoStatus, Reports
  <2> QED BY <2>1 DEF BoardInit, BoardInv
<1>2. BoardInv => StatusTruthful
  BY DEF BoardInv, StatusTruthful, Coherent, ReasonOf, Reports
<1> QED BY <1>1, <1>2, BoardStepInv, CapHolds, PTL DEF Spec

-----------------------------------------------------------------------------
(* The staleness guard. *)

GuardInv ==
    /\ now \in Nat
    /\ DOMAIN lastSeen \subseteq Accounts /\ entries \subseteq Accounts
    /\ lastSeen \in [DOMAIN lastSeen -> Nat]
    /\ HaltTimely

LEMMA CheckFacts ==
  ASSUME NEW seen, NEW slot \in Nat, slot > 0, MaxStaleness > 0, Check(seen, slot) = <<>>
  PROVE  \A a \in DOMAIN seen : seen[a] > 0 => ~(AgeAt(slot, seen[a]) > MaxStaleness)
<1>1. Silent(seen, slot) = {}
  BY DEF Check
<1> QED BY <1>1 DEF Silent

LEMMA GuardStepInv == GuardInv /\ [Next]_vars => GuardInv'
<1> SUFFICES ASSUME GuardInv, [Next]_vars PROVE GuardInv'
  OBVIOUS
<1> USE GuardConstants DEF GuardInv
<1>1. CASE UNCHANGED <<lastSeen, now, tripped, entries>>
  BY <1>1 DEF HaltTimely
<1>2. CASE GuardsEnd
  BY <1>2 DEF GuardsEnd, HaltTimely
<1>3. ASSUME NEW a \in Accounts, Register(a) PROVE GuardInv'
  BY <1>3 DEF Register, With, Subscribed, HaltTimely, guard
<1>4. ASSUME NEW a \in Accounts, NEW slot \in 1 .. MaxSlot, Update(a, slot)
      PROVE  GuardInv'
  <2>1. now' \in Nat /\ now' > 0
    BY <1>4 DEF Update, Larger
  <2>2. DOMAIN lastSeen' \subseteq Accounts /\ lastSeen' \in [DOMAIN lastSeen' -> Nat]
    BY <1>4 DEF Update, With
  <2>3. HaltTimely'
    <3> SUFFICES ASSUME Check(lastSeen', now') = <<>>, MaxStaleness > 0
                 PROVE  \A b \in DOMAIN lastSeen' : lastSeen'[b] > 0 =>
                            ~(AgeAt(now', lastSeen'[b]) > MaxStaleness)
      BY <1>4, <2>1, <2>2 DEF Update, HaltTimely, AgeAt
    <3> QED BY <2>1, CheckFacts
  <2> QED BY <1>4, <2>1, <2>2, <2>3 DEF Update
<1>5. ASSUME NEW slot \in 1 .. MaxSlot, NotifySlotAdvance(slot) PROVE GuardInv'
  <2>1. now' \in Nat /\ now' > 0
    BY <1>5 DEF NotifySlotAdvance, Larger
  <2>2. HaltTimely'
    <3> SUFFICES ASSUME Check(lastSeen, now') = <<>>, MaxStaleness > 0
                 PROVE  \A b \in DOMAIN lastSeen : lastSeen[b] > 0 =>
                            ~(AgeAt(now', lastSeen[b]) > MaxStaleness)
      BY <1>5, <2>1 DEF NotifySlotAdvance, HaltTimely, AgeAt
    <3> QED BY <2>1, CheckFacts
  <2> QED BY <1>5, <2>1, <2>2 DEF NotifySlotAdvance
<1>6. CASE GuardsStep
  BY <1>6, <1>1, <1>3, <1>4, <1>5 DEF GuardsStep, RecordAttempt, Connected, guard
<1> QED BY <1>1, <1>2, <1>6, Frames DEF guardVars, guard

(* While the guard has not tripped, no account that ever reported is       *)
(* silent for longer than the threshold, whatever order the reports come   *)
(* in (staleness.rs).                                                      *)
THEOREM GuardHalts == Spec => []HaltTimely
<1>1. Init => GuardInv
  BY DEF Init, GuardsInit, GuardInv, HaltTimely
<1>2. GuardInv => HaltTimely
  BY DEF GuardInv
<1> QED BY <1>1, <1>2, GuardStepInv, PTL DEF Spec

-----------------------------------------------------------------------------
(* Induction over the numbers, from the least element of a set. *)

LEMMA Induct ==
  ASSUME NEW S, 0 \in S, \A n \in Nat : n \in S => n + 1 \in S
  PROVE  Nat \subseteq S
<1> DEFINE Less == OpToRel(<, Nat)
           T == Nat \ S
<1>1. IsWellFoundedOn(Less, Nat)
  BY NatLessThanWellFounded
<1>2. \A m, n \in Nat : m < n => <<m, n>> \in Less
  BY DEF OpToRel
<1> HIDE DEF Less
<1> SUFFICES ASSUME T # {} PROVE FALSE
  OBVIOUS
<1>3. PICK m \in T : \A k \in T : ~ (<<k, m>> \in Less)
  <2>1. T \subseteq Nat
    OBVIOUS
  <2> HIDE DEF T
  <2> QED BY <1>1, <2>1, WFMin
<1>4. m # 0 /\ m \in Nat
  BY <1>3
<1>5. m - 1 \in Nat /\ m - 1 < m /\ (m - 1) + 1 = m
  BY <1>4
<1>6. m - 1 \in S
  BY <1>2, <1>3, <1>4, <1>5
<1> QED BY <1>3, <1>5, <1>6

(* What holds of 0 and of each successor up to a bound holds of the bound. *)
LEMMA InductUpTo ==
  ASSUME NEW N \in Nat, NEW S, 0 \in S,
         \A n \in 0 .. N : n < N /\ n \in S => n + 1 \in S
  PROVE  \A n \in 0 .. N : n \in S
<1> DEFINE T == {n \in Nat : n <= N => n \in S}
<1>1. 0 \in T
  OBVIOUS
<1>2. ASSUME NEW n \in Nat, n \in T PROVE n + 1 \in T
  BY <1>2
<1>3. Nat \subseteq T
  <2> HIDE DEF T
  <2> QED BY <1>1, <1>2, Induct
<1> QED BY <1>3

-----------------------------------------------------------------------------
(* The backoff and the storm detector. *)

LEMMA DoubledIs == \A n \in 0 .. MaxAttempts : Doubled[n] \in Nat
<1> DEFINE N == MaxAttempts
           Def(g, n) == g = [i \in 0 .. n |-> IF i = 0 THEN 1 ELSE 2 * g[i - 1]]
           S == {n \in Nat : \E g : Def(g, n)}
<1>0. N \in Nat
  BY GuardConstants
<1>1. 0 \in S
  <2> DEFINE g == [i \in 0 .. 0 |-> 1]
  <2>1. Def(g, 0)
    OBVIOUS
  <2> QED BY <2>1
<1>2. ASSUME NEW n \in Nat, n \in S PROVE n + 1 \in S
  <2>1. PICK g : Def(g, n)
    BY <1>2
  <2> DEFINE h == [i \in 0 .. n + 1 |-> IF i = n + 1 THEN 2 * g[n] ELSE g[i]]
  <2>2. \A i \in 0 .. n : g[i] = IF i = 0 THEN 1 ELSE 2 * g[i - 1]
    BY <2>1, Zenon
  <2>3. ASSUME NEW i \in 0 .. n + 1
        PROVE  h[i] = IF i = 0 THEN 1 ELSE 2 * h[i - 1]
    <3>1. CASE i = n + 1
      BY <3>1
    <3>2. CASE i \in 0 .. n
      <4>1. h[i] = g[i] /\ (i # 0 => h[i - 1] = g[i - 1])
        BY <3>2
      <4> HIDE DEF h
      <4> QED BY <2>2, <3>2, <4>1
    <3> QED BY <3>1, <3>2
  <2>4. DOMAIN h = 0 .. n + 1 /\ h = [i \in 0 .. n + 1 |-> h[i]]
    OBVIOUS
  <2>5. Def(h, n + 1)
    <3> HIDE DEF h
    <3> QED BY <2>3, <2>4, Zenon
  <2> HIDE DEF h, Def
  <2> QED BY <2>5
<1>3. N \in S
  <2> HIDE DEF S
  <2> QED BY <1>0, <1>1, <1>2, Induct
<1>4. Def(Doubled, N)
  <2>1. \E g : Def(g, N)
    BY <1>3
  <2>2. Doubled = CHOOSE g : Def(g, N)
    BY Zenon DEF Doubled
  <2> HIDE DEF Def
  <2> QED BY <2>1, <2>2, Zenon
<1>5. \A i \in 0 .. N : Doubled[i] = IF i = 0 THEN 1 ELSE 2 * Doubled[i - 1]
  BY <1>4, Zenon
<1> DEFINE P == {n \in Nat : Doubled[n] \in Nat}
<1>6. 0 \in P
  BY <1>0, <1>5
<1>7. ASSUME NEW n \in 0 .. N, n < N, n \in P PROVE n + 1 \in P
  <2>1. n + 1 \in 0 .. N /\ n + 1 # 0 /\ (n + 1) - 1 = n
    BY <1>0, <1>7
  <2>2. Doubled[n + 1] = 2 * Doubled[n]
    BY <1>5, <2>1
  <2> QED BY <1>7, <2>2
<1>8. \A n \in 0 .. N : n \in P
  <2> HIDE DEF P
  <2> QED BY <1>0, <1>6, <1>7, InductUpTo
<1> QED BY <1>8

(* What rounding down does to a scaled delay. *)
LEMMA ScaledDown ==
  ASSUME NEW d \in Nat, NEW f \in Int, NEW sc \in Nat \ {0}, d * f >= 0
  PROVE  LET q == (d * f) \div sc
         IN  q \in Nat /\ q * sc <= d * f /\ (q + 1) * sc > d * f
<1> DEFINE x == d * f
<1>1. x \in Nat
  OBVIOUS
<1> HIDE DEF x
<1>2. /\ x \div sc \in Int /\ sc * (x \div sc) <= x /\ sc * (x \div sc) + sc > x
      /\ x \div sc >= 0
  BY <1>1
<1> QED BY <1>2 DEF x

LEMMA TimesMonotone ==
  ASSUME NEW d \in Nat, NEW a \in Int, NEW b \in Int, a <= b
  PROVE  d * a <= d * b
OBVIOUS

(* Every backoff is between the limits of its jitter and below the cap. *)
LEMMA BackoffPaced ==
  ASSUME NEW n \in 0 .. MaxAttempts, NEW seed \in Seeds
  PROVE  LET raw == BaseDelay * Doubled[n]
             full == IF raw > CapDelay THEN CapDelay ELSE raw
             d == NextBackoff(n, seed)
         IN  /\ d \in Nat /\ d <= CapDelay
             /\ d * Scale <= full * (Scale + JitterBps)
             /\ (d + 1) * Scale > full * (Scale - JitterBps)
<1> DEFINE raw == BaseDelay * Doubled[n]
           full == IF raw > CapDelay THEN CapDelay ELSE raw
           f == Scale + Clamped(seed)
           q == (full * f) \div Scale
           d == NextBackoff(n, seed)
<1>1. raw \in Nat
  BY DoubledIs, GuardConstants
<1>2. full \in Nat /\ full <= CapDelay
  BY <1>1, GuardConstants
<1>3. /\ Scale \in Nat \ {0} /\ JitterBps \in Nat /\ CapDelay \in Nat
      /\ seed \in Int /\ JitterBps <= Scale
  BY GuardConstants
<1>4. /\ f \in Int /\ Scale - JitterBps <= f /\ f <= Scale + JitterBps /\ 0 <= f
  BY <1>3 DEF Clamped
<1>5. d = IF JitterBps = 0 THEN full ELSE IF q > CapDelay THEN CapDelay ELSE q
  BY DEF NextBackoff
<1> HIDE DEF raw, full, f, d
<1>6. full * f >= 0
  BY <1>2, <1>4
<1>7. /\ full * (Scale - JitterBps) <= full * f
      /\ full * f <= full * (Scale + JitterBps)
  BY <1>2, <1>3, <1>4, TimesMonotone
<1>8. q \in Nat /\ q * Scale <= full * f /\ (q + 1) * Scale > full * f
  BY <1>2, <1>3, <1>4, <1>6, ScaledDown
<1> DEFINE lo == full * (Scale - JitterBps)
           hi == full * (Scale + JitterBps)
<1>9. lo \in Int /\ hi \in Int /\ full * f \in Int
  BY <1>2, <1>3, <1>4
<1>10. lo <= full * Scale /\ full * Scale <= hi
  BY <1>2, <1>3, TimesMonotone
<1>11. full * Scale < (full + 1) * Scale
  BY <1>2, <1>3
<1>12. full * Scale <= CapDelay * Scale /\ (full + 1) * Scale <= (CapDelay + 1) * Scale
  BY <1>2, <1>3
<1>13. CASE JitterBps = 0
  <2>1. d = full
    BY <1>5, <1>13
  <2> HIDE DEF lo, hi, q
  <2> QED BY <1>2, <1>3, <1>9, <1>10, <1>11, <2>1 DEF lo, hi, full, raw, d
<1>14. CASE JitterBps # 0 /\ q <= CapDelay
  <2>1. d = q
    BY <1>3, <1>5, <1>8, <1>14
  <2>2. d \in Nat /\ d <= CapDelay /\ d * Scale <= hi /\ (d + 1) * Scale > lo
    <3> HIDE DEF lo, hi, q
    <3> QED BY <1>3, <1>7, <1>8, <1>9, <1>14, <2>1 DEF lo, hi
  <2> QED BY <2>2 DEF lo, hi, full, raw, d
<1>15. CASE JitterBps # 0 /\ q > CapDelay
  <2>1. d = CapDelay
    BY <1>3, <1>5, <1>8, <1>15
  <2>2. CapDelay * Scale <= q * Scale
    <3> HIDE DEF q
    <3> QED BY <1>3, <1>8, <1>15
  <2>3. d * Scale <= hi /\ (d + 1) * Scale > lo
    <3> HIDE DEF lo, hi, q
    <3> QED BY <1>2, <1>3, <1>7, <1>8, <1>9, <1>10, <1>11, <1>12, <2>1, <2>2 DEF lo, hi
  <2> QED BY <1>3, <2>1, <2>3 DEF lo, hi, full, raw, d
<1> QED BY <1>3, <1>8, <1>13, <1>14, <1>15

LEMMA SubSeqAppended ==
  ASSUME NEW s \in Seq(Nat), NEW k \in Nat, NEW n \in Nat, k <= n, n < Len(s)
  PROVE  Append(SubSeq(s, k + 1, n), s[n + 1]) = SubSeq(s, k + 1, n + 1)
<1> DEFINE u == SubSeq(s, k + 1, n)
           v == SubSeq(s, k + 1, n + 1)
           w == Append(u, s[n + 1])
<1>1. Len(s) \in Nat /\ s[n + 1] \in Nat /\ n + 1 \in 1 .. Len(s)
  BY LenProperties, ElementOfSeq
<1>2. /\ u \in Seq(Nat) /\ Len(u) = n - k
      /\ \A i \in 1 .. Len(u) : u[i] = s[k + i]
  BY SMTT(30), <1>1, SubSeqProperties
<1>3. /\ v \in Seq(Nat) /\ Len(v) = (n - k) + 1
      /\ \A i \in 1 .. Len(v) : v[i] = s[k + i]
  BY <1>1, SubSeqProperties
<1> HIDE DEF u, v
<1>4. /\ w \in Seq(Nat) /\ Len(w) = Len(u) + 1 /\ w[Len(u) + 1] = s[n + 1]
      /\ \A i \in 1 .. Len(u) : w[i] = u[i]
  BY <1>1, <1>2, AppendProperties
<1> HIDE DEF w
<1>5. Len(w) = Len(v) /\ Len(u) + 1 = (n - k) + 1 /\ k + (Len(u) + 1) = n + 1
  BY <1>2, <1>3, <1>4
<1>6. ASSUME NEW i \in 1 .. Len(w) PROVE w[i] = v[i]
  <2>1. CASE i = Len(u) + 1
    <3>1. v[i] = s[k + i]
      BY <1>3, <1>5
    <3> QED BY <1>4, <1>5, <2>1, <3>1
  <2>2. CASE i # Len(u) + 1
    <3>1. i \in 1 .. Len(u) /\ i \in 1 .. Len(v)
      BY <1>2, <1>4, <1>5, <2>2
    <3> QED BY <1>2, <1>3, <1>4, <3>1
  <2> QED BY <2>1, <2>2
<1> QED BY <1>3, <1>4, <1>5, <1>6, SeqEqual DEF u, v, w

(* What is retained of slots in order is a suffix of them. *)
Rising(s) == \A i, j \in 1 .. Len(s) : i <= j => s[i] <= s[j]

LEMMA RetainedIs ==
  ASSUME NEW s \in Seq(Nat), Rising(s), NEW cut \in Int
  PROVE  \E k \in 0 .. Len(s) :
            /\ Retained(s, cut) = SubSeq(s, k + 1, Len(s))
            /\ \A j \in 1 .. k : s[j] <= cut
            /\ \A j \in k + 1 .. Len(s) : s[j] > cut
<1> DEFINE N == Len(s)
           More(u, i) == IF s[i] > cut THEN Append(u, s[i]) ELSE u
           Def(g, n) == g = [i \in 0 .. n |-> IF i = 0 THEN <<>> ELSE More(g[i - 1], i)]
           S == {n \in Nat : \E g : Def(g, n)}
           kept == CHOOSE g : Def(g, N)
<1>0. N \in Nat /\ \A i \in 1 .. N : s[i] \in Nat
  BY LenProperties, ElementOfSeq
<1> HIDE DEF More
<1>1. 0 \in S
  <2> DEFINE g == [i \in 0 .. 0 |-> <<>>]
  <2>1. Def(g, 0)
    OBVIOUS
  <2> QED BY <2>1
<1>2. ASSUME NEW n \in Nat, n \in S PROVE n + 1 \in S
  <2>1. PICK g : Def(g, n)
    BY <1>2
  <2> DEFINE h == [i \in 0 .. n + 1 |-> IF i = n + 1 THEN More(g[n], n + 1) ELSE g[i]]
  <2>2. \A i \in 0 .. n : g[i] = IF i = 0 THEN <<>> ELSE More(g[i - 1], i)
    BY <2>1, Zenon
  <2>3. ASSUME NEW i \in 0 .. n + 1
        PROVE  h[i] = IF i = 0 THEN <<>> ELSE More(h[i - 1], i)
    <3>1. CASE i = n + 1
      <4>1. h[i] = More(g[n], n + 1) /\ h[i - 1] = g[n] /\ i # 0
        BY <3>1
      <4> QED BY <3>1, <4>1
    <3>2. CASE i \in 0 .. n
      <4>1. h[i] = g[i] /\ (i # 0 => h[i - 1] = g[i - 1])
        BY <3>2
      <4> HIDE DEF h
      <4> QED BY <2>2, <3>2, <4>1
    <3> QED BY <3>1, <3>2
  <2>4. DOMAIN h = 0 .. n + 1 /\ h = [i \in 0 .. n + 1 |-> h[i]]
    OBVIOUS
  <2>5. Def(h, n + 1)
    <3> HIDE DEF h
    <3> QED BY <2>3, <2>4, Zenon
  <2> HIDE DEF h, Def
  <2> QED BY <2>5
<1>3. N \in S
  <2> HIDE DEF S
  <2> QED BY <1>0, <1>1, <1>2, Induct
<1>4. Def(kept, N)
  <2>1. \E g : Def(g, N)
    BY <1>3
  <2> HIDE DEF Def
  <2> QED BY <2>1, Zenon
<1>5. Retained(s, cut) = kept[N]
  BY Zenon DEF Retained, More
<1> HIDE DEF kept
<1>6. \A i \in 0 .. N : kept[i] = IF i = 0 THEN <<>> ELSE More(kept[i - 1], i)
  BY <1>4, Zenon
<1> DEFINE Is(n, k) == /\ kept[n] = SubSeq(s, k + 1, n)
                       /\ \A j \in 1 .. k : s[j] <= cut
                       /\ \A j \in k + 1 .. n : s[j] > cut
           P == {n \in Nat : \E k \in 0 .. n : Is(n, k)}
<1>7. 0 \in P
  <2>1. kept[0] = <<>> /\ SubSeq(s, 0 + 1, 0) = <<>>
    <3>1. Len(SubSeq(s, 1, 0)) = 0 /\ SubSeq(s, 1, 0) \in Seq(Nat)
      BY SubSeqProperties
    <3> QED BY <1>0, <1>6, <3>1, EmptySeq
  <2>2. Is(0, 0)
    BY <2>1
  <2> HIDE DEF Is
  <2> QED BY <2>2
<1>8. ASSUME NEW n \in 0 .. N, n < N, n \in P PROVE n + 1 \in P
  <2>1. PICK k \in 0 .. n : Is(n, k)
    BY <1>8
  <2>2. n + 1 \in 1 .. N /\ n \in Nat /\ k \in Nat /\ (n + 1) - 1 = n /\ n + 1 # 0
    BY <1>0, <1>8
  <2>3. kept[n + 1] = More(kept[n], n + 1)
    <3>1. n + 1 \in 0 .. N
      BY <2>2
    <3> QED BY <1>6, <2>2, <3>1
  <2>4. CASE s[n + 1] > cut
    <3>1. kept[n + 1] = Append(SubSeq(s, k + 1, n), s[n + 1])
      BY <2>1, <2>3, <2>4 DEF More
    <3>2. Append(SubSeq(s, k + 1, n), s[n + 1]) = SubSeq(s, k + 1, n + 1)
      BY <2>2, SubSeqAppended
    <3>3. \A j \in k + 1 .. n + 1 : s[j] > cut
      BY <2>1, <2>2, <2>4
    <3>4. Is(n + 1, k)
      BY <2>1, <3>1, <3>2, <3>3
    <3>5. k \in 0 .. n + 1 /\ n + 1 \in Nat
      BY <2>2
    <3> HIDE DEF Is
    <3> QED BY <3>4, <3>5
  <2>5. CASE ~ (s[n + 1] > cut)
    <3>1. \A j \in 1 .. n + 1 : s[j] <= cut
      <4> SUFFICES ASSUME NEW j \in 1 .. n + 1 PROVE s[j] <= cut
        OBVIOUS
      <4>1. j \in 1 .. N /\ j <= n + 1
        BY <2>2
      <4>2. s[j] <= s[n + 1]
        BY <2>2, <4>1 DEF Rising
      <4> QED BY <1>0, <2>2, <2>5, <4>1, <4>2
    <3>2. k = n
      <4>1. ASSUME k # n PROVE FALSE
        <5>1. n \in k + 1 .. n /\ n \in 1 .. n + 1 /\ n \in 1 .. N
          BY <2>2, <4>1
        <5>2. s[n] > cut /\ s[n] <= cut
          BY <2>1, <3>1, <5>1
        <5> QED BY <1>0, <5>1, <5>2
      <4> QED BY <4>1
    <3>3. SubSeq(s, n + 1, n) = <<>> /\ SubSeq(s, (n + 1) + 1, n + 1) = <<>>
      <4>1. /\ Len(SubSeq(s, n + 1, n)) = 0 /\ SubSeq(s, n + 1, n) \in Seq(Nat)
            /\ Len(SubSeq(s, (n + 1) + 1, n + 1)) = 0
            /\ SubSeq(s, (n + 1) + 1, n + 1) \in Seq(Nat)
        BY <1>0, <2>2, SubSeqProperties
      <4> QED BY <4>1, EmptySeq
    <3>4. kept[n + 1] = SubSeq(s, (n + 1) + 1, n + 1)
      BY <2>1, <2>3, <2>5, <3>2, <3>3 DEF More
    <3>5. Is(n + 1, n + 1)
      <4>1. (n + 1) + 1 .. n + 1 = {}
        BY <2>2
      <4> QED BY <3>1, <3>4, <4>1
    <3>6. n + 1 \in 0 .. n + 1 /\ n + 1 \in Nat
      BY <2>2
    <3> HIDE DEF Is
    <3> QED BY <3>5, <3>6
  <2> QED BY <2>4, <2>5
<1>9. N \in P
  <2> HIDE DEF P
  <2>1. N \in 0 .. N
    BY <1>0
  <2> QED BY <1>0, <1>7, <1>8, <2>1, InductUpTo
<1>10. PICK k \in 0 .. N : Is(N, k)
  BY <1>9
<1> QED BY <1>5, <1>10

(* The last slot of a retain that prunes: none, with no window. *)
Cutoff(slot) == IF StormWindow = 0 THEN -1 ELSE Larger(slot - StormWindow, 0)

(* The detector keeps of the attempts those behind the k-th. *)
KeptFrom(kept, all, k) ==
    /\ kept = SubSeq(all, k + 1, Len(all))
    /\ all # <<>> =>
         /\ k < Len(all)
         /\ \A j \in 1 .. k : all[j] <= Cutoff(all[Len(all)])
         /\ \A j \in k + 1 .. Len(all) - 1 : all[j] > Cutoff(all[Len(all)])

Kept(kept, all) == \E k \in 0 .. Len(all) : KeptFrom(kept, all, k)

(* The clock of the guard never falls, so the attempts are in order, and   *)
(* what each of them prunes stays outside the windows of all later ones.   *)
StormInv ==
    /\ now \in Nat /\ tried \in Seq(Nat) /\ Rising(tried)
    /\ \A i \in 1 .. Len(tried) : tried[i] <= now
    /\ Kept(attempts, tried)

(* The sleep is the one of the attempt before it. *)
DelayInv ==
    /\ attempt \in 0 .. MaxAttempts
    /\ delay # <<>> =>
         attempt > 0 /\ \E seed \in Seeds : delay = << NextBackoff(attempt - 1, seed) >>

LEMMA CutoffRises ==
  ASSUME NEW a \in Nat, NEW b \in Nat, a <= b
  PROVE  Cutoff(a) \in Int /\ Cutoff(b) \in Int /\ Cutoff(a) <= Cutoff(b)
BY GuardConstants DEF Cutoff, Larger

LEMMA SuffixOfSuffix ==
  ASSUME NEW s \in Seq(Nat), NEW k \in 0 .. Len(s), NEW m \in Nat, m <= Len(s) - k
  PROVE  SubSeq(SubSeq(s, k + 1, Len(s)), m + 1, Len(s) - k) = SubSeq(s, k + m + 1, Len(s))
<1> DEFINE u == SubSeq(s, k + 1, Len(s))
           v == SubSeq(u, m + 1, Len(s) - k)
           w == SubSeq(s, k + m + 1, Len(s))
<1>1. Len(s) \in Nat /\ k \in Nat /\ k <= Len(s)
  BY LenProperties
<1>2. /\ u \in Seq(Nat) /\ Len(u) = Len(s) - k
      /\ \A i \in 1 .. Len(u) : u[i] = s[k + i]
  BY <1>1, SubSeqProperties
<1> HIDE DEF u
<1>3. /\ v \in Seq(Nat) /\ Len(v) = Len(s) - k - m
      /\ \A i \in 1 .. Len(v) : v[i] = u[m + i]
  BY <1>1, <1>2, SubSeqProperties
<1>4. /\ w \in Seq(Nat) /\ Len(w) = Len(s) - k - m
      /\ \A i \in 1 .. Len(w) : w[i] = s[k + m + i]
  BY <1>1, SubSeqProperties
<1> HIDE DEF v, w
<1>5. ASSUME NEW i \in 1 .. Len(v) PROVE v[i] = w[i]
  <2>1. m + i \in 1 .. Len(u) /\ k + (m + i) = k + m + i /\ i \in 1 .. Len(w)
    BY <1>1, <1>2, <1>3, <1>4
  <2> QED BY <1>2, <1>3, <1>4, <2>1
<1>6. v = w
  BY <1>3, <1>4, <1>5, SeqEqual
<1> QED BY <1>6 DEF u, v, w

(* What the next attempt leaves of the list. *)
LEMMA AttemptKeeps ==
  ASSUME StormInv, Len(tried) > 0
  PROVE  \E k \in 0 .. Len(tried) :
            /\ Recent(now) = SubSeq(tried, k + 1, Len(tried))
            /\ \A j \in 1 .. k : tried[j] <= Cutoff(now)
            /\ \A j \in k + 1 .. Len(tried) : tried[j] > Cutoff(now)
<1> DEFINE n == Len(tried)
           c == Cutoff(now)
<1>1. PICK k \in 0 .. n : KeptFrom(attempts, tried, k)
  BY DEF StormInv, Kept
<1>2. /\ n \in Nat /\ n > 0 /\ k \in Nat /\ k <= n /\ now \in Nat
      /\ tried \in Seq(Nat) /\ tried # <<>>
      /\ \A i \in 1 .. n : tried[i] \in Nat
  BY LenProperties, ElementOfSeq, EmptySeq DEF StormInv
<1>3. Cutoff(tried[n]) <= c /\ c \in Int /\ Cutoff(tried[n]) \in Int
  <2>1. n \in 1 .. n
    BY <1>2
  <2>2. tried[n] \in Nat /\ tried[n] <= now
    BY <1>2, <2>1 DEF StormInv
  <2> QED BY <1>2, <2>2, CutoffRises
<1>4. \A j \in 1 .. k : tried[j] <= c
  <2> SUFFICES ASSUME NEW j \in 1 .. k PROVE tried[j] <= c
    OBVIOUS
  <2>1. tried[j] <= Cutoff(tried[n]) /\ j \in 1 .. n
    BY <1>1, <1>2 DEF KeptFrom
  <2> HIDE DEF c
  <2> QED BY <1>2, <1>3, <2>1
<1>5. /\ attempts = SubSeq(tried, k + 1, n) /\ attempts \in Seq(Nat)
      /\ Len(attempts) = n - k
      /\ \A i \in 1 .. Len(attempts) : attempts[i] = tried[k + i]
  <2>1. attempts = SubSeq(tried, k + 1, n)
    BY <1>1 DEF KeptFrom
  <2> QED BY <1>2, <2>1, SubSeqProperties
<1>6. CASE StormWindow = 0
  <2>1. Recent(now) = attempts /\ c = -1
    BY <1>6 DEF Recent, Cutoff
  <2>2. \A j \in k + 1 .. n : tried[j] > c
    <3> SUFFICES ASSUME NEW j \in k + 1 .. n PROVE tried[j] > c
      OBVIOUS
    <3>1. tried[j] \in Nat
      BY <1>2
    <3> QED BY <2>1, <3>1
  <2> QED BY <1>4, <1>5, <2>1, <2>2
<1>7. CASE StormWindow # 0
  <2>1. Recent(now) = Retained(attempts, c)
    BY <1>7 DEF Recent, Cutoff
  <2>2. Rising(attempts)
    <3> SUFFICES ASSUME NEW i \in 1 .. Len(attempts), NEW j \in 1 .. Len(attempts), i <= j
                 PROVE  attempts[i] <= attempts[j]
      BY DEF Rising
    <3>1. k + i \in 1 .. n /\ k + j \in 1 .. n /\ k + i <= k + j
      BY <1>2, <1>5
    <3> QED BY <1>5, <3>1 DEF StormInv, Rising
  <2> HIDE DEF c
  <2>3. PICK m \in 0 .. Len(attempts) :
            /\ Retained(attempts, c) = SubSeq(attempts, m + 1, Len(attempts))
            /\ \A j \in 1 .. m : attempts[j] <= c
            /\ \A j \in m + 1 .. Len(attempts) : attempts[j] > c
    BY <1>3, <1>5, <2>2, RetainedIs
  <2>4. m \in Nat /\ m <= n - k /\ k + m \in 0 .. n
    BY <1>2, <1>5, <2>3
  <2>5. Recent(now) = SubSeq(tried, (k + m) + 1, n)
    <3>1. SubSeq(SubSeq(tried, k + 1, n), m + 1, n - k) = SubSeq(tried, (k + m) + 1, n)
      BY <1>2, <2>4, SuffixOfSuffix, Zenon
    <3>2. Recent(now) = SubSeq(SubSeq(tried, k + 1, n), m + 1, n - k)
      BY <1>5, <2>1, <2>3, Zenon
    <3> QED BY <3>1, <3>2, Zenon
  <2>6. \A j \in 1 .. k + m : tried[j] <= c
    <3> SUFFICES ASSUME NEW j \in 1 .. k + m PROVE tried[j] <= c
      OBVIOUS
    <3>1. CASE j <= k
      BY <1>2, <1>4, <3>1
    <3>2. CASE j > k
      <4>1. j - k \in 1 .. m /\ j - k \in 1 .. Len(attempts) /\ k + (j - k) = j
        BY <1>2, <1>5, <2>4, <3>2
      <4>2. attempts[j - k] = tried[j] /\ attempts[j - k] <= c
        BY <1>5, <2>3, <4>1
      <4> QED BY <4>2
    <3> QED BY <1>2, <2>4, <3>1, <3>2
  <2>7. \A j \in (k + m) + 1 .. n : tried[j] > c
    <3> SUFFICES ASSUME NEW j \in (k + m) + 1 .. n PROVE tried[j] > c
      OBVIOUS
    <3>1. /\ j - k \in m + 1 .. Len(attempts) /\ j - k \in 1 .. Len(attempts)
          /\ k + (j - k) = j
      BY <1>2, <1>5, <2>4
    <3>2. attempts[j - k] = tried[j] /\ attempts[j - k] > c
      BY <1>5, <2>3, <3>1
    <3> QED BY <3>2
  <2> QED BY <2>4, <2>5, <2>6, <2>7 DEF c
<1> QED BY <1>6, <1>7

LEMMA AttemptStorm ==
  ASSUME StormInv, now' = now, attempts' = Append(Recent(now), now),
         tried' = Append(tried, now)
  PROVE  StormInv'
<1> DEFINE n == Len(tried)
           t == Append(tried, now)
           a == Append(Recent(now), now)
<1>1. n \in Nat /\ now \in Nat /\ tried \in Seq(Nat) /\ \A i \in 1 .. n : tried[i] <= now
  BY LenProperties DEF StormInv
<1>2. /\ t \in Seq(Nat) /\ Len(t) = n + 1 /\ t[n + 1] = now
      /\ \A i \in 1 .. n : t[i] = tried[i]
  BY <1>1, AppendProperties
<1>3. Rising(t)
  <2> SUFFICES ASSUME NEW i \in 1 .. n + 1, NEW j \in 1 .. n + 1, i <= j
               PROVE  t[i] <= t[j]
    BY <1>2 DEF Rising
  <2>1. CASE j \in 1 .. n
    <3>1. i \in 1 .. n
      BY <2>1
    <3> QED BY <1>2, <2>1, <3>1 DEF StormInv, Rising
  <2>2. CASE j = n + 1
    <3>1. CASE i \in 1 .. n
      BY <1>1, <1>2, <2>2, <3>1
    <3>2. CASE i = n + 1
      BY <1>1, <1>2, <2>2, <3>2
    <3> QED BY <1>1, <3>1, <3>2
  <2> QED BY <1>1, <2>1, <2>2
<1>4. \A i \in 1 .. Len(t) : t[i] <= now
  <2> SUFFICES ASSUME NEW i \in 1 .. n + 1 PROVE t[i] <= now
    BY <1>2
  <2>1. CASE i \in 1 .. n
    BY <1>1, <1>2, <2>1
  <2>2. CASE i = n + 1
    BY <1>1, <1>2, <2>2
  <2> QED BY <1>1, <2>1, <2>2
<1>5. ASSUME NEW k \in 0 .. n, Recent(now) = SubSeq(tried, k + 1, n),
             \A j \in 1 .. k : tried[j] <= Cutoff(now),
             \A j \in k + 1 .. n : tried[j] > Cutoff(now)
      PROVE  Kept(a, t)
  <2>1. a = SubSeq(t, k + 1, n + 1)
    <3>1. Append(SubSeq(t, k + 1, n), t[n + 1]) = SubSeq(t, k + 1, n + 1)
      <4> HIDE DEF t
      <4>1. k \in Nat /\ k <= n /\ n < Len(t)
        BY <1>1, <1>2
      <4> HIDE DEF n
      <4> QED BY <1>1, <1>2, <4>1, SubSeqAppended, Zenon
    <3>2. SubSeq(t, k + 1, n) = SubSeq(tried, k + 1, n)
      <4> DEFINE u == SubSeq(t, k + 1, n)
                 v == SubSeq(tried, k + 1, n)
      <4>1. /\ u \in Seq(Nat) /\ Len(u) = n - k
            /\ \A i \in 1 .. Len(u) : u[i] = t[k + i]
        <5> HIDE DEF t
        <5> QED BY SMTT(30), <1>1, <1>2, SubSeqProperties
      <4>2. /\ v \in Seq(Nat) /\ Len(v) = n - k
            /\ \A i \in 1 .. Len(v) : v[i] = tried[k + i]
        BY <1>1, SubSeqProperties
      <4> HIDE DEF u, v, t
      <4>3. ASSUME NEW i \in 1 .. Len(u) PROVE u[i] = v[i]
        <5>1. k + i \in 1 .. n
          BY <1>1, <4>1
        <5> QED BY <1>2, <4>1, <4>2, <5>1
      <4>4. u = v
        BY <4>1, <4>2, <4>3, SeqEqual
      <4> QED BY <4>4 DEF u, v
    <3> HIDE DEF t
    <3> QED BY <1>2, <1>5, <3>1, <3>2
  <2>2. t # <<>> /\ k < Len(t) /\ k \in 0 .. Len(t)
    <3> HIDE DEF t
    <3> QED BY <1>1, <1>2, EmptySeq
  <2>3. \A j \in 1 .. k : t[j] <= Cutoff(t[Len(t)])
    <3> HIDE DEF t
    <3>1. \A j \in 1 .. k : t[j] = tried[j]
      BY <1>1, <1>2
    <3> QED BY <1>2, <1>5, <3>1
  <2>4. \A j \in k + 1 .. Len(t) - 1 : t[j] > Cutoff(t[Len(t)])
    <3> HIDE DEF t
    <3>1. \A j \in k + 1 .. n : t[j] = tried[j]
      BY <1>1, <1>2
    <3>2. Len(t) - 1 = n
      BY <1>1, <1>2
    <3> QED BY <1>2, <1>5, <3>1, <3>2
  <2> HIDE DEF t, a
  <2>5. KeptFrom(a, t, k)
    BY <1>2, <2>1, <2>2, <2>3, <2>4 DEF KeptFrom
  <2> QED BY <2>2, <2>5 DEF Kept
<1>6. Kept(a, t)
  <2>1. CASE n > 0
    <3>1. \E k \in 0 .. n : /\ Recent(now) = SubSeq(tried, k + 1, n)
                            /\ \A j \in 1 .. k : tried[j] <= Cutoff(now)
                            /\ \A j \in k + 1 .. n : tried[j] > Cutoff(now)
      BY <2>1, AttemptKeeps
    <3> HIDE DEF a, t
    <3> QED BY <1>5, <3>1
  <2>2. CASE n = 0
    <3>1. tried = <<>> /\ SubSeq(tried, 0 + 1, n) = <<>>
      <4>1. SubSeq(tried, 0 + 1, n) \in Seq(Nat) /\ Len(SubSeq(tried, 0 + 1, n)) = 0
        BY <1>1, <2>2, SubSeqProperties
      <4> QED BY <1>1, <2>2, <4>1, EmptySeq
    <3>2. attempts = <<>>
      <4>1. PICK k \in 0 .. n : KeptFrom(attempts, tried, k)
        BY DEF StormInv, Kept
      <4>2. k = 0
        BY <2>2
      <4> QED BY <3>1, <4>1, <4>2 DEF KeptFrom
    <3>3. Recent(now) = <<>>
      <4>1. CASE StormWindow = 0
        BY <3>2, <4>1 DEF Recent
      <4>2. CASE StormWindow # 0
        <5> DEFINE c == Larger(now - StormWindow, 0)
        <5>1. c \in Int
          BY <1>1, GuardConstants DEF Larger
        <5> HIDE DEF c
        <5>2. <<>> \in Seq(Nat) /\ Len(<<>>) = 0 /\ Rising(<<>>)
          BY EmptySeq DEF Rising
        <5>3. PICK k \in 0 .. Len(<<>>) : Retained(<<>>, c) = SubSeq(<<>>, k + 1, Len(<<>>))
          BY <5>1, <5>2, RetainedIs
        <5>4. k = 0
          BY <5>2
        <5>5. SubSeq(<<>>, 0 + 1, 0) \in Seq(Nat) /\ Len(SubSeq(<<>>, 0 + 1, 0)) = 0
          BY <5>2, SubSeqProperties
        <5>6. Retained(<<>>, c) = <<>>
          BY <5>2, <5>3, <5>4, <5>5, EmptySeq
        <5> QED BY <3>2, <4>2, <5>6 DEF Recent, c
      <4> QED BY <4>1, <4>2
    <3>4. 0 \in 0 .. n /\ 1 .. 0 = {} /\ 0 + 1 .. n = {}
      BY <2>2
    <3> HIDE DEF a, t
    <3> QED BY <1>5, <3>1, <3>3, <3>4
  <2> QED BY <1>1, <2>1, <2>2
<1>7. tried' = t /\ attempts' = a /\ now' = now
  OBVIOUS
<1> HIDE DEF t, a
<1> QED BY <1>1, <1>2, <1>3, <1>4, <1>6, <1>7 DEF StormInv, Kept, KeptFrom, Rising

LEMMA StormStep == StormInv /\ [Next]_vars => StormInv'
<1> SUFFICES ASSUME StormInv, [Next]_vars PROVE StormInv'
  OBVIOUS
<1>1. CASE UNCHANGED <<attempts, tried>> /\ now' \in Nat /\ now <= now'
  <2>1. \A i \in 1 .. Len(tried) : tried[i] <= now'
    <3> SUFFICES ASSUME NEW i \in 1 .. Len(tried) PROVE tried[i] <= now'
      OBVIOUS
    <3>1. tried[i] \in Nat /\ tried[i] <= now /\ now \in Nat
      BY ElementOfSeq DEF StormInv
    <3> QED BY <1>1, <3>1
  <2> QED BY <1>1, <2>1 DEF StormInv, Kept, KeptFrom, Rising
<1>2. CASE UNCHANGED guardVars
  BY <1>1, <1>2 DEF guardVars, guard, reconnect, StormInv
<1>3. CASE now' = 0 /\ attempts' = <<>> /\ tried' = <<>>
  <2>1. SubSeq(<<>>, 0 + 1, 0) \in Seq(Nat) /\ Len(SubSeq(<<>>, 0 + 1, 0)) = 0
    BY EmptySeq, SubSeqProperties
  <2>2. KeptFrom(<<>>, <<>>, 0) /\ Len(<<>>) = 0 /\ 1 .. 0 = {} /\ <<>> \in Seq(Nat)
    BY <2>1, EmptySeq DEF KeptFrom
  <2> QED BY <1>3, <2>2 DEF StormInv, Rising, Kept, KeptFrom
<1>4. CASE GuardsEnd
  BY <1>3, <1>4 DEF GuardsEnd
<1>5. CASE GuardsStep
  <2>1. ASSUME NEW a \in Accounts, Register(a) PROVE StormInv'
    BY <2>1, <1>1 DEF Register, reconnect, StormInv
  <2>2. ASSUME NEW a \in entries, NEW slot \in 1 .. MaxSlot, Update(a, slot)
        PROVE  StormInv'
    BY <2>2, <1>1 DEF Update, reconnect, Larger, StormInv
  <2>3. ASSUME NEW slot \in 1 .. MaxSlot, NotifySlotAdvance(slot) PROVE StormInv'
    BY <2>3, <1>1 DEF NotifySlotAdvance, reconnect, Larger, StormInv
  <2>4. ASSUME NEW seed \in Seeds, RecordAttempt(seed) PROVE StormInv'
    BY <2>4, AttemptStorm DEF RecordAttempt, guard
  <2>5. CASE Connected
    BY <2>5, <1>1 DEF Connected, guard, StormInv
  <2> QED BY <1>5, <2>1, <2>2, <2>3, <2>4, <2>5 DEF GuardsStep
<1> QED BY <1>2, <1>4, <1>5, Frames

LEMMA DelayStep == DelayInv /\ [Next]_vars => DelayInv'
<1> SUFFICES ASSUME DelayInv, [Next]_vars PROVE DelayInv'
  OBVIOUS
<1>1. CASE UNCHANGED <<attempt, delay>>
  BY <1>1 DEF DelayInv
<1>2. ASSUME NEW seed \in Seeds, RecordAttempt(seed) PROVE DelayInv'
  <2>1. attempt' = attempt + 1 /\ attempt < MaxAttempts /\ delay' = << NextBackoff(attempt, seed) >>
    BY <1>2 DEF RecordAttempt
  <2>2. attempt' \in 0 .. MaxAttempts /\ attempt' > 0 /\ attempt' - 1 = attempt
    BY <2>1, GuardConstants DEF DelayInv
  <2>3. delay' = << NextBackoff(attempt' - 1, seed) >>
    BY <2>1, <2>2
  <2> QED BY <2>2, <2>3 DEF DelayInv
<1>3. CASE GuardsEnd \/ Connected
  BY <1>3, GuardConstants DEF GuardsEnd, Connected, DelayInv
<1>4. CASE GuardsStep
  BY <1>4, <1>1, <1>2, <1>3 DEF GuardsStep, Register, Update, NotifySlotAdvance, reconnect
<1> QED BY <1>1, <1>3, <1>4, Frames DEF guardVars, reconnect

(* The list the detector keeps is the window, once slots are known. *)
LEMMA WindowIsKept ==
  ASSUME StormInv, tried # <<>>, tried[1] > 0
  PROVE  Len(attempts) = Cardinality(InWindow(Len(tried)))
<1> DEFINE n == Len(tried)
           c == Cutoff(tried[n])
<1>1. PICK k \in 0 .. n : KeptFrom(attempts, tried, k)
  BY DEF StormInv, Kept
<1>2. /\ n \in Nat \ {0} /\ k \in Nat /\ k < n /\ tried \in Seq(Nat)
      /\ \A i \in 1 .. n : tried[i] \in Nat
  BY <1>1, ElementOfSeq, EmptySeq DEF StormInv, KeptFrom
<1>3. \A j \in 1 .. n : tried[j] > 0
  <2> SUFFICES ASSUME NEW j \in 1 .. n PROVE tried[j] > 0
    OBVIOUS
  <2>1. 1 \in 1 .. n /\ 1 <= j
    BY <1>2
  <2>2. tried[1] <= tried[j] /\ tried[1] \in Nat /\ tried[j] \in Nat
    BY <1>2, <2>1 DEF StormInv, Rising
  <2> QED BY <2>2
<1>4. n \in 1 .. n /\ tried[n] \in Nat
  BY <1>2
<1>5. ASSUME NEW j \in 1 .. n
      PROVE  tried[j] > c <=> StormWindow = 0 \/ tried[j] > tried[n] - StormWindow
  <2>1. tried[j] > 0 /\ tried[j] \in Nat
    BY <1>2, <1>3
  <2> QED BY SMTT(30), <1>4, <2>1, GuardConstants DEF Cutoff, Larger
<1>6. ASSUME NEW j \in 1 .. n PROVE tried[j] > c <=> j \in k + 1 .. n
  <2>0. tried[j] \in Nat /\ c \in Int
    BY <1>2, <1>4, CutoffRises
  <2>1. CASE j \in 1 .. k
    <3>1. tried[j] <= c
      BY <1>1, <2>1 DEF KeptFrom
    <3> HIDE DEF c
    <3> QED BY <1>2, <2>0, <2>1, <3>1
  <2>2. CASE j \in k + 1 .. n - 1
    <3>1. tried[j] > c
      BY <1>1, <2>2 DEF KeptFrom
    <3> QED BY <1>2, <2>2, <3>1
  <2>3. CASE j = n
    <3>1. tried[n] > c
      BY SMTT(30), <1>3, <1>4, GuardConstants DEF Cutoff, Larger
    <3> HIDE DEF c
    <3> QED BY <1>2, <2>3, <3>1
  <2> QED BY <1>2, <2>1, <2>2, <2>3
<1> HIDE DEF c
<1>7. InWindow(n) = k + 1 .. n
  <2>1. \A j \in 1 .. n : j \in InWindow(n) <=> j \in k + 1 .. n
    BY <1>5, <1>6 DEF InWindow
  <2>2. InWindow(n) \subseteq 1 .. n /\ k + 1 .. n \subseteq 1 .. n
    BY <1>2 DEF InWindow
  <2> QED BY <2>1, <2>2
<1>8. Cardinality(k + 1 .. n) = n - k
  <2>1. k + 1 \in Int /\ n \in Int /\ k + 1 <= n /\ n - (k + 1) + 1 = n - k
    BY <1>2
  <2>2. Cardinality(k + 1 .. n) = n - (k + 1) + 1
    BY <2>1, FS_Interval
  <2> QED BY <2>1, <2>2
<1>9. Len(attempts) = n - k
  <2>1. attempts = SubSeq(tried, k + 1, n)
    BY <1>1 DEF KeptFrom
  <2> QED BY <1>2, <2>1, SubSeqProperties
<1> QED BY <1>7, <1>8, <1>9

(* For any policy and any sequence of attempts and connections, the sleep  *)
(* is within the jitter of the exponential delay and never above the cap,  *)
(* and a storm is reported exactly for more attempts than the threshold    *)
(* within the window (reconnect.rs).                                       *)
THEOREM ReconnectsArePaced == Spec => []ReconnectsPaced
<1>1. Init => StormInv /\ DelayInv
  <2> SUFFICES ASSUME GuardsInit PROVE StormInv /\ DelayInv
    BY DEF Init
  <2>1. SubSeq(<<>>, 0 + 1, 0) \in Seq(Nat) /\ Len(SubSeq(<<>>, 0 + 1, 0)) = 0
    BY EmptySeq, SubSeqProperties
  <2>2. KeptFrom(<<>>, <<>>, 0) /\ Len(<<>>) = 0 /\ 1 .. 0 = {} /\ <<>> \in Seq(Nat)
    BY <2>1, EmptySeq DEF KeptFrom
  <2> QED BY <2>2, GuardConstants DEF GuardsInit, StormInv, DelayInv, Rising, Kept
<1>2. StormInv /\ DelayInv => ReconnectsPaced
  <2> SUFFICES ASSUME StormInv, DelayInv PROVE ReconnectsPaced
    OBVIOUS
  <2>1. ASSUME delay # <<>>
        PROVE  LET raw == BaseDelay * Doubled[attempt - 1]
                   full == IF raw > CapDelay THEN CapDelay ELSE raw
               IN  /\ delay[1] <= CapDelay
                   /\ delay[1] * Scale <= full * (Scale + JitterBps)
                   /\ (delay[1] + 1) * Scale > full * (Scale - JitterBps)
    <3>1. PICK seed \in Seeds : delay = << NextBackoff(attempt - 1, seed) >>
      BY <2>1 DEF DelayInv
    <3>2. attempt - 1 \in 0 .. MaxAttempts
      BY <2>1, GuardConstants DEF DelayInv
    <3>3. delay[1] = NextBackoff(attempt - 1, seed)
      BY <3>1
    <3> QED BY <3>2, <3>3, BackoffPaced
  <2>2. ASSUME tried # <<>>, StormThreshold > 0, tried[1] > 0
        PROVE  IsStorm(attempts) <=> Cardinality(InWindow(Len(tried))) > StormThreshold
    BY <2>2, WindowIsKept DEF IsStorm
  <2> QED BY <2>1, <2>2 DEF ReconnectsPaced
<1> QED BY <1>1, <1>2, StormStep, DelayStep, PTL DEF Spec

-----------------------------------------------------------------------------
(* The streaming pipeline. *)

LEMMA Least ==
  ASSUME NEW T \in SUBSET Nat, T # {}
  PROVE  \E m \in T : \A k \in T : m <= k
<1> DEFINE Less == OpToRel(<, Nat)
<1>1. IsWellFoundedOn(Less, Nat)
  BY NatLessThanWellFounded
<1>2. \A m, n \in Nat : m < n => <<m, n>> \in Less
  BY DEF OpToRel
<1> HIDE DEF Less
<1>3. PICK m \in T : \A k \in T : ~ (<<k, m>> \in Less)
  BY <1>1, WFMin
<1>4. ASSUME NEW k \in T PROVE m <= k
  <2>1. k \in Nat /\ m \in Nat /\ ~ (k < m)
    BY <1>2, <1>3
  <2> QED BY <2>1
<1> QED BY <1>3, <1>4

LEMMA BoundsRise ==
  /\ \A i \in 1 .. NBuckets : UpTo(i) \in Nat
  /\ \A i, j \in 1 .. NBuckets : i < j => UpTo(i) < UpTo(j)
  /\ \A i, j \in 1 .. NBuckets : UpTo(i) < UpTo(j) => i < j
  /\ \A i \in 1 .. NBuckets : UpTo(i) < 80 => UpTo(i) <= 64
<1>1. /\ UpTo(1) = 1 /\ UpTo(2) = 2 /\ UpTo(3) = 4 /\ UpTo(4) = 8 /\ UpTo(5) = 16
      /\ UpTo(6) = 32 /\ UpTo(7) = 64 /\ UpTo(8) = 128 /\ UpTo(9) = 256
      /\ UpTo(10) = 512 /\ UpTo(11) = 1024 /\ UpTo(12) = 2147483647
  BY DEF UpTo, Bounds
<1>2. NBuckets = 12
  BY DEF NBuckets
<1> QED BY <1>1, <1>2

(* Every latency has one bucket: the first that is not below it. *)
LEMMA BucketIs ==
  ASSUME NEW ms \in 0 .. UpTo(NBuckets)
  PROVE  /\ BucketOf(ms) \in 1 .. NBuckets
         /\ \A i \in 1 .. NBuckets : ms <= UpTo(i) <=> BucketOf(ms) <= i
<1> DEFINE T == {i \in 1 .. NBuckets : ms <= UpTo(i)}
           First(i) == ms <= UpTo(i) /\ \A j \in 1 .. i - 1 : ms > UpTo(j)
           b == BucketOf(ms)
<1>0. NBuckets \in Nat \ {0} /\ NBuckets \in 1 .. NBuckets
  BY DEF NBuckets
<1>1. T \in SUBSET Nat /\ NBuckets \in T
  BY <1>0
<1>2. PICK m \in T : \A k \in T : m <= k
  <2> HIDE DEF T
  <2> QED BY <1>1, Least
<1>3. m \in 1 .. NBuckets /\ First(m)
  <2>1. ASSUME NEW j \in 1 .. m - 1 PROVE ms > UpTo(j)
    <3>1. j \in 1 .. NBuckets /\ ~ (m <= j)
      BY <1>0, <1>2
    <3>2. j \notin T
      BY <1>2, <3>1
    <3> QED BY <1>0, <3>1, <3>2, BoundsRise
  <2> QED BY <1>2, <2>1
<1>4. b \in 1 .. NBuckets /\ First(b)
  <2> HIDE DEF First
  <2>1. b = CHOOSE i \in 1 .. NBuckets : First(i)
    BY DEF BucketOf, First
  <2> HIDE DEF b
  <2> QED BY <1>3, <2>1
<1> HIDE DEF b
<1>5. ASSUME NEW i \in 1 .. NBuckets PROVE ms <= UpTo(i) <=> b <= i
  <2>1. CASE i < b
    <3>1. i \in 1 .. b - 1
      BY <1>0, <1>4, <2>1
    <3> QED BY <1>0, <1>4, <2>1, <3>1, BoundsRise
  <2>2. CASE b = i
    BY <1>0, <1>4, <2>2
  <2>3. CASE b < i
    <3>1. UpTo(b) < UpTo(i) /\ UpTo(b) \in Nat /\ UpTo(i) \in Nat /\ UpTo(NBuckets) \in Nat
      BY <1>0, <1>4, <2>3, BoundsRise
    <3> QED BY <1>0, <1>4, <2>3, <3>1
  <2> QED BY <1>0, <1>4, <2>1, <2>2, <2>3
<1> QED BY <1>4, <1>5 DEF b

Counts == [1 .. NBuckets -> Nat]

LEMMA BelowIs ==
  ASSUME NEW cells \in Counts
  PROVE  /\ Below(cells, 0) = 0
         /\ \A i \in 1 .. NBuckets : Below(cells, i) = Below(cells, i - 1) + cells[i]
         /\ \A i \in 0 .. NBuckets : Below(cells, i) \in Nat
<1> DEFINE N == NBuckets
           Def(g, n) == g = [i \in 0 .. n |-> IF i = 0 THEN 0 ELSE g[i - 1] + cells[i]]
           S == {n \in Nat : \E g : Def(g, n)}
           c == CHOOSE g : Def(g, N)
<1>0. N \in Nat /\ \A i \in 1 .. N : cells[i] \in Nat
  BY DEF NBuckets, Counts
<1>1. 0 \in S
  <2> DEFINE g == [i \in 0 .. 0 |-> 0]
  <2>1. Def(g, 0)
    OBVIOUS
  <2> QED BY <2>1
<1>2. ASSUME NEW n \in Nat, n \in S PROVE n + 1 \in S
  <2>1. PICK g : Def(g, n)
    BY <1>2
  <2> DEFINE h == [i \in 0 .. n + 1 |-> IF i = n + 1 THEN g[n] + cells[n + 1] ELSE g[i]]
  <2>2. \A i \in 0 .. n : g[i] = IF i = 0 THEN 0 ELSE g[i - 1] + cells[i]
    BY <2>1, Zenon
  <2>3. ASSUME NEW i \in 0 .. n + 1
        PROVE  h[i] = IF i = 0 THEN 0 ELSE h[i - 1] + cells[i]
    <3>1. CASE i = n + 1
      <4>1. h[i] = g[n] + cells[n + 1] /\ h[i - 1] = g[n] /\ i # 0
        BY <3>1
      <4> QED BY <3>1, <4>1
    <3>2. CASE i \in 0 .. n
      <4>1. h[i] = g[i] /\ (i # 0 => h[i - 1] = g[i - 1])
        BY <3>2
      <4> HIDE DEF h
      <4> QED BY <2>2, <3>2, <4>1
    <3> QED BY <3>1, <3>2
  <2>4. DOMAIN h = 0 .. n + 1 /\ h = [i \in 0 .. n + 1 |-> h[i]]
    OBVIOUS
  <2>5. Def(h, n + 1)
    <3> HIDE DEF h
    <3> QED BY <2>3, <2>4, Zenon
  <2> HIDE DEF h, Def
  <2> QED BY <2>5
<1>3. N \in S
  <2> HIDE DEF S, N
  <2> QED BY <1>0, <1>1, <1>2, Induct
<1>4. Def(c, N)
  <2>1. \E g : Def(g, N)
    BY <1>3
  <2> HIDE DEF Def
  <2> QED BY <2>1, Zenon
<1>5. \A i : Below(cells, i) = c[i]
  BY Zenon DEF Below
<1> HIDE DEF c
<1>6. \A i \in 0 .. N : c[i] = IF i = 0 THEN 0 ELSE c[i - 1] + cells[i]
  BY <1>4, Zenon
<1> HIDE DEF N
<1> DEFINE P == {n \in Nat : c[n] \in Nat}
<1>7. 0 \in P
  BY <1>0, <1>6
<1>8. ASSUME NEW n \in 0 .. N, n < N, n \in P PROVE n + 1 \in P
  <2>1. n + 1 \in 0 .. N /\ n + 1 \in 1 .. N /\ n + 1 # 0 /\ (n + 1) - 1 = n
    BY <1>0, <1>8
  <2>2. c[n + 1] = c[n] + cells[n + 1]
    BY <1>6, <2>1
  <2> QED BY <1>0, <1>8, <2>1, <2>2
<1>9. \A n \in 0 .. N : n \in P
  <2> HIDE DEF P
  <2> QED BY <1>0, <1>7, <1>8, InductUpTo
<1>10. \A i \in 1 .. N : i \in 0 .. N /\ i # 0
  BY <1>0
<1>11. 0 \in 0 .. N
  BY <1>0
<1> QED BY <1>5, <1>6, <1>9, <1>10, <1>11 DEF N

(* One more in a bucket is one more below each bound from there on. *)
LEMMA BelowOneMore ==
  ASSUME NEW cells \in Counts, NEW b \in 1 .. NBuckets
  PROVE  LET more == [cells EXCEPT ![b] = @ + 1]
         IN  /\ more \in Counts
             /\ \A i \in 0 .. NBuckets :
                  Below(more, i) = IF b <= i THEN Below(cells, i) + 1 ELSE Below(cells, i)
<1> DEFINE more == [cells EXCEPT ![b] = @ + 1]
           S == {i \in Nat : Below(more, i) = IF b <= i THEN Below(cells, i) + 1
                                                        ELSE Below(cells, i)}
<1>0. NBuckets \in Nat
  BY DEF NBuckets
<1>1. /\ more \in Counts
      /\ \A i \in 1 .. NBuckets : more[i] = IF i = b THEN cells[i] + 1 ELSE cells[i]
  BY DEF Counts
<1> HIDE DEF more
<1>2. 0 \in S
  BY <1>0, <1>1, BelowIs
<1>3. ASSUME NEW i \in 0 .. NBuckets, i < NBuckets, i \in S PROVE i + 1 \in S
  <2>1. i + 1 \in 1 .. NBuckets /\ (i + 1) - 1 = i /\ i + 1 \in Nat
    BY <1>0, <1>3
  <2>2. /\ Below(more, i + 1) = Below(more, i) + more[i + 1]
        /\ Below(cells, i + 1) = Below(cells, i) + cells[i + 1]
        /\ Below(cells, i) \in Nat /\ cells[i + 1] \in Nat
    BY <1>1, <2>1, BelowIs DEF Counts
  <2>3. Below(more, i) = IF b <= i THEN Below(cells, i) + 1 ELSE Below(cells, i)
    BY <1>3
  <2>4. more[i + 1] = IF i + 1 = b THEN cells[i + 1] + 1 ELSE cells[i + 1]
    BY <1>1, <2>1
  <2>5. CASE b <= i
    BY <1>0, <2>1, <2>2, <2>3, <2>4, <2>5
  <2>6. CASE b = i + 1
    BY <1>0, <2>1, <2>2, <2>3, <2>4, <2>6
  <2>7. CASE b > i + 1
    BY <1>0, <2>1, <2>2, <2>3, <2>4, <2>7
  <2> QED BY <1>0, <2>5, <2>6, <2>7
<1>4. \A i \in 0 .. NBuckets : i \in S
  <2> HIDE DEF S
  <2> QED BY <1>0, <1>2, <1>3, InductUpTo
<1> QED BY <1>1, <1>4 DEF more

(* The measurements are in the histogram, below each bound those that do   *)
(* not exceed it; what is logged is a snapshot of it; and behind the       *)
(* signal there is one more event only while the loop has not looked.      *)
Tallied ==
    /\ measured \in Seq(0 .. UpTo(NBuckets)) /\ buckets \in Counts
    /\ latency.count = Len(measured)
    /\ \A i \in 1 .. NBuckets : Below(buckets, i) = MeasuredUpTo(UpTo(i))

StreamInv ==
    /\ Tallied
    /\ runLog # <<>> => spc = "exit" /\ runLog[2] = StreamSnapshot
    /\ lateTaken \in {0, 1} /\ (lateTaken = 1 => signal)
    /\ lateTaken = 1 => spc # "take"

LEMMA Appended ==
  ASSUME NEW s \in Seq(0 .. UpTo(NBuckets)), NEW ms \in 0 .. UpTo(NBuckets), NEW bound \in Nat
  PROVE  Cardinality({k \in DOMAIN Append(s, ms) : Append(s, ms)[k] <= bound})
           = IF ms <= bound THEN Cardinality({k \in DOMAIN s : s[k] <= bound}) + 1
                            ELSE Cardinality({k \in DOMAIN s : s[k] <= bound})
<1> DEFINE t == Append(s, ms)
           Upto(u) == {k \in DOMAIN u : u[k] <= bound}
           n == Len(s)
<1>1. n \in Nat /\ DOMAIN s = 1 .. n
  BY LenProperties
<1>2. /\ DOMAIN t = 1 .. n + 1 /\ t[n + 1] = ms
      /\ \A k \in 1 .. n : t[k] = s[k]
  <2>1. t \in Seq(0 .. UpTo(NBuckets)) /\ Len(t) = n + 1
    BY AppendProperties
  <2>2. DOMAIN t = 1 .. n + 1
    BY <2>1, LenProperties
  <2> QED BY <2>2, AppendProperties
<1>3. IsFiniteSet(Upto(s)) /\ n + 1 \notin Upto(s)
  <2>1. IsFiniteSet(1 .. n)
    BY <1>1, FS_Interval
  <2>2. Upto(s) \subseteq 1 .. n /\ n + 1 \notin 1 .. n
    BY <1>1
  <2> HIDE DEF Upto
  <2> QED BY <2>1, <2>2, FS_Subset
<1> HIDE DEF t
<1>4. CASE ms <= bound
  <2>1. Upto(t) = Upto(s) \cup {n + 1}
    <3>1. \A k \in 1 .. n + 1 : k \in Upto(t) <=> k \in Upto(s) \cup {n + 1}
      BY <1>1, <1>2, <1>4
    <3> QED BY <1>1, <1>2, <3>1
  <2>2. Cardinality(Upto(s) \cup {n + 1}) = Cardinality(Upto(s)) + 1
    <3> HIDE DEF Upto, n
    <3> QED BY <1>3, FS_AddElement
  <2> QED BY <1>4, <2>1, <2>2, Zenon DEF t
<1>5. CASE ~ (ms <= bound)
  <2>1. Upto(t) = Upto(s)
    <3>1. \A k \in 1 .. n + 1 : k \in Upto(t) <=> k \in Upto(s)
      BY <1>1, <1>2, <1>5
    <3> QED BY <1>1, <1>2, <3>1
  <2> QED BY <1>5, <2>1, Zenon DEF t
<1> QED BY <1>4, <1>5

LEMMA RecordTallies ==
  ASSUME Tallied, NEW ms \in Delays, RecordLatency(ms)
  PROVE  Tallied'
<1> DEFINE b == BucketOf(ms)
           more == [buckets EXCEPT ![b] = @ + 1]
<1>1. ms \in 0 .. UpTo(NBuckets) /\ NBuckets \in Nat
  BY StreamAssumption DEF NBuckets
<1>2. b \in 1 .. NBuckets /\ \A i \in 1 .. NBuckets : ms <= UpTo(i) <=> b <= i
  BY <1>1, BucketIs
<1>3. /\ measured' = Append(measured, ms) /\ buckets' = more
      /\ latency'.count = latency.count + 1
  BY DEF RecordLatency
<1> HIDE DEF b
<1>4. /\ measured \in Seq(0 .. UpTo(NBuckets)) /\ buckets \in Counts
      /\ latency.count = Len(measured)
      /\ \A i \in 1 .. NBuckets : Below(buckets, i) = MeasuredUpTo(UpTo(i))
  BY DEF Tallied
<1>5. /\ more \in Counts
      /\ \A i \in 0 .. NBuckets :
           Below(more, i) = IF b <= i THEN Below(buckets, i) + 1 ELSE Below(buckets, i)
  BY <1>2, <1>4, BelowOneMore
<1> HIDE DEF more
<1>6. measured' \in Seq(0 .. UpTo(NBuckets)) /\ Len(measured') = Len(measured) + 1
  BY <1>1, <1>3, <1>4, AppendProperties
<1>7. ASSUME NEW i \in 1 .. NBuckets PROVE Below(buckets', i) = MeasuredUpTo(UpTo(i))'
  <2>1. UpTo(i) \in Nat /\ i \in 0 .. NBuckets
    BY <1>1, BoundsRise
  <2> DEFINE c == UpTo(i)
  <2> HIDE DEF c
  <2>2. Cardinality({k \in DOMAIN measured' : measured'[k] <= c})
          = IF ms <= c THEN Cardinality({k \in DOMAIN measured : measured[k] <= c}) + 1
                       ELSE Cardinality({k \in DOMAIN measured : measured[k] <= c})
    <3>1. c \in Nat
      BY <2>1 DEF c
    <3>2. Cardinality({k \in DOMAIN Append(measured, ms) : Append(measured, ms)[k] <= c})
            = IF ms <= c THEN Cardinality({k \in DOMAIN measured : measured[k] <= c}) + 1
                         ELSE Cardinality({k \in DOMAIN measured : measured[k] <= c})
      BY ZenonT(30), <1>1, <1>4, <3>1, Appended
    <3> QED BY <1>3, <3>2, Zenon
  <2>3. MeasuredUpTo(UpTo(i))' = Cardinality({k \in DOMAIN measured' : measured'[k] <= c})
    BY DEF MeasuredUpTo, c, UpTo, Bounds
  <2>4. Below(buckets, i) = Cardinality({k \in DOMAIN measured : measured[k] <= c})
    BY <1>4 DEF MeasuredUpTo, c
  <2>5. ms <= c <=> b <= i
    BY <1>2 DEF c
  <2>6. Below(buckets', i) = IF b <= i THEN Below(buckets, i) + 1 ELSE Below(buckets, i)
    BY <1>3, <1>5, <2>1
  <2> QED BY <2>2, <2>3, <2>4, <2>5, <2>6
<1> QED BY <1>3, <1>4, <1>5, <1>6, <1>7 DEF Tallied

LEMMA TalliedSame ==
  ASSUME Tallied, UNCHANGED <<measured, buckets, latency>>
  PROVE  Tallied'
BY DEF Tallied, MeasuredUpTo

LEMMA ExitInv ==
  ASSUME StreamInv, NEW how, StreamExit(how)
  PROVE  StreamInv'
<1>1. /\ spc' = "exit" /\ runLog'[2] = StreamSnapshot
      /\ UNCHANGED <<signal, buckets, latency, measured, lateTaken>>
  BY DEF StreamExit
<1>2. StreamSnapshot' = StreamSnapshot
  BY <1>1 DEF StreamSnapshot, Percentile, FirstReaching
<1> QED BY <1>1, <1>2, TalliedSame DEF StreamInv

LEMMA NothingBelow ==
  /\ [k \in 1 .. NBuckets |-> 0] \in Counts
  /\ \A i \in 1 .. NBuckets : Below([k \in 1 .. NBuckets |-> 0], i) = 0
<1> DEFINE none == [k \in 1 .. NBuckets |-> 0]
           S == {i \in Nat : Below(none, i) = 0}
<1>1. none \in Counts /\ NBuckets \in Nat /\ \A i \in 1 .. NBuckets : none[i] = 0
  BY DEF Counts, NBuckets
<1> HIDE DEF none
<1>2. 0 \in S
  BY <1>1, BelowIs
<1>3. ASSUME NEW i \in 0 .. NBuckets, i < NBuckets, i \in S PROVE i + 1 \in S
  <2>1. i + 1 \in 1 .. NBuckets /\ (i + 1) - 1 = i
    BY <1>1, <1>3
  <2>2. Below(none, i + 1) = Below(none, i) + none[i + 1]
    BY <1>1, <2>1, BelowIs
  <2> QED BY <1>1, <1>3, <2>1, <2>2
<1>4. \A i \in 0 .. NBuckets : i \in S
  <2> HIDE DEF S
  <2> QED BY <1>1, <1>2, <1>3, InductUpTo
<1>5. \A i \in 1 .. NBuckets : i \in 0 .. NBuckets
  BY <1>1
<1> QED BY <1>1, <1>4, <1>5 DEF none

LEMMA NothingMeasured ==
  /\ <<>> \in Seq(0 .. UpTo(NBuckets)) /\ Len(<<>>) = 0
  /\ \A c : Cardinality({k \in DOMAIN <<>> : <<>>[k] <= c}) = 0
<1>1. <<>> \in Seq(0 .. UpTo(NBuckets)) /\ Len(<<>>) = 0 /\ DOMAIN <<>> = {}
  BY EmptySeq
<1>2. ASSUME NEW c PROVE Cardinality({k \in DOMAIN <<>> : <<>>[k] <= c}) = 0
  <2>1. {k \in DOMAIN <<>> : <<>>[k] <= c} = {}
    BY <1>1
  <2> QED BY <2>1, FS_EmptySet
<1> QED BY <1>1, <1>2

LEMMA StreamStepInv == StreamInv /\ [Next]_vars => StreamInv'
<1> SUFFICES ASSUME StreamInv, [Next]_vars PROVE StreamInv'
  OBVIOUS
<1>1. CASE UNCHANGED <<spc, signal, buckets, latency, runLog, measured, lateTaken>>
  BY <1>1, TalliedSame DEF StreamInv, StreamSnapshot, Percentile, FirstReaching
<1>2. CASE StreamEnds
  <2>1. Tallied'
    <3>1. measured' = <<>> /\ buckets' = [i \in 1 .. NBuckets |-> 0] /\ latency'.count = 0
      BY <1>2 DEF StreamEnds
    <3> QED BY <3>1, NothingBelow, NothingMeasured DEF Tallied, MeasuredUpTo
  <2> QED BY <1>2, <2>1 DEF StreamEnds, StreamInv
<1>3. CASE StreamCheck
  <2>1. CASE \E how : StreamExit(how)
    BY <2>1, ExitInv
  <2>2. CASE ~ \E how : StreamExit(how)
    <3>1. /\ spc' = "take" /\ ~signal
          /\ UNCHANGED <<signal, buckets, latency, runLog, measured, lateTaken>>
      BY <1>3, <2>2 DEF StreamCheck, cycles, CycleLimit
    <3> QED BY <1>3, <3>1, TalliedSame DEF StreamInv, StreamCheck
  <2> QED BY <2>1, <2>2
<1>4. ASSUME NEW e, NEW ms \in Delays, TakeEvent(e, ms) PROVE StreamInv'
  <2>1. Tallied'
    <3>1. CASE Recognised(e)
      BY <1>4, <3>1, RecordTallies DEF TakeEvent, StreamInv
    <3>2. CASE ~ Recognised(e)
      BY <1>4, <3>2, TalliedSame DEF TakeEvent, StreamInv
    <3> QED BY <3>1, <3>2
  <2>2. lateTaken = 0
    BY <1>4 DEF TakeEvent, StreamInv
  <2>3. runLog = <<>> /\ runLog' = runLog
    BY <1>4 DEF TakeEvent, StreamInv
  <2> QED BY <1>4, <2>1, <2>2, <2>3 DEF TakeEvent, StreamInv
<1>5. CASE Exhausted
  BY <1>5, ExitInv DEF Exhausted
<1>6. CASE Interrupt
  BY <1>6, TalliedSame DEF Interrupt, StreamInv, StreamSnapshot, Percentile, FirstReaching
<1>7. CASE Expire
  BY <1>7, <1>1 DEF Expire
<1>8. UNCHANGED streamVars \/ StreamEnds \/ StreamStep
  BY DEF Next, vars, partVars, Lifecycle, Prefund, Funding, Trade, Board, Meter,
         Stream, Guard, Settle
<1> QED BY <1>1, <1>2, <1>3, <1>4, <1>5, <1>6, <1>7, <1>8 DEF streamVars, StreamStep

(* The bound a scan stops at is the first that enough measurements do not  *)
(* exceed.                                                                 *)
LEMMA ReachingIs ==
  ASSUME Tallied, NEW target \in 0 .. Len(measured)
  PROVE  \E i \in 1 .. NBuckets :
            /\ FirstReaching(target) = UpTo(i)
            /\ MeasuredUpTo(UpTo(i)) >= target
            /\ \A j \in 1 .. NBuckets : UpTo(j) < UpTo(i) => MeasuredUpTo(UpTo(j)) < target
<1> DEFINE First(i) == /\ Below(buckets, i) >= target
                       /\ \A j \in 1 .. i - 1 : Below(buckets, j) < target
           T == {i \in 1 .. NBuckets : Below(buckets, i) >= target}
<1>0. /\ NBuckets \in Nat \ {0} /\ NBuckets \in 1 .. NBuckets /\ Len(measured) \in Nat
      /\ measured \in Seq(0 .. UpTo(NBuckets))
      /\ \A i \in 1 .. NBuckets : Below(buckets, i) \in Nat /\ i \in Nat
      /\ \A i \in 1 .. NBuckets : Below(buckets, i) = MeasuredUpTo(UpTo(i))
  <2>1. \A i \in 1 .. NBuckets : i \in 0 .. NBuckets /\ i \in Nat
    BY DEF NBuckets
  <2> QED BY <2>1, LenProperties, BelowIs DEF NBuckets, Tallied
<1>1. MeasuredUpTo(UpTo(NBuckets)) = Len(measured)
  <2>1. {k \in DOMAIN measured : measured[k] <= UpTo(NBuckets)} = 1 .. Len(measured)
    <3>1. DOMAIN measured = 1 .. Len(measured)
      BY <1>0, LenProperties
    <3>2. ASSUME NEW k \in 1 .. Len(measured) PROVE measured[k] <= UpTo(NBuckets)
      <4>1. measured[k] \in 0 .. UpTo(NBuckets)
        BY <1>0, ElementOfSeq, Zenon
      <4>2. UpTo(NBuckets) \in Nat
        BY <1>0, BoundsRise
      <4> QED BY <4>1, <4>2
    <3> QED BY <3>1, <3>2
  <2>2. Cardinality(1 .. Len(measured)) = Len(measured)
    <3> DEFINE n == Len(measured)
    <3>1. n \in Nat
      BY <1>0
    <3> HIDE DEF n
    <3>2. Cardinality(1 .. n) = n
      BY <3>1, FS_Interval
    <3> QED BY <3>2 DEF n
  <2> QED BY <2>1, <2>2 DEF MeasuredUpTo
<1>2. T \in SUBSET Nat /\ NBuckets \in T
  BY <1>0, <1>1
<1>3. PICK m \in T : \A k \in T : m <= k
  <2> HIDE DEF T
  <2> QED BY <1>2, Least
<1>4. First(m) /\ m \in 1 .. NBuckets
  <2>1. ASSUME NEW j \in 1 .. m - 1 PROVE Below(buckets, j) < target
    <3>1. j \in 1 .. NBuckets /\ ~ (m <= j)
      BY <1>0, <1>3
    <3>2. j \notin T
      BY <1>3, <3>1
    <3> QED BY <1>0, <3>1, <3>2
  <2> QED BY <1>3, <2>1
<1> DEFINE i == CHOOSE i \in 1 .. NBuckets : First(i)
<1>5. FirstReaching(target) = UpTo(i)
  BY DEF FirstReaching
<1>6. First(i) /\ i \in 1 .. NBuckets
  <2> HIDE DEF First
  <2> QED BY <1>4
<1> HIDE DEF i
<1>7. ASSUME NEW j \in 1 .. NBuckets, UpTo(j) < UpTo(i) PROVE MeasuredUpTo(UpTo(j)) < target
  <2>1. j < i
    BY <1>6, <1>7, BoundsRise, Zenon
  <2>2. j \in 1 .. i - 1
    BY <1>0, <1>6, <2>1
  <2> QED BY <1>0, <1>6, <2>2
<1>8. MeasuredUpTo(UpTo(i)) >= target
  BY <1>0, <1>6
<1> QED BY <1>5, <1>6, <1>7, <1>8

Spread(p, percent) ==
    /\ MeasuredUpTo(p) >= (Len(measured) * percent) \div 100
    /\ \A i \in 1 .. NBuckets :
           UpTo(i) < p => MeasuredUpTo(UpTo(i)) < (Len(measured) * percent) \div 100

LEMMA PercentileIs ==
  ASSUME Tallied, Len(measured) > 0, NEW percent \in 0 .. 100
  PROVE  Spread(Percentile(percent), percent) /\ \E i \in 1 .. NBuckets : Percentile(percent) = UpTo(i)
<1> DEFINE n == Len(measured)
           target == (n * percent) \div 100
<1>1. n \in Nat /\ n > 0 /\ latency.count = n
  BY LenProperties DEF Tallied
<1>2. target \in 0 .. n
  <2> HIDE DEF n
  <2>1. n * percent \in Nat /\ n * percent <= n * 100
    BY <1>1
  <2> QED BY <1>1, <2>1
<1>3. Percentile(percent) = FirstReaching(target)
  BY <1>1 DEF Percentile
<1> HIDE DEF target
<1>4. PICK i \in 1 .. NBuckets :
            /\ FirstReaching(target) = UpTo(i)
            /\ MeasuredUpTo(UpTo(i)) >= target
            /\ \A j \in 1 .. NBuckets : UpTo(j) < UpTo(i) => MeasuredUpTo(UpTo(j)) < target
  BY <1>2, ReachingIs
<1> QED BY <1>3, <1>4 DEF Spread, target

LEMMA MeasuredIsCount ==
  ASSUME Tallied, NEW a \in Nat, NEW b \in Nat, a <= b
  PROVE  MeasuredUpTo(a) \in Nat /\ MeasuredUpTo(b) \in Nat /\ MeasuredUpTo(a) <= MeasuredUpTo(b)
<1> DEFINE A == {k \in DOMAIN measured : measured[k] <= a}
           B == {k \in DOMAIN measured : measured[k] <= b}
<1>1. IsFiniteSet(B) /\ A \subseteq B
  <2>1. /\ DOMAIN measured = 1 .. Len(measured) /\ Len(measured) \in Nat
        /\ \A k \in 1 .. Len(measured) : measured[k] \in 0 .. UpTo(NBuckets)
    <3>1. measured \in Seq(0 .. UpTo(NBuckets))
      BY DEF Tallied
    <3> QED BY <3>1, LenProperties, ElementOfSeq
  <2>2. UpTo(NBuckets) \in Nat
    BY BoundsRise DEF NBuckets
  <2>3. IsFiniteSet(1 .. Len(measured)) /\ B \subseteq 1 .. Len(measured)
    BY <2>1, FS_Interval
  <2>4. IsFiniteSet(B)
    <3> HIDE DEF B
    <3> QED BY <2>3, FS_Subset
  <2> QED BY <2>1, <2>2, <2>4
<1> HIDE DEF A, B
<1>2. /\ IsFiniteSet(A) /\ Cardinality(A) \in Nat /\ Cardinality(B) \in Nat
      /\ Cardinality(A) <= Cardinality(B)
  BY <1>1, FS_Subset, FS_CardinalityType
<1> QED BY <1>2 DEF MeasuredUpTo, A, B

(* For any latencies and any order of events, signal and deadline, the log *)
(* tells of every measurement, its percentiles are of the measurements     *)
(* themselves, and behind the signal at most the event under way is taken  *)
(* (pipeline.rs run, latency.rs quantile and snapshot).                    *)
THEOREM LatencyIsLogged == Spec => []LatencyLogged
<1>1. Init => StreamInv
  <2> SUFFICES ASSUME StreamInit PROVE StreamInv
    BY DEF Init
  <2>1. measured = <<>> /\ buckets = [i \in 1 .. NBuckets |-> 0] /\ latency.count = 0
    BY DEF StreamInit
  <2>2. Tallied
    BY <2>1, NothingBelow, NothingMeasured DEF Tallied, MeasuredUpTo
  <2> QED BY <2>2 DEF StreamInit, StreamInv
<1>2. StreamInv => LatencyLogged
  <2> SUFFICES ASSUME StreamInv PROVE LatencyLogged
    OBVIOUS
  <2> DEFINE n == Len(measured)
             s == StreamSnapshot
  <2>1. /\ Tallied /\ n \in Nat /\ latency.count = n
        /\ s.count = n /\ s.p50 = Percentile(50) /\ s.p95 = Percentile(95)
        /\ s.p99 = Percentile(99)
    BY LenProperties DEF StreamInv, Tallied, StreamSnapshot
  <2> HIDE DEF s
  <2>2. ASSUME n > 0
        PROVE  Spread(s.p50, 50) /\ Spread(s.p95, 95) /\ Spread(s.p99, 99)
    BY <2>1, <2>2, PercentileIs
  <2>3. ASSUME MeetsBudget(s) PROVE 100 * (n - MeasuredUpTo(64)) < n + 100
    <3>1. MeasuredUpTo(64) \in Nat
      BY <2>1, MeasuredIsCount
    <3>2. CASE n = 0
      BY <3>1, <3>2
    <3>3. CASE n > 0
      <4>1. PICK i \in 1 .. NBuckets : s.p99 = UpTo(i)
        BY <2>1, <3>3, PercentileIs
      <4>2. UpTo(i) <= 64 /\ UpTo(i) \in Nat
        BY <2>1, <2>3, <3>3, <4>1, BoundsRise DEF MeetsBudget
      <4>3. MeasuredUpTo(UpTo(i)) \in Nat /\ MeasuredUpTo(UpTo(i)) <= MeasuredUpTo(64)
        BY <2>1, <4>2, MeasuredIsCount
      <4>4. MeasuredUpTo(UpTo(i)) >= (n * 99) \div 100
        BY <2>2, <3>3, <4>1 DEF Spread
      <4> DEFINE x == MeasuredUpTo(64)
                 y == MeasuredUpTo(UpTo(i))
      <4>5. x \in Nat /\ y \in Nat /\ y <= x /\ y >= (n * 99) \div 100 /\ n \in Nat
        BY <2>1, <3>1, <4>3, <4>4
      <4> HIDE DEF x, y, n
      <4>6. 100 * (n - x) < n + 100
        BY <4>5
      <4> QED BY <4>6 DEF x, n
    <3> QED BY <2>1, <3>2, <3>3
  <2>4. lateTaken <= 1
    BY DEF StreamInv
  <2>5. runLog # <<>> => runLog[2] = s
    BY DEF StreamInv, s
  <2> HIDE DEF n
  <2> QED BY <2>1, <2>2, <2>3, <2>4, <2>5 DEF LatencyLogged, Spread, n
<1> QED BY <1>1, <1>2, StreamStepInv, PTL DEF Spec

-----------------------------------------------------------------------------
(* The assert program. *)

(* The first five transactions of a bundle. *)
Shape(b) ==
    /\ b[1] = "swap" /\ b[2] = "swap" /\ b[3] = "swap"
    /\ b[4] = "assert" /\ b[5] = "tip"

Holdings == [Tokens -> Nat]
Kinds == {"swap", "assert", "tip"}
AllSwaps(s) == s \in Seq(Kinds) /\ \A i \in 1 .. Len(s) : s[i] = "swap"

LEMMA Amounts ==
  InputAmount \in Nat /\ MinNet \in Nat /\ Tip \in Nat /\ Fee \in Nat
BY TradeAssumption

(* The engine has only what the builder accepted, and that is one shape.   *)
TradeInv ==
    /\ hold \in Holdings /\ vault \in Nat /\ transfer \in Nat /\ floor \in Int
    /\ at \in {"idle", "build", "simulate", "submit", "poll"}
    /\ at = "idle" => txs = <<>>
    /\ at = "build" => AllSwaps(txs)
    /\ at \in {"simulate", "submit", "poll"} => Shape(txs)
    /\ engine = "pending" => at = "poll"
    /\ GainKept

LEMMA TwoUpdates ==
  ASSUME NEW h \in Holdings, NEW a \in Tokens, NEW b \in Tokens, NEW out \in Nat,
         h[a] >= InputAmount
  PROVE  [h EXCEPT ![a] = @ - InputAmount, ![b] = @ + out] \in Holdings
<1>1. h[a] - InputAmount \in Nat /\ h[b] + out \in Nat
  BY Amounts DEF Holdings
<1>2. h[a] - InputAmount + out \in Nat
  BY <1>1
<1> QED BY <1>1, <1>2 DEF Holdings

LEMMA SwapApplied ==
  ASSUME NEW h \in Holdings, NEW i \in 1 .. 3, NEW outs \in Markets,
         Applied(h, "swap", i, outs) # <<>>
  PROVE  Applied(h, "swap", i, outs) \in Holdings
<1> DEFINE paid == [h EXCEPT ![0] = @ - Fee]
<1>1. h[0] \in Nat /\ paid \in [Tokens -> Int] /\ paid[0] = h[0] - Fee
  BY SMTT(30), TradeAssumption DEF Holdings, Tokens
<1>2. paid[0] >= 0 /\ paid[i - 1] >= InputAmount
  BY SMTT(30), <1>1, TradeAssumption DEF Applied, Holdings, Tokens
<1>3. Applied(h, "swap", i, outs) = Swapped(paid, i, outs[i])
  BY <1>2 DEF Applied
<1>4. outs[i] \in Nat
  BY TradeAssumption DEF Markets
<1>5. paid \in Holdings
  BY <1>1, <1>2 DEF Holdings, Tokens
<1>6. Swapped(paid, i, outs[i]) \in Holdings
  <2> HIDE DEF paid
  <2>1. i - 1 \in Tokens /\ i % 3 \in Tokens
    BY DEF Tokens
  <2> QED BY <1>2, <1>4, <1>5, <2>1, TwoUpdates DEF Swapped
<1> QED BY <1>3, <1>6

(* A bundle of this shape that runs leaves what the program asked for,     *)
(* less the fee and the tip that come behind it.                           *)
LEMMA BundleExecuted ==
  ASSUME TradeInv, NEW b, Shape(b), NEW outs \in Markets, Executed(b, outs) # <<>>
  PROVE  /\ Executed(b, outs) \in Holdings
         /\ Executed(b, outs)[0] >= vault + MinNet - Tip - Fee
<1> DEFINE one == Then(hold, b, 1, outs)
           two == Then(one, b, 2, outs)
           three == Then(two, b, 3, outs)
           four == Then(three, b, 4, outs)
           five == Then(four, b, 5, outs)
<1>1. /\ b[1] = "swap" /\ b[2] = "swap" /\ b[3] = "swap"
      /\ b[4] = "assert" /\ b[5] = "tip"
  BY DEF Shape
<1>2. /\ Executed(b, outs) = five /\ five # <<>>
      /\ four # <<>> /\ three # <<>> /\ two # <<>> /\ one # <<>>
  BY DEF Executed, Then
<1>3. one \in Holdings
  BY <1>1, <1>2, SwapApplied DEF Then, TradeInv
<1>4. two \in Holdings
  <2> HIDE DEF one
  <2> QED BY <1>1, <1>2, <1>3, SwapApplied DEF Then
<1>5. three \in Holdings
  <2> HIDE DEF two
  <2> QED BY <1>1, <1>2, <1>4, SwapApplied DEF Then
<1>6. /\ four = [three EXCEPT ![0] = @ - Fee]
      /\ three[0] - Fee >= 0 /\ AssertHolds(three[0] - Fee)
  <2> HIDE DEF three
  <2>1. four = Applied(three, "assert", 4, outs)
    BY <1>1, <1>2 DEF Then
  <2> HIDE DEF four
  <2> QED BY <2>1, <1>2, <1>5, TradeAssumption DEF Applied, Holdings, Tokens
<1>7. four \in Holdings /\ four[0] >= vault + MinNet
  <2> HIDE DEF three, four
  <2>1. vault \in Nat /\ three[0] \in Nat
    BY <1>5 DEF TradeInv, Holdings, Tokens
  <2>2. three[0] - Fee \in Nat /\ three[0] - Fee - vault >= MinNet
    BY <1>6, <2>1, Amounts DEF AssertHolds
  <2>3. four \in Holdings /\ four[0] = three[0] - Fee
    BY <1>5, <1>6, <2>2 DEF Holdings, Tokens
  <2> QED BY <2>1, <2>2, <2>3, Amounts
<1>8. five \in Holdings /\ five[0] = four[0] - Fee - Tip
  <2> HIDE DEF four
  <2>1. five = Applied(four, "tip", 5, outs)
    BY <1>1, <1>2 DEF Then
  <2> HIDE DEF five
  <2> DEFINE paid == [four EXCEPT ![0] = @ - Fee]
  <2>2. four[0] \in Nat /\ paid \in [Tokens -> Int] /\ paid[0] = four[0] - Fee
    BY <1>7, Amounts DEF Holdings, Tokens
  <2>3. paid[0] >= 0 /\ paid[0] >= Tip
    BY <1>2, <2>1, <2>2, Amounts DEF Applied
  <2>4. paid \in Holdings /\ five = [paid EXCEPT ![0] = @ - Tip]
    BY <1>2, <1>7, <2>1, <2>2, <2>3 DEF Applied, Holdings, Tokens
  <2>5. paid[0] - Tip \in Nat
    BY <2>2, <2>3, Amounts
  <2> HIDE DEF paid
  <2> QED BY <2>2, <2>4, <2>5, Amounts DEF Holdings, Tokens
<1> HIDE DEF four, five
<1>9. vault \in Nat /\ four[0] \in Nat
  BY <1>7 DEF TradeInv, Holdings, Tokens
<1>10. five[0] >= vault + MinNet - Tip - Fee
  BY <1>7, <1>8, <1>9, Amounts
<1> QED BY <1>2, <1>8, <1>10

LEMMA TradeStepInv == TradeInv /\ [Next]_vars => TradeInv'
<1> SUFFICES ASSUME TradeInv, [Next]_vars PROVE TradeInv'
  OBVIOUS
<1> USE DEF TradeInv, GainKept, cycleVars, fateVars, chainVars, pollVars, counts
<1>1. CASE UNCHANGED tradeVars
  BY <1>1 DEF tradeVars
<1>2. CASE Forgotten
  BY <1>2 DEF Forgotten, Return
<1>3. CASE SendFunding
  BY SMTT(30), <1>3, TradeAssumption DEF SendFunding, Holdings, Tokens
<1>4. CASE FundingLands
  BY SMTT(30), <1>4, TradeAssumption DEF FundingLands, Holdings, Tokens
<1>5. CASE FundingFails
  BY <1>5 DEF FundingFails
<1>6. CASE Refuse /\ engine # "pending"
  BY <1>6 DEF Refuse, Return
<1>7. CASE TradeStep
  <2>1. ASSUME NEW n, NEW known, NEW oracle, NEW feeds, NEW answers,
               Gate(n, known, oracle, feeds, answers) PROVE TradeInv'
    <3>1. AllSwaps(<<>>)
      BY DEF AllSwaps
    <3> QED BY <2>1, <1>6, <3>1 DEF Gate
  <2>2. CASE QuoteLeg
    <3>1. AllSwaps(txs) /\ "swap" \in Kinds
      BY <2>2 DEF QuoteLeg, Kinds
    <3>2. AllSwaps(Append(txs, "swap"))
      BY <3>1, AppendProperties DEF AllSwaps
    <3> QED BY <2>2, <3>2 DEF QuoteLeg
  <2>3. CASE QuoteFails
    BY <2>3, <1>6 DEF QuoteFails
  <2>4. CASE Assemble
    <3>1. AllSwaps(txs) /\ Len(txs) = 3
      BY <2>4 DEF Assemble
    <3>2. Shape(AssertThenTip)
      <4> DEFINE rest == <<"assert", "tip">>
      <4>1. rest \in Seq(Kinds) /\ Len(rest) = 2 /\ txs \in Seq(Kinds)
        BY <3>1 DEF Kinds, AllSwaps
      <4>2. rest[1] = "assert" /\ rest[2] = "tip"
        OBVIOUS
      <4>3. AssertThenTip = txs \o rest
        BY DEF AssertThenTip
      <4> HIDE DEF rest
      <4>4. \A i \in 1 .. Len(txs) + Len(rest) : (txs \o rest)[i] =
               IF i <= Len(txs) THEN txs[i] ELSE rest[i - Len(txs)]
        BY <4>1, ConcatProperties
      <4>5. \A i \in 1 .. 5 : AssertThenTip[i] = IF i <= 3 THEN txs[i] ELSE rest[i - 3]
        <5> SUFFICES ASSUME NEW i \in 1 .. 5
                     PROVE  (txs \o rest)[i] = IF i <= 3 THEN txs[i] ELSE rest[i - 3]
          BY <4>3
        <5>1. i \in 1 .. Len(txs) + Len(rest)
          BY <3>1, <4>1
        <5> QED BY <3>1, <4>4, <5>1
      <4> QED BY <3>1, <4>2, <4>5 DEF AllSwaps, Shape
    <3> QED BY <2>4, <3>2 DEF Assemble
  <2>5. ASSUME NEW outs, Simulated(outs) PROVE TradeInv'
    BY <2>5, <1>6 DEF Simulated
  <2>6. CASE NotSimulated
    BY <2>6 DEF NotSimulated
  <2>7. CASE Submit
    BY <2>7, <1>6 DEF Submit
  <2>8. CASE PollAgain
    BY <2>8 DEF PollAgain
  <2>9. CASE PollDone \/ PollFails
    BY <2>9 DEF PollDone, PollFails, Return
  <2> QED BY <1>7, <2>1, <2>2, <2>3, <2>4, <2>5, <2>6, <2>7, <2>8, <2>9 DEF TradeStep
<1>8. CASE Settlement
  <2>1. ASSUME NEW b, Shape(b), NEW outs \in Markets, Lands(b, outs) PROVE
               /\ hold' \in Holdings /\ floor' \in Int /\ hold'[0] >= floor'
               /\ UNCHANGED <<at, txs, vault, transfer>>
    BY SMTT(30), <2>1, BundleExecuted, TradeAssumption DEF Lands
  <2>2. ASSUME NEW outs \in Markets, Land(outs) PROVE TradeInv'
    BY <2>1, <2>2 DEF Land
  <2>3. ASSUME NEW outs \in Markets, LateLand(outs) PROVE TradeInv'
    BY <2>1, <2>3 DEF LateLand, Shape
  <2>4. CASE Drop \/ LateDrop
    BY <2>4 DEF Drop, LateDrop
  <2> QED BY <1>8, <2>2, <2>3, <2>4 DEF Settlement
<1> QED BY <1>1, <1>2, <1>3, <1>4, <1>5, <1>7, <1>8, Frames

(* For any amounts, quotes, ages and interleaving of bundles with the      *)
(* funding of the vault, the signer keeps what the vault held at the last  *)
(* landing plus the minimum, less the tip and the fee paid behind the      *)
(* assert (dl-assert-program/src/lib.rs:121-140).                          *)
THEOREM GainIsKept == Spec => []GainKept
<1>1. Init => TradeInv
  BY TradeAssumption DEF Init, TradeInit, TradeInv, GainKept, Holdings, Tokens
<1>2. TradeInv => GainKept
  BY DEF TradeInv
<1> QED BY <1>1, <1>2, TradeStepInv, PTL DEF Spec

-----------------------------------------------------------------------------
(* The meters.  What a sum defined step by step along n numbers is.        *)
SumUpTo(g, f, a, n) ==
    g = [k \in 0 .. n |-> IF k = 0 THEN 0 ELSE g[k - 1] + f[a + k - 1]]

Running(f, a, n) == CHOOSE g : SumUpTo(g, f, a, n)

LEMMA RunningIs ==
  ASSUME NEW f, NEW a, NEW n \in Nat
  PROVE  /\ Running(f, a, n)[0] = 0
         /\ \A k \in 1 .. n : Running(f, a, n)[k] = Running(f, a, n)[k - 1] + f[a + k - 1]
         /\ SumFrom(f, a, n) = Running(f, a, n)[n]
<1> DEFINE S == {m \in Nat : \E g : SumUpTo(g, f, a, m)}
           r == Running(f, a, n)
<1>1. 0 \in S
  <2> DEFINE g == [k \in 0 .. 0 |-> 0]
  <2>1. SumUpTo(g, f, a, 0)
    BY DEF SumUpTo
  <2> QED BY <2>1
<1>2. ASSUME NEW m \in Nat, m \in S PROVE m + 1 \in S
  <2>1. PICK g : SumUpTo(g, f, a, m)
    BY <1>2
  <2> DEFINE term == f[a + (m + 1) - 1]
             h == [k \in 0 .. m + 1 |-> IF k = m + 1 THEN g[m] + term ELSE g[k]]
  <2>2. \A k \in 0 .. m : g[k] = IF k = 0 THEN 0 ELSE g[k - 1] + f[a + k - 1]
    BY <2>1, Zenon DEF SumUpTo
  <2>3. ASSUME NEW k \in 0 .. m + 1
        PROVE  h[k] = IF k = 0 THEN 0 ELSE h[k - 1] + f[a + k - 1]
    <3>1. CASE k = m + 1
      <4>1. h[k] = g[m] + term /\ h[k - 1] = g[m] /\ k # 0
        BY <3>1
      <4>2. term = f[a + k - 1]
        BY <3>1, Zenon
      <4> HIDE DEF h, term
      <4> QED BY <4>1, <4>2
    <3>2. CASE k \in 0 .. m
      <4>1. h[k] = g[k] /\ (k # 0 => h[k - 1] = g[k - 1])
        BY <3>2
      <4> HIDE DEF h
      <4> QED BY <2>2, <3>2, <4>1
    <3> QED BY <3>1, <3>2
  <2>4. h = [k \in 0 .. m + 1 |-> h[k]]
    OBVIOUS
  <2>5. SumUpTo(h, f, a, m + 1)
    <3> HIDE DEF h
    <3> QED BY <2>3, <2>4, Zenon DEF SumUpTo
  <2> HIDE DEF h
  <2> QED BY <2>5
<1>3. n \in S
  <2> HIDE DEF S
  <2> QED BY <1>1, <1>2, Induct
<1>4. SumUpTo(r, f, a, n)
  <2>1. \E g : SumUpTo(g, f, a, n)
    BY <1>3
  <2> QED BY <2>1, Zenon DEF Running
<1>5. SumFrom(f, a, n) = r[n]
  BY Zenon DEF SumFrom, Running, SumUpTo
<1> HIDE DEF r
<1>6. \A k \in 0 .. n : r[k] = IF k = 0 THEN 0 ELSE r[k - 1] + f[a + k - 1]
  BY <1>4, Zenon DEF SumUpTo
<1>7. 0 \in 0 .. n /\ \A k \in 1 .. n : k \in 0 .. n /\ k # 0
  OBVIOUS
<1>8. r[0] = 0 /\ \A k \in 1 .. n : r[k] = r[k - 1] + f[a + k - 1]
  BY <1>6, <1>7
<1> QED BY <1>5, <1>8 DEF r

(* Sums of numbers that agree are equal, at every stage.                   *)
Agree(f, g, a, n) == \A k \in 1 .. n : f[a + k - 1] = g[a + k - 1]

LEMMA SumSame ==
  ASSUME NEW f, NEW g, NEW a, NEW n \in Nat, NEW m \in 0 .. n, Agree(f, g, a, m)
  PROVE  \A k \in 0 .. m : Running(f, a, n)[k] = Running(g, a, m)[k]
<1> DEFINE S == {k \in Nat : Running(f, a, n)[k] = Running(g, a, m)[k]}
<1>0. m \in Nat /\ m <= n
  OBVIOUS
<1>1. 0 \in S
  BY <1>0, RunningIs
<1>2. ASSUME NEW k \in 0 .. m, k < m, k \in S PROVE k + 1 \in S
  <2>1. k + 1 \in 1 .. m /\ k + 1 \in 1 .. n /\ (k + 1) - 1 = k
    BY <1>0, <1>2
  <2>2. /\ Running(f, a, n)[k + 1] = Running(f, a, n)[k] + f[a + (k + 1) - 1]
        /\ Running(g, a, m)[k + 1] = Running(g, a, m)[k] + g[a + (k + 1) - 1]
    BY <1>0, <2>1, RunningIs
  <2>3. f[a + (k + 1) - 1] = g[a + (k + 1) - 1]
    BY <2>1 DEF Agree
  <2>4. Running(f, a, n)[k] = Running(g, a, m)[k]
    BY <1>2
  <2>5. Running(f, a, n)[k + 1] = Running(g, a, m)[k + 1]
    BY <2>2, <2>3, <2>4, Zenon
  <2> QED BY <2>1, <2>5
<1>3. \A k \in 0 .. m : k \in S
  <2> HIDE DEF S
  <2> QED BY <1>0, <1>1, <1>2, InductUpTo
<1> QED BY <1>3

(* The sum with one number more. *)
LEMMA SumMore ==
  ASSUME NEW f, NEW g, NEW a \in Int, NEW n \in Nat, Agree(f, g, a, n)
  PROVE  /\ SumFrom(f, a, 0) = 0
         /\ SumFrom(f, a, n + 1) = SumFrom(g, a, n) + f[a + n]
         /\ SumFrom(f, a, n) = SumFrom(g, a, n)
<1>1. SumFrom(f, a, 0) = 0
  BY RunningIs
<1>2. n + 1 \in Nat /\ n \in 0 .. n + 1 /\ n \in 0 .. n /\ n + 1 \in 1 .. n + 1 /\ (n + 1) - 1 = n
  OBVIOUS
<1>3. Running(f, a, n + 1)[n] = Running(g, a, n)[n]
  <2>1. \A k \in 0 .. n : Running(f, a, n + 1)[k] = Running(g, a, n)[k]
    BY <1>2, SumSame
  <2> QED BY <1>2, <2>1, Zenon
<1>4. Running(f, a, n)[n] = Running(g, a, n)[n]
  <2>1. \A k \in 0 .. n : Running(f, a, n)[k] = Running(g, a, n)[k]
    BY <1>2, SumSame
  <2> QED BY <1>2, <2>1, Zenon
<1>5. a + (n + 1) - 1 = a + n
  OBVIOUS
<1>6. /\ SumFrom(f, a, n + 1) = Running(f, a, n + 1)[n + 1]
      /\ Running(f, a, n + 1)[n + 1] = Running(f, a, n + 1)[n] + f[a + (n + 1) - 1]
      /\ SumFrom(g, a, n) = Running(g, a, n)[n]
      /\ SumFrom(f, a, n) = Running(f, a, n)[n]
  BY <1>2, RunningIs
<1> QED BY <1>1, <1>3, <1>4, <1>5, <1>6

(* Counting numbers up to a bound, and elements of a sequence. *)
LEMMA CountMore ==
  ASSUME NEW A, NEW k \in Nat
  PROVE  /\ IsFiniteSet((1 .. k) \cap A) /\ Cardinality((1 .. k) \cap A) \in Nat
         /\ Cardinality((1 .. k + 1) \cap A)
              = Cardinality((1 .. k) \cap A) + IF k + 1 \in A THEN 1 ELSE 0
<1> DEFINE B == (1 .. k) \cap A
           C == (1 .. k + 1) \cap A
<1>1. IsFiniteSet(B) /\ Cardinality(B) \in Nat
  <2>1. IsFiniteSet(1 .. k) /\ B \subseteq 1 .. k
    BY FS_Interval
  <2> HIDE DEF B
  <2> QED BY <2>1, FS_Subset, FS_CardinalityType
<1>2. k + 1 \notin B /\ 1 .. k + 1 = (1 .. k) \cup {k + 1}
  OBVIOUS
<1>3. CASE k + 1 \in A
  <2>1. C = B \cup {k + 1}
    BY <1>2, <1>3
  <2> HIDE DEF B, C
  <2>2. Cardinality(B \cup {k + 1}) = Cardinality(B) + 1
    BY <1>1, <1>2, FS_AddElement
  <2> QED BY <1>1, <1>3, <2>1, <2>2 DEF B, C
<1>4. CASE k + 1 \notin A
  <2>1. C = B
    BY <1>2, <1>4
  <2> HIDE DEF B, C
  <2> QED BY <1>1, <1>4, <2>1 DEF B, C
<1> QED BY <1>1, <1>3, <1>4

Such(s, Q) == Cardinality({k \in DOMAIN s : s[k] \in Q})

LEMMA MoreSuch ==
  ASSUME NEW s \in Seq(Nat), NEW v \in Nat, NEW Q
  PROVE  /\ Such(s, Q) \in Nat
         /\ Such(Append(s, v), Q) = Such(s, Q) + IF v \in Q THEN 1 ELSE 0
<1> DEFINE t == Append(s, v)
           n == Len(s)
           A == {k \in 1 .. n + 1 : t[k] \in Q}
<1>1. /\ n \in Nat /\ DOMAIN s = 1 .. n /\ DOMAIN t = 1 .. n + 1
      /\ t[n + 1] = v /\ \A k \in 1 .. n : t[k] = s[k]
  <2>1. t \in Seq(Nat) /\ Len(t) = n + 1
    BY AppendProperties
  <2> QED BY <2>1, AppendProperties, LenProperties
<1> HIDE DEF t, n
<1>2. {k \in DOMAIN t : t[k] \in Q} = (1 .. n + 1) \cap A
  BY <1>1
<1>3. {k \in DOMAIN s : s[k] \in Q} = (1 .. n) \cap A
  BY <1>1
<1>4. n + 1 \in A <=> v \in Q
  BY <1>1
<1> HIDE DEF A
<1>5. /\ Cardinality((1 .. n) \cap A) \in Nat
      /\ Cardinality((1 .. n + 1) \cap A)
           = Cardinality((1 .. n) \cap A) + IF n + 1 \in A THEN 1 ELSE 0
  BY <1>1, CountMore
<1> QED BY <1>2, <1>3, <1>4, <1>5 DEF Such, t

LEMMA NoSuch ==
  ASSUME NEW Q
  PROVE  Such(<<>>, Q) = 0
<1>1. {k \in DOMAIN <<>> : <<>>[k] \in Q} = {}
  BY EmptySeq
<1> QED BY <1>1, FS_EmptySet DEF Such

(* Sums of sequences. *)
LEMMA SumOfMore ==
  ASSUME NEW S, NEW s \in Seq(S), NEW v \in S
  PROVE  SumOf(<<>>) = 0 /\ SumOf(Append(s, v)) = SumOf(s) + v
<1> DEFINE t == Append(s, v)
           n == Len(s)
<1>1. /\ n \in Nat /\ Len(t) = n + 1 /\ t[1 + n] = v
      /\ \A k \in 1 .. n : t[k] = s[k]
  <2>1. 1 + n = n + 1
    BY LenProperties
  <2> QED BY <2>1, AppendProperties, LenProperties
<1> HIDE DEF t, n
<1>2. Agree(t, s, 1, n)
  <2>1. \A k \in 1 .. n : 1 + k - 1 = k
    BY <1>1
  <2> QED BY <1>1, <2>1 DEF Agree
<1>3. /\ SumFrom(t, 1, n + 1) = SumFrom(s, 1, n) + t[1 + n]
      /\ SumFrom(<<>>, 1, 0) = 0
  <2>1. Agree(<<>>, <<>>, 1, 0)
    BY DEF Agree
  <2> QED BY <1>1, <1>2, <2>1, SumMore
<1>4. Len(<<>>) = 0
  BY EmptySeq
<1> QED BY <1>1, <1>3, <1>4 DEF SumOf, t, n

LEMMA SumAtLeast ==
  ASSUME NEW s \in Seq(Nat), NEW x \in Nat
  PROVE  /\ SumOf(s) \in Nat
         /\ SumOf(s) >= x * Cardinality({k \in DOMAIN s : s[k] >= x})
<1> DEFINE n == Len(s)
           A == {k \in 1 .. n : s[k] >= x}
           r == Running(s, 1, n)
           c(k) == Cardinality((1 .. k) \cap A)
           P == {k \in Nat : r[k] \in Nat /\ r[k] >= x * c(k)}
<1>1. n \in Nat /\ DOMAIN s = 1 .. n /\ \A k \in 1 .. n : s[k] \in Nat
  BY LenProperties, ElementOfSeq
<1>2. SumOf(s) = r[n] /\ r[0] = 0 /\ \A k \in 1 .. n : r[k] = r[k - 1] + s[1 + k - 1]
  <2>1. SumOf(s) = SumFrom(s, 1, n)
    BY Zenon DEF SumOf
  <2>2. n \in Nat
    BY <1>1
  <2> HIDE DEF n
  <2> QED BY <2>1, <2>2, RunningIs
<1>3. {k \in DOMAIN s : s[k] >= x} = (1 .. n) \cap A
  BY <1>1
<1>4. \A k \in 1 .. n : k \in A <=> s[k] >= x
  OBVIOUS
<1> HIDE DEF n, r, A
<1>5. 0 \in P
  <2>1. (1 .. 0) \cap A = {}
    OBVIOUS
  <2>2. c(0) = 0
    BY <2>1, FS_EmptySet
  <2> HIDE DEF c
  <2> QED BY <1>2, <2>2
<1>6. ASSUME NEW k \in 0 .. n, k < n, k \in P PROVE k + 1 \in P
  <2>1. k + 1 \in 1 .. n /\ (k + 1) - 1 = k /\ 1 + (k + 1) - 1 = k + 1 /\ k \in Nat
    BY <1>1, <1>6
  <2>2. r[k + 1] = r[k] + s[k + 1] /\ s[k + 1] \in Nat
    BY <1>1, <1>2, <2>1
  <2>3. c(k) \in Nat /\ c(k + 1) = c(k) + IF k + 1 \in A THEN 1 ELSE 0
    BY <2>1, CountMore
  <2>4. r[k] \in Nat /\ r[k] >= x * c(k)
    BY <1>6
  <2>5. k + 1 \in A <=> s[k + 1] >= x
    BY <1>4, <2>1
  <2> HIDE DEF c
  <2>6. x * (c(k) + 1) = x * c(k) + x /\ x * c(k) \in Nat /\ x * (c(k) + 0) = x * c(k)
    BY <2>3
  <2>7. r[k + 1] >= x * c(k + 1)
    <3>1. CASE k + 1 \in A
      BY <2>2, <2>3, <2>4, <2>5, <2>6, <3>1
    <3>2. CASE k + 1 \notin A
      BY <2>2, <2>3, <2>4, <2>6, <3>2
    <3> QED BY <3>1, <3>2
  <2> QED BY <2>1, <2>2, <2>4, <2>7
<1>7. n \in P
  <2>1. \A k \in 0 .. n : k \in P
    <3> HIDE DEF P
    <3> QED BY <1>1, <1>5, <1>6, InductUpTo
  <2>2. n \in 0 .. n
    BY <1>1
  <2> HIDE DEF P
  <2> QED BY <2>1, <2>2
<1> QED BY <1>2, <1>3, <1>7

(* The powers of two, and the one bucket of each value. *)
LEMMA Pow2Is ==
  /\ Pow2[0] = 1 /\ \A i \in 0 .. MaxBuckets : Pow2[i] \in Nat \ {0}
  /\ \A i, j \in 0 .. MaxBuckets : i <= j => Pow2[i] <= Pow2[j]
<1> DEFINE N == MaxBuckets
           Def(g, n) == g = [i \in 0 .. n |-> IF i = 0 THEN 1 ELSE 2 * g[i - 1]]
           S == {n \in Nat : \E g : Def(g, n)}
<1>0. N \in Nat
  BY MetersAssumption
<1>1. 0 \in S
  <2> DEFINE g == [i \in 0 .. 0 |-> 1]
  <2>1. Def(g, 0)
    OBVIOUS
  <2> QED BY <2>1
<1>2. ASSUME NEW n \in Nat, n \in S PROVE n + 1 \in S
  <2>1. PICK g : Def(g, n)
    BY <1>2
  <2> DEFINE h == [i \in 0 .. n + 1 |-> IF i = n + 1 THEN 2 * g[n] ELSE g[i]]
  <2>2. \A i \in 0 .. n : g[i] = IF i = 0 THEN 1 ELSE 2 * g[i - 1]
    BY <2>1, Zenon
  <2>3. ASSUME NEW i \in 0 .. n + 1
        PROVE  h[i] = IF i = 0 THEN 1 ELSE 2 * h[i - 1]
    <3>1. CASE i = n + 1
      BY <3>1
    <3>2. CASE i \in 0 .. n
      <4>1. h[i] = g[i] /\ (i # 0 => h[i - 1] = g[i - 1])
        BY <3>2
      <4> HIDE DEF h
      <4> QED BY <2>2, <3>2, <4>1
    <3> QED BY <3>1, <3>2
  <2>4. h = [i \in 0 .. n + 1 |-> h[i]]
    OBVIOUS
  <2>5. Def(h, n + 1)
    <3> HIDE DEF h
    <3> QED BY <2>3, <2>4, Zenon
  <2> HIDE DEF h, Def
  <2> QED BY <2>5
<1>3. N \in S
  <2> HIDE DEF S
  <2> QED BY <1>0, <1>1, <1>2, Induct
<1>4. Def(Pow2, N)
  <2>1. \E g : Def(g, N)
    BY <1>3
  <2>2. Pow2 = CHOOSE g : Def(g, N)
    BY Zenon DEF Pow2
  <2> HIDE DEF Def
  <2> QED BY <2>1, <2>2, Zenon
<1>5. \A i \in 0 .. N : Pow2[i] = IF i = 0 THEN 1 ELSE 2 * Pow2[i - 1]
  BY <1>4, Zenon
<1> HIDE DEF N, S
<1> DEFINE P == {n \in Nat : /\ Pow2[n] \in Nat \ {0}
                             /\ \A i \in 0 .. n : Pow2[i] \in Nat /\ Pow2[i] <= Pow2[n]}
<1>6. 0 \in P
  <2>1. Pow2[0] = 1
    BY <1>0, <1>5
  <2> QED BY <2>1
<1>7. ASSUME NEW n \in 0 .. N, n < N, n \in P PROVE n + 1 \in P
  <2>1. n + 1 \in 0 .. N /\ n + 1 # 0 /\ (n + 1) - 1 = n
    BY <1>0, <1>7
  <2>2. Pow2[n + 1] = 2 * Pow2[n] /\ Pow2[n] \in Nat \ {0}
    BY <1>5, <1>7, <2>1
  <2>3. Pow2[n + 1] \in Nat \ {0} /\ Pow2[n] <= Pow2[n + 1]
    BY <2>2
  <2>4. ASSUME NEW i \in 0 .. n + 1 PROVE Pow2[i] \in Nat /\ Pow2[i] <= Pow2[n + 1]
    <3>1. CASE i = n + 1
      BY <2>3, <3>1
    <3>2. CASE i \in 0 .. n
      <4>1. Pow2[i] \in Nat /\ Pow2[i] <= Pow2[n]
        BY <1>7, <3>2
      <4> QED BY <2>2, <2>3, <4>1
    <3> QED BY <3>1, <3>2
  <2> QED BY <2>1, <2>3, <2>4
<1>8. \A n \in 0 .. N : n \in P
  <2> HIDE DEF P
  <2> QED BY <1>0, <1>6, <1>7, InductUpTo
<1>9. \A i, j \in 0 .. N : i <= j => Pow2[i] <= Pow2[j]
  <2> SUFFICES ASSUME NEW i \in 0 .. N, NEW j \in 0 .. N, i <= j PROVE Pow2[i] <= Pow2[j]
    OBVIOUS
  <2>1. j \in P /\ i \in 0 .. j
    BY <1>0, <1>8
  <2> QED BY <2>1
<1>10. Pow2[0] = 1
  BY <1>0, <1>5
<1> QED BY <1>8, <1>9, <1>10 DEF N

Bins == 0 .. MaxBuckets - 1

LEMMA Highest ==
  ASSUME NEW N \in Nat, NEW T \in SUBSET (0 .. N), T # {}
  PROVE  Max(T) \in T /\ \A j \in T : j <= Max(T)
<1> DEFINE U == {N - j : j \in T}
<1>1. U \in SUBSET Nat /\ U # {}
  OBVIOUS
<1>2. PICK m \in U : \A k \in U : m <= k
  <2> HIDE DEF U
  <2> QED BY <1>1, Least
<1>3. PICK top \in T : m = N - top
  OBVIOUS
<1>4. ASSUME NEW j \in T PROVE top >= j
  <2>1. m <= N - j
    BY <1>2
  <2> QED BY <1>3, <2>1
<1>5. \E x \in T : \A y \in T : x >= y
  BY <1>4
<1>6. Max(T) \in T /\ \A j \in T : Max(T) >= j
  BY <1>5, Zenon DEF Max
<1>7. \A j \in T : j \in Int
  OBVIOUS
<1> QED BY <1>6, <1>7

(* A value is in a bucket up to a bound when it is below the bound. *)
LEMMA BucketIndexIs ==
  ASSUME NEW v \in Nat
  PROVE  /\ BucketIndex(v) \in Bins
         /\ \A i \in 0 .. MaxBuckets - 2 : BucketIndex(v) <= i <=> v < Pow2[i]
<1> DEFINE N == MaxBuckets
           T == {i \in 0 .. N - 1 : Pow2[i] <= v}
           h == HighBit(v)
           b == BucketIndex(v)
<1>1. N \in Nat \ {0, 1} /\ Pow2[0] = 1 /\ \A i \in 0 .. N : Pow2[i] \in Nat \ {0}
  BY MetersAssumption, Pow2Is
<1>2. CASE v = 0
  <2>1. b = 0
    BY <1>2 DEF BucketIndex
  <2>2. ASSUME NEW i \in 0 .. N - 2 PROVE v < Pow2[i]
    <3>1. i \in 0 .. N
      BY <1>1
    <3>2. Pow2[i] \in Nat \ {0}
      BY <1>1, <3>1
    <3> QED BY <1>2, <3>2
  <2> HIDE DEF b, N
  <2> QED BY <1>1, <2>1, <2>2 DEF b, N, Bins
<1>3. CASE v # 0
  <2>1. 0 \in T /\ T \in SUBSET (0 .. N - 1) /\ N - 1 \in Nat
    BY <1>1, <1>3
  <2>2. h = Max(T)
    BY DEF HighBit
  <2>3. h \in T /\ \A j \in T : j <= h
    <3> HIDE DEF T, h
    <3> QED BY <2>1, <2>2, Highest
  <2>4. h \in 0 .. N - 1 /\ Pow2[h] <= v
    BY <2>3
  <2>5. b = IF h >= N - 1 THEN N - 1 ELSE h + 1
    BY <1>3 DEF BucketIndex
  <2> HIDE DEF h, b, N
  <2>6. b \in 0 .. N - 1
    BY <1>1, <2>4, <2>5
  <2>7. ASSUME NEW i \in 0 .. N - 2 PROVE b <= i <=> v < Pow2[i]
    <3>1. b <= i <=> h < i
      BY <1>1, <2>4, <2>5
    <3>2. i \in 0 .. N - 1 /\ i \in 0 .. N /\ h \in 0 .. N
      BY <1>1, <2>4
    <3>3. Pow2[i] \in Nat /\ Pow2[h] \in Nat
      BY <1>1, <3>2
    <3>4. ASSUME h < i PROVE v < Pow2[i]
      <4>1. i \notin T
        BY <2>3, <2>4, <3>2, <3>4
      <4> QED BY <3>2, <3>3, <4>1
    <3>5. ASSUME ~ (h < i) PROVE ~ (v < Pow2[i])
      <4>1. Pow2[i] <= Pow2[h]
        BY <2>4, <3>2, <3>5, Pow2Is DEF N
      <4> QED BY <2>4, <3>3, <4>1
    <3> QED BY <3>1, <3>4, <3>5
  <2> QED BY <2>6, <2>7 DEF b, N, Bins
<1> QED BY <1>2, <1>3

(* What is below a bound: one more in a bucket is one more below each      *)
(* bound from there on.                                                    *)
LEMMA BinSum ==
  ASSUME NEW cells \in [Bins -> Nat]
  PROVE  /\ SumFrom(cells, 0, 0) = 0
         /\ \A k \in Bins : SumFrom(cells, 0, k + 1) = SumFrom(cells, 0, k) + cells[k]
         /\ \A k \in 0 .. MaxBuckets : SumFrom(cells, 0, k) \in Nat
<1> DEFINE N == MaxBuckets
           S == {k \in Nat : SumFrom(cells, 0, k) \in Nat}
<1>0. N \in Nat /\ Bins = 0 .. N - 1
  BY MetersAssumption DEF Bins
<1>1. SumFrom(cells, 0, 0) = 0
  BY SumMore DEF Agree
<1>2. ASSUME NEW k \in Bins
      PROVE  SumFrom(cells, 0, k + 1) = SumFrom(cells, 0, k) + cells[k]
  <2>1. k \in Nat /\ Agree(cells, cells, 0, k) /\ 0 + k = k
    BY <1>0 DEF Agree
  <2>2. SumFrom(cells, 0, k + 1) = SumFrom(cells, 0, k) + cells[0 + k]
    BY <2>1, SumMore
  <2> QED BY <2>1, <2>2
<1> HIDE DEF N
<1>3. 0 \in S
  BY <1>1
<1>4. ASSUME NEW k \in 0 .. N, k < N, k \in S PROVE k + 1 \in S
  <2>1. k \in Bins /\ k + 1 \in Nat
    BY <1>0, <1>4
  <2>2. cells[k] \in Nat
    BY <2>1
  <2> QED BY <1>2, <1>4, <2>1, <2>2
<1>5. \A k \in 0 .. N : k \in S
  <2> HIDE DEF S
  <2> QED BY <1>0, <1>3, <1>4, InductUpTo
<1> QED BY <1>1, <1>2, <1>5 DEF N

LEMMA BinMore ==
  ASSUME NEW cells \in [Bins -> Nat], NEW b \in Bins
  PROVE  LET more == [cells EXCEPT ![b] = @ + 1]
         IN  /\ more \in [Bins -> Nat]
             /\ \A i \in Bins : SumBelow(cells, i) \in Nat
             /\ \A i \in Bins :
                  SumBelow(more, i) = SumBelow(cells, i) + IF b <= i THEN 1 ELSE 0
<1> DEFINE N == MaxBuckets
           more == [cells EXCEPT ![b] = @ + 1]
           S == {k \in Nat : SumFrom(more, 0, k)
                               = SumFrom(cells, 0, k) + IF b < k THEN 1 ELSE 0}
<1>0. N \in Nat /\ Bins = 0 .. N - 1
  BY MetersAssumption DEF Bins
<1>1. /\ more \in [Bins -> Nat]
      /\ \A i \in Bins : more[i] = IF i = b THEN cells[i] + 1 ELSE cells[i]
  OBVIOUS
<1> HIDE DEF more, N
<1>2. 0 \in S
  <2>1. SumFrom(more, 0, 0) = 0 /\ SumFrom(cells, 0, 0) = 0
    BY <1>1, BinSum
  <2> QED BY <1>0, <2>1
<1>3. ASSUME NEW k \in 0 .. N, k < N, k \in S PROVE k + 1 \in S
  <2>1. k \in Bins /\ k + 1 \in Nat /\ b \in Int
    BY <1>0, <1>3
  <2>2. /\ SumFrom(more, 0, k + 1) = SumFrom(more, 0, k) + more[k]
        /\ SumFrom(cells, 0, k + 1) = SumFrom(cells, 0, k) + cells[k]
        /\ SumFrom(cells, 0, k) \in Nat /\ cells[k] \in Nat
    BY <1>0, <1>1, <2>1, BinSum DEF N
  <2>3. SumFrom(more, 0, k) = SumFrom(cells, 0, k) + IF b < k THEN 1 ELSE 0
    BY <1>3
  <2>4. more[k] = IF k = b THEN cells[k] + 1 ELSE cells[k]
    BY <1>1, <2>1
  <2>5. CASE b < k
    BY <2>1, <2>2, <2>3, <2>4, <2>5
  <2>6. CASE b = k
    BY <2>1, <2>2, <2>3, <2>4, <2>6
  <2>7. CASE b > k
    BY <2>1, <2>2, <2>3, <2>4, <2>7
  <2> QED BY <2>1, <2>5, <2>6, <2>7
<1>4. \A k \in 0 .. N : k \in S
  <2> HIDE DEF S
  <2> QED BY <1>0, <1>2, <1>3, InductUpTo
<1>5. ASSUME NEW i \in Bins
      PROVE  /\ SumBelow(cells, i) \in Nat
             /\ SumBelow(more, i) = SumBelow(cells, i) + IF b <= i THEN 1 ELSE 0
  <2>1. i + 1 \in 0 .. N /\ i \in Int /\ b \in Int
    BY <1>0
  <2>2. SumFrom(cells, 0, i + 1) \in Nat
    BY <2>1, BinSum DEF N
  <2>3. SumFrom(more, 0, i + 1) = SumFrom(cells, 0, i + 1) + IF b < i + 1 THEN 1 ELSE 0
    BY <1>4, <2>1
  <2>4. b < i + 1 <=> b <= i
    BY <2>1
  <2> QED BY <2>2, <2>3, <2>4 DEF SumBelow
<1> QED BY <1>1, <1>5 DEF more

LEMMA EmptyBins ==
  /\ Empty.buckets \in [Bins -> Nat] /\ Empty.count = 0 /\ Empty.sum = 0
  /\ \A i \in Bins : SumBelow(Empty.buckets, i) = 0
<1> DEFINE N == MaxBuckets
           none == Empty.buckets
           S == {k \in Nat : SumFrom(none, 0, k) = 0}
<1>0. N \in Nat /\ Bins = 0 .. N - 1
  BY MetersAssumption DEF Bins
<1>1. /\ none \in [Bins -> Nat] /\ Empty.count = 0 /\ Empty.sum = 0
      /\ \A k \in Bins : none[k] = 0
  BY DEF Empty, Bins
<1> HIDE DEF none, N
<1>2. 0 \in S
  BY <1>1, BinSum
<1>3. ASSUME NEW k \in 0 .. N, k < N, k \in S PROVE k + 1 \in S
  <2>1. k \in Bins /\ k + 1 \in Nat
    BY <1>0, <1>3
  <2>2. SumFrom(none, 0, k + 1) = SumFrom(none, 0, k) + none[k]
    BY <1>1, <2>1, BinSum
  <2> QED BY <1>1, <1>3, <2>1, <2>2
<1>4. \A k \in 0 .. N : k \in S
  <2> HIDE DEF S
  <2> QED BY <1>0, <1>2, <1>3, InductUpTo
<1>5. ASSUME NEW i \in Bins PROVE SumBelow(none, i) = 0
  <2>1. i + 1 \in 0 .. N
    BY <1>0
  <2> QED BY <1>4, <2>1 DEF SumBelow
<1> QED BY <1>1, <1>5 DEF none

(* The first elements of a sequence stay when it grows. *)
LEMMA PrefixKept ==
  ASSUME NEW S, NEW s \in Seq(S), NEW v \in S, NEW k \in 0 .. Len(s)
  PROVE  SubSeq(Append(s, v), 1, k) = SubSeq(s, 1, k)
<1> DEFINE t == Append(s, v)
           n == Len(s)
           a == SubSeq(t, 1, k)
           c == SubSeq(s, 1, k)
<1>1. n \in Nat /\ t \in Seq(S) /\ Len(t) = n + 1 /\ \A i \in 1 .. n : t[i] = s[i]
  BY AppendProperties, LenProperties
<1> HIDE DEF t, n
<1>2. k \in Nat /\ k <= n /\ 1 \in 1 .. n + 1 /\ (k = 0 \/ k \in 1 .. n)
  BY <1>1 DEF n
<1>3. a \in Seq(S) /\ Len(a) = k /\ \A i \in 1 .. k : a[i] = t[i]
  <2>1. \A i \in 1 .. k : 1 + i - 1 = i
    OBVIOUS
  <2>2. k \in 1 - 1 .. Len(t)
    BY <1>1, <1>2
  <2> QED BY SMTT(30), <1>1, <1>2, <2>1, <2>2, SubSeqProperties
<1>4. c \in Seq(S) /\ Len(c) = k /\ \A i \in 1 .. k : c[i] = s[i]
  <2>1. \A i \in 1 .. k : 1 + i - 1 = i
    OBVIOUS
  <2>2. k \in 1 - 1 .. Len(s) /\ 1 \in 1 .. Len(s) + 1
    BY <1>1, <1>2 DEF n
  <2> QED BY SMTT(30), <1>2, <2>1, <2>2, SubSeqProperties
<1> HIDE DEF a, c
<1>5. \A i \in 1 .. k : a[i] = c[i]
  BY <1>1, <1>2, <1>3, <1>4
<1>6. a = c
  <2>1. Len(a) = Len(c) /\ \A i \in 1 .. Len(a) : a[i] = c[i]
    BY <1>3, <1>4, <1>5
  <2> QED BY <1>3, <1>4, <2>1, SeqEqual
<1> QED BY <1>6 DEF a, c, t

(* The ring holds the latest: one more drops the oldest of a full ring. *)
Latest(s) == SubSeq(s, Max({1, Len(s) - RingSize + 1}), Len(s))

LEMMA LatestIs ==
  ASSUME NEW s \in Seq(Nat)
  PROVE  \E d \in Nat :
            /\ d = IF Len(s) > RingSize THEN Len(s) - RingSize ELSE 0
            /\ Latest(s) \in Seq(Nat) /\ Len(Latest(s)) = Len(s) - d
            /\ \A i \in 1 .. Len(s) - d : Latest(s)[i] = s[d + i]
<1> DEFINE n == Len(s)
           d == IF n > RingSize THEN n - RingSize ELSE 0
<1>1. n \in Nat /\ RingSize \in Nat \ {0} /\ \A i \in 1 .. n : s[i] \in Nat
  BY LenProperties, ElementOfSeq, MetersAssumption
<1> HIDE DEF n
<1>2. d \in Nat /\ d <= n /\ d = IF n > RingSize THEN n - RingSize ELSE 0
  BY <1>1
<1>3. Max({1, n - RingSize + 1}) = d + 1
  BY <1>1 DEF Max
<1> HIDE DEF d
<1> DEFINE u == SubSeq(s, d + 1, n)
<1>4. \A i \in d + 1 .. n : s[i] \in Nat
  BY <1>1, <1>2
<1>5. /\ u \in Seq(Nat) /\ Len(u) = IF d + 1 <= n THEN n - (d + 1) + 1 ELSE 0
      /\ \A i \in 1 .. n - (d + 1) + 1 : u[i] = s[d + 1 + i - 1]
  <2>1. d + 1 \in Int /\ n \in Int
    BY <1>1, <1>2
  <2> QED BY <1>4, <2>1, SubSeqProperties
<1>6. Latest(s) = u
  BY <1>3 DEF Latest, n
<1> HIDE DEF u
<1>7. Len(u) = n - d /\ n - (d + 1) + 1 = n - d /\ \A i \in 1 .. n - d : d + 1 + i - 1 = d + i
  BY <1>1, <1>2, <1>5
<1>8. \A i \in 1 .. n - d : u[i] = s[d + i]
  BY <1>5, <1>7
<1> QED BY <1>2, <1>5, <1>6, <1>7, <1>8 DEF n

LEMMA PushedLatest ==
  ASSUME NEW s \in Seq(Nat), NEW v \in Nat
  PROVE  Pushed(Latest(s), v) = Latest(Append(s, v))
<1> DEFINE t == Append(s, v)
           n == Len(s)
           R == RingSize
           a == Latest(s)
           p == Pushed(a, v)
           q == Latest(t)
<1>1. /\ t \in Seq(Nat) /\ Len(t) = n + 1 /\ t[n + 1] = v /\ n \in Nat
      /\ \A i \in 1 .. n : t[i] = s[i]
  BY AppendProperties, LenProperties
<1>2. R \in Nat \ {0}
  BY MetersAssumption
<1> HIDE DEF t
<1>3. PICK d \in Nat :
         /\ d = IF n > R THEN n - R ELSE 0
         /\ a \in Seq(Nat) /\ Len(a) = n - d
         /\ \A i \in 1 .. n - d : a[i] = s[d + i]
  BY LatestIs
<1>4. PICK e \in Nat :
         /\ e = IF Len(t) > R THEN Len(t) - R ELSE 0
         /\ q \in Seq(Nat) /\ Len(q) = Len(t) - e
         /\ \A i \in 1 .. Len(t) - e : q[i] = t[e + i]
  <2> HIDE DEF q, R, n
  <2> QED BY <1>1, LatestIs DEF q, R
<1>5. p = IF Len(a) < R THEN Append(a, v) ELSE Append(Tail(a), v)
  BY DEF Pushed
<1> HIDE DEF a, q, n, R, p
<1>6. CASE n < R
  <2>1. d = 0 /\ e = 0 /\ Len(a) = n
    BY <1>1, <1>2, <1>3, <1>4, <1>6
  <2>2. p = Append(a, v)
    BY <1>5, <1>6, <2>1
  <2>3. p \in Seq(Nat) /\ Len(p) = n + 1 /\ p[n + 1] = v /\ \A i \in 1 .. n : p[i] = a[i]
    BY <1>3, <2>1, <2>2, AppendProperties
  <2>4. \A i \in 1 .. n : a[i] = s[i]
    <3>1. \A i \in 1 .. n : i \in 1 .. n - d /\ d + i = i
      BY <1>1, <2>1
    <3> QED BY <1>3, <3>1
  <2>5. Len(q) = n + 1 /\ \A i \in 1 .. n + 1 : q[i] = t[i]
    <3>1. Len(t) - e = n + 1 /\ \A i \in 1 .. n + 1 : e + i = i
      BY <1>1, <2>1
    <3> QED BY <1>4, <3>1
  <2>6. ASSUME NEW i \in 1 .. n + 1 PROVE p[i] = q[i]
    <3>1. CASE i = n + 1
      BY <1>1, <2>3, <2>5, <3>1
    <3>2. CASE i \in 1 .. n
      BY <1>1, <2>3, <2>4, <2>5, <3>2
    <3> QED BY <1>1, <3>1, <3>2
  <2>7. p = q
    BY <1>4, <2>3, <2>5, <2>6, SeqEqual
  <2> QED BY <2>7 DEF a, p, q, t
<1>7. CASE ~ (n < R)
  <2>1. d = n - R /\ e = d + 1 /\ Len(a) = R
    BY <1>1, <1>2, <1>3, <1>4, <1>7
  <2> DEFINE w == Tail(a)
  <2>2. p = Append(w, v)
    BY <1>2, <1>5, <2>1
  <2>3. w \in Seq(Nat) /\ Len(w) = R - 1 /\ \A i \in 1 .. R - 1 : w[i] = a[i + 1]
    <3>1. a # <<>>
      BY <1>2, <2>1, EmptySeq
    <3> QED BY <1>3, <2>1, <3>1, HeadTailProperties
  <2> HIDE DEF w
  <2>4. p \in Seq(Nat) /\ Len(p) = R /\ p[R] = v /\ \A i \in 1 .. R - 1 : p[i] = w[i]
    <3>1. Len(w) + 1 = R
      BY <1>2, <2>3
    <3> QED BY <2>2, <2>3, <3>1, AppendProperties
  <2>5. Len(q) = R /\ \A i \in 1 .. R : q[i] = t[e + i]
    <3> DEFINE m == Len(t) - e
    <3>1. Len(q) = m /\ \A i \in 1 .. m : q[i] = t[e + i]
      BY <1>4
    <3>2. m = R
      BY <1>1, <1>2, <2>1
    <3> HIDE DEF m
    <3> QED BY <3>1, <3>2
  <2>6. ASSUME NEW i \in 1 .. R PROVE p[i] = q[i]
    <3>1. CASE i = R
      <4>1. e + R = n + 1
        BY <1>1, <1>2, <2>1
      <4> QED BY <1>1, <2>4, <2>5, <3>1, <4>1
    <3>2. CASE i # R
      <4>1. i \in 1 .. R - 1 /\ i + 1 \in 1 .. n - d /\ d + (i + 1) = e + i /\ e + i \in 1 .. n
        BY <1>1, <1>2, <1>3, <2>1, <3>2
      <4>2. p[i] = a[i + 1] /\ a[i + 1] = s[d + (i + 1)] /\ t[e + i] = s[e + i]
        BY <1>1, <1>3, <2>3, <2>4, <4>1
      <4> QED BY <2>5, <4>1, <4>2
    <3> QED BY <3>1, <3>2
  <2>7. p = q
    BY <1>4, <2>4, <2>5, <2>6, SeqEqual
  <2> QED BY <2>7 DEF a, p, q, t
<1> QED BY <1>6, <1>7

(* What a reader has of the histogram is of observations it has counted or *)
(* will, and what it publishes is behind them; what is in the histogram is *)
(* all of them.                                                            *)
Readings == [count : Nat, sum : Nat, buckets : [Bins -> Nat]]
UpToBin(i) == {v \in Nat : BucketIndex(v) <= i}

OfFirst(total, s, n) == \E k \in 0 .. n : total = SumOf(SubSeq(s, 1, k))

Counted(h, s) ==
    /\ h \in Readings /\ h.count = Len(s) /\ h.sum = SumOf(s)
    /\ \A i \in Bins : SumBelow(h.buckets, i) = Such(s, UpToBin(i))

CountRead(h, s) == h.count \in 0 .. Len(s) /\ OfFirst(h.sum, s, h.count)
AllRead(h, s) == CountRead(h, s) /\ h.count <= SumBelow(h.buckets, MaxBuckets - 1)

ReadSoFar(t, s) ==
    /\ t.at = "count" => OfFirst(t.told.sum, s, Len(s))
    /\ t.at = "buckets" => CountRead(t.told, s)
    /\ t.at = "publish" => AllRead(t.told, s)

Recorder == [at : {"idle", "sum", "count", "buckets", "publish", "push"},
             value : Nat, told : Readings]

MetersInv ==
    /\ observed \in Seq(Nat) /\ Counted(hist, observed)
    /\ thread \in [Recorders -> Recorder]
    /\ \A r \in Recorders : ReadSoFar(thread[r], observed)
    /\ published \in Readings /\ AllRead(published, observed)
    /\ taken \in Seq(Nat) /\ ring.samples = Latest(taken) /\ ring.total = Len(taken)

LEMMA OfFirstKept ==
  ASSUME NEW s \in Seq(Nat), NEW v \in Nat, NEW total, NEW n \in 0 .. Len(s),
         OfFirst(total, s, n)
  PROVE  OfFirst(total, Append(s, v), n)
<1>0. Len(s) \in Nat
  BY LenProperties
<1>1. PICK k \in 0 .. n : total = SumOf(SubSeq(s, 1, k))
  BY DEF OfFirst
<1>2. k \in 0 .. Len(s)
  BY <1>0
<1>3. SubSeq(Append(s, v), 1, k) = SubSeq(s, 1, k)
  BY <1>2, PrefixKept
<1> QED BY <1>1, <1>3, Zenon DEF OfFirst

LEMMA ReadingsKept ==
  ASSUME NEW s \in Seq(Nat), NEW v \in Nat
  PROVE  /\ \A t : ReadSoFar(t, s) => ReadSoFar(t, Append(s, v))
         /\ \A h : AllRead(h, s) => AllRead(h, Append(s, v))
<1> DEFINE u == Append(s, v)
<1>1. Len(s) \in Nat /\ Len(u) = Len(s) + 1
  BY LenProperties, AppendProperties
<1>2. ASSUME NEW total, OfFirst(total, s, Len(s)) PROVE OfFirst(total, u, Len(u))
  <2>1. Len(s) \in 0 .. Len(s)
    BY <1>1
  <2>2. OfFirst(total, u, Len(s))
    BY <1>2, <2>1, OfFirstKept
  <2> HIDE DEF u
  <2>3. PICK k \in 0 .. Len(s) : total = SumOf(SubSeq(u, 1, k))
    BY <2>2 DEF OfFirst
  <2>4. k \in 0 .. Len(u)
    BY <1>1
  <2> QED BY <2>3, <2>4 DEF OfFirst
<1>3. ASSUME NEW h, CountRead(h, s) PROVE CountRead(h, u)
  <2>1. h.count \in 0 .. Len(s) /\ OfFirst(h.sum, s, h.count)
    BY <1>3 DEF CountRead
  <2>2. OfFirst(h.sum, u, h.count)
    BY <2>1, OfFirstKept
  <2>3. h.count \in 0 .. Len(u)
    BY <1>1, <2>1
  <2> QED BY <2>2, <2>3 DEF CountRead
<1>4. ASSUME NEW h, AllRead(h, s) PROVE AllRead(h, u)
  BY <1>3, <1>4 DEF AllRead
<1>5. ASSUME NEW t, ReadSoFar(t, s) PROVE ReadSoFar(t, u)
  BY <1>2, <1>3, <1>4, <1>5 DEF ReadSoFar
<1> QED BY <1>4, <1>5

(* The histogram after an observation. *)
LEMMA ObserveCounts ==
  ASSUME NEW h, NEW s \in Seq(Nat), NEW v \in Nat, Counted(h, s)
  PROVE  Counted([h EXCEPT !.count = @ + 1, !.sum = @ + v,
                           !.buckets[BucketIndex(v)] = @ + 1], Append(s, v))
<1> DEFINE b == BucketIndex(v)
           more == [h.buckets EXCEPT ![b] = @ + 1]
           g == [h EXCEPT !.count = @ + 1, !.sum = @ + v, !.buckets[BucketIndex(v)] = @ + 1]
           t == Append(s, v)
<1>1. /\ h \in Readings /\ h.count = Len(s) /\ h.sum = SumOf(s)
      /\ \A i \in Bins : SumBelow(h.buckets, i) = Such(s, UpToBin(i))
  BY DEF Counted
<1>2. b \in Bins
  BY BucketIndexIs
<1>3. g.count = h.count + 1 /\ g.sum = h.sum + v /\ g.buckets = more /\ g = [count |-> g.count, sum |-> g.sum, buckets |-> g.buckets]
  <2> HIDE DEF b
  <2>1. g = [[[h EXCEPT !.count = h.count + 1] EXCEPT !.sum = h.sum + v] EXCEPT !.buckets = more]
    BY <1>1 DEF Readings, b
  <2> HIDE DEF g, more
  <2> QED BY <1>1, <2>1 DEF Readings
<1> HIDE DEF g, b
<1>4. /\ more \in [Bins -> Nat]
      /\ \A i \in Bins : SumBelow(more, i) = SumBelow(h.buckets, i) + IF b <= i THEN 1 ELSE 0
  <2>1. h.buckets \in [Bins -> Nat]
    BY <1>1 DEF Readings
  <2> QED BY <1>2, <2>1, BinMore
<1> HIDE DEF more
<1>5. t \in Seq(Nat) /\ Len(t) = Len(s) + 1 /\ SumOf(t) = SumOf(s) + v
  BY AppendProperties, SumOfMore
<1>6. ASSUME NEW i \in Bins PROVE SumBelow(g.buckets, i) = Such(t, UpToBin(i))
  <2>1. v \in UpToBin(i) <=> b <= i
    BY DEF UpToBin, b
  <2>2. Such(t, UpToBin(i)) = Such(s, UpToBin(i)) + IF v \in UpToBin(i) THEN 1 ELSE 0
    BY MoreSuch
  <2> QED BY <1>1, <1>3, <1>4, <2>1, <2>2
<1>7. g \in Readings
  BY <1>1, <1>3, <1>4 DEF Readings
<1> HIDE DEF t
<1> QED BY <1>1, <1>3, <1>5, <1>6, <1>7 DEF Counted, g, t, b

(* Every observation is in a bucket. *)
LEMMA AllBinned ==
  ASSUME NEW h, NEW s \in Seq(Nat), Counted(h, s)
  PROVE  SumBelow(h.buckets, MaxBuckets - 1) = Len(s)
<1> DEFINE n == Len(s)
           top == MaxBuckets - 1
<1>1. n \in Nat /\ DOMAIN s = 1 .. n /\ \A k \in 1 .. n : s[k] \in Nat
  BY LenProperties, ElementOfSeq
<1>2. top \in Bins /\ \A b \in Bins : b <= top
  BY MetersAssumption DEF Bins
<1> HIDE DEF n, top
<1>3. \A v \in Nat : v \in UpToBin(top)
  <2> SUFFICES ASSUME NEW v \in Nat PROVE v \in UpToBin(top)
    OBVIOUS
  <2>1. BucketIndex(v) \in Bins
    BY BucketIndexIs
  <2> QED BY <1>2, <2>1 DEF UpToBin
<1>4. {k \in DOMAIN s : s[k] \in UpToBin(top)} = 1 .. n
  BY <1>1, <1>3
<1>5. Cardinality(1 .. n) = n
  BY <1>1, FS_Interval
<1>6. SumBelow(h.buckets, top) = Such(s, UpToBin(top))
  BY <1>2 DEF Counted
<1> QED BY <1>4, <1>5, <1>6 DEF Such, n, top

LEMMA NothingRead ==
  /\ Empty \in Readings /\ Counted(Empty, <<>>) /\ AllRead(Empty, <<>>)
  /\ Idle \in Recorder /\ \A s : ReadSoFar(Idle, s)
  /\ <<>> \in Seq(Nat) /\ Len(<<>>) = 0 /\ Latest(<<>>) = <<>>
<1>1. /\ Empty.buckets \in [Bins -> Nat] /\ Empty.count = 0 /\ Empty.sum = 0
      /\ \A i \in Bins : SumBelow(Empty.buckets, i) = 0
  BY EmptyBins
<1>2. Empty \in Readings
  <2>1. Empty = [count |-> 0, sum |-> 0, buckets |-> Empty.buckets]
    BY DEF Empty
  <2> QED BY <1>1, <2>1 DEF Readings
<1>3. <<>> \in Seq(Nat) /\ Len(<<>>) = 0 /\ SumOf(<<>>) = 0
  <2>1. <<>> \in Seq(Nat) /\ Len(<<>>) = 0
    BY EmptySeq
  <2>2. 0 \in Nat
    OBVIOUS
  <2> QED BY <2>1, <2>2, SumOfMore
<1>4. \A i : Such(<<>>, UpToBin(i)) = 0
  BY NoSuch
<1>5. Counted(Empty, <<>>)
  BY <1>1, <1>2, <1>3, <1>4 DEF Counted
<1>6. AllRead(Empty, <<>>)
  <2>1. SubSeq(<<>>, 1, 0) = <<>>
    BY SubSeqEmpty
  <2>2. OfFirst(0, <<>>, 0)
    <3>1. 0 \in 0 .. 0
      OBVIOUS
    <3> QED BY <1>3, <2>1, <3>1 DEF OfFirst
  <2>3. MaxBuckets - 1 \in Bins
    BY MetersAssumption DEF Bins
  <2>4. SumBelow(Empty.buckets, MaxBuckets - 1) = 0
    BY <1>1, <2>3
  <2> QED BY <1>1, <1>3, <2>2, <2>4 DEF AllRead, CountRead
<1>7. Idle \in Recorder /\ \A s : ReadSoFar(Idle, s)
  BY <1>2 DEF Idle, Recorder, ReadSoFar
<1>8. Latest(<<>>) = <<>>
  <2>1. PICK d \in Nat : Latest(<<>>) \in Seq(Nat) /\ Len(Latest(<<>>)) = 0 - d
    <3> HIDE DEF Latest
    <3> QED BY <1>3, LatestIs
  <2>2. Len(Latest(<<>>)) = 0
    BY <2>1, LenProperties
  <2> QED BY <2>1, <2>2, EmptySeq
<1> QED BY <1>2, <1>3, <1>5, <1>6, <1>7, <1>8

LEMMA MetersStep == MetersInv /\ [Next]_vars => MetersInv'
<1> SUFFICES ASSUME MetersInv, [Next]_vars PROVE MetersInv'
  OBVIOUS
<1>0. /\ observed \in Seq(Nat) /\ Counted(hist, observed)
      /\ thread \in [Recorders -> Recorder]
      /\ \A r \in Recorders : ReadSoFar(thread[r], observed)
      /\ published \in Readings /\ AllRead(published, observed)
      /\ taken \in Seq(Nat) /\ ring.samples = Latest(taken) /\ ring.total = Len(taken)
  BY DEF MetersInv
<1>1. CASE UNCHANGED <<histVars, thread, ringVars>>
  BY <1>1 DEF MetersInv, histVars, ringVars, Counted, AllRead, CountRead, OfFirst, ReadSoFar,
              Such, UpToBin, Latest
<1>2. CASE MetersEnd
  <2>1. /\ hist' = Empty /\ published' = Empty /\ observed' = <<>>
        /\ thread' = [r \in Recorders |-> Idle] /\ taken' = <<>>
        /\ ring' = [samples |-> <<>>, total |-> 0]
    BY <1>2 DEF MetersEnd
  <2> QED BY <2>1, NothingRead DEF MetersInv
<1>3. ASSUME NEW r \in Recorders, NEW v \in Nat, Observe(r),
             hist' = [hist EXCEPT !.count = @ + 1, !.sum = @ + v,
                                  !.buckets[BucketIndex(v)] = @ + 1],
             observed' = Append(observed, v),
             thread' = [thread EXCEPT ![r] = [at |-> "sum", value |-> v, told |-> Empty]],
             UNCHANGED <<published, ringVars>>
      PROVE  MetersInv'
  <2>1. observed' \in Seq(Nat) /\ Counted(hist', observed')
    <3>1. Counted([hist EXCEPT !.count = @ + 1, !.sum = @ + v,
                               !.buckets[BucketIndex(v)] = @ + 1], Append(observed, v))
      BY <1>0, ObserveCounts, Zenon
    <3>2. Append(observed, v) \in Seq(Nat)
      BY <1>0, AppendProperties
    <3> QED BY <1>3, <3>1, <3>2, Zenon
  <2>2. /\ \A t : ReadSoFar(t, observed) => ReadSoFar(t, observed')
        /\ AllRead(published', observed')
    BY <1>0, <1>3, ReadingsKept
  <2>3. thread' \in [Recorders -> Recorder]
    BY <1>0, <1>3, NothingRead DEF Recorder
  <2>4. ASSUME NEW q \in Recorders PROVE ReadSoFar(thread'[q], observed')
    <3>1. CASE q = r
      <4>1. thread'[q].at = "sum"
        BY <1>0, <1>3, <3>1
      <4> QED BY <4>1 DEF ReadSoFar
    <3>2. CASE q # r
      BY <1>0, <1>3, <2>2, <3>2
    <3> QED BY <3>1, <3>2
  <2> QED BY <1>0, <1>3, <2>1, <2>2, <2>3, <2>4 DEF MetersInv, ringVars
<1>4. ASSUME NEW r \in Recorders, NEW from, NEW to, NEW v, NEW told, Step(r, from, to, v, told),
             [at |-> to, value |-> v, told |-> told] \in Recorder,
             ReadSoFar([at |-> to, value |-> v, told |-> told], observed),
             UNCHANGED <<hist, observed>>,
             published' \in Readings /\ AllRead(published', observed),
             taken' \in Seq(Nat) /\ ring'.samples = Latest(taken') /\ ring'.total = Len(taken')
      PROVE  MetersInv'
  <2>1. thread' = [thread EXCEPT ![r] = [at |-> to, value |-> v, told |-> told]]
    BY <1>4 DEF Step
  <2>2. thread' \in [Recorders -> Recorder]
    BY <1>0, <1>4, <2>1
  <2>3. \A q \in Recorders : ReadSoFar(thread'[q], observed)
    BY <1>0, <1>4, <2>1
  <2>4. Counted(hist, observed) /\ observed \in Seq(Nat)
    BY <1>0
  <2> QED BY <1>4, <2>2, <2>3, <2>4 DEF MetersInv
<1>5. CASE Record
  <2>1. PICK r \in Recorders :
           \/ Observe(r) \/ ReadSum(r) \/ ReadCount(r) \/ ReadBuckets(r)
           \/ Publish(r) \/ StoreLatest(r) \/ PushSample(r)
    BY <1>5 DEF Record
  <2> DEFINE t == thread[r]
  <2>2. t \in Recorder /\ ReadSoFar(t, observed)
    BY <1>0
  <2>3. t.told \in Readings /\ t.value \in Nat
    BY <2>2 DEF Recorder
  <2>4. hist \in Readings /\ hist.count = Len(observed) /\ hist.sum = SumOf(observed)
    BY <1>0 DEF Counted
  <2>5. Len(observed) \in Nat
    BY <1>0, LenProperties
  <2>6. CASE Observe(r)
    <3>1. PICK v \in Values :
             /\ Step(r, "idle", "sum", v, Empty)
             /\ hist' = [hist EXCEPT !.count = @ + 1, !.sum = @ + v,
                                     !.buckets[BucketIndex(v)] = @ + 1]
             /\ observed' = Append(observed, v)
             /\ UNCHANGED <<published, ringVars>>
      BY <2>6 DEF Observe
    <3>2. v \in Nat
      BY MetersAssumption
    <3> QED BY <1>3, <2>6, <3>1, <3>2, Zenon DEF Step
  <2>7. CASE ReadSum(r)
    <3> DEFINE told == [t.told EXCEPT !.sum = hist.sum]
    <3>1. Step(r, "sum", "count", t.value, told) /\ UNCHANGED <<histVars, ringVars>>
      BY <2>7 DEF ReadSum
    <3>2. told \in Readings /\ told.sum = SumOf(observed)
      BY <2>3, <2>4 DEF Readings
    <3>3. OfFirst(told.sum, observed, Len(observed))
      <4>1. SubSeq(observed, 1, Len(observed)) = observed
        BY <1>0, SubSeqFull
      <4>2. Len(observed) \in 0 .. Len(observed)
        BY <2>5
      <4> QED BY <3>2, <4>1, <4>2 DEF OfFirst
    <3> DEFINE next == [at |-> "count", value |-> t.value, told |-> told]
    <3>4. next \in Recorder /\ ReadSoFar(next, observed)
      <4> HIDE DEF told
      <4> QED BY <2>3, <3>2, <3>3 DEF Recorder, ReadSoFar
    <3> HIDE DEF told, t
    <3> QED BY <1>0, <1>4, <3>1, <3>4 DEF histVars, ringVars
  <2>8. CASE ReadCount(r)
    <3> DEFINE told == [t.told EXCEPT !.count = hist.count]
    <3>1. Step(r, "count", "buckets", t.value, told) /\ UNCHANGED <<histVars, ringVars>>
      BY <2>8 DEF ReadCount
    <3>2. told \in Readings /\ told.sum = t.told.sum /\ told.count = Len(observed)
      BY <2>3, <2>4, <2>5 DEF Readings
    <3>3. CountRead(told, observed)
      <4>1. OfFirst(t.told.sum, observed, Len(observed))
        BY <2>2, <2>8 DEF ReadSoFar, ReadCount, Step
      <4> HIDE DEF told, t
      <4> QED BY <2>5, <3>2, <4>1 DEF CountRead
    <3> DEFINE next == [at |-> "buckets", value |-> t.value, told |-> told]
    <3>4. next \in Recorder /\ ReadSoFar(next, observed)
      <4> HIDE DEF told
      <4> QED BY <2>3, <3>2, <3>3 DEF Recorder, ReadSoFar
    <3> HIDE DEF told, t
    <3> QED BY <1>0, <1>4, <3>1, <3>4 DEF histVars, ringVars
  <2>9. CASE ReadBuckets(r)
    <3> DEFINE told == [t.told EXCEPT !.buckets = hist.buckets]
    <3>1. Step(r, "buckets", "publish", t.value, told) /\ UNCHANGED <<histVars, ringVars>>
      BY <2>9 DEF ReadBuckets
    <3>2. told \in Readings /\ told.sum = t.told.sum /\ told.count = t.told.count /\ told.buckets = hist.buckets
      BY <2>3, <2>4 DEF Readings
    <3>3. AllRead(told, observed)
      <4>1. CountRead(t.told, observed)
        BY <2>2, <2>9 DEF ReadSoFar, ReadBuckets, Step
      <4>2. SumBelow(hist.buckets, MaxBuckets - 1) = Len(observed)
        BY <1>0, AllBinned
      <4> HIDE DEF told, t
      <4> QED BY <2>5, <3>2, <4>1, <4>2 DEF CountRead, AllRead
    <3> DEFINE next == [at |-> "publish", value |-> t.value, told |-> told]
    <3>4. next \in Recorder /\ ReadSoFar(next, observed)
      <4> HIDE DEF told
      <4> QED BY <2>3, <3>2, <3>3 DEF Recorder, ReadSoFar
    <3> HIDE DEF told, t
    <3> QED BY <1>0, <1>4, <3>1, <3>4 DEF histVars, ringVars
  <2>10. Idle = [at |-> "idle", value |-> 0, told |-> Empty]
    BY DEF Idle
  <2>11. CASE Publish(r)
    <3>1. /\ Step(r, "publish", "idle", 0, Empty) /\ published' = t.told
          /\ UNCHANGED <<hist, observed, ringVars>> /\ AllRead(t.told, observed)
      BY <2>2, <2>11 DEF Publish, ReadSoFar, Step
    <3> HIDE DEF t
    <3> QED BY <1>0, <1>4, <2>3, <2>10, <3>1, NothingRead DEF ringVars
  <2>12. CASE StoreLatest(r)
    <3>1. PICK v \in Values :
             Step(r, "idle", "push", v, Empty) /\ UNCHANGED <<histVars, ring, taken>>
      BY <2>12 DEF StoreLatest
    <3> DEFINE next == [at |-> "push", value |-> v, told |-> Empty]
    <3>2. next \in Recorder /\ ReadSoFar(next, observed)
      BY MetersAssumption, NothingRead DEF Recorder, ReadSoFar
    <3> QED BY <1>0, <1>4, <3>1, <3>2 DEF histVars
  <2>13. CASE PushSample(r)
    <3>1. /\ Step(r, "push", "idle", 0, Empty) /\ UNCHANGED histVars
          /\ ring' = [samples |-> Pushed(ring.samples, t.value), total |-> ring.total + 1]
          /\ taken' = Append(taken, t.value)
      BY <2>13 DEF PushSample
    <3> HIDE DEF t
    <3>2. taken' \in Seq(Nat) /\ ring'.samples = Latest(taken') /\ ring'.total = Len(taken')
      <4>1. Pushed(Latest(taken), t.value) = Latest(Append(taken, t.value))
        BY <1>0, <2>3, PushedLatest
      <4>2. Append(taken, t.value) \in Seq(Nat) /\ Len(Append(taken, t.value)) = Len(taken) + 1
        BY <1>0, <2>3, AppendProperties
      <4> QED BY <1>0, <3>1, <4>1, <4>2
    <3> QED BY <1>0, <1>4, <2>10, <3>1, <3>2, NothingRead DEF histVars
  <2> QED BY <2>1, <2>6, <2>7, <2>8, <2>9, <2>11, <2>12, <2>13
<1>6. ASSUME NEW remaining, AdapterStep(remaining) PROVE MetersInv'
  <2>1. UNCHANGED <<histVars, thread, ringVars>>
    BY <1>6 DEF AdapterStep, CountSubmitted, CountLanded, Poll, Load, AddTo, SetGauge
  <2> QED BY <1>1, <2>1
<1>7. UNCHANGED meterVars \/ MetersEnd \/ Record \/ AdapterStep(DailyCap - cap)
  BY DEF Next, vars, partVars, Lifecycle, Prefund, Funding, Trade, Board, Meter,
         Stream, Guard, Settle
<1> QED BY <1>1, <1>2, <1>5, <1>6, <1>7 DEF meterVars

(* The samples in order: each rank has its sample, later ranks no smaller  *)
(* ones, and behind each rank are enough samples that are no smaller.      *)
Under(s, d) == {k \in DOMAIN s : s[k] < d}
UnderOrAt(s, d) == {k \in DOMAIN s : s[k] <= d}
AtOrOver(s, d) == {k \in DOMAIN s : s[k] >= d}

LEMMA Counts3 ==
  ASSUME NEW s \in Seq(Nat), NEW d
  PROVE  /\ IsFiniteSet(Under(s, d)) /\ Cardinality(Under(s, d)) \in Nat
         /\ IsFiniteSet(UnderOrAt(s, d)) /\ Cardinality(UnderOrAt(s, d)) \in Nat
         /\ IsFiniteSet(AtOrOver(s, d)) /\ Cardinality(AtOrOver(s, d)) \in Nat
         /\ IsFiniteSet(DOMAIN s) /\ Cardinality(DOMAIN s) = Len(s)
<1> DEFINE n == Len(s)
<1>1. DOMAIN s = 1 .. n /\ n \in Nat
  BY LenProperties
<1> HIDE DEF n
<1>2. IsFiniteSet(DOMAIN s) /\ Cardinality(DOMAIN s) = n
  BY <1>1, FS_Interval
<1>3. Under(s, d) \in SUBSET DOMAIN s /\ UnderOrAt(s, d) \in SUBSET DOMAIN s /\ AtOrOver(s, d) \in SUBSET DOMAIN s
  BY DEF Under, UnderOrAt, AtOrOver
<1> QED BY <1>2, <1>3, FS_Subset, FS_CardinalityType DEF n

LEMMA Topmost ==
  ASSUME NEW s \in Seq(Nat), NEW V \in SUBSET DOMAIN s, V # {}
  PROVE  \E k \in V : \A j \in V : s[j] <= s[k]
<1> DEFINE C == {Cardinality(AtOrOver(s, s[k])) : k \in V}
<1>0. \A k \in V : s[k] \in Nat
  BY LenProperties, ElementOfSeq
<1>1. \A k \in V : IsFiniteSet(AtOrOver(s, s[k])) /\ Cardinality(AtOrOver(s, s[k])) \in Nat
  BY Counts3
<1>2. C \in SUBSET Nat /\ C # {}
  BY <1>1
<1>3. PICK m \in C : \A c \in C : m <= c
  <2> HIDE DEF C
  <2> QED BY <1>2, Least
<1>4. PICK k \in V : m = Cardinality(AtOrOver(s, s[k]))
  OBVIOUS
<1>5. ASSUME NEW j \in V PROVE s[j] <= s[k]
  <2> SUFFICES ASSUME ~ (s[j] <= s[k]) PROVE FALSE
    OBVIOUS
  <2>1. s[j] \in Nat /\ s[k] \in Nat /\ s[j] > s[k] /\ j \in DOMAIN s /\ k \in DOMAIN s
    BY <1>0
  <2>2. \A i \in DOMAIN s : s[i] \in Nat
    BY LenProperties, ElementOfSeq
  <2>3. AtOrOver(s, s[j]) \subseteq AtOrOver(s, s[k])
    BY <2>1, <2>2 DEF AtOrOver
  <2>4. k \in AtOrOver(s, s[k]) /\ k \notin AtOrOver(s, s[j])
    BY <2>1 DEF AtOrOver
  <2>5. Cardinality(AtOrOver(s, s[j])) \in C
    OBVIOUS
  <2>6. m <= Cardinality(AtOrOver(s, s[j]))
    <3> HIDE DEF C
    <3> QED BY <1>3, <2>5
  <2>7. AtOrOver(s, s[j]) # AtOrOver(s, s[k])
    BY <2>4
  <2>8. /\ Cardinality(AtOrOver(s, s[j])) <= Cardinality(AtOrOver(s, s[k]))
        /\ Cardinality(AtOrOver(s, s[j])) # Cardinality(AtOrOver(s, s[k]))
    BY <1>1, <2>3, <2>7, FS_Subset
  <2> QED BY <1>1, <1>4, <2>6, <2>8
<1> QED BY <1>5

LEMMA RankHas ==
  ASSUME NEW s \in Seq(Nat), NEW n \in 1 .. Len(s)
  PROVE  \E v \in {s[k] : k \in DOMAIN s} :
            Cardinality(Under(s, v)) < n /\ n <= Cardinality(UnderOrAt(s, v))
<1> DEFINE c(k) == Cardinality(UnderOrAt(s, s[k]))
           K == {k \in DOMAIN s : n <= c(k)}
           C == {c(k) : k \in K}
<1>0. /\ DOMAIN s = 1 .. Len(s) /\ Len(s) \in Nat /\ n \in Nat /\ 1 <= n /\ n <= Len(s)
      /\ \A k \in DOMAIN s : s[k] \in Nat
  BY LenProperties, ElementOfSeq
<1>1. DOMAIN s # {} /\ DOMAIN s \in SUBSET DOMAIN s
  BY <1>0
<1>3. \A k \in DOMAIN s : c(k) \in Nat
  BY Counts3
<1>4. PICK top \in DOMAIN s : \A j \in DOMAIN s : s[j] <= s[top]
  BY <1>1, Topmost
<1>5. top \in K
  <2>1. UnderOrAt(s, s[top]) = DOMAIN s
    BY <1>4 DEF UnderOrAt
  <2>2. c(top) = Len(s)
    BY <2>1, Counts3
  <2> HIDE DEF c
  <2> QED BY <1>0, <2>2
<1>6. C \in SUBSET Nat /\ C # {}
  BY <1>3, <1>5
<1>7. PICK m \in C : \A x \in C : m <= x
  <2> HIDE DEF C
  <2> QED BY <1>6, Least
<1>8. PICK k \in K : m = c(k)
  OBVIOUS
<1>9. k \in DOMAIN s /\ n <= c(k) /\ s[k] \in Nat
  BY <1>0
<1>10. Cardinality(Under(s, s[k])) < n
  <2> DEFINE V == Under(s, s[k])
  <2> SUFFICES ASSUME ~ (Cardinality(V) < n) PROVE FALSE
    OBVIOUS
  <2>1. IsFiniteSet(V) /\ Cardinality(V) \in Nat /\ V \in SUBSET DOMAIN s
    BY Counts3 DEF Under
  <2>2. Cardinality(V) >= n
    BY <1>0, <2>1
  <2>3. V # {}
    <3> HIDE DEF V
    <3>1. Cardinality(V) # 0
      BY <1>0, <2>1, <2>2
    <3> QED BY <3>1, FS_EmptySet
  <2>4. PICK e \in V : \A j \in V : s[j] <= s[e]
    <3> HIDE DEF V
    <3> QED BY <2>1, <2>3, Topmost
  <2>5. e \in DOMAIN s /\ s[e] < s[k] /\ s[e] \in Nat
    BY <1>0 DEF Under
  <2>6. V \subseteq UnderOrAt(s, s[e])
    BY <2>1, <2>4 DEF UnderOrAt
  <2>7. c(e) >= n
    <3>1. Cardinality(V) <= c(e)
      BY <2>6, Counts3, FS_Subset
    <3> HIDE DEF V, c
    <3> QED BY <1>0, <1>3, <2>1, <2>2, <2>5, <3>1
  <2>8. UnderOrAt(s, s[e]) \subseteq UnderOrAt(s, s[k]) /\ UnderOrAt(s, s[e]) # UnderOrAt(s, s[k])
    <3>1. k \in UnderOrAt(s, s[k]) /\ k \notin UnderOrAt(s, s[e])
      BY <1>9, <2>5 DEF UnderOrAt
    <3>2. UnderOrAt(s, s[e]) \subseteq UnderOrAt(s, s[k])
      BY <1>0, <1>9, <2>5 DEF UnderOrAt
    <3> QED BY <3>1, <3>2
  <2>9. c(e) <= c(k) /\ c(e) # c(k)
    BY <2>8, Counts3, FS_Subset
  <2>10. e \in K /\ c(e) \in C
    BY <2>5, <2>7
  <2>11. c(e) \in Nat /\ c(k) \in Nat
    BY <1>3, <1>9, <2>5
  <2> HIDE DEF c, C, K
  <2> QED BY <1>7, <1>8, <2>9, <2>10, <2>11
<1> QED BY <1>9, <1>10

LEMMA SortedIs ==
  ASSUME NEW s \in Seq(Nat)
  PROVE  /\ Sorted(s) \in Seq(Nat) /\ Len(Sorted(s)) = Len(s)
         /\ \A i, j \in 1 .. Len(s) : i <= j => Sorted(s)[i] <= Sorted(s)[j]
         /\ \A i \in 1 .. Len(s) : Cardinality(AtOrOver(s, Sorted(s)[i])) >= Len(s) - i + 1
<1> DEFINE n == Len(s)
           o == Sorted(s)
<1>0. /\ DOMAIN s = 1 .. n /\ n \in Nat
      /\ \A k \in DOMAIN s : s[k] \in Nat
  BY LenProperties, ElementOfSeq
<1>1. ASSUME NEW i \in 1 .. n
      PROVE  /\ o[i] \in {s[k] : k \in DOMAIN s}
             /\ Cardinality(Under(s, o[i])) < i /\ i <= Cardinality(UnderOrAt(s, o[i]))
  <2>1. o[i] = CHOOSE v \in {s[k] : k \in DOMAIN s} :
                  Cardinality(Under(s, v)) < i /\ i <= Cardinality(UnderOrAt(s, v))
    BY <1>0, Zenon DEF Sorted, Under, UnderOrAt
  <2>2. \E v \in {s[k] : k \in DOMAIN s} :
                  Cardinality(Under(s, v)) < i /\ i <= Cardinality(UnderOrAt(s, v))
    BY RankHas
  <2> HIDE DEF o
  <2> QED BY <2>1, <2>2, Zenon
<1>2. \A i \in 1 .. n : o[i] \in Nat
  BY <1>0, <1>1
<1>3. o \in Seq(Nat) /\ Len(o) = n
  <2>1. DOMAIN o = 1 .. n /\ o = [i \in 1 .. n |-> o[i]]
    <3>1. o = [i \in DOMAIN s |-> CHOOSE v \in {s[k] : k \in DOMAIN s} :
                  Cardinality(Under(s, v)) < i /\ i <= Cardinality(UnderOrAt(s, v))]
      BY Zenon DEF Sorted, Under, UnderOrAt
    <3> HIDE DEF o
    <3> QED BY <1>0, <3>1
  <2> HIDE DEF o, n
  <2>2. o \in [1 .. n -> Nat]
    BY <1>2, <2>1
  <2>3. o \in Seq(Nat)
    BY <1>0, <2>2, SeqDef
  <2> QED BY <1>0, <2>1, <2>3, LenProperties
<1> HIDE DEF o, n
<1>4. ASSUME NEW i \in 1 .. n, NEW j \in 1 .. n, i <= j PROVE o[i] <= o[j]
  <2> SUFFICES ASSUME ~ (o[i] <= o[j]) PROVE FALSE
    OBVIOUS
  <2>1. o[i] \in Nat /\ o[j] \in Nat /\ o[j] < o[i]
    BY <1>2
  <2>2. UnderOrAt(s, o[j]) \subseteq Under(s, o[i])
    BY <1>0, <2>1 DEF Under, UnderOrAt
  <2>3. Cardinality(UnderOrAt(s, o[j])) <= Cardinality(Under(s, o[i]))
    BY <2>2, Counts3, FS_Subset
  <2>4. Cardinality(UnderOrAt(s, o[j])) \in Nat /\ Cardinality(Under(s, o[i])) \in Nat
    BY Counts3
  <2> QED BY <1>0, <1>1, <1>4, <2>3, <2>4
<1>5. ASSUME NEW i \in 1 .. n PROVE Cardinality(AtOrOver(s, o[i])) >= n - i + 1
  <2> DEFINE A == Under(s, o[i])
             B == AtOrOver(s, o[i])
  <2>1. A \cup B = DOMAIN s /\ A \cap B = {}
    BY <1>0, <1>2 DEF Under, AtOrOver
  <2>2. IsFiniteSet(A) /\ IsFiniteSet(B) /\ Cardinality(A) \in Nat /\ Cardinality(B) \in Nat /\ Cardinality(DOMAIN s) = n
    BY Counts3 DEF n
  <2>3. Cardinality(A) < i
    BY <1>1
  <2> HIDE DEF A, B
  <2>4. Cardinality(A \cup B) = Cardinality(A) + Cardinality(B) - Cardinality(A \cap B)
    BY <2>2, FS_Union
  <2>5. Cardinality(A \cap B) = 0
    BY <2>1, FS_EmptySet
  <2>6. n = Cardinality(A) + Cardinality(B) - 0
    BY <2>1, <2>2, <2>4, <2>5
  <2>7. Cardinality(B) >= n - i + 1
    BY <1>0, <2>2, <2>3, <2>6
  <2> QED BY <2>7 DEF B
<1> QED BY <1>3, <1>4, <1>5 DEF o, n

(* A quantile is between two samples that stand next to each other. *)
LEMMA QuantileIs ==
  ASSUME NEW o \in Seq(Nat), NEW pct \in 0 .. 100, Len(o) > 0,
         \A i, j \in 1 .. Len(o) : i <= j => o[i] <= o[j]
  PROVE  LET lo == (pct * (Len(o) - 1)) \div 100 + 1
             hi == (pct * (Len(o) - 1) + 99) \div 100 + 1
         IN  /\ lo \in 1 .. Len(o) /\ hi \in 1 .. Len(o) /\ lo <= hi
             /\ Quantile(o, pct) \in Nat
             /\ o[lo] <= Quantile(o, pct) /\ Quantile(o, pct) <= o[hi]
<1> DEFINE n == Len(o)
           pos == pct * (n - 1)
           lo == pos \div 100 + 1
           hi == (pos + 99) \div 100 + 1
           q == Quantile(o, pct)
<1>1. n \in Nat /\ n > 0 /\ \A i \in 1 .. n : o[i] \in Nat
  BY LenProperties, ElementOfSeq
<1>2. pos \in Nat /\ pos <= 100 * (n - 1)
  <2> HIDE DEF n
  <2>1. n - 1 \in Nat
    BY <1>1
  <2> DEFINE m == n - 1
  <2> HIDE DEF m
  <2>2. pct * m \in Nat /\ pct * m <= 100 * m
    <3>1. m \in Nat /\ pct <= 100 /\ pct \in Nat
      BY <2>1 DEF m
    <3>2. m * pct <= m * 100 /\ m * pct \in Nat /\ m * pct = pct * m
      BY <3>1, TimesMonotone
    <3> QED BY <3>1, <3>2
  <2> QED BY <2>2 DEF m
<1>3. q = o[lo] + ((o[hi] - o[lo]) * (pos % 100)) \div 100
  BY DEF Quantile
<1> HIDE DEF pos, n, q
<1>4. lo \in 1 .. n /\ hi \in 1 .. n /\ lo <= hi
  BY <1>1, <1>2
<1>5. o[lo] \in Nat /\ o[hi] \in Nat /\ o[lo] <= o[hi]
  BY <1>1, <1>4 DEF n
<1> HIDE DEF lo, hi
<1> DEFINE a == o[lo]
           d == o[hi] - o[lo]
           f == pos % 100
           x == d * f
<1>6. a \in Nat /\ d \in Nat /\ f \in 0 .. 99
  BY <1>2, <1>5
<1>7. q = a + x \div 100 /\ a + d = o[hi]
  BY <1>3, <1>5
<1> HIDE DEF a, d, f
<1>8. x \in Nat /\ x <= 100 * d
  <2>1. d * f <= d * 100 /\ d * f \in Nat /\ f \in Int /\ f <= 100
    BY <1>6, TimesMonotone
  <2> QED BY <1>6, <2>1
<1> HIDE DEF x
<1>9. q \in Nat /\ a <= q /\ q <= a + d
  BY <1>6, <1>7, <1>8
<1>10. a <= q /\ q <= o[hi] /\ q \in Nat
  BY <1>7, <1>9
<1> QED BY <1>4, <1>10 DEF a, lo, hi, pos, n, q

(* The median: half of the samples are no smaller, it is no larger than    *)
(* the quantile the program shows beside it, and at most twice the mean.   *)
LEMMA MedianIs ==
  ASSUME NEW s \in Seq(Nat), Len(s) > 0
  PROVE  LET o == Sorted(s)
         IN  /\ Quantile(o, 50) \in Nat /\ Quantile(o, 50) <= Quantile(o, 95)
             /\ 2 * Cardinality(AtOrOver(s, Quantile(o, 50))) >= Len(s)
             /\ Quantile(o, 50) * Len(s) <= 2 * SumOf(s)
<1> DEFINE o == Sorted(s)
           n == Len(s)
           p == Quantile(o, 50)
           q == Quantile(o, 95)
           lo5 == (50 * (n - 1)) \div 100 + 1
           hi5 == (50 * (n - 1) + 99) \div 100 + 1
           lo9 == (95 * (n - 1)) \div 100 + 1
           hi9 == (95 * (n - 1) + 99) \div 100 + 1
           c == Cardinality(AtOrOver(s, p))
<1>1. /\ o \in Seq(Nat) /\ Len(o) = n /\ n \in Nat /\ n > 0
      /\ \A i, j \in 1 .. n : i <= j => o[i] <= o[j]
      /\ \A i \in 1 .. n : Cardinality(AtOrOver(s, o[i])) >= n - i + 1
      /\ \A i \in 1 .. n : o[i] \in Nat
  <2>1. /\ o \in Seq(Nat) /\ Len(o) = n
        /\ \A i, j \in 1 .. n : i <= j => o[i] <= o[j]
        /\ \A i \in 1 .. n : Cardinality(AtOrOver(s, o[i])) >= n - i + 1
    BY SortedIs
  <2> HIDE DEF o
  <2> QED BY <2>1, LenProperties, ElementOfSeq
<1> HIDE DEF o
<1>2. /\ lo5 \in 1 .. n /\ hi5 \in 1 .. n /\ lo5 <= hi5
      /\ p \in Nat /\ o[lo5] <= p /\ p <= o[hi5]
  <2>1. 50 \in 0 .. 100
    OBVIOUS
  <2> QED BY <1>1, <2>1, QuantileIs
<1>3. /\ lo9 \in 1 .. n /\ hi9 \in 1 .. n /\ lo9 <= hi9
      /\ q \in Nat /\ o[lo9] <= q /\ q <= o[hi9]
  <2> DEFINE m == Len(o)
             lo == (95 * (m - 1)) \div 100 + 1
             hi == (95 * (m - 1) + 99) \div 100 + 1
  <2>1. 95 \in 0 .. 100 /\ m > 0 /\ m = n
        /\ \A i, j \in 1 .. m : i <= j => o[i] <= o[j]
    BY <1>1
  <2>2. /\ lo \in 1 .. m /\ hi \in 1 .. m /\ lo <= hi
        /\ q \in Nat /\ o[lo] <= q /\ q <= o[hi]
    BY <1>1, <2>1, QuantileIs
  <2>3. lo = lo9 /\ hi = hi9
    BY <2>1
  <2> HIDE DEF m, lo, hi, lo9, hi9, n, q
  <2> QED BY <2>1, <2>2, <2>3
<1>4. p <= q
  <2>1. CASE n = 1
    <3>1. p = o[1] + ((o[1] - o[1]) * 0) \div 100 /\ q = o[1] + ((o[1] - o[1]) * 0) \div 100
      BY <1>1, <2>1 DEF Quantile
    <3>2. p = q
      BY <3>1
    <3> HIDE DEF p, q
    <3> QED BY <1>2, <3>2
  <2>2. CASE n = 2
    <3> DEFINE d == o[2] - o[1]
    <3>1. p = o[1] + (d * 50) \div 100 /\ q = o[1] + (d * 95) \div 100
      BY <1>1, <2>2 DEF Quantile
    <3>2. d \in Nat /\ o[1] \in Nat
      <4>1. 1 \in 1 .. n /\ 2 \in 1 .. n
        BY <2>2
      <4>2. o[1] \in Nat /\ o[2] \in Nat /\ o[1] <= o[2]
        BY <1>1, <4>1
      <4> QED BY <4>2
    <3> HIDE DEF d
    <3>3. (d * 50) \div 100 <= (d * 95) \div 100 /\ (d * 50) \div 100 \in Nat /\ (d * 95) \div 100 \in Nat
      BY <3>2
    <3> QED BY <3>1, <3>2, <3>3
  <2>3. CASE n > 2
    <3> HIDE DEF n, p, q
    <3>1. hi5 <= lo9
      <4> DEFINE m == n - 1
                 x == 50 * m + 99
                 y == 95 * m
                 u == x \div 100
                 w == y \div 100
      <4>1. CASE m = 2
        BY <4>1
      <4>2. CASE m > 2
        <5>1. m \in Nat /\ x \in Nat /\ y \in Nat
          BY <1>1, <2>3
        <5> HIDE DEF x, y
        <5>2. u \in Nat /\ w \in Nat /\ 100 * u <= x /\ 100 * w + 99 >= y
          BY <5>1
        <5> HIDE DEF u, w, m
        <5>3. u <= w
          BY <4>2, <5>1, <5>2 DEF x, y
        <5> QED BY <5>2, <5>3 DEF u, w, x, y, m
      <4> QED BY <1>1, <2>3, <4>1, <4>2
    <3>2. o[hi5] <= o[lo9] /\ o[hi5] \in Nat /\ o[lo9] \in Nat
      BY <1>1, <1>2, <1>3, <3>1
    <3> QED BY <1>2, <1>3, <3>2
  <2> QED BY <1>1, <2>1, <2>2, <2>3
<1>5. 2 * c >= n /\ c \in Nat
  <2>1. Cardinality(AtOrOver(s, o[hi5])) >= n - hi5 + 1
    BY <1>1, <1>2
  <2>2. AtOrOver(s, o[hi5]) \subseteq AtOrOver(s, p)
    <3>1. DOMAIN s = 1 .. Len(s) /\ \A k \in DOMAIN s : s[k] \in Nat
      BY LenProperties, ElementOfSeq
    <3>2. o[hi5] \in Nat /\ p \in Nat /\ p <= o[hi5]
      BY <1>1, <1>2
    <3> HIDE DEF p, hi5
    <3> QED BY <3>1, <3>2 DEF AtOrOver
  <2> DEFINE b == Cardinality(AtOrOver(s, o[hi5]))
  <2>3. b <= c /\ b \in Nat /\ c \in Nat
    BY <2>2, Counts3, FS_Subset
  <2>4. 2 * (n - hi5 + 1) >= n
    <3> HIDE DEF n
    <3> QED BY <1>1
  <2> HIDE DEF b, c, hi5, n
  <2>5. hi5 \in Nat
    BY <1>1, <1>2
  <2> QED BY <1>1, <2>1, <2>3, <2>4, <2>5 DEF b
<1>6. p * n <= 2 * SumOf(s)
  <2>1. SumOf(s) \in Nat /\ SumOf(s) >= p * c
    BY <1>2, SumAtLeast DEF AtOrOver
  <2> DEFINE total == SumOf(s)
  <2> HIDE DEF n, c, p, total
  <2>2. p * n <= p * (2 * c)
    BY <1>1, <1>2, <1>5, TimesMonotone
  <2>3. p * (2 * c) = 2 * (p * c) /\ p * c \in Nat /\ p * n \in Nat
    BY <1>1, <1>2, <1>5
  <2> DEFINE y == p * c
             z == p * n
  <2>4. total \in Nat /\ total >= y /\ z <= 2 * y /\ y \in Nat /\ z \in Nat
    BY <2>1, <2>2, <2>3 DEF total
  <2> HIDE DEF y, z
  <2>5. z <= 2 * total
    BY <2>4
  <2> QED BY <2>5 DEF z, total
<1> QED BY <1>2, <1>4, <1>5, <1>6 DEF o

(* A scrape counts below each bound exactly the values that are below it.  *)
LEMMA BelowIsExact ==
  ASSUME MetersInv, NEW i \in 0 .. MaxBuckets - 2
  PROVE  /\ Scraped.le[i] >= HowMany(observed, LAMBDA v : v < Pow2[i])
         /\ Scraped.le[i] <= HowMany(observed, LAMBDA v : v <= Pow2[i])
<1> DEFINE lt == {k \in DOMAIN observed : observed[k] < Pow2[i]}
           le == {k \in DOMAIN observed : observed[k] <= Pow2[i]}
           up == {k \in DOMAIN observed : observed[k] \in UpToBin(i)}
<1>1. observed \in Seq(Nat) /\ Counted(hist, observed)
  BY DEF MetersInv
<1>2. i \in Bins /\ i \in 0 .. MaxBuckets
  BY MetersAssumption DEF Bins
<1>3. DOMAIN observed = 1 .. Len(observed) /\ \A k \in DOMAIN observed : observed[k] \in Nat
  BY <1>1, LenProperties, ElementOfSeq
<1>4. Pow2[i] \in Nat
  BY <1>2, Pow2Is
<1>5. ASSUME NEW k \in DOMAIN observed PROVE observed[k] \in UpToBin(i) <=> observed[k] < Pow2[i]
  <2>1. observed[k] \in Nat
    BY <1>3
  <2>2. BucketIndex(observed[k]) <= i <=> observed[k] < Pow2[i]
    BY <2>1, BucketIndexIs
  <2> QED BY <2>1, <2>2 DEF UpToBin
<1>6. up = lt
  BY <1>5
<1>7. lt \subseteq le
  BY <1>3, <1>4
<1>8. IsFiniteSet(le) /\ Cardinality(le) \in Nat
  BY <1>1, Counts3 DEF UnderOrAt
<1>9. Cardinality(lt) <= Cardinality(le) /\ Cardinality(lt) \in Nat
  <2> HIDE DEF lt, le
  <2> QED BY <1>7, <1>8, FS_Subset, FS_CardinalityType
<1>10. Scraped.le[i] = SumBelow(hist.buckets, i)
  <2>1. DOMAIN hist.buckets = Bins
    BY <1>1 DEF Counted, Readings
  <2>2. Scraped.le = Rendered(hist.buckets)
    BY DEF Scraped
  <2> QED BY <1>2, <2>1, <2>2, Zenon DEF Rendered
<1>11. SumBelow(hist.buckets, i) = Cardinality(up)
  BY <1>1, <1>2, Zenon DEF Counted, Such
<1>12. /\ HowMany(observed, LAMBDA v : v < Pow2[i]) = Cardinality(lt)
       /\ HowMany(observed, LAMBDA v : v <= Pow2[i]) = Cardinality(le)
  BY DEF HowMany
<1> HIDE DEF lt, le, up
<1> QED BY <1>6, <1>9, <1>10, <1>11, <1>12

(* For any values, buckets, ring and interleaving of the threads that feed *)
(* the meters with those that publish them, a published histogram is of    *)
(* observations that were all counted, a scrape has all that is below each *)
(* bound, the ring is of the latest samples, and its median is one for at  *)
(* least half of them (metrics.rs observe and emit_histogram,              *)
(* metrics_prom.rs render_snapshot, LiveMetrics::landing_latency_snapshot).*)
THEOREM MetersAreBehind == Spec => []MetersBehind
<1>1. Init => MetersInv
  <2> SUFFICES ASSUME MetersInit PROVE MetersInv
    BY DEF Init
  <2>1. /\ hist = Empty /\ published = Empty /\ observed = <<>>
        /\ thread = [r \in Recorders |-> Idle] /\ taken = <<>>
        /\ ring = [samples |-> <<>>, total |-> 0]
    BY DEF MetersInit
  <2> QED BY <2>1, NothingRead DEF MetersInv
<1>2. MetersInv => MetersBehind
  <2> SUFFICES ASSUME MetersInv PROVE MetersBehind
    OBVIOUS
  <2>1. /\ observed \in Seq(Nat) /\ Counted(hist, observed) /\ AllRead(published, observed)
        /\ taken \in Seq(Nat) /\ ring.samples = Latest(taken) /\ ring.total = Len(taken)
    BY DEF MetersInv
  <2>2. /\ \E k \in 0 .. published.count : published.sum = SumOf(SubSeq(observed, 1, k))
        /\ published.count <= SumBelow(published.buckets, MaxBuckets - 1)
    BY <2>1 DEF AllRead, CountRead, OfFirst
  <2>3. SumBelow(hist.buckets, MaxBuckets - 1) = Len(observed)
    BY <2>1, AllBinned
  <2>4. \A i \in 0 .. MaxBuckets - 2 :
          /\ Scraped.le[i] >= HowMany(observed, LAMBDA v : v < Pow2[i])
          /\ Scraped.le[i] <= HowMany(observed, LAMBDA v : v <= Pow2[i])
    BY BelowIsExact
  <2>5. ring.samples = SubSeq(taken, Max({1, Len(taken) - RingSize + 1}), Len(taken))
    BY <2>1 DEF Latest
  <2> DEFINE s == ring.samples
             o == Sorted(s)
             n == Len(s)
             shown == Summary
  <2>6. s \in Seq(Nat) /\ n \in Nat /\ Len(o) = n
    <3>1. s \in Seq(Nat)
      BY <2>1, LatestIs
    <3> HIDE DEF s
    <3> QED BY <3>1, LenProperties, SortedIs
  <2>7. /\ shown.p50 = LatencySnapshot.p50 /\ shown.p95 = LatencySnapshot.p95
        /\ shown.count = LatencySnapshot.count /\ shown.sum = LatencySnapshot.sum
    BY DEF Summary, Restrict
  <2>8. HowMany(s, LAMBDA v : v >= shown.p50) = Cardinality(AtOrOver(s, shown.p50))
    BY DEF HowMany, AtOrOver
  <2>9. CASE n = 0
    <3>1. shown.p50 = 0 /\ shown.p95 = 0 /\ shown.count = 0 /\ shown.sum = 0
      BY <2>6, <2>7, <2>9 DEF LatencySnapshot
    <3>2. Cardinality(AtOrOver(s, shown.p50)) \in Nat
      BY <2>6, Counts3
    <3>3. /\ shown.p50 <= shown.p95
          /\ 2 * HowMany(s, LAMBDA v : v >= shown.p50) >= shown.count
          /\ shown.p50 * shown.count <= 2 * shown.sum
      BY <2>8, <3>1, <3>2
    <3> QED BY <2>1, <2>2, <2>3, <2>4, <2>5, <3>3 DEF MetersBehind
  <2>10. CASE n # 0
    <3>1. /\ shown.p50 = Quantile(o, 50) /\ shown.p95 = Quantile(o, 95)
          /\ shown.count = n /\ shown.sum = SumOf(s)
      BY <2>6, <2>7, <2>10 DEF LatencySnapshot
    <3>2. /\ Quantile(o, 50) <= Quantile(o, 95)
          /\ 2 * Cardinality(AtOrOver(s, Quantile(o, 50))) >= n
          /\ Quantile(o, 50) * n <= 2 * SumOf(s)
      <4>1. n > 0
        BY <2>6, <2>10
      <4> HIDE DEF s
      <4> QED BY <2>6, <4>1, MedianIs
    <3>3. /\ shown.p50 <= shown.p95
          /\ 2 * HowMany(s, LAMBDA v : v >= shown.p50) >= shown.count
          /\ shown.p50 * shown.count <= 2 * shown.sum
      BY <2>8, <3>1, <3>2
    <3> QED BY <2>1, <2>2, <2>3, <2>4, <2>5, <3>3 DEF MetersBehind
  <2> QED BY <2>9, <2>10
<1> QED BY <1>1, <1>2, MetersStep, PTL DEF Spec
=============================================================================
