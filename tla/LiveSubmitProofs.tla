-------------------------- MODULE LiveSubmitProofs --------------------------
(***************************************************************************)
(* Theorems about LiveSubmit for every value of its constants.             *)
(*                                                                         *)
(* Two facts carry the rest: a charge is held exactly in the stages        *)
(* between try_charge and submit (ChargeInv), and the memory of the        *)
(* running process accounts for what the engine took (LedgerInv).          *)
(***************************************************************************)
EXTENDS LiveSubmit, TLAPS

HeldStages == {"rate", "kill", "build", "simulate", "sign", "submit"}

(* The cap holds, and where the charge of the cycle in hand stands. *)
ChargeInv ==
    /\ spent <= DailyCap
    /\ pc \in HeldStages => charge = "held"
    /\ charge = "held" => pc \in HeldStages \cup {"down"}
    /\ charge = "held" => tip <= spent /\ tip <= PerBundleCap

(* The calendar never runs behind the books. *)
CalendarInv == lastReset <= today /\ \A d \in snap : d <= today

Inv == TypeOK /\ ChargeInv /\ CalendarInv

(* What the engine took is accounted for: for the day on the books, by the *)
(* running process; for today after a restart, by what was excused.        *)
LedgerInv ==
    /\ OverspendExplained
    /\ \A d \in Days : d > today => exposure[d] = 0
    /\ pc # "down" /\ (lastReset = today \/ charge = "held") =>
         exposure[lastReset] + Held <= spent + excused[lastReset]
    /\ pc = "down" \/ lastReset # today => exposure[today] <= excused[today]

PastSwitch == {"build", "simulate", "sign", "submit"}

(* What the gates left true of a bundle on its way to the engine. *)
GateInv ==
    /\ StopLetsOneThrough
    /\ stop /\ pc \in PastSwitch => sinceStop = 0
    /\ pc \in PastSwitch => losses < MaxLosses
    /\ Simulates /\ pc \in {"sign", "submit"} => verdict = "Positive"

(* A cycle under way is counted for neither way yet, and no capture of     *)
(* this process bears its number or a later one.                           *)
CountInv ==
    /\ CountedAtMostOnce /\ CaptureKeyPerProcess
    /\ pc \in Stages => landed + failed < seq
    /\ \A s \in 1 .. MaxSeq :
         pc # "down" /\ (s > seq \/ (s = seq /\ pc \in Stages)) =>
           captures[s] < boots

-----------------------------------------------------------------------------
(* The initial state satisfies the invariant. *)
LEMMA InitInv == Init => Inv
<1> SUFFICES ASSUME Init PROVE Inv
  OBVIOUS
<1> USE LiveAssumption DEF Init, Days
<1>1. exposure \in [Days -> Nat] /\ excused \in [Days -> Nat]
  BY DEF Zero
<1>2. captures \in [1 .. MaxSeq -> Nat]
  OBVIOUS
<1>3. 0 \in Days /\ 0 \in 0 .. MaxSeq /\ 0 \in 0 .. MaxBoots /\ Bucket \in 0 .. Bucket
  OBVIOUS
<1>4. TypeOK
  BY <1>1, <1>2, <1>3 DEF TypeOK, CycleTypeOK, ProcTypeOK, WorldTypeOK, HistoryTypeOK, Stages
<1>5. ChargeInv /\ CalendarInv
  BY DEF ChargeInv, CalendarInv, HeldStages
<1> QED
  BY <1>4, <1>5 DEF Inv

(* Variables an action leaves alone keep their types. *)
LEMMA Frame ==
    /\ CycleTypeOK /\ UNCHANGED cycleVars => CycleTypeOK'
    /\ ProcTypeOK /\ UNCHANGED procVars => ProcTypeOK'
    /\ WorldTypeOK /\ UNCHANGED worldVars => WorldTypeOK'
    /\ HistoryTypeOK /\ UNCHANGED history => HistoryTypeOK'
BY DEF CycleTypeOK, ProcTypeOK, WorldTypeOK, HistoryTypeOK, cycleVars, procVars,
       cap, metrics, worldVars, history

(* What today's books hold is a natural number within the cap. *)
LEMMA SpentTodayFacts ==
    ASSUME ProcTypeOK, spent <= DailyCap
    PROVE  SpentToday \in Nat /\ SpentToday <= DailyCap
BY LiveAssumption DEF ProcTypeOK, SpentToday

(* A tip the cap accepts fits both limits. *)
LEMMA AffordableFacts ==
    ASSUME CycleTypeOK, ProcTypeOK, spent <= DailyCap, Affordable(tip)
    PROVE  tip <= PerBundleCap /\ SpentToday + tip <= DailyCap
BY LiveAssumption, SpentTodayFacts DEF CycleTypeOK, Affordable, SatSub

(* A refund takes the tip off the books of the day it was charged to. *)
LEMMA RefundFacts ==
    ASSUME CycleTypeOK, ProcTypeOK, spent <= DailyCap, Refund
    PROVE  /\ spent' \in Nat /\ spent' <= DailyCap
           /\ lastReset' = lastReset /\ charge' = "back"
           /\ tip <= spent => spent' = spent - tip
BY LiveAssumption DEF CycleTypeOK, ProcTypeOK, Refund, SatSub

(* What is held is a natural number the books contain. *)
LEMMA HeldFacts ==
    ASSUME TypeOK, ChargeInv
    PROVE  /\ Held \in Nat /\ Held <= spent /\ Held <= PerBundleCap
           /\ spent - Held \in Nat
BY LiveAssumption
   DEF TypeOK, CycleTypeOK, ProcTypeOK, ChargeInv, Held

(* Adding a natural number to a day's figure leaves a figure for each day. *)
LEMMA AddToDay ==
    ASSUME NEW f \in [Days -> Nat], NEW d \in Days, NEW n \in Nat
    PROVE  [f EXCEPT ![d] = @ + n] \in [Days -> Nat]
OBVIOUS

(* What the engine takes leaves well-formed history. *)
LEMMA EngineTakesFacts ==
    ASSUME TypeOK, EngineTakes
    PROVE  /\ fate' = "pending"
           /\ exposure' \in [Days -> Nat] /\ sinceStop' \in Nat
BY AddToDay
   DEF TypeOK, CycleTypeOK, ProcTypeOK, WorldTypeOK, HistoryTypeOK, EngineTakes

(* The pipeline touches neither the world nor, but at the engine, history. *)
LEMMA NextInv == Inv /\ [Next]_vars => Inv'
<1> SUFFICES ASSUME Inv, [Next]_vars PROVE Inv'
  OBVIOUS
<1> USE LiveAssumption, Frame DEF Inv, TypeOK, ChargeInv, CalendarInv, HeldStages
<1>1. CASE UNCHANGED vars
  BY <1>1 DEF vars, cycleVars, procVars, cap, worldVars
<1>2. ASSUME NEW t \in Tips, RejectAtGates(t) \/ PassGates(t) PROVE Inv'
  BY <1>2 DEF RejectAtGates, PassGates, NewCycle, Return,
     CycleTypeOK, ProcTypeOK, Stages, cap, worldVars
<1>3. CASE ChargeCap
  BY <1>3, AffordableFacts, SpentTodayFacts
     DEF ChargeCap, CycleTypeOK, ProcTypeOK, WorldTypeOK, Days, Stages, metrics, worldVars
<1>4. CASE ChargeRefused
  BY <1>4, SpentTodayFacts
     DEF ChargeRefused, CountFailed, Return, CycleTypeOK, ProcTypeOK, Stages,
       worldVars, WorldTypeOK, Days
<1>5. CASE AcquireToken
  BY <1>5
     DEF AcquireToken, CycleTypeOK, Stages, ProcTypeOK, cap, metrics,
         worldVars
<1>6. CASE RateLimited
  BY <1>6, RefundFacts
     DEF RateLimited, Return, CycleTypeOK, Stages, ProcTypeOK, metrics,
         worldVars
<1>7. CASE SwitchClosed
  BY <1>7
     DEF SwitchClosed, CycleTypeOK, Stages, procVars, cap, worldVars
<1>8. CASE SwitchRefuses
  BY <1>8, RefundFacts
     DEF SwitchRefuses, Return, CycleTypeOK, Stages, ProcTypeOK,
         metrics, worldVars
<1>9. CASE BuildBundle
  BY <1>9
     DEF BuildBundle, CycleTypeOK, Stages, procVars, cap, worldVars
<1>10. CASE BuildFails
  BY <1>10, RefundFacts
     DEF BuildFails, CountFailed, Return, CycleTypeOK, Stages,
         ProcTypeOK, worldVars
<1>11. CASE SimulatePositive
  BY <1>11
     DEF SimulatePositive, CycleTypeOK, Stages, procVars, cap, worldVars
<1>12. ASSUME NEW v \in {"NonPositive", "Error"}, SimulateRejects(v) PROVE Inv'
  BY <1>12, RefundFacts
     DEF SimulateRejects, Return, CycleTypeOK, Stages, ProcTypeOK,
         metrics, worldVars
<1>13. CASE SignAndAssemble
  BY <1>13
     DEF SignAndAssemble, CycleTypeOK, Stages, procVars, cap, worldVars
<1>14. CASE SignOrAssembleFails
  BY <1>14, RefundFacts
     DEF SignOrAssembleFails, Return, CycleTypeOK, Stages, ProcTypeOK,
         metrics, worldVars
<1>15. CASE SubmitAccepted
  BY <1>15, EngineTakesFacts
     DEF SubmitAccepted, CycleTypeOK, Stages, HistoryTypeOK, procVars,
         cap, worldVars
<1>16. CASE SubmitRefused
  BY <1>16, RefundFacts
     DEF SubmitRefused, CountFailed, Return, CycleTypeOK, Stages,
         ProcTypeOK, worldVars
<1>17. CASE SubmitReplyLost
  <2>1. excused' \in [Days -> Nat]
    BY <1>17, AddToDay DEF SubmitReplyLost, CycleTypeOK, ProcTypeOK, HistoryTypeOK
  <2> QED
    BY <1>17, <2>1, EngineTakesFacts, RefundFacts
       DEF SubmitReplyLost, CountFailed, Return, CycleTypeOK, Stages,
           ProcTypeOK, HistoryTypeOK, worldVars
<1>18. CASE PollLanded
  BY <1>18
     DEF PollLanded, CountLanded, Return, CycleTypeOK, Stages,
         ProcTypeOK, WorldTypeOK, cap
<1>19. CASE PollNotLanded
  BY <1>19
     DEF PollNotLanded, RecordLost, CountFailed, Return, CycleTypeOK,
         Stages, ProcTypeOK, cap, worldVars
<1>20. CASE PollFails
  BY <1>20
     DEF PollFails, RecordLost, CountFailed, Return, CycleTypeOK,
         Stages, ProcTypeOK, cap, worldVars
<1>21. ASSUME NEW f \in {"landed", "dropped"}, EngineDecides(f) PROVE Inv'
  BY <1>21
     DEF EngineDecides, CycleTypeOK, procVars, cap, worldVars
<1>22. CASE Midnight
  BY <1>22
     DEF Midnight, cycleVars, procVars, cap, WorldTypeOK, ProcTypeOK,
         Days
<1>23. CASE TouchStop
  BY <1>23
     DEF TouchStop, cycleVars, procVars, cap, WorldTypeOK, HistoryTypeOK
<1>24. CASE ClearStop
  BY <1>24
     DEF ClearStop, cycleVars, procVars, cap, WorldTypeOK
<1>25. CASE Refill
  BY <1>25
     DEF Refill, cycleVars, ProcTypeOK, cap, metrics, worldVars
<1>26. CASE Crash
  <2>1. excused' \in [Days -> Nat]
    BY <1>26, AddToDay, HeldFacts DEF Crash, ProcTypeOK, HistoryTypeOK
  <2> QED
    BY <1>26, <2>1
       DEF Crash, CycleTypeOK, HistoryTypeOK, procVars, cap, worldVars
<1>27. CASE Boot
  <2>1. lastReset' \in Days /\ lastReset' <= today
        /\ snap' \in SUBSET Days /\ \A d \in snap' : d <= today
    <3>1. CASE lastReset' \in snap /\ UNCHANGED snap
      BY <1>27, <3>1 DEF Boot, WorldTypeOK
    <3>2. CASE lastReset' = today /\ snap' \in {snap, {today}}
      BY <1>27, <3>2 DEF Boot, WorldTypeOK, Days
    <3> QED
      BY <1>27, <3>1, <3>2 DEF Boot
  <2> QED
    BY <1>27, <2>1 DEF Boot, CycleTypeOK, ProcTypeOK, WorldTypeOK
<1> QED
  BY <1>1, <1>2, <1>3, <1>4, <1>5, <1>6, <1>7, <1>8, <1>9, <1>10, <1>11,
     <1>12, <1>13, <1>14, <1>15, <1>16, <1>17, <1>18, <1>19, <1>20,
     <1>21, <1>22, <1>23, <1>24, <1>25, <1>26, <1>27
     DEF Next, Detect, Pipeline, Environment

(* The types, the state of the charge and the order of the days hold in    *)
(* every reachable state.                                                  *)
THEOREM InvHolds == Spec => []Inv
BY InitInv, NextInv, PTL DEF Spec

(* Type correctness of the submit path. *)
THEOREM TypeCorrect == Spec => []TypeOK
<1>1. Inv => TypeOK
  BY DEF Inv
<1> QED
  BY <1>1, InvHolds, PTL

-----------------------------------------------------------------------------
(* A step that moves no money and neither ends nor starts a process leaves *)
(* the ledger as it is.                                                    *)
LEMMA LedgerFrame ==
    ASSUME LedgerInv, UNCHANGED <<exposure, excused, cap, today, charge, tip>>,
           pc' = "down" <=> pc = "down"
    PROVE  LedgerInv'
BY DEF LedgerInv, OverspendExplained, Held, cap

(* Giving a held tip back takes it off the books, and nothing was sent. *)
LEMMA LedgerRefund ==
    ASSUME Inv, LedgerInv, charge = "held", pc # "down", pc' # "down", Refund,
           UNCHANGED <<exposure, excused, today, tip>>
    PROVE  LedgerInv'
<1>1. spent' = spent - tip /\ lastReset' = lastReset /\ Held = tip /\ Held' = 0
  BY RefundFacts DEF Inv, TypeOK, ChargeInv, Held, Refund
<1>2. exposure[lastReset] \in Nat /\ excused[lastReset] \in Nat
      /\ tip \in Nat /\ spent \in Nat
  BY DEF Inv, TypeOK, CycleTypeOK, ProcTypeOK, HistoryTypeOK
<1> QED
  BY <1>1, <1>2 DEF LedgerInv, OverspendExplained

(* The engine takes a bundle: the tip moves from the books to exposure. *)
LEMMA LedgerTaken ==
    ASSUME Inv, LedgerInv, pc = "submit", pc' # "down", EngineTakes,
           UNCHANGED <<today, tip, lastReset>>,
           \/ UNCHANGED <<spent, excused>> /\ charge' = "kept"
           \/ /\ spent' = spent - tip /\ charge' = "back"
              /\ excused' = [excused EXCEPT ![lastReset] = @ + tip]
    PROVE  LedgerInv'
<1> USE DEF Inv, TypeOK, CycleTypeOK, ProcTypeOK, WorldTypeOK, HistoryTypeOK
<1>1. charge = "held" /\ Held = tip /\ Held' = 0 /\ tip <= spent
  BY DEF ChargeInv, HeldStages, Held
<1>2. exposure[lastReset] + tip <= spent + excused[lastReset]
  BY <1>1 DEF LedgerInv
<1>3. /\ exposure'[lastReset] = exposure[lastReset] + tip
      /\ \A d \in Days : d # lastReset =>
           exposure'[d] = exposure[d] /\ excused'[d] = excused[d]
      /\ exposure'[lastReset] <= spent' + excused'[lastReset]
      /\ exposure'[lastReset] <= DailyCap + excused'[lastReset]
  BY <1>1, <1>2, LiveAssumption DEF EngineTakes, ChargeInv
<1>4. lastReset <= today /\ today \in Nat /\ lastReset \in Nat
  BY LiveAssumption DEF CalendarInv, Days
<1>5. OverspendExplained'
  BY <1>3 DEF OverspendExplained, LedgerInv
<1>6. \A d \in Days : d > today => exposure'[d] = 0
  BY <1>3, <1>4 DEF LedgerInv
<1>7. lastReset # today => exposure'[today] <= excused'[today]
  BY <1>3 DEF LedgerInv
<1> QED
  BY <1>1, <1>3, <1>5, <1>6, <1>7 DEF LedgerInv

(* Every step keeps the ledger. *)
LEMMA NextLedger == Inv /\ LedgerInv /\ [Next]_vars => LedgerInv'
<1> SUFFICES ASSUME Inv, LedgerInv, [Next]_vars PROVE LedgerInv'
  OBVIOUS
<1>a. /\ pc \in HeldStages => charge = "held"
      /\ charge = "held" => pc \in HeldStages \cup {"down"}
  BY DEF Inv, ChargeInv
<1>b. /\ exposure \in [Days -> Nat] /\ excused \in [Days -> Nat]
      /\ spent \in Nat /\ tip \in Nat /\ today \in Nat /\ today \in Days
      /\ lastReset \in Nat /\ lastReset \in Days /\ lastReset <= today
      /\ spent <= DailyCap /\ DailyCap \in Nat
  BY LiveAssumption
     DEF Inv, TypeOK, CycleTypeOK, ProcTypeOK, WorldTypeOK, HistoryTypeOK,
         ChargeInv, CalendarInv, Days
<1>1. CASE UNCHANGED vars
  BY <1>1, LedgerFrame DEF vars, cycleVars, procVars, worldVars, history
<1>2. ASSUME NEW t \in Tips, NewCycle(t), pc' # "down" PROVE LedgerInv'
  <2>1. Held = 0 /\ Held' = 0
    BY <1>2, <1>a DEF NewCycle, Held, HeldStages
  <2> QED
    BY <1>2, <2>1, <1>a
       DEF NewCycle, LedgerInv, OverspendExplained, cap, worldVars, history,
           HeldStages
<1>3. CASE ChargeCap
  <2>1. charge # "held" /\ Held = 0 /\ charge' = "held" /\ Held' = tip
        /\ pc' # "down" /\ UNCHANGED <<exposure, excused, today>>
        /\ lastReset' = today /\ spent' = SpentToday + tip
    BY <1>3, <1>a DEF ChargeCap, Held, HeldStages, worldVars, history
  <2>2. /\ exposure[today] \in Nat /\ excused[today] \in Nat
        /\ SpentToday \in Nat
        /\ exposure[today] <= SpentToday + excused[today]
    BY <2>1, <1>b DEF LedgerInv, SpentToday
  <2> QED
    BY <2>1, <2>2, <1>b DEF LedgerInv, OverspendExplained
<1>4. CASE ChargeRefused
  <2>1. charge # "held" /\ Held = 0 /\ Held' = 0 /\ UNCHANGED charge
        /\ pc' # "down" /\ UNCHANGED <<exposure, excused, today>>
        /\ lastReset' = today /\ spent' = SpentToday
    BY <1>4, <1>a DEF ChargeRefused, Return, Held, HeldStages, worldVars, history
  <2>2. /\ exposure[today] \in Nat /\ excused[today] \in Nat
        /\ SpentToday \in Nat
        /\ exposure[today] <= SpentToday + excused[today]
    BY <2>1, <1>b DEF LedgerInv, SpentToday
  <2> QED
    BY <2>1, <2>2, <1>b DEF LedgerInv, OverspendExplained
<1>5. CASE AcquireToken
  BY <1>5, LedgerFrame
     DEF AcquireToken, worldVars, history
<1>6. CASE RateLimited
  BY <1>6, LedgerRefund, <1>a
     DEF RateLimited, HeldStages, Return, worldVars, history
<1>7. CASE SwitchClosed
  BY <1>7, LedgerFrame
     DEF SwitchClosed, procVars, worldVars, history
<1>8. CASE SwitchRefuses
  BY <1>8, LedgerRefund, <1>a
     DEF SwitchRefuses, HeldStages, Return, worldVars, history
<1>9. CASE BuildBundle
  BY <1>9, LedgerFrame
     DEF BuildBundle, procVars, worldVars, history
<1>10. CASE BuildFails
  BY <1>10, LedgerRefund, <1>a
     DEF BuildFails, HeldStages, Return, worldVars, history
<1>11. CASE SimulatePositive
  BY <1>11, LedgerFrame
     DEF SimulatePositive, procVars, worldVars, history
<1>12. ASSUME NEW v \in {"NonPositive", "Error"}, SimulateRejects(v)
      PROVE  LedgerInv'
  BY <1>12, LedgerRefund, <1>a
     DEF SimulateRejects, HeldStages, Return, worldVars, history
<1>13. CASE SignAndAssemble
  BY <1>13, LedgerFrame
     DEF SignAndAssemble, procVars, worldVars, history
<1>14. CASE SignOrAssembleFails
  BY <1>14, LedgerRefund, <1>a
     DEF SignOrAssembleFails, HeldStages, Return, worldVars, history
<1>15. CASE SubmitAccepted
  BY <1>15, LedgerTaken
     DEF SubmitAccepted, procVars, cap, worldVars
<1>16. CASE SubmitRefused
  BY <1>16, LedgerRefund, <1>a
     DEF SubmitRefused, HeldStages, Return, worldVars, history
<1>17. CASE SubmitReplyLost
  <2>1. spent' = spent - tip /\ charge' = "back" /\ UNCHANGED lastReset
    BY <1>17, <1>a, RefundFacts
       DEF SubmitReplyLost, HeldStages, Inv, TypeOK, ChargeInv
  <2> QED
    BY <1>17, <2>1, LedgerTaken DEF SubmitReplyLost, Return, worldVars
<1>18. CASE PollLanded
  BY <1>18, LedgerFrame
     DEF PollLanded, Return, history
<1>19. CASE PollNotLanded
  BY <1>19, LedgerFrame
     DEF PollNotLanded, RecordLost, Return, worldVars, history
<1>20. CASE PollFails
  BY <1>20, LedgerFrame
     DEF PollFails, RecordLost, Return, worldVars, history
<1>21. ASSUME NEW f \in {"landed", "dropped"}, EngineDecides(f)
      PROVE  LedgerInv'
  BY <1>21, LedgerFrame
     DEF EngineDecides, procVars, worldVars, history
<1>22. CASE Midnight
  <2>1. today' = today + 1 /\ today' \in Days /\ lastReset' # today'
        /\ UNCHANGED <<exposure, excused, spent, lastReset, pc, charge, tip>>
    BY <1>22, <1>b, LiveAssumption
       DEF Midnight, Days, cycleVars, procVars, cap, history
  <2>2. exposure[today'] <= excused[today']
    BY <2>1, <1>b DEF LedgerInv
  <2> QED
    BY <2>1, <2>2, <1>b DEF LedgerInv, OverspendExplained, Held
<1>23. CASE TouchStop
  BY <1>23, LedgerFrame
     DEF TouchStop, cycleVars, procVars
<1>24. CASE ClearStop
  BY <1>24, LedgerFrame
     DEF ClearStop, cycleVars, procVars, history
<1>25. CASE Refill
  BY <1>25, LedgerFrame
     DEF Refill, cycleVars, worldVars, history
<1>26. CASE Crash
  <2>1. /\ pc # "down" /\ pc' = "down"
        /\ UNCHANGED <<exposure, today, lastReset, spent>>
        /\ excused' = [excused EXCEPT ![lastReset] = @ + (spent - Held)]
    BY <1>26 DEF Crash, procVars, cap, worldVars
  <2>2. Held \in Nat /\ spent - Held \in Nat
    BY HeldFacts DEF Inv
  <2>3. \A d \in Days : excused'[d] \in Nat /\ excused[d] <= excused'[d]
    BY <2>1, <2>2, <1>b
  <2>4. exposure[today] <= excused'[today]
    BY <2>1, <2>2, <1>b DEF LedgerInv
  <2>5. OverspendExplained'
    BY <2>1, <2>3, <1>b DEF LedgerInv, OverspendExplained
  <2> QED
    BY <2>1, <2>4, <2>5, <1>b DEF LedgerInv
<1>27. CASE Boot
  <2>1. /\ pc = "down" /\ charge' # "held" /\ Held' = 0 /\ spent' = 0
        /\ UNCHANGED <<exposure, excused, today>>
    BY <1>27 DEF Boot, Held, history
  <2> QED
    BY <2>1, <1>b DEF LedgerInv, OverspendExplained
<1>28. ASSUME NEW t \in Tips, RejectAtGates(t) \/ PassGates(t) PROVE LedgerInv'
  BY <1>28, <1>2 DEF RejectAtGates, PassGates, Return
<1> QED
  BY <1>1, <1>2, <1>3, <1>4, <1>5, <1>6, <1>7, <1>8, <1>9, <1>10, <1>11,
     <1>12, <1>13, <1>14, <1>15, <1>16, <1>17, <1>18, <1>19, <1>20,
     <1>21, <1>22, <1>23, <1>24, <1>25, <1>26, <1>27, <1>28
     DEF Next, Detect, Pipeline, Environment

(* The worst case of a day is the cap and what was excused: one process's  *)
(* charges, refunds and roll-overs, and any number of restarts, cannot     *)
(* push what the engine took further, for any cap and any tips.            *)
THEOREM OverspendBounded == Spec => []OverspendExplained
<1>1. Init => LedgerInv
  BY LiveAssumption
     DEF Init, LedgerInv, OverspendExplained, Zero, Days, Held
<1>2. LedgerInv => OverspendExplained
  BY DEF LedgerInv
<1> QED
  BY <1>1, <1>2, NextLedger, InvHolds, PTL DEF Spec

-----------------------------------------------------------------------------
(* Every step keeps what the gates promise. *)
LEMMA NextGate == Inv /\ GateInv /\ [Next]_vars => GateInv'
<1> SUFFICES ASSUME Inv, GateInv, [Next]_vars PROVE GateInv'
  OBVIOUS
<1> USE LiveAssumption DEF GateInv, StopLetsOneThrough, PastSwitch
<1>a. sinceStop \in Nat /\ losses \in Nat /\ stop \in BOOLEAN
  BY DEF Inv, TypeOK, ProcTypeOK, WorldTypeOK, HistoryTypeOK
<1>1. CASE UNCHANGED vars
  BY <1>1, <1>a
     DEF vars, cycleVars, procVars, worldVars, history
<1>2. ASSUME NEW t \in Tips, RejectAtGates(t) \/ PassGates(t)
      PROVE  GateInv'
  BY <1>2, <1>a
     DEF RejectAtGates, PassGates, NewCycle, Return, worldVars, history
<1>3. CASE ChargeCap
  BY <1>3, <1>a
     DEF ChargeCap, worldVars, history
<1>4. CASE ChargeRefused
  BY <1>4, <1>a
     DEF ChargeRefused, Return, worldVars, history
<1>5. CASE AcquireToken
  BY <1>5, <1>a
     DEF AcquireToken, worldVars, history
<1>6. CASE RateLimited
  BY <1>6, <1>a
     DEF RateLimited, Return, worldVars, history
<1>7. CASE SwitchClosed
  BY <1>7, <1>a
     DEF SwitchClosed, SwitchOpen, procVars, worldVars, history
<1>8. CASE SwitchRefuses
  BY <1>8, <1>a
     DEF SwitchRefuses, Return, worldVars, history
<1>9. CASE BuildBundle
  BY <1>9, <1>a
     DEF BuildBundle, procVars, worldVars, history
<1>10. CASE BuildFails
  BY <1>10, <1>a
     DEF BuildFails, Return, worldVars, history
<1>11. CASE SimulatePositive
  BY <1>11, <1>a
     DEF SimulatePositive, procVars, worldVars, history
<1>12. ASSUME NEW v \in {"NonPositive", "Error"}, SimulateRejects(v)
      PROVE  GateInv'
  BY <1>12, <1>a
     DEF SimulateRejects, Return, worldVars, history
<1>13. CASE SignAndAssemble
  BY <1>13, <1>a
     DEF SignAndAssemble, procVars, worldVars, history
<1>14. CASE SignOrAssembleFails
  BY <1>14, <1>a
     DEF SignOrAssembleFails, Return, worldVars, history
<1>15. CASE SubmitAccepted
  BY <1>15, <1>a
     DEF SubmitAccepted, EngineTakes, procVars, worldVars
<1>16. CASE SubmitRefused
  BY <1>16, <1>a
     DEF SubmitRefused, Return, worldVars, history
<1>17. CASE SubmitReplyLost
  BY <1>17, <1>a
     DEF SubmitReplyLost, EngineTakes, Return, worldVars
<1>18. CASE PollLanded
  BY <1>18, <1>a
     DEF PollLanded, Return, history
<1>19. CASE PollNotLanded
  BY <1>19, <1>a
     DEF PollNotLanded, RecordLost, Return, worldVars, history
<1>20. CASE PollFails
  BY <1>20, <1>a
     DEF PollFails, RecordLost, Return, worldVars, history
<1>21. ASSUME NEW f \in {"landed", "dropped"}, EngineDecides(f)
      PROVE  GateInv'
  BY <1>21, <1>a
     DEF EngineDecides, procVars, worldVars, history
<1>22. CASE Midnight
  BY <1>22, <1>a
     DEF Midnight, cycleVars, procVars, history
<1>23. CASE TouchStop
  BY <1>23, <1>a
     DEF TouchStop, cycleVars, procVars
<1>24. CASE ClearStop
  BY <1>24, <1>a
     DEF ClearStop, cycleVars, procVars, history
<1>25. CASE Refill
  BY <1>25, <1>a
     DEF Refill, cycleVars, worldVars, history
<1>26. CASE Crash
  BY <1>26, <1>a
     DEF Crash, procVars, worldVars
<1>27. CASE Boot
  BY <1>27, <1>a
     DEF Boot, history
<1> QED
  BY <1>1, <1>2, <1>3, <1>4, <1>5, <1>6, <1>7, <1>8, <1>9, <1>10, <1>11,
     <1>12, <1>13, <1>14, <1>15, <1>16, <1>17, <1>18, <1>19, <1>20,
     <1>21, <1>22, <1>23, <1>24, <1>25, <1>26, <1>27
     DEF Next, Detect, Pipeline, Environment

LEMMA GateHolds == Spec => []GateInv
<1>1. Init => GateInv
  BY DEF Init, GateInv, StopLetsOneThrough, PastSwitch
<1> QED
  BY <1>1, NextGate, InvHolds, PTL DEF Spec

(* Whenever the operator touches STOP, at most one more bundle reaches the *)
(* engine.                                                                 *)
THEOREM StopHonoured == Spec => []StopLetsOneThrough
<1>1. GateInv => StopLetsOneThrough
  BY DEF GateInv
<1> QED
  BY <1>1, GateHolds, PTL

(* No bundle reaches the engine past a gate it did not pass. *)
THEOREM Vetted == Spec => OnlyVettedReachEngine
<1>1. ASSUME Inv, GateInv, [Next]_vars, fate = "none", fate' = "pending"
      PROVE  /\ charge = "held" /\ tip <= PerBundleCap /\ tip <= spent
             /\ losses < MaxLosses
             /\ Simulates => verdict = "Positive"
  <2>1. pc = "submit"
    BY <1>1
       DEF Next, vars, cycleVars, Detect, RejectAtGates, PassGates, NewCycle,
           Pipeline, ChargeCap, ChargeRefused, AcquireToken, RateLimited,
           SwitchClosed, SwitchRefuses, BuildBundle, BuildFails,
           SimulatePositive, SimulateRejects, SignAndAssemble,
           SignOrAssembleFails, SubmitAccepted, SubmitRefused,
           SubmitReplyLost, PollLanded, PollNotLanded, PollFails, RecordLost,
           Environment, EngineDecides, Midnight, TouchStop, ClearStop, Refill,
           Crash, Boot
  <2> QED
    BY <1>1, <2>1 DEF Inv, ChargeInv, HeldStages, GateInv, PastSwitch
<1> QED
  BY <1>1, InvHolds, GateHolds, PTL DEF Spec, OnlyVettedReachEngine

-----------------------------------------------------------------------------
(* A step that neither counts, captures nor begins a cycle leaves the      *)
(* counts in order, provided a cycle that ends is over for good.           *)
LEMMA CountFrame ==
    ASSUME CountInv, UNCHANGED <<seq, landed, failed, boots, captures>>,
           pc' \in Stages => pc \in Stages,
           pc' # "down" => pc # "down"
    PROVE  CountInv'
BY DEF CountInv, CountedAtMostOnce, CaptureKeyPerProcess

(* A cycle under way ends as a failure, and is no longer under way. *)
LEMMA CountEnds ==
    ASSUME Inv, CountInv, pc \in Stages, pc' = "idle", CountFailed,
           UNCHANGED <<boots, captures>>
    PROVE  CountInv'
BY DEF Inv, TypeOK, ProcTypeOK, Stages, CountInv, CountedAtMostOnce,
       CaptureKeyPerProcess, CountFailed

(* Every step keeps the counts in order. *)
LEMMA NextCount == Inv /\ CountInv /\ [Next]_vars => CountInv'
<1> SUFFICES ASSUME Inv, CountInv, [Next]_vars PROVE CountInv'
  OBVIOUS
<1>a. /\ seq \in 0 .. MaxSeq /\ landed \in Nat /\ failed \in Nat
      /\ boots \in Nat /\ captures \in [1 .. MaxSeq -> Nat]
  BY LiveAssumption DEF Inv, TypeOK, ProcTypeOK, WorldTypeOK
<1>1. CASE UNCHANGED vars
  BY <1>1, CountFrame
     DEF vars, cycleVars, procVars, metrics, worldVars
<1>2. ASSUME NEW t \in Tips, RejectAtGates(t) \/ PassGates(t)
      PROVE  CountInv'
  <2>1. /\ pc = "idle" /\ seq' = seq + 1 /\ pc' # "down"
        /\ UNCHANGED <<landed, failed, boots, captures>>
    BY <1>2 DEF RejectAtGates, PassGates, NewCycle, Return, worldVars
  <2>2. ASSUME NEW s \in 1 .. MaxSeq, s > seq PROVE captures[s] < boots
    BY <2>1, <2>2, <1>a DEF CountInv
  <2>3. \A s \in 1 .. MaxSeq : s >= seq' => captures'[s] < boots'
    BY <2>1, <2>2, <1>a
  <2> QED
    BY <2>1, <2>3, <1>a
       DEF CountInv, CountedAtMostOnce, CaptureKeyPerProcess
<1>3. CASE ChargeCap
  BY <1>3, CountFrame
     DEF ChargeCap, Return, procVars, metrics, worldVars, Stages
<1>4. CASE ChargeRefused
  BY <1>4, CountEnds
     DEF ChargeRefused, Return, procVars, metrics, worldVars, Stages
<1>5. CASE AcquireToken
  BY <1>5, CountFrame
     DEF AcquireToken, Return, procVars, metrics, worldVars, Stages
<1>6. CASE RateLimited
  BY <1>6, CountFrame
     DEF RateLimited, Return, procVars, metrics, worldVars, Stages
<1>7. CASE SwitchClosed
  BY <1>7, CountFrame
     DEF SwitchClosed, Return, procVars, metrics, worldVars, Stages
<1>8. CASE SwitchRefuses
  BY <1>8, CountFrame
     DEF SwitchRefuses, Return, procVars, metrics, worldVars, Stages
<1>9. CASE BuildBundle
  BY <1>9, CountFrame
     DEF BuildBundle, Return, procVars, metrics, worldVars, Stages
<1>10. CASE BuildFails
  BY <1>10, CountEnds
     DEF BuildFails, Return, procVars, metrics, worldVars, Stages
<1>11. CASE SimulatePositive
  BY <1>11, CountFrame
     DEF SimulatePositive, Return, procVars, metrics, worldVars, Stages
<1>12. ASSUME NEW v \in {"NonPositive", "Error"}, SimulateRejects(v)
      PROVE  CountInv'
  BY <1>12, CountFrame
     DEF SimulateRejects, Return, metrics, worldVars, Stages
<1>13. CASE SignAndAssemble
  BY <1>13, CountFrame
     DEF SignAndAssemble, Return, procVars, metrics, worldVars, Stages
<1>14. CASE SignOrAssembleFails
  BY <1>14, CountFrame
     DEF SignOrAssembleFails, Return, procVars, metrics, worldVars,
         Stages
<1>15. CASE SubmitAccepted
  BY <1>15, CountFrame
     DEF SubmitAccepted, Return, procVars, metrics, worldVars, Stages
<1>16. CASE SubmitRefused
  BY <1>16, CountEnds
     DEF SubmitRefused, Return, procVars, metrics, worldVars, Stages
<1>17. CASE SubmitReplyLost
  BY <1>17, CountEnds
     DEF SubmitReplyLost, Return, procVars, metrics, worldVars, Stages
<1>18. CASE PollLanded
  <2>1. /\ pc = "poll" /\ pc' = "idle" /\ landed' = landed + 1
        /\ UNCHANGED <<seq, failed, boots>>
        /\ \/ captures' = [captures EXCEPT ![seq] = @ + 1]
           \/ UNCHANGED captures
    BY <1>18 DEF PollLanded, CountLanded, Return
  <2>2. landed + failed < seq
        /\ \A s \in 1 .. MaxSeq : s >= seq => captures[s] < boots
    BY <2>1, <1>a DEF CountInv, Stages
  <2>3. ASSUME NEW s \in 1 .. MaxSeq
        PROVE  /\ captures[s] \in Nat
               /\ \/ captures'[s] = captures[s]
                  \/ s = seq /\ captures'[s] = captures[s] + 1
    BY <2>1, <1>a
  <2>4. \A s \in 1 .. MaxSeq : captures'[s] <= boots
    BY <2>2, <2>3, <1>a DEF CountInv, CaptureKeyPerProcess
  <2>5. \A s \in 1 .. MaxSeq : s > seq => captures'[s] < boots
    BY <2>2, <2>3, <1>a
  <2> QED
    BY <2>1, <2>2, <2>4, <2>5, <1>a
       DEF CountInv, CountedAtMostOnce, CaptureKeyPerProcess, Stages
<1>19. CASE PollNotLanded
  BY <1>19, CountEnds
     DEF PollNotLanded, RecordLost, Return, worldVars, Stages
<1>20. CASE PollFails
  BY <1>20, CountEnds
     DEF PollFails, RecordLost, Return, worldVars, Stages
<1>21. ASSUME NEW f \in {"landed", "dropped"}, EngineDecides(f)
      PROVE  CountInv'
  BY <1>21, CountFrame
     DEF EngineDecides, procVars, metrics, worldVars, Stages
<1>22. CASE Midnight
  BY <1>22, CountFrame
     DEF Midnight, cycleVars, procVars, metrics, worldVars, Stages
<1>23. CASE TouchStop
  BY <1>23, CountFrame
     DEF TouchStop, cycleVars, procVars, metrics, worldVars, Stages
<1>24. CASE ClearStop
  BY <1>24, CountFrame
     DEF ClearStop, cycleVars, procVars, metrics, worldVars, Stages
<1>25. CASE Refill
  BY <1>25, CountFrame
     DEF Refill, cycleVars, procVars, metrics, worldVars, Stages
<1>26. CASE Crash
  BY <1>26, CountFrame
     DEF Crash, cycleVars, procVars, metrics, worldVars, Stages
<1>27. CASE Boot
  BY <1>27, <1>a
     DEF Boot, CountInv, CountedAtMostOnce, CaptureKeyPerProcess, Stages
<1> QED
  BY <1>1, <1>2, <1>3, <1>4, <1>5, <1>6, <1>7, <1>8, <1>9, <1>10, <1>11,
     <1>12, <1>13, <1>14, <1>15, <1>16, <1>17, <1>18, <1>19, <1>20,
     <1>21, <1>22, <1>23, <1>24, <1>25, <1>26, <1>27
     DEF Next, Detect, Pipeline, Environment

LEMMA CountHolds == Spec => []CountInv
<1>1. Init => CountInv
  BY LiveAssumption
     DEF Init, CountInv, CountedAtMostOnce, CaptureKeyPerProcess, Stages
<1> QED
  BY <1>1, NextCount, InvHolds, PTL DEF Spec

(* The counters never claim more bundles than there were cycles. *)
THEOREM CountsInOrder == Spec => []CountedAtMostOnce
<1>1. CountInv => CountedAtMostOnce
  BY DEF CountInv
<1> QED
  BY <1>1, CountHolds, PTL

(* One cycle_seq names at most one captured bundle of each process. *)
THEOREM CapturesInOrder == Spec => []CaptureKeyPerProcess
<1>1. CountInv => CaptureKeyPerProcess
  BY DEF CountInv
<1> QED
  BY <1>1, CountHolds, PTL

-----------------------------------------------------------------------------
(* The refinement: each step of the submit path is a step of TipBudget, or *)
(* leaves the budget alone.                                                *)
BudgetUnchanged == UNCHANGED Budget!vars

LEMMA BudgetFrame ==
    ASSUME UNCHANGED <<spent, lastReset, charge, tip>>,
           pc' = "down" <=> pc = "down"
    PROVE  BudgetUnchanged
BY DEF BudgetUnchanged, Budget!vars, Held

(* A refund of a held tip releases the reservation. *)
LEMMA BudgetRelease ==
    ASSUME Inv, charge = "held", pc # "down", pc' # "down", Refund,
           UNCHANGED tip
    PROVE  Budget!Release
<1>1. spent' = spent - tip /\ lastReset' = lastReset /\ Held = tip /\ Held' = 0
  BY RefundFacts DEF Inv, TypeOK, ChargeInv, Held, Refund
<1>2. tip \in Nat /\ spent \in Nat
  BY DEF Inv, TypeOK, CycleTypeOK, ProcTypeOK
<1> QED
  BY <1>1, <1>2 DEF Budget!Release

LEMMA BudgetStep == Inv /\ [Next]_vars => [Budget!Next]_Budget!vars
<1> SUFFICES ASSUME Inv, [Next]_vars PROVE Budget!Next \/ BudgetUnchanged
  BY DEF BudgetUnchanged
<1> USE DEF Budget!Next
<1>a. /\ pc \in HeldStages => charge = "held"
      /\ charge = "held" => pc \in HeldStages \cup {"down"}
  BY DEF Inv, ChargeInv
<1>b. /\ spent \in Nat /\ tip \in Nat /\ today \in Nat /\ lastReset \in Nat
      /\ lastReset <= today /\ spent <= DailyCap /\ DailyCap \in Nat
      /\ PerBundleCap \in Nat
  BY LiveAssumption
     DEF Inv, TypeOK, CycleTypeOK, ProcTypeOK, WorldTypeOK, ChargeInv,
         CalendarInv, Days
<1>1. CASE UNCHANGED vars
  BY <1>1, BudgetFrame DEF vars, cycleVars, procVars, cap
<1>2. ASSUME NEW t \in Tips, RejectAtGates(t) \/ PassGates(t)
      PROVE  BudgetUnchanged
  <2>1. Held = 0 /\ Held' = 0 /\ UNCHANGED <<spent, lastReset>>
        /\ pc # "down" /\ pc' # "down"
    BY <1>2, <1>a
       DEF RejectAtGates, PassGates, NewCycle, Return, Held, HeldStages, cap
  <2> QED
    BY <2>1 DEF BudgetUnchanged, Budget!vars
<1>3. CASE ChargeCap
  <2>1. /\ Held = 0 /\ Held' = tip /\ pc # "down" /\ pc' # "down"
        /\ lastReset' = today /\ spent' = SpentToday + tip
    BY <1>3, <1>a DEF ChargeCap, Held, HeldStages
  <2>2. tip <= PerBundleCap /\ SpentToday + tip <= DailyCap
        /\ SpentToday \in Nat
    BY <1>3, AffordableFacts, SpentTodayFacts
       DEF ChargeCap, Inv, TypeOK, ChargeInv
  <2>3. Budget!Carried(today) = SpentToday
    BY <2>1, <1>b DEF Budget!Carried, SpentToday
  <2>4. Budget!Reserve(tip)
    BY <2>1, <2>2, <2>3, <1>b DEF Budget!Reserve
  <2> QED
    BY <2>2, <2>4, <1>b
<1>4. CASE ChargeRefused
  <2>1. /\ Held = 0 /\ Held' = 0 /\ pc # "down" /\ pc' # "down"
        /\ lastReset' = today /\ spent' = SpentToday
    BY <1>4, <1>a DEF ChargeRefused, Return, Held, HeldStages
  <2>2. CASE today = lastReset
    BY <2>1, <2>2, <1>b DEF BudgetUnchanged, Budget!vars, SpentToday
  <2>3. CASE today # lastReset
    BY <2>1, <2>3, <1>b DEF Budget!OpenDay, SpentToday
  <2> QED
    BY <2>2, <2>3
<1>5. CASE AcquireToken
  BY <1>5, BudgetFrame
     DEF AcquireToken, procVars, cap
<1>6. CASE RateLimited
  BY <1>6, BudgetRelease, <1>a
     DEF RateLimited, Return, HeldStages
<1>7. CASE SwitchClosed
  BY <1>7, BudgetFrame
     DEF SwitchClosed, procVars, cap
<1>8. CASE SwitchRefuses
  BY <1>8, BudgetRelease, <1>a
     DEF SwitchRefuses, Return, HeldStages
<1>9. CASE BuildBundle
  BY <1>9, BudgetFrame
     DEF BuildBundle, procVars, cap
<1>10. CASE BuildFails
  BY <1>10, BudgetRelease, <1>a
     DEF BuildFails, Return, HeldStages
<1>11. CASE SimulatePositive
  BY <1>11, BudgetFrame
     DEF SimulatePositive, procVars, cap
<1>12. ASSUME NEW v \in {"NonPositive", "Error"}, SimulateRejects(v)
      PROVE  Budget!Next
  BY <1>12, BudgetRelease, <1>a
     DEF SimulateRejects, Return, HeldStages
<1>13. CASE SignAndAssemble
  BY <1>13, BudgetFrame
     DEF SignAndAssemble, procVars, cap
<1>14. CASE SignOrAssembleFails
  BY <1>14, BudgetRelease, <1>a
     DEF SignOrAssembleFails, Return, HeldStages
<1>15. CASE SubmitAccepted
  <2>1. /\ Held = tip /\ Held' = 0 /\ pc # "down" /\ pc' # "down"
        /\ UNCHANGED <<spent, lastReset>>
    BY <1>15, <1>a DEF SubmitAccepted, Held, HeldStages, procVars, cap
  <2>2. Budget!Commit
    BY <2>1, <1>b DEF Budget!Commit
  <2> QED
    BY <2>2
<1>16. CASE SubmitRefused
  BY <1>16, BudgetRelease, <1>a
     DEF SubmitRefused, Return, HeldStages
<1>17. CASE SubmitReplyLost
  BY <1>17, BudgetRelease, <1>a
     DEF SubmitReplyLost, Return, HeldStages
<1>18. CASE PollLanded
  BY <1>18, BudgetFrame
     DEF PollLanded, Return, cap
<1>19. CASE PollNotLanded
  BY <1>19, BudgetFrame
     DEF PollNotLanded, RecordLost, Return, cap
<1>20. CASE PollFails
  BY <1>20, BudgetFrame
     DEF PollFails, RecordLost, Return, cap
<1>21. ASSUME NEW f \in {"landed", "dropped"}, EngineDecides(f)
      PROVE  BudgetUnchanged
  BY <1>21, BudgetFrame
     DEF EngineDecides, procVars, cap
<1>22. CASE Midnight
  BY <1>22, BudgetFrame
     DEF Midnight, cycleVars, procVars, cap
<1>23. CASE TouchStop
  BY <1>23, BudgetFrame
     DEF TouchStop, cycleVars, procVars, cap
<1>24. CASE ClearStop
  BY <1>24, BudgetFrame
     DEF ClearStop, cycleVars, procVars, cap
<1>25. CASE Refill
  BY <1>25, BudgetFrame
     DEF Refill, cycleVars, procVars, cap
<1>26. CASE Crash
  BY <1>26 DEF Crash, Budget!Die, Held, procVars, cap
<1>27. CASE Boot
  BY <1>27 DEF Boot, Budget!Restart, Held
<1> QED
  BY <1>1, <1>2, <1>3, <1>4, <1>5, <1>6, <1>7, <1>8, <1>9, <1>10, <1>11,
     <1>12, <1>13, <1>14, <1>15, <1>16, <1>17, <1>18, <1>19, <1>20,
     <1>21, <1>22, <1>23, <1>24, <1>25, <1>26, <1>27
     DEF Next, Detect, Pipeline, Environment

(* The submit path implements the budget: within one process every tip is  *)
(* reserved within both caps before its bundle is built, settled once, and *)
(* the books change only at midnight.                                      *)
THEOREM BudgetImplemented == Spec => ImplementsBudget
<1>1. Init => Budget!Init
  BY DEF Init, Budget!Init, Held
<1> QED
  BY <1>1, BudgetStep, InvHolds, PTL DEF Spec, ImplementsBudget, Budget!Spec
=============================================================================
