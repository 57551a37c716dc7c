------------------------- MODULE PaperTradingProofs -------------------------
(***************************************************************************)
(* Paper trading.  PaperWallet: what the disk keeps of a wallet, for any   *)
(* profits, batches and number of starts: the saves only extend the        *)
(* history that is on it, the lines behind it speak of no trade that it    *)
(* has not, and a trade without a line was lost by a failure or a stop     *)
(* that is counted.  Detection: for any listing and any reports, what the  *)
(* edges of the streaming graph say, and what a prune leaves of a batch    *)
(* graph.  Replay: for any pools, costs and bounds, what the ledger of a   *)
(* replay reconciles to, and what a record that would trade gains.         *)
(***************************************************************************)
EXTENDS PaperWallet, Detection, Replay, SequenceTheorems, FiniteSetTheorems, WellFoundedInduction, TLAPS

(* The wallet in memory continues the one a restart would load, unless the *)
(* process could not read it.  A boot may load any wallet in file, so      *)
(* there must be one history only.                                         *)
Continues ==
    /\ wallet.trades \in Seq(Profits)
    /\ \A w \in file : w.trades \in Seq(Profits)
    /\ \A u, w \in file : u = w
    /\ \A u, w \in durable : u = w
    /\ \A w \in durable : w.trades \in Seq(Profits)
    /\ pc # "down" /\ ~unread => \A w \in file : Extends(wallet.trades, w.trades)
    /\ unread => lost

LEMMA ExtendsItself == ASSUME NEW s \in Seq(Profits) PROVE Extends(s, s)
BY DEF Extends

LEMMA ExtendsMore ==
  ASSUME NEW s \in Seq(Profits), NEW t \in Seq(Profits), NEW p \in Profits,
         Extends(s, t)
  PROVE  Extends(Append(s, p), t)
<1>1. /\ Len(Append(s, p)) = Len(s) + 1
      /\ \A i \in 1 .. Len(s) : Append(s, p)[i] = s[i]
  BY AppendProperties
<1>2. Len(s) \in Nat /\ Len(t) \in Nat /\ DOMAIN t = 1 .. Len(t)
  BY LenProperties
<1> QED BY <1>1, <1>2 DEF Extends

LEMMA ContinuesStep == Continues /\ [Next]_vars => Continues'
<1> SUFFICES ASSUME Continues, [Next]_vars PROVE Continues'
  OBVIOUS
<1> USE DEF Continues, disk
<1>1. CASE UNCHANGED vars
  BY <1>1 DEF vars, Extends
<1>2. CASE Boot
  <2>1. Fresh.trades \in Seq(Profits)
    BY DEF Fresh
  <2>2. CASE file = {}
    BY <1>2, <2>1, <2>2 DEF Boot, Loaded
  <2>3. CASE file # {}
    <3>1. wallet' \in file
      BY <1>2, <2>3 DEF Boot, Loaded
    <3>2. \A w \in file : w = wallet'
      BY <3>1
    <3> QED BY <1>2, <3>1, <3>2, ExtendsItself DEF Boot
  <2> QED BY <2>2, <2>3
<1>3. CASE \/ Skip \/ WriteTmp \/ SaveFails \/ AppendLine
           \/ \E tearing \in BOOLEAN : AppendFails(tearing)
  BY <1>3 DEF Skip, WriteTmp, SaveFails, AppendLine, AppendFails, Advance, Break, Extends
<1>4. ASSUME NEW n \in 1 .. MaxBatch, Detect(n) PROVE Continues'
  BY <1>4 DEF Detect, Extends
<1>5. ASSUME NEW p \in Profits, InsufficientFunds(p) PROVE Continues'
  BY <1>5 DEF InsufficientFunds, Break, Extends
<1>6. ASSUME NEW p \in Profits, Execute(p) PROVE Continues'
  <2>1. wallet'.trades = Append(wallet.trades, p) /\ pc # "down" /\ UNCHANGED disk
    BY <1>6 DEF Execute
  <2>2. wallet'.trades \in Seq(Profits)
    BY <2>1, AppendProperties
  <2>3. ~unread => \A w \in file : Extends(wallet'.trades, w.trades)
    BY <2>1, ExtendsMore
  <2>4. UNCHANGED <<unread, lost>>
    BY <1>6 DEF Execute
  <2> QED BY <2>1, <2>2, <2>3, <2>4
<1>7. CASE Rename
  BY <1>7, ExtendsItself DEF Rename
<1>8. CASE Stop \/ \E tearing \in BOOLEAN : StopAtLine(tearing)
  <2>1. Fresh.trades \in Seq(Profits)
    BY DEF Fresh
  <2> QED BY <1>8, <2>1 DEF Stop, StopAtLine, Down
<1>9. ASSUME NEW kept \in flushed .. Len(lines), NEW tearing \in BOOLEAN,
             LosePower(kept, tearing)
      PROVE  Continues'
  <2>1. Fresh.trades \in Seq(Profits)
    BY DEF Fresh
  <2> QED BY <1>9, <2>1 DEF LosePower, Down
<1>10. CASE WriteBack \/ WriteBackLines
  BY <1>10 DEF WriteBack, WriteBackLines, Extends
<1>11. CASE BootUnread
  <2>1. Fresh.trades \in Seq(Profits)
    BY DEF Fresh
  <2> QED BY <1>11, <2>1 DEF BootUnread
<1> QED BY <1>1, <1>2, <1>3, <1>4, <1>5, <1>6, <1>7, <1>8, <1>9, <1>10, <1>11 DEF Next

LEMMA ContinuesHolds == Spec => []Continues
<1>1. Init => Continues
  BY DEF Init, Continues, Fresh
<1> QED BY <1>1, ContinuesStep, PTL DEF Spec

(* Whatever is written, fails, stops or goes down, a later wallet.json     *)
(* continues the earlier one, except where a process that could not read   *)
(* it saves its own, or a power loss undoes or empties a rename that was   *)
(* not written back (dl-paper/src/lib.rs save, load; main.rs:866-884).     *)
THEOREM HistoryIsContinued == Spec => HistoryContinued
<1> DEFINE Kept ==
      \A w \in file :
          \/ \E u \in file' : Extends(u.trades, w.trades)
          \/ pc = "rename" /\ unread
          \/ pc' = "down" /\ durable # file /\ file' \in {durable, {}}
<1>1. Continues /\ [Next]_vars => Kept
  <2> SUFFICES ASSUME Continues, [Next]_vars, NEW w \in file,
                      ~(pc = "rename" /\ unread),
                      ~(pc' = "down" /\ durable # file /\ file' \in {durable, {}})
               PROVE  \E u \in file' : Extends(u.trades, w.trades)
    OBVIOUS
  <2>1. Extends(w.trades, w.trades)
    BY ExtendsItself DEF Continues
  <2>2. CASE Rename
    <3>1. wallet \in file' /\ Extends(wallet.trades, w.trades)
      BY <2>2 DEF Rename, Continues
    <3> QED BY <3>1
  <2>3. ASSUME NEW kept, NEW tearing, LosePower(kept, tearing) PROVE file' = file
    BY <2>3 DEF LosePower, Down
  <2>4. CASE file' = file
    BY <2>1, <2>4
  <2>5. file' = file \/ Rename \/ \E kept, tearing : LosePower(kept, tearing)
    BY DEF Next, vars, disk, Boot, BootUnread, Skip, WriteTmp, SaveFails, AppendLine,
         AppendFails, Stop, StopAtLine, WriteBack, WriteBackLines, Detect, Execute,
         InsufficientFunds
  <2> QED BY <2>2, <2>3, <2>4, <2>5
<1> QED BY <1>1, ContinuesHolds, PTL DEF Spec, HistoryContinued

-----------------------------------------------------------------------------
(* The lines.  A save that succeeded makes the file longer than every line *)
(* so far, and the next line is that length.                               *)
Behind ==
    /\ DOMAIN lines = 1 .. Len(lines) /\ lines \in Seq(Nat)
    /\ flushed \in 0 .. Len(lines)
    /\ pc \in {"write", "rename"} =>
          /\ wallet.trades # <<>>
          /\ ~lost => \A w \in file : Len(w.trades) < Len(wallet.trades)
    /\ pc = "append" =>
          /\ file = {wallet} /\ wallet.trades # <<>>
          /\ ~lost => \A k \in Lines : lines[k] < Len(wallet.trades)
    /\ LineHasTrade

LEMMA PrefixIs ==
  ASSUME NEW l \in Seq(Nat), NEW k \in 0 .. Len(l)
  PROVE  /\ SubSeq(l, 1, k) \in Seq(Nat) /\ Len(SubSeq(l, 1, k)) = k
         /\ DOMAIN l = 1 .. Len(l) /\ DOMAIN SubSeq(l, 1, k) = 1 .. k
         /\ \A i \in 1 .. k : i \in DOMAIN l /\ SubSeq(l, 1, k)[i] = l[i]
<1>1. Len(l) \in Nat /\ DOMAIN l = 1 .. Len(l)
  BY LenProperties
<1>2. \A i \in 1 .. k : i \in 1 .. Len(l) /\ l[i] \in Nat
  BY <1>1, ElementOfSeq
<1> QED BY <1>1, <1>2, SubSeqProperties

LEMMA BehindStep == Continues /\ Behind /\ [Next]_vars => Behind'
<1> SUFFICES ASSUME Continues, Behind, [Next]_vars PROVE Behind'
  OBVIOUS
<1> USE DEF Behind, LineHasTrade, Lines, disk
<1>1. CASE UNCHANGED vars
  BY <1>1 DEF vars
<1>2. CASE Boot \/ BootUnread
  BY <1>2 DEF Boot, BootUnread
<1>3. CASE Skip \/ SaveFails \/ WriteTmp \/ \E tearing \in BOOLEAN : AppendFails(tearing)
  BY <1>3 DEF Skip, WriteTmp, SaveFails, AppendFails, Advance, Break
<1>4. ASSUME NEW n \in 1 .. MaxBatch, Detect(n) PROVE Behind'
  BY <1>4 DEF Detect
<1>5. ASSUME NEW p \in Profits, InsufficientFunds(p) PROVE Behind'
  BY <1>5 DEF InsufficientFunds, Break
<1>6. ASSUME NEW p \in Profits, Execute(p) PROVE Behind'
  <2>1. /\ wallet'.trades = Append(wallet.trades, p) /\ pc = "cycles" /\ pc' = "write"
        /\ UNCHANGED <<file, lines, flushed, lost>>
    BY <1>6 DEF Execute
  <2>2. wallet'.trades # <<>> /\ Len(wallet'.trades) = Len(wallet.trades) + 1
    BY <2>1, AppendProperties DEF Continues
  <2>3. ~lost => \A w \in file : Len(w.trades) <= Len(wallet.trades)
    BY <2>1 DEF Continues, Extends
  <2>4. ~lost => \A w \in file : Len(w.trades) < Len(wallet'.trades)
    <3> SUFFICES ASSUME ~lost, NEW w \in file PROVE Len(w.trades) < Len(wallet'.trades)
      OBVIOUS
    <3>1. Len(w.trades) \in Nat /\ Len(wallet.trades) \in Nat
      BY LenProperties DEF Continues
    <3> QED BY <2>2, <2>3, <3>1
  <2> QED BY <2>1, <2>2, <2>4
<1>7. CASE Rename
  <2>1. /\ pc = "rename" /\ pc' = "append" /\ file' = {wallet}
        /\ UNCHANGED <<wallet, lines, flushed, lost>>
    BY <1>7 DEF Rename
  <2>2. ASSUME ~lost, NEW k \in Lines PROVE lines[k] < Len(wallet.trades)
    <3>1. PICK w \in file : lines[k] <= Len(w.trades)
      BY <2>2
    <3>2. lines[k] \in Nat /\ Len(w.trades) \in Nat /\ Len(wallet.trades) \in Nat
      BY <2>2, LenProperties DEF Continues
    <3> QED BY <2>1, <2>2, <3>1, <3>2
  <2>3. ASSUME ~lost, NEW k \in Lines PROVE lines[k] <= Len(wallet.trades)
    <3>1. lines[k] \in Nat /\ Len(wallet.trades) \in Nat
      BY <2>3, LenProperties DEF Continues
    <3> QED BY <2>2, <2>3, <3>1
  <2> QED BY <2>1, <2>2, <2>3
<1>8. CASE AppendLine
  <2> DEFINE id == IF torn THEN 0 ELSE Len(wallet.trades)
  <2>1. /\ pc = "append" /\ pc' \in {"loop", "cycles"} /\ lines' = Append(lines, id)
        /\ UNCHANGED <<wallet, file, flushed, lost>>
    BY <1>8 DEF AppendLine, Advance
  <2>2. id \in Nat /\ Len(wallet.trades) \in Nat /\ id <= Len(wallet.trades)
    BY LenProperties DEF Continues
  <2> HIDE DEF id
  <2>3. /\ lines' \in Seq(Nat) /\ Len(lines') = Len(lines) + 1
        /\ \A k \in 1 .. Len(lines) : lines'[k] = lines[k]
        /\ lines'[Len(lines) + 1] = id
    BY <2>1, <2>2, AppendProperties
  <2>4. Len(lines) \in Nat /\ DOMAIN lines' = 1 .. Len(lines) + 1
    BY <2>3, LenProperties
  <2>5. ASSUME ~lost, NEW k \in DOMAIN lines', lines'[k] # 0
        PROVE  \E w \in file : lines'[k] <= Len(w.trades)
    BY <2>1, <2>2, <2>3, <2>4, <2>5
  <2>6. ASSUME ~lost, NEW j \in DOMAIN lines', NEW k \in DOMAIN lines', j < k,
               lines'[j] # 0, lines'[k] # 0
        PROVE  lines'[j] < lines'[k]
    <3>1. j \in 1 .. Len(lines) /\ lines'[j] = lines[j]
      BY <2>3, <2>4, <2>6
    <3>2. CASE k \in 1 .. Len(lines)
      BY <2>3, <2>6, <3>1, <3>2
    <3>3. CASE k = Len(lines) + 1
      BY <2>1, <2>3, <2>6, <3>1, <3>3 DEF id
    <3> QED BY <2>4, <3>2, <3>3
  <2> QED BY <2>1, <2>3, <2>4, <2>5, <2>6
<1>9. CASE Stop \/ \E tearing \in BOOLEAN : StopAtLine(tearing)
  BY <1>9 DEF Stop, StopAtLine, Down
<1>10. ASSUME NEW kept \in flushed .. Len(lines), NEW tearing \in BOOLEAN,
              LosePower(kept, tearing)
       PROVE  Behind'
  <2>1. /\ lines' = SubSeq(lines, 1, kept) /\ flushed' = kept /\ pc' = "down"
        /\ ~lost' => ~lost /\ file' = file
    BY <1>10 DEF LosePower, Down
  <2>2. kept \in 0 .. Len(lines) /\ Len(lines) \in Nat
    BY LenProperties
  <2>3. /\ lines' \in Seq(Nat) /\ Len(lines') = kept
        /\ DOMAIN lines' = 1 .. kept
        /\ \A k \in 1 .. kept : k \in DOMAIN lines /\ lines'[k] = lines[k]
    BY <2>1, <2>2, PrefixIs
  <2>4. LineHasTrade'
    BY <2>1, <2>3
  <2> QED BY <2>1, <2>2, <2>3, <2>4
<1>11. CASE WriteBack \/ WriteBackLines
  <2>1. Len(lines) \in 0 .. Len(lines)
    BY LenProperties
  <2> QED BY <1>11, <2>1 DEF WriteBack, WriteBackLines
<1> QED BY <1>1, <1>2, <1>3, <1>4, <1>5, <1>6, <1>7, <1>8, <1>9, <1>10, <1>11 DEF Next

(* Until a wallet on disk is given up, every readable line of cycles.jsonl *)
(* is of a trade in wallet.json and no two are of the same, for any number *)
(* of restarts, failed saves and appends, and lines a power loss took back *)
(* (main.rs:1580-1600: save, then append).                                 *)
THEOREM LinesHaveTrades == Spec => []LineHasTrade
<1>1. Init => Behind
  BY DEF Init, Behind, LineHasTrade, Lines
<1>2. Behind => LineHasTrade
  BY DEF Behind
<1> QED BY <1>1, <1>2, BehindStep, ContinuesHolds, PTL DEF Spec

-----------------------------------------------------------------------------
(* The trades without a line among the first n. *)
Unlined(l, n) == {i \in 1 .. n : ~\E k \in DOMAIN l : l[k] # 0 /\ l[k] = i}

TornOne == IF torn THEN 1 ELSE 0
Owed(n) == Cardinality(Unlined(lines, n)) + TornOne

(* Each wallet a restart may load has been paid for; the trade being saved *)
(* is paid for once its line is written or has failed.                     *)
Paid ==
    /\ excused \in Nat /\ torn \in BOOLEAN /\ TornOne <= excused
    /\ \A w \in file \cup durable :
          Owed(Len(w.trades)) <= excused \/ (pc = "append" /\ w = wallet)
    /\ pc \in {"write", "rename", "append"} =>
          wallet.trades # <<>> /\ Owed(Len(wallet.trades) - 1) <= excused
    /\ pc \in {"loop", "cycles"} => Owed(Len(wallet.trades)) <= excused

LEMMA UnlinedFinite ==
  ASSUME NEW l, NEW n \in Nat
  PROVE  /\ IsFiniteSet(Unlined(l, n)) /\ Cardinality(Unlined(l, n)) \in Nat
         /\ n = 0 => Cardinality(Unlined(l, n)) = 0
<1>1. IsFiniteSet(1 .. n)
  BY FS_Interval
<1>2. Unlined(l, n) \in SUBSET (1 .. n)
  BY DEF Unlined
<1>3. IsFiniteSet(Unlined(l, n))
  BY <1>1, <1>2, FS_Subset
<1>4. n = 0 => Unlined(l, n) = {}
  BY <1>2
<1> QED BY <1>3, <1>4, FS_CardinalityType, FS_EmptySet

(* Appending a line makes no trade lineless, and one more trade is at most *)
(* one more without a line.                                                *)
LEMMA UnlinedFewer ==
  ASSUME NEW l, NEW m, NEW n \in Nat, Unlined(m, n) \subseteq Unlined(l, n)
  PROVE  Cardinality(Unlined(m, n)) <= Cardinality(Unlined(l, n))
BY UnlinedFinite, FS_Subset

LEMMA UnlinedMore ==
  ASSUME NEW l, NEW n \in Nat \ {0}
  PROVE  Cardinality(Unlined(l, n)) <= Cardinality(Unlined(l, n - 1)) + 1
<1> DEFINE U == Unlined(l, n - 1)
<1>1. IsFiniteSet(U) /\ Cardinality(U) \in Nat
  <2>1. n - 1 \in Nat
    OBVIOUS
  <2> QED BY <2>1, UnlinedFinite
<1>2. Unlined(l, n) \in SUBSET (U \cup {n})
  BY DEF Unlined
<1> HIDE DEF U
<1>3. IsFiniteSet(U \cup {n}) /\ Cardinality(U \cup {n}) <= Cardinality(U) + 1
  BY <1>1, FS_AddElement
<1>4. Cardinality(Unlined(l, n)) <= Cardinality(U \cup {n})
  BY <1>2, <1>3, FS_Subset
<1>5. Cardinality(U \cup {n}) \in Nat /\ Cardinality(Unlined(l, n)) \in Nat
  BY <1>3, UnlinedFinite, FS_CardinalityType
<1> QED BY <1>1, <1>3, <1>4, <1>5 DEF U

LEMMA CostForm ==
  ASSUME Paid
  PROVE  /\ \A n \in Nat : Owed(n) \in Nat /\ (n = 0 => Owed(n) <= excused)
         /\ \A n \in Nat \ {0} : n - 1 \in Nat /\ Owed(n) <= Owed(n - 1) + 1
<1>1. TornOne \in Nat /\ excused \in Nat /\ TornOne <= excused
  BY DEF Paid, TornOne
<1>2. ASSUME NEW n \in Nat PROVE Owed(n) \in Nat /\ (n = 0 => Owed(n) <= excused)
  <2>1. /\ Cardinality(Unlined(lines, n)) \in Nat
        /\ n = 0 => Cardinality(Unlined(lines, n)) = 0
    BY UnlinedFinite
  <2> QED BY <1>1, <2>1 DEF Owed
<1>3. ASSUME NEW n \in Nat \ {0} PROVE n - 1 \in Nat /\ Owed(n) <= Owed(n - 1) + 1
  <2>1. n - 1 \in Nat /\ n \in Nat
    OBVIOUS
  <2>2. Cardinality(Unlined(lines, n)) \in Nat /\ Cardinality(Unlined(lines, n - 1)) \in Nat
    BY <2>1, UnlinedFinite
  <2>3. Cardinality(Unlined(lines, n)) <= Cardinality(Unlined(lines, n - 1)) + 1
    BY UnlinedMore
  <2> QED BY <1>1, <2>1, <2>2, <2>3 DEF Owed
<1> QED BY <1>2, <1>3

LEMMA Lengths ==
  ASSUME Continues, Paid
  PROVE  /\ \A w \in file \cup durable : Len(w.trades) \in Nat
         /\ Len(wallet.trades) \in Nat
         /\ wallet.trades # <<>> => Len(wallet.trades) \in Nat \ {0}
BY LenProperties, EmptySeq DEF Continues

(* The trade being saved has its line, or its loss is counted. *)
LEMMA TradePaid ==
  ASSUME Continues, Paid, pc \in {"write", "rename", "append"}
  PROVE  Owed(Len(wallet.trades)) <= excused + 1
<1>1. Len(wallet.trades) \in Nat \ {0} /\ Owed(Len(wallet.trades) - 1) <= excused
  BY Lengths DEF Paid
<1>2. /\ Owed(Len(wallet.trades)) <= Owed(Len(wallet.trades) - 1) + 1
      /\ Owed(Len(wallet.trades)) \in Nat /\ Owed(Len(wallet.trades) - 1) \in Nat
  BY <1>1, CostForm
<1> QED BY <1>1, <1>2 DEF Paid

(* Steps that neither write a line nor tear one. *)
LEMMA SameCost ==
  ASSUME UNCHANGED <<lines, torn>>
  PROVE  TornOne' = TornOne /\ \A n \in Nat : Owed(n)' = Owed(n)
BY DEF TornOne, Owed, Unlined

LEMMA QuietPaid ==
  ASSUME Continues, Paid, Continues',
         UNCHANGED <<lines, torn>>, file' \cup durable' \subseteq file \cup durable,
         pc # "append", pc' # "append",
         \/ pc' = pc /\ UNCHANGED <<wallet, excused>>
         \/ pc' = "rename" /\ pc = "write" /\ UNCHANGED <<wallet, excused>>
         \/ pc' \in {"loop", "cycles"} /\ pc \in {"loop", "cycles"} /\ UNCHANGED <<wallet, excused>>
         \/ pc' = "down" /\ UNCHANGED excused
         \/ pc' = "loop" /\ pc \in {"write", "rename"} /\ UNCHANGED wallet /\ excused' = excused + 1
  PROVE  Paid'
<1>1. excused \in Nat /\ excused' \in Nat /\ excused <= excused'
  BY DEF Paid
<1>2. TornOne' = TornOne /\ \A n \in Nat : Owed(n)' = Owed(n)
  BY SameCost
<1>3. TornOne \in Nat /\ TornOne <= excused /\ torn \in BOOLEAN
  BY DEF Paid, TornOne
<1>4. ASSUME NEW w \in file' \cup durable' PROVE Owed(Len(w.trades))' <= excused'
  <2>1. Len(w.trades) \in Nat /\ Owed(Len(w.trades)) <= excused
    BY Lengths DEF Paid
  <2>2. Owed(Len(w.trades)) \in Nat
    BY <2>1, CostForm
  <2> QED BY <1>1, <1>2, <2>1, <2>2
<1>5. Len(wallet.trades) \in Nat
  BY Lengths
<1>6. ASSUME pc' \in {"loop", "cycles"} PROVE Owed(Len(wallet.trades))' <= excused'
  <2>1. UNCHANGED wallet
    BY <1>6
  <2>2. Owed(Len(wallet.trades)) <= excused'
    BY <1>6, TradePaid DEF Paid
  <2> QED BY <1>2, <1>5, <2>1, <2>2
<1>7. ASSUME pc' \in {"write", "rename"}
      PROVE  wallet'.trades # <<>> /\ Owed(Len(wallet.trades) - 1)' <= excused'
  <2>1. /\ UNCHANGED <<wallet, excused>> /\ wallet.trades # <<>>
        /\ Owed(Len(wallet.trades) - 1) <= excused
    BY <1>7 DEF Paid
  <2>2. Len(wallet.trades) - 1 \in Nat
    BY <2>1, Lengths
  <2> QED BY <1>2, <2>1, <2>2
<1> QED BY <1>1, <1>2, <1>3, <1>4, <1>6, <1>7 DEF Paid

(* Lines that are taken back cost one trade each. *)
LEMMA UnlinedCut ==
  ASSUME NEW l \in Seq(Nat), NEW k \in 0 .. Len(l), NEW n \in Nat
  PROVE  Cardinality(Unlined(SubSeq(l, 1, k), n))
           <= Cardinality(Unlined(l, n)) + (Len(l) - k)
<1> DEFINE gone == k + 1 .. Len(l)
           ids == {l[i] : i \in gone}
           U == Unlined(l, n)
           C == Unlined(SubSeq(l, 1, k), n)
<1>1. /\ Len(l) \in Nat /\ k \in Nat /\ k <= Len(l) /\ DOMAIN l = 1 .. Len(l)
      /\ DOMAIN SubSeq(l, 1, k) = 1 .. k
      /\ \A i \in 1 .. k : SubSeq(l, 1, k)[i] = l[i]
  BY PrefixIs, LenProperties
<1>2. IsFiniteSet(gone) /\ Cardinality(gone) = Len(l) - k
  <2>1. k + 1 \in Int /\ Len(l) \in Int
    BY <1>1
  <2>2. IsFiniteSet(gone) /\ Cardinality(gone) = IF k + 1 > Len(l) THEN 0 ELSE Len(l) - (k + 1) + 1
    BY <2>1, FS_Interval
  <2> DEFINE e == Len(l)
             c == Cardinality(gone)
  <2>3. e \in Nat /\ k \in Nat /\ k <= e /\ c = IF k + 1 > e THEN 0 ELSE e - (k + 1) + 1
    BY <1>1, <2>2
  <2>4. c = e - k
    <3> HIDE DEF c, e
    <3> QED BY <2>3
  <2> QED BY <2>2, <2>4
<1>3. IsFiniteSet(ids) /\ Cardinality(ids) <= Len(l) - k /\ Cardinality(ids) \in Nat
  <2> HIDE DEF gone
  <2> DEFINE f == [i \in gone |-> l[i]]
  <2>1. f \in Surjection(gone, ids)
    BY DEF Surjection
  <2> HIDE DEF f, ids
  <2>2. IsFiniteSet(ids) /\ Cardinality(ids) <= Cardinality(gone)
    BY <1>2, <2>1, FS_Surjection
  <2> QED BY <1>2, <2>2, FS_CardinalityType
<1>4. C \subseteq U \cup ids
  <2> SUFFICES ASSUME NEW i \in C, i \notin U PROVE i \in ids
    OBVIOUS
  <2>1. PICK j \in DOMAIN l : l[j] # 0 /\ l[j] = i
    BY DEF Unlined
  <2>2. j \notin 1 .. k
    BY <1>1, <2>1 DEF Unlined
  <2>3. j \in gone
    BY <1>1, <2>1, <2>2
  <2> QED BY <2>1, <2>3
<1>5. IsFiniteSet(U) /\ Cardinality(U) \in Nat /\ Cardinality(C) \in Nat
  BY UnlinedFinite
<1> HIDE DEF U, C, ids
<1>6. /\ IsFiniteSet(U \cup ids) /\ Cardinality(U \cup ids) <= Cardinality(U) + Cardinality(ids)
      /\ Cardinality(U \cup ids) \in Nat
  <2>1. /\ IsFiniteSet(U \cup ids)
        /\ Cardinality(U \cup ids) = Cardinality(U) + Cardinality(ids) - Cardinality(U \cap ids)
    BY <1>3, <1>5, FS_Union
  <2>2. Cardinality(U \cap ids) \in Nat /\ Cardinality(U \cup ids) \in Nat
    BY <1>5, <2>1, FS_Intersection, FS_CardinalityType
  <2> QED BY <1>3, <1>5, <2>1, <2>2
<1>7. Cardinality(C) <= Cardinality(U \cup ids)
  BY <1>4, <1>6, FS_Subset
<1> DEFINE a == Cardinality(C)
           b == Cardinality(U \cup ids)
           c == Cardinality(U)
           d == Cardinality(ids)
           e == Len(l)
<1>8. /\ a \in Nat /\ b \in Nat /\ c \in Nat /\ d \in Nat /\ e \in Nat /\ k \in Nat
      /\ a <= b /\ b <= c + d /\ d <= e - k
  BY <1>1, <1>3, <1>5, <1>6, <1>7
<1>9. a <= c + (e - k)
  <2> HIDE DEF a, b, c, d, e
  <2> QED BY <1>8
<1> QED BY <1>9 DEF U, C

(* Of the lines, no more than d are taken back. *)
TakenBack(d) == \A n \in Nat : Cardinality(Unlined(lines', n)) <= Cardinality(Unlined(lines, n)) + d

(* A failed append, a stop or a power loss, with the line that was due,    *)
(* lines taken back and a line torn, in any combination.                   *)
LEMMA LossPaid ==
  ASSUME Continues, Paid, NEW d \in Nat, TakenBack(d), NEW tearing \in BOOLEAN,
         torn' \in BOOLEAN, torn' => torn \/ tearing,
         excused' = excused + d + (IF pc = "append" THEN 1 ELSE 0)
                      + (IF tearing /\ ~torn THEN 1 ELSE 0),
         file' \cup durable' \subseteq file \cup durable,
         \/ pc' = "down"
         \/ pc = "append" /\ pc' \in {"loop", "cycles"} /\ UNCHANGED wallet
  PROVE  Paid'
<1> DEFINE due == IF pc = "append" THEN 1 ELSE 0
           tear == IF tearing /\ ~torn THEN 1 ELSE 0
<1>1. due \in {0, 1} /\ tear \in {0, 1} /\ (pc = "append" => due = 1)
  OBVIOUS
<1>2. /\ excused \in Nat /\ excused' = excused + d + due + tear /\ excused' \in Nat
      /\ TornOne \in Nat /\ TornOne <= excused
      /\ TornOne' \in Nat /\ TornOne' <= TornOne + tear
  BY DEF Paid, TornOne
<1> HIDE DEF due, tear
<1>3. TornOne' <= excused'
  BY <1>1, <1>2
<1>4. ASSUME NEW n \in Nat, Owed(n) <= excused + due PROVE Owed(n)' <= excused'
  <2> DEFINE B == Cardinality(Unlined(lines, n))
             A == Cardinality(Unlined(lines', n))
  <2>1. A \in Nat /\ B \in Nat /\ A <= B + d
    BY UnlinedFinite DEF TakenBack
  <2>2. Owed(n) = B + TornOne /\ Owed(n)' = A + TornOne'
    BY DEF Owed, Unlined
  <2> HIDE DEF A, B
  <2>3. B + TornOne <= excused + due
    BY <1>4, <2>2
  <2>4. A + TornOne' <= excused'
    <3> DEFINE t == TornOne
               u == TornOne'
               e == excused
               f == excused'
    <3>1. /\ e \in Nat /\ f = e + d + due + tear /\ t \in Nat /\ u \in Nat /\ u <= t + tear
          /\ B + t <= e + due /\ A <= B + d
      BY <1>2, <2>1, <2>3
    <3>2. A + u <= f
      <4> HIDE DEF t, u, e, f
      <4> QED BY <1>1, <2>1, <3>1
    <3> QED BY <3>2
  <2> QED BY <2>2, <2>4
<1>5. ASSUME pc = "append" PROVE Owed(Len(wallet.trades)) <= excused + due
  BY <1>1, <1>5, TradePaid
<1>6. ASSUME NEW w \in file' \cup durable' PROVE Owed(Len(w.trades))' <= excused'
  <2>1. Len(w.trades) \in Nat /\ w \in file \cup durable
    BY Lengths
  <2>2. Owed(Len(w.trades)) \in Nat
    BY <2>1, CostForm
  <2>3. Owed(Len(w.trades)) <= excused \/ (pc = "append" /\ w = wallet)
    BY <2>1 DEF Paid
  <2>4. Owed(Len(w.trades)) <= excused + due
    BY <1>1, <1>2, <1>5, <2>2, <2>3
  <2> QED BY <1>4, <2>1, <2>4
<1>7. pc' \in {"loop", "cycles"} => Owed(Len(wallet.trades))' <= excused'
  <2> SUFFICES ASSUME pc' \in {"loop", "cycles"} PROVE Owed(Len(wallet.trades))' <= excused'
    OBVIOUS
  <2>1. pc = "append" /\ UNCHANGED wallet /\ Len(wallet.trades) \in Nat
    BY Lengths
  <2>2. PICK n \in Nat : n = Len(wallet.trades)
    BY <2>1
  <2>3. Owed(n)' <= excused'
    BY <1>4, <1>5, <2>1, <2>2
  <2>4. Owed(Len(wallet.trades))' = Owed(n)'
    BY <2>1, <2>2 DEF Owed, Unlined
  <2> QED BY <2>3, <2>4
<1>8. pc' \notin {"write", "rename", "append"}
  OBVIOUS
<1> QED BY <1>2, <1>3, <1>6, <1>7, <1>8 DEF Paid

(* The lines stay: nothing is taken back. *)
LEMMA SameCut == ASSUME lines' = lines PROVE TakenBack(0)
<1> SUFFICES ASSUME NEW n \in Nat
             PROVE  Cardinality(Unlined(lines', n)) <= Cardinality(Unlined(lines, n)) + 0
  BY DEF TakenBack
<1> DEFINE B == Cardinality(Unlined(lines, n))
<1>1. B \in Nat
  BY UnlinedFinite
<1>2. Cardinality(Unlined(lines', n)) = B
  OBVIOUS
<1> HIDE DEF B
<1>3. B <= B + 0
  BY <1>1
<1> QED BY <1>2, <1>3 DEF B

LEMMA BootPaid == ASSUME Continues, Paid, Boot \/ BootUnread PROVE Paid'
<1>1. /\ pc = "down" /\ pc' = "loop" /\ wallet' \in Loaded \cup {Fresh}
      /\ UNCHANGED <<file, durable, lines, torn, excused>>
  BY DEF Boot, BootUnread, disk
<1>2. TornOne' = TornOne /\ \A n \in Nat : Owed(n)' = Owed(n)
  BY <1>1, SameCost
<1>3. Len(wallet'.trades) \in Nat /\ Owed(Len(wallet'.trades)) <= excused
  <2>1. CASE wallet' = Fresh
    <3>1. Len(wallet'.trades) = 0
      BY <2>1 DEF Fresh
    <3> QED BY <3>1, CostForm
  <2>2. CASE wallet' \in file
    BY <1>1, <2>2, Lengths DEF Paid
  <2> QED BY <1>1, <2>1, <2>2 DEF Loaded
<1>4. \A w \in file \cup durable : Owed(Len(w.trades))' <= excused
  BY <1>1, <1>2, Lengths DEF Paid
<1>5. Owed(Len(wallet.trades))' <= excused'
  BY <1>1, <1>2, <1>3
<1> QED BY <1>1, <1>2, <1>4, <1>5 DEF Paid

LEMMA ExecutePaid == ASSUME Continues, Paid, NEW p \in Profits, Execute(p) PROVE Paid'
<1>1. /\ pc = "cycles" /\ pc' = "write" /\ wallet'.trades = Append(wallet.trades, p)
      /\ UNCHANGED <<file, durable, lines, torn, excused>>
  BY DEF Execute, disk
<1>2. TornOne' = TornOne /\ \A n \in Nat : Owed(n)' = Owed(n)
  BY <1>1, SameCost
<1>3. Len(wallet.trades) \in Nat /\ Owed(Len(wallet.trades)) <= excused
  BY <1>1, Lengths DEF Paid
<1>4. wallet'.trades # <<>> /\ Len(wallet'.trades) - 1 = Len(wallet.trades)
  BY <1>1, <1>3, AppendProperties DEF Continues
<1>5. \A w \in file \cup durable : Owed(Len(w.trades))' <= excused
  BY <1>1, <1>2, Lengths DEF Paid
<1>6. Owed(Len(wallet.trades) - 1)' <= excused'
  BY <1>1, <1>2, <1>3, <1>4
<1> QED BY <1>1, <1>2, <1>4, <1>5, <1>6 DEF Paid

LEMMA RenamePaid == ASSUME Continues, Paid, Rename PROVE Paid'
<1>1. /\ pc = "rename" /\ pc' = "append" /\ file' = {wallet}
      /\ UNCHANGED <<wallet, durable, lines, torn, excused>>
  BY DEF Rename
<1>2. TornOne' = TornOne /\ \A n \in Nat : Owed(n)' = Owed(n)
  BY <1>1, SameCost
<1>3. \A w \in durable : Owed(Len(w.trades))' <= excused
  BY <1>1, <1>2, Lengths DEF Paid
<1>4. wallet.trades # <<>> /\ Owed(Len(wallet.trades) - 1)' <= excused'
  <2>1. Len(wallet.trades) - 1 \in Nat /\ wallet.trades # <<>>
    BY <1>1, Lengths DEF Paid
  <2> QED BY <1>1, <1>2, <2>1 DEF Paid
<1> QED BY <1>1, <1>2, <1>3, <1>4 DEF Paid

LEMMA AppendLinePaid == ASSUME Continues, Behind, Paid, AppendLine PROVE Paid'
<1> DEFINE n == Len(wallet.trades)
           id == IF torn THEN 0 ELSE n
<1>1. /\ pc = "append" /\ pc' \in {"loop", "cycles"} /\ lines' = Append(lines, id)
      /\ torn' = FALSE /\ UNCHANGED <<wallet, file, durable, excused>>
  BY DEF AppendLine, Advance
<1>2. n \in Nat \ {0} /\ Owed(n - 1) <= excused /\ excused \in Nat /\ torn \in BOOLEAN
  BY <1>1, Lengths DEF Paid
<1>3. id \in Nat
  BY <1>2
<1>4. /\ \A k \in DOMAIN lines : k \in DOMAIN lines' /\ lines'[k] = lines[k]
      /\ Len(lines) + 1 \in DOMAIN lines' /\ lines'[Len(lines) + 1] = id
  <2> HIDE DEF id
  <2>1. /\ lines' \in Seq(Nat) /\ Len(lines') = Len(lines) + 1 /\ Len(lines) \in Nat
        /\ \A k \in 1 .. Len(lines) : lines'[k] = lines[k]
        /\ lines'[Len(lines) + 1] = id
    BY <1>1, <1>3, AppendProperties, LenProperties DEF Behind
  <2>2. DOMAIN lines' = 1 .. Len(lines) + 1 /\ DOMAIN lines = 1 .. Len(lines)
    BY <2>1, LenProperties DEF Behind
  <2> QED BY <2>1, <2>2
<1> HIDE DEF n
<1>5. \A k \in Nat : Unlined(lines', k) \subseteq Unlined(lines, k)
  BY <1>4 DEF Unlined
<1> DEFINE After(k) == Cardinality(Unlined(lines', k))
<1>6. TornOne' = 0 /\ TornOne \in {0, 1} /\ (torn <=> TornOne = 1)
  BY <1>1, <1>2 DEF TornOne
<1>7. ASSUME NEW k \in Nat
      PROVE  After(k) \in Nat /\ Owed(k) \in Nat /\ After(k) + TornOne <= Owed(k)
  <2> DEFINE B == Cardinality(Unlined(lines, k))
  <2>1. After(k) <= B /\ After(k) \in Nat /\ B \in Nat
    BY <1>5, UnlinedFewer, UnlinedFinite
  <2>2. Owed(k) = B + TornOne
    BY DEF Owed
  <2> HIDE DEF After, B
  <2> QED BY <1>6, <2>1, <2>2
<1>8. After(n) <= excused
  <2>0. /\ n \in Nat /\ n - 1 \in Nat
        /\ Owed(n) \in Nat /\ Owed(n - 1) \in Nat /\ Owed(n) <= Owed(n - 1) + 1
        /\ After(n) \in Nat /\ After(n) + TornOne <= Owed(n)
    <3> HIDE DEF After
    <3>1. n \in Nat /\ n - 1 \in Nat
      BY <1>2
    <3>2. Owed(n) <= Owed(n - 1) + 1
      BY <1>2, CostForm
    <3> QED BY <1>7, <3>1, <3>2
  <2>1. CASE torn
    <3>1. TornOne = 1
      BY <1>6, <2>1
    <3> HIDE DEF After
    <3> QED BY <1>2, <2>0, <3>1
  <2>2. CASE ~torn
    <3>1. \E k \in DOMAIN lines' : lines'[k] = n
      BY <1>4, <2>2
    <3>2. Unlined(lines', n) \subseteq Unlined(lines', n - 1)
      <4> SUFFICES ASSUME NEW i \in Unlined(lines', n) PROVE i \in 1 .. n - 1
        BY DEF Unlined
      <4>1. i \in 1 .. n /\ i # n
        BY <1>2, <3>1 DEF Unlined
      <4> QED BY <1>2, <4>1
    <3>3. Unlined(lines', n) \subseteq Unlined(lines, n - 1)
      BY <1>5, <2>0, <3>2
    <3> DEFINE B == Cardinality(Unlined(lines, n - 1))
    <3>4. After(n) <= B
      <4>1. IsFiniteSet(Unlined(lines, n - 1))
        BY <2>0, UnlinedFinite
      <4> QED BY <3>3, <4>1, FS_Subset
    <3>5. Owed(n - 1) = B /\ B \in Nat
      <4>1. B \in Nat
        BY <2>0, UnlinedFinite
      <4>2. TornOne = 0
        BY <1>6, <2>2
      <4> QED BY <4>1, <4>2 DEF Owed
    <3> HIDE DEF After, B
    <3> QED BY <1>2, <2>0, <3>4, <3>5
  <2> QED BY <1>2, <2>1, <2>2
<1>9. ASSUME NEW w \in file \cup durable PROVE After(Len(w.trades)) <= excused
  <2> DEFINE k == Len(w.trades)
  <2>1. Owed(k) <= excused \/ w = wallet
    BY <1>1 DEF Paid
  <2>2. k \in Nat
    BY Lengths
  <2> HIDE DEF k, After
  <2>3. CASE Owed(k) <= excused
    <3>1. After(k) \in Nat /\ Owed(k) \in Nat /\ After(k) + TornOne <= Owed(k)
      BY <1>7, <2>2
    <3>2. After(k) <= excused
      BY <1>2, <1>6, <2>3, <3>1
    <3> QED BY <3>2 DEF k
  <2>4. CASE w = wallet
    BY <1>8, <2>4 DEF n
  <2> QED BY <2>1, <2>3, <2>4
<1>10. ASSUME NEW k \in Nat, After(k) <= excused PROVE Owed(k)' <= excused'
  <2>1. Owed(k)' = After(k) + TornOne'
    BY DEF Owed, Unlined
  <2>2. After(k) \in Nat
    BY <1>7
  <2> HIDE DEF After
  <2> QED BY <1>1, <1>6, <1>10, <2>1, <2>2
<1>11. \A w \in file' \cup durable' : Owed(Len(w.trades))' <= excused'
  <2> SUFFICES ASSUME NEW w \in file \cup durable PROVE Owed(Len(w.trades))' <= excused'
    BY <1>1
  <2> HIDE DEF After
  <2> QED BY <1>9, <1>10, Lengths
<1>12. Owed(Len(wallet.trades))' <= excused'
  <2>1. n \in Nat /\ After(n) \in Nat /\ After(n) <= excused
    BY <1>2, <1>7, <1>8
  <2>2. Owed(Len(wallet.trades))' = After(n) + TornOne'
    BY <1>1 DEF Owed, Unlined, n
  <2> HIDE DEF After
  <2> QED BY <1>1, <1>6, <2>1, <2>2
<1>13. excused' \in Nat /\ torn' \in BOOLEAN /\ TornOne' <= excused'
  <2>1. excused' = excused /\ torn' = FALSE /\ TornOne' = 0
    BY <1>1, <1>6
  <2>2. 0 <= excused
    BY <1>2
  <2> QED BY <1>2, <2>1, <2>2
<1> HIDE DEF After, id
<1> QED BY <1>1, <1>11, <1>12, <1>13 DEF Paid

LEMMA PaidStep == ASSUME Continues, Behind, Paid, Continues', [Next]_vars PROVE Paid'
<1>1. CASE UNCHANGED vars
  <2>1. UNCHANGED <<pc, wallet, file, durable, lines, torn, excused>>
    BY <1>1 DEF vars, disk
  <2>2. TornOne' = TornOne /\ \A n \in Nat : Owed(n)' = Owed(n)
    BY <2>1, SameCost
  <2>3. wallet.trades # <<>> => Len(wallet.trades) - 1 \in Nat
    BY Lengths
  <2> QED BY <2>1, <2>2, <2>3, Lengths DEF Paid
<1>2. CASE Boot \/ BootUnread
  BY <1>2, BootPaid
<1>3. CASE Rename
  BY <1>3, RenamePaid
<1>4. ASSUME NEW p \in Profits, Execute(p) PROVE Paid'
  BY <1>4, ExecutePaid
<1>5. CASE AppendLine
  BY <1>5, AppendLinePaid
<1>6. ASSUME NEW kept \in flushed .. Len(lines), NEW tearing \in BOOLEAN,
             LosePower(kept, tearing)
      PROVE  Paid'
  <2> DEFINE d == Len(lines) - kept
  <2>1. lines \in Seq(Nat) /\ kept \in 0 .. Len(lines) /\ Len(lines) \in Nat
    BY LenProperties DEF Behind
  <2>2. d \in Nat
    BY <2>1
  <2>3. /\ lines' = SubSeq(lines, 1, kept) /\ torn' = tearing /\ pc' = "down"
        /\ excused' = excused + d + (IF pc = "append" THEN 1 ELSE 0)
                         + (IF tearing /\ ~torn THEN 1 ELSE 0)
        /\ file' \cup durable' \subseteq file \cup durable
    BY <1>6 DEF LosePower, Down
  <2>4. TakenBack(d)
    BY <2>1, <2>3, UnlinedCut DEF TakenBack
  <2> HIDE DEF d
  <2> QED BY <2>2, <2>3, <2>4, LossPaid
<1>7. CASE \/ Skip \/ WriteTmp \/ SaveFails
           \/ \E n \in 1 .. MaxBatch : Detect(n)
           \/ \E p \in Profits : InsufficientFunds(p)
  <2>1. /\ UNCHANGED <<file, durable, lines, torn, wallet>> /\ pc # "append" /\ pc' # "append"
        /\ \/ pc' = "rename" /\ pc = "write" /\ UNCHANGED excused
           \/ pc' \in {"loop", "cycles"} /\ pc \in {"loop", "cycles"} /\ UNCHANGED excused
           \/ pc' = "loop" /\ pc \in {"write", "rename"} /\ excused' = excused + 1
    BY <1>7 DEF Skip, WriteTmp, SaveFails, Detect, InsufficientFunds, Advance, Break, disk
  <2> QED BY <2>1, QuietPaid
<1>8. ASSUME NEW tearing \in BOOLEAN, AppendFails(tearing) \/ StopAtLine(tearing)
      PROVE  Paid'
  <2>1. /\ lines' = lines /\ UNCHANGED <<file, durable>> /\ pc = "append"
        /\ torn' \in BOOLEAN /\ (torn' => torn \/ tearing)
        /\ pc' = "down" \/ (pc' \in {"loop", "cycles"} /\ UNCHANGED wallet)
        /\ excused' = excused + 1 + (IF tearing /\ ~torn THEN 1 ELSE 0)
    BY <1>8 DEF AppendFails, StopAtLine, LineLost, Advance, Down, Paid
  <2>2. excused' = excused + 0 + (IF pc = "append" THEN 1 ELSE 0)
                     + (IF tearing /\ ~torn THEN 1 ELSE 0)
    BY <2>1 DEF Paid
  <2> QED BY <2>1, <2>2, SameCut, LossPaid
<1>10. CASE Stop
  BY <1>10, QuietPaid DEF Stop, Down, disk
<1>9. CASE WriteBack \/ WriteBackLines
  <2>1. UNCHANGED <<pc, wallet, file, lines, torn, excused>> /\ durable' \subseteq file \cup durable
    BY <1>9 DEF WriteBack, WriteBackLines
  <2>2. TornOne' = TornOne /\ \A n \in Nat : Owed(n)' = Owed(n)
    BY <2>1, SameCost
  <2>3. wallet.trades # <<>> => Len(wallet.trades) - 1 \in Nat
    BY Lengths
  <2> QED BY <2>1, <2>2, <2>3, Lengths DEF Paid
<1> QED BY <1>1, <1>2, <1>3, <1>4, <1>5, <1>6, <1>7, <1>8, <1>9, <1>10 DEF Next

(* Every trade of wallet.json that has no readable line in cycles.jsonl    *)
(* was lost by a save or an append that failed, a stop while its line was  *)
(* due or a power loss that took the line back, one each, and one more     *)
(* behind each torn line, for any number of trades, batches, restarts and  *)
(* power losses (main.rs save, then append_cycle_jsonl, whose write may    *)
(* fail half-way while the process goes on).                               *)
THEOREM MissingAreExcused == Spec => []MissingLinesExcused
<1>1. Init => Behind /\ Paid
  <2>1. Init => Behind
    BY DEF Init, Behind, LineHasTrade, Lines
  <2>2. Init => Paid
    <3> SUFFICES ASSUME Init PROVE Paid
      OBVIOUS
    <3>1. torn = FALSE /\ excused = 0 /\ file \cup durable = {} /\ pc = "down"
      BY DEF Init
    <3>2. TornOne = 0
      BY <3>1 DEF TornOne
    <3>3. TornOne <= excused /\ excused \in Nat
      BY <3>1, <3>2
    <3> QED BY <3>1, <3>3 DEF Paid
  <2> QED BY <2>1, <2>2
<1>2. Continues /\ Behind /\ Paid => MissingLinesExcused
  <2> SUFFICES ASSUME Continues, Behind, Paid, NEW w \in file
               PROVE  Cardinality(Unlined(lines, Len(w.trades)))
                        <= excused + (IF pc = "append" THEN 1 ELSE 0)
    BY DEF MissingLinesExcused, Lines, Unlined
  <2> DEFINE C == Cardinality(Unlined(lines, Len(w.trades)))
  <2>1. C \in Nat /\ TornOne \in Nat /\ excused \in Nat /\ Owed(Len(w.trades)) = C + TornOne
    BY Lengths, UnlinedFinite DEF Paid, TornOne, Owed
  <2>2. CASE Owed(Len(w.trades)) <= excused
    <3> HIDE DEF C
    <3>1. C <= excused
      BY <2>1, <2>2
    <3> QED BY <2>1, <3>1 DEF C
  <2>3. CASE pc = "append" /\ w = wallet
    <3>1. Owed(Len(w.trades)) <= excused + 1
      BY <2>3, TradePaid
    <3> HIDE DEF C
    <3>2. C <= excused + 1
      BY <2>1, <3>1
    <3> QED BY <2>3, <3>2 DEF C
  <2> QED BY <2>2, <2>3 DEF Paid
<1>3. Continues /\ Continues' /\ Behind /\ Paid /\ [Next]_vars => Behind' /\ Paid'
  BY BehindStep, PaidStep
<1> QED BY <1>1, <1>2, <1>3, ContinuesHolds, PTL DEF Spec

-----------------------------------------------------------------------------
(* Induction over the numbers, for sets: the least number outside a set    *)
(* that holds 0 and is closed under successor does not exist.              *)
LEMMA Induct ==
  ASSUME NEW S, 0 \in S, \A n \in Nat : n \in S => n + 1 \in S
  PROVE  Nat \subseteq S
<1> DEFINE Less == OpToRel(<, Nat)
<1>1. IsWellFoundedOn(Less, Nat)
  BY NatLessThanWellFounded
<1>2. \A m, n \in Nat : m < n => <<m, n>> \in Less
  BY DEF OpToRel
<1> HIDE DEF Less
<1>3. SUFFICES ASSUME Nat \ S # {} PROVE FALSE
  OBVIOUS
<1>4. PICK m \in Nat \ S : \A k \in Nat \ S : ~ (<<k, m>> \in Less)
  <2> DEFINE T == Nat \ S
  <2>1. T \subseteq Nat /\ T # {}
    BY <1>3
  <2> HIDE DEF T
  <2>2. \E x \in T : \A y \in T : ~ (<<y, x>> \in Less)
    BY <1>1, <2>1, WFMin
  <2> QED BY <2>2 DEF T
<1>5. m - 1 \in Nat /\ m - 1 < m
  BY <1>4
<1>6. m - 1 \in S
  BY <1>2, <1>4, <1>5
<1> QED BY <1>4, <1>5, <1>6

-----------------------------------------------------------------------------
(* What holds of 0 and of each successor up to a bound holds of the bound. *)
LEMMA InductUpTo ==
  ASSUME NEW N \in Nat, NEW S, 0 \in S,
         \A n \in 0 .. N : n < N /\ n \in S => n + 1 \in S
  PROVE  \A n \in 0 .. N : n \in S
<1> DEFINE T == {n \in Nat : n <= N => n \in S}
<1>1. 0 \in T
  OBVIOUS
<1>2. ASSUME NEW n \in Nat, n \in T PROVE n + 1 \in T
  BY <1>2
<1>3. Nat \subseteq T
  <2> HIDE DEF T
  <2> QED BY <1>1, <1>2, Induct
<1> QED BY <1>3

(* A fold over the places of a sequence, the last one first. *)

LEMMA MaxIs ==
  ASSUME NEW n \in Nat, NEW T \in SUBSET (1..n), T # {}
  PROVE  Max(T) \in T /\ \A y \in T : y <= Max(T)
<1> DEFINE S == {k \in Nat : \A U \in SUBSET (1..k) : U # {} => \E x \in U : \A y \in U : y <= x}
<1>1. 0 \in S
  <2>1. 1..0 = {}
    OBVIOUS
  <2> QED BY <2>1
<1>2. ASSUME NEW k \in Nat, k \in S PROVE k + 1 \in S
  <2>1. SUFFICES ASSUME NEW U \in SUBSET (1..k + 1), U # {} PROVE \E x \in U : \A y \in U : y <= x
    OBVIOUS
  <2>2. CASE k + 1 \in U
    BY <2>2
  <2>3. CASE k + 1 \notin U
    <3>1. U \in SUBSET (1..k)
      BY <2>3
    <3> QED BY <1>2, <2>1, <3>1
  <2> QED BY <2>2, <2>3
<1>3. n \in S
  <2> HIDE DEF S
  <2> QED BY <1>1, <1>2, Induct
<1>4. \E x \in T : \A y \in T : y <= x
  BY <1>3
<1>5. \E x \in T : \A y \in T : x >= y
  BY <1>4
<1>6. Max(T) \in T /\ \A y \in T : Max(T) >= y
  BY <1>5, Zenon DEF Max
<1> QED BY <1>6

Folds(g, n, D, base, step) ==
    /\ \A T \in SUBSET (1..n) : g[T] \in D
    /\ g = [T \in SUBSET (1..n) |->
              IF T = {} THEN base ELSE step[<<g[T \ {Max(T)}], Max(T)>>]]

LEMMA FoldExists ==
  ASSUME NEW n \in Nat, NEW D, NEW base \in D, NEW step \in [D \X (1..n) -> D]
  PROVE  \E g : Folds(g, n, D, base, step)
<1> DEFINE Body(g, T) == IF T = {} THEN base ELSE step[<<g[T \ {Max(T)}], Max(T)>>]
           Solves(g, k) == \A T \in SUBSET (1..n) : T \subseteq 1..k => g[T] \in D /\ g[T] = Body(g, T)
           S == {k \in Nat : \E g : Solves(g, k)}
<1>1. 0 \in S
  <2>1. Solves([T \in SUBSET (1..n) |-> base], 0)
    OBVIOUS
  <2> QED BY <2>1
<1>2. ASSUME NEW k \in Nat, k \in S PROVE k + 1 \in S
  <2>1. PICK g : Solves(g, k)
    BY <1>2
  <2> DEFINE h == [T \in SUBSET (1..n) |-> IF T \subseteq 1..k THEN g[T] ELSE Body(g, T)]
  <2>2. \A T \in SUBSET (1..n) : T \subseteq 1..k => h[T] = g[T]
    OBVIOUS
  <2>3. ASSUME NEW T \in SUBSET (1..n), T \subseteq 1..k + 1, T # {}
        PROVE  /\ T \ {Max(T)} \in SUBSET (1..n) /\ T \ {Max(T)} \subseteq 1..k /\ Max(T) \in 1..n
    <3>1. Max(T) \in T /\ \A y \in T : y <= Max(T)
      BY <2>3, MaxIs
    <3>2. Max(T) \in Nat /\ Max(T) <= k + 1
      <4>1. Max(T) \in 1..k + 1
        BY <2>3, <3>1
      <4> HIDE DEF S
      <4> QED BY <4>1
    <3> HIDE DEF S
    <3>3. ASSUME NEW y \in T, y # Max(T) PROVE y \in 1..k
      BY <2>3, <3>1, <3>2, <3>3
    <3> QED BY <3>1, <3>3
  <2>4. ASSUME NEW T \in SUBSET (1..n), T \subseteq 1..k + 1
        PROVE  Body(h, T) = Body(g, T) /\ Body(g, T) \in D
    <3>1. CASE T = {}
      BY <3>1
    <3>2. CASE T # {}
      <4>1. /\ T \ {Max(T)} \in SUBSET (1..n) /\ T \ {Max(T)} \subseteq 1..k /\ Max(T) \in 1..n
        BY <2>3, <2>4, <3>2
      <4>2. g[T \ {Max(T)}] \in D /\ h[T \ {Max(T)}] = g[T \ {Max(T)}]
        <5> HIDE DEF h, Body
        <5> QED BY <2>1, <2>2, <4>1
      <4> HIDE DEF h
      <4> QED BY <3>2, <4>1, <4>2
    <3> QED BY <3>1, <3>2
  <2>5. Solves(h, k + 1)
    <3>1. ASSUME NEW T \in SUBSET (1..n), T \subseteq 1..k + 1
          PROVE  h[T] \in D /\ h[T] = Body(h, T)
      <4>1. CASE T \subseteq 1..k
        <5>1. h[T] = g[T] /\ g[T] \in D /\ g[T] = Body(g, T)
          <6> HIDE DEF h, Body
          <6> QED BY <2>1, <2>2, <4>1
        <5> HIDE DEF h, Body
        <5> QED BY <2>4, <3>1, <5>1
      <4>2. CASE ~ (T \subseteq 1..k)
        <5>1. h[T] = Body(g, T)
          <6> HIDE DEF Body
          <6> QED BY <4>2
        <5> HIDE DEF h, Body
        <5> QED BY <2>4, <3>1, <5>1
      <4> QED BY <4>1, <4>2
    <3> HIDE DEF h, Body
    <3> QED BY <3>1
  <2> HIDE DEF h, Solves
  <2> QED BY <2>5
<1>3. n \in S
  <2> HIDE DEF S
  <2> QED BY <1>1, <1>2, Induct
<1>4. PICK g : Solves(g, n)
  BY <1>3
<1> DEFINE w == [T \in SUBSET (1..n) |-> g[T]]
<1>5. \A T \in SUBSET (1..n) : w[T] \in D /\ w[T] = Body(w, T)
  <2>1. \A T \in SUBSET (1..n) : w[T] = g[T]
    OBVIOUS
  <2>2. \A T \in SUBSET (1..n) : Body(w, T) = Body(g, T)
    <3> HIDE DEF w
    <3> QED BY <2>1
  <2> HIDE DEF w, Body
  <2> QED BY <1>4, <2>1, <2>2
<1>6. w = [T \in SUBSET (1..n) |-> Body(w, T)]
  <2>1. w = [T \in SUBSET (1..n) |-> w[T]]
    OBVIOUS
  <2> HIDE DEF w, Body
  <2> QED BY <1>5, <2>1
<1> HIDE DEF w
<1> QED BY <1>5, <1>6 DEF Folds

(* A function that solves the recursion goes along the sequence.           *)
LEMMA MaxOfFirst ==
  ASSUME NEW n \in Nat, NEW i \in 1..n
  PROVE  /\ 1..i \in SUBSET (1..n) /\ 1..i # {} /\ Max(1..i) = i /\ i \in 1..i
         /\ (1..i) \ {Max(1..i)} = 1..(i - 1) /\ i - 1 \in Nat
<1>1. i \in Nat /\ i \in 1..i /\ \A y \in 1..i : y \in 1..n
  OBVIOUS
<1>2. Max(1..i) \in 1..i /\ \A y \in 1..i : y <= Max(1..i)
  BY <1>1, MaxIs
<1>3. Max(1..i) = i
  BY <1>1, <1>2
<1>4. (1..i) \ {i} = 1..(i - 1) /\ i - 1 \in Nat
  OBVIOUS
<1> QED BY <1>1, <1>3, <1>4

(* The sum of a sequence whose partial sums are H. *)
LEMMA SumIs ==
  ASSUME NEW s \in Seq(Int), NEW H \in [0..Len(s) -> Int], H[0] = 0,
         \A i \in 1..Len(s) : H[i] = H[i - 1] + s[i]
  PROVE  SumOf(s) = H[Len(s)]
<1> DEFINE N == Len(s)
           Step == [p \in Int \X (1..N) |-> p[1] + s[p[2]]]
           Body(g, T) == IF T = {} THEN 0 ELSE g[T \ {Max(T)}] + s[Max(T)]
           c == CHOOSE g : g = [T \in SUBSET (DOMAIN s) |-> Body(g, T)]
<1>1. N \in Nat /\ DOMAIN s = 1..N /\ \A i \in 1..N : s[i] \in Int
  BY LenProperties, ElementOfSeq
<1>2. Step \in [Int \X (1..N) -> Int]
  BY <1>1
<1>3. PICK g : Folds(g, N, Int, 0, Step)
  <2>1. N \in Nat /\ 0 \in Int
    BY <1>1
  <2> HIDE DEF Step, N
  <2> QED BY <1>2, <2>1, FoldExists
<1>4. g = [T \in SUBSET (1..N) |-> Body(g, T)]
  <2>1. ASSUME NEW T \in SUBSET (1..N), T # {}
        PROVE  Step[<<g[T \ {Max(T)}], Max(T)>>] = Body(g, T)
    <3>1. Max(T) \in 1..N
      BY <1>1, <2>1, MaxIs
    <3>2. T \ {Max(T)} \in SUBSET (1..N)
      OBVIOUS
    <3>3. g[T \ {Max(T)}] \in Int
      BY <1>3, <3>2 DEF Folds
    <3> QED BY <2>1, <3>1, <3>3
  <2>2. \A T \in SUBSET (1..N) : (IF T = {} THEN 0 ELSE Step[<<g[T \ {Max(T)}], Max(T)>>]) = Body(g, T)
    <3> HIDE DEF Step
    <3> QED BY <2>1
  <2> HIDE DEF Step, Body
  <2> QED BY <1>3, <2>2 DEF Folds
<1>5. c = [T \in SUBSET (1..N) |-> Body(c, T)]
  <2> HIDE DEF Body
  <2>1. c = [T \in SUBSET (DOMAIN s) |-> Body(c, T)]
    BY <1>1, <1>4, Zenon
  <2> QED BY <1>1, <2>1
<1>6. SumOf(s) = c[1..N]
  BY <1>1 DEF SumOf, FoldLeft, MapThenFoldSet
<1> HIDE DEF c
<1>7. \A T \in SUBSET (1..N) : c[T] = Body(c, T)
  <2> HIDE DEF Body
  <2> QED BY <1>5
<1> DEFINE S == {i \in Nat : i <= N => c[1..i] = H[i]}
<1>8. 0 \in S
  <2>1. 1..0 = {}
    OBVIOUS
  <2> QED BY <1>1, <1>7, <2>1
<1>9. ASSUME NEW i \in Nat, i \in S PROVE i + 1 \in S
  <2>1. SUFFICES ASSUME i + 1 <= N PROVE c[1..i + 1] = H[i + 1]
    OBVIOUS
  <2>2. c[1..i] = H[i]
    BY <1>1, <1>9, <2>1
  <2>3. i + 1 \in 1..N /\ (i + 1) - 1 = i
    BY <1>1, <2>1
  <2>4. /\ 1..i + 1 \in SUBSET (1..N) /\ 1..i + 1 # {} /\ Max(1..i + 1) = i + 1
        /\ (1..i + 1) \ {Max(1..i + 1)} = 1..i
    BY <1>1, <2>3, MaxOfFirst
  <2>5. c[1..i + 1] = H[i] + s[i + 1]
    BY <1>7, <2>2, <2>4
  <2> QED BY <2>3, <2>5
<1>10. N \in S
  <2> HIDE DEF S
  <2> QED BY <1>1, <1>8, <1>9, Induct
<1> QED BY <1>1, <1>6, <1>10

-----------------------------------------------------------------------------
(* What a wallet says of its trades. *)

Stat == [running : Nat, peak : Nat, max_drawdown : Int,
         wins : Nat, losses : Nat, total_pnl : Int]

Stat0 == [running |-> Start, peak |-> Start, max_drawdown |-> 0,
          wins |-> 0, losses |-> 0, total_pnl |-> 0]

LEMMA StatsStepIs ==
  ASSUME NEW q \in Stat, NEW p \in Int
  PROVE  /\ StatsStep(q, p) \in Stat
         /\ StatsStep(q, p).running = Credit(q.running, p)
         /\ StatsStep(q, p).total_pnl = q.total_pnl + p
         /\ StatsStep(q, p).wins + StatsStep(q, p).losses <= q.wins + q.losses + 1
         /\ StatsStep(q, p).peak = (IF Credit(q.running, p) > q.peak THEN Credit(q.running, p) ELSE q.peak)
         /\ LET fall == StatsStep(q, p).peak - Credit(q.running, p)
            IN  StatsStep(q, p).max_drawdown = (IF fall > q.max_drawdown THEN fall ELSE q.max_drawdown)
<1> DEFINE run == Credit(q.running, p)
           peak == IF run > q.peak THEN run ELSE q.peak
           dd == IF peak - run > q.max_drawdown THEN peak - run ELSE q.max_drawdown
           w == IF p > 0 THEN q.wins + 1 ELSE q.wins
           l == IF p < 0 THEN q.losses + 1 ELSE q.losses
<1>1. q.running \in Nat /\ q.peak \in Nat /\ q.max_drawdown \in Int /\ q.wins \in Nat
      /\ q.losses \in Nat /\ q.total_pnl \in Int
  BY DEF Stat
<1>2. run \in Nat
  BY <1>1 DEF Credit
<1>3. peak \in Nat /\ dd \in Int /\ w \in Nat /\ l \in Nat /\ w + l <= q.wins + q.losses + 1
      /\ q.total_pnl + p \in Int
  <2> HIDE DEF run
  <2> QED BY <1>1, <1>2
<1>4. StatsStep(q, p) = [running |-> run, peak |-> peak, max_drawdown |-> dd,
                         wins |-> w, losses |-> l, total_pnl |-> q.total_pnl + p]
  <2>1. q = [running |-> q.running, peak |-> q.peak, max_drawdown |-> q.max_drawdown,
             wins |-> q.wins, losses |-> q.losses, total_pnl |-> q.total_pnl]
    BY DEF Stat
  <2> DEFINE d == Counted(q, p)
  <2>2. d = [running |-> q.running, peak |-> q.peak, max_drawdown |-> q.max_drawdown,
             wins |-> w, losses |-> l, total_pnl |-> q.total_pnl + p]
    <3>1. d = [q EXCEPT !.wins = w, !.losses = l, !.total_pnl = q.total_pnl + p]
      BY Zenon DEF Counted
    <3> HIDE DEF d, w, l
    <3> QED BY <2>1, <3>1
  <2>3. StatsStep(q, p) = [d EXCEPT !.running = run, !.peak = peak,
            !.max_drawdown = IF peak - run > d.max_drawdown THEN peak - run ELSE d.max_drawdown]
    BY Zenon DEF StatsStep
  <2> HIDE DEF d, run, peak, w, l
  <2> QED BY <2>2, <2>3
<1> HIDE DEF run, peak, dd, w, l
<1>5. StatsStep(q, p) \in Stat
  BY <1>2, <1>3, <1>4 DEF Stat
<1> QED BY <1>3, <1>4, <1>5 DEF run, peak, dd

(* The balances H a wallet had, and what the statistics of its first n     *)
(* trades say of them.                                                     *)
Balances(s, H) ==
    /\ s \in Seq(Int) /\ H \in [0..Len(s) -> Nat] /\ H[0] = Start
    /\ \A i \in 1..Len(s) : H[i] = H[i - 1] + s[i]

IsPeak(H, n, x) == (\E j \in 0..n : x = H[j]) /\ \A j \in 0..n : H[j] <= x

IsFall(H, n, x) ==
    /\ \E j, k \in 0..n : j <= k /\ x = H[j] - H[k]
    /\ \A j, k \in 0..n : j <= k => H[j] - H[k] <= x

Agrees(H, n, q) ==
    /\ q \in Stat /\ q.running = H[n] /\ Start + q.total_pnl = H[n]
    /\ q.wins + q.losses <= n
    /\ IsPeak(H, n, q.peak) /\ IsFall(H, n, q.max_drawdown)

LEMMA AgreesAtFirst ==
  ASSUME NEW H, H[0] = Start PROVE Agrees(H, 0, Stat0)
<1>1. Start \in Nat /\ 0..0 = {0}
  BY WalletAssumption
<1>2. Stat0 \in Stat /\ Stat0.running = Start /\ Stat0.total_pnl = 0 /\ Stat0.wins = 0
      /\ Stat0.losses = 0 /\ Stat0.peak = Start /\ Stat0.max_drawdown = 0
  BY <1>1 DEF Stat, Stat0
<1>3. Start + 0 = Start /\ Start - Start = 0 /\ Start <= Start
  BY <1>1
<1>4. IsPeak(H, 0, Start)
  BY <1>1, <1>3 DEF IsPeak
<1>5. IsFall(H, 0, 0)
  BY <1>1, <1>3 DEF IsFall
<1> QED BY <1>2, <1>3, <1>4, <1>5 DEF Agrees

LEMMA AgreesNext ==
  ASSUME NEW s, NEW H, Balances(s, H), NEW n \in Nat, n + 1 <= Len(s), NEW q, Agrees(H, n, q)
  PROVE  Agrees(H, n + 1, StatsStep(q, s[n + 1]))
<1> DEFINE p == s[n + 1]
           r == StatsStep(q, p)
<1>1. /\ Len(s) \in Nat /\ n + 1 \in 1..Len(s) /\ (n + 1) - 1 = n /\ p \in Int
      /\ \A j \in 0..n + 1 : H[j] \in Nat
  <2>1. s \in Seq(Int) /\ Len(s) \in Nat
    BY LenProperties DEF Balances
  <2>2. n + 1 \in 1..Len(s) /\ (n + 1) - 1 = n
    BY <2>1
  <2>3. \A j \in 0..n + 1 : j \in 0..Len(s)
    BY <2>1
  <2> QED BY <2>1, <2>2, <2>3, ElementOfSeq DEF Balances
<1>2. /\ H[n + 1] = H[n] + p /\ H[n] \in Nat /\ H[n + 1] \in Nat
  <2>1. n \in 0..n + 1 /\ n + 1 \in 0..n + 1
    OBVIOUS
  <2> QED BY <1>1, <2>1 DEF Balances
<1>3. q \in Stat /\ q.running = H[n] /\ q.wins + q.losses <= n /\ q.wins \in Nat /\ q.losses \in Nat
      /\ q.peak \in Nat /\ q.max_drawdown \in Int /\ q.total_pnl \in Int /\ Start + q.total_pnl = H[n]
  BY DEF Agrees, Stat
<1>4. Credit(q.running, p) = H[n + 1]
  <2> HIDE DEF p
  <2> QED BY <1>1, <1>2, <1>3 DEF Credit
<1>5. /\ r \in Stat /\ r.running = H[n + 1] /\ r.total_pnl = q.total_pnl + p
      /\ r.wins + r.losses <= q.wins + q.losses + 1
      /\ r.peak = (IF H[n + 1] > q.peak THEN H[n + 1] ELSE q.peak)
      /\ r.max_drawdown = (IF r.peak - H[n + 1] > q.max_drawdown THEN r.peak - H[n + 1]
                                                                ELSE q.max_drawdown)
  <2>1. /\ r \in Stat /\ r.running = Credit(q.running, p) /\ r.total_pnl = q.total_pnl + p
        /\ r.wins + r.losses <= q.wins + q.losses + 1
        /\ r.peak = (IF Credit(q.running, p) > q.peak THEN Credit(q.running, p) ELSE q.peak)
        /\ r.max_drawdown = (IF r.peak - Credit(q.running, p) > q.max_drawdown
                                THEN r.peak - Credit(q.running, p) ELSE q.max_drawdown)
    <3> HIDE DEF p
    <3> QED BY <1>1, <1>3, StatsStepIs, Zenon
  <2> HIDE DEF r, p
  <2> QED BY <1>4, <2>1
<1>6. r.wins + r.losses <= n + 1
  <2>1. r.wins \in Nat /\ r.losses \in Nat
    BY <1>5 DEF Stat
  <2> HIDE DEF r
  <2> QED BY <1>3, <1>5, <2>1
<1>7. Start + r.total_pnl = H[n + 1]
  BY <1>1, <1>2, <1>3, <1>5, WalletAssumption
<1> HIDE DEF r, p
<1>8. \A j \in 0..n + 1 : j \in 0..n \/ j = n + 1
  OBVIOUS
<1>9. IsPeak(H, n + 1, r.peak) /\ r.peak \in Nat
  <2>1. (\E j \in 0..n : q.peak = H[j]) /\ \A j \in 0..n : H[j] <= q.peak
    BY DEF Agrees, IsPeak
  <2>2. \A j \in 0..n : j \in 0..n + 1
    OBVIOUS
  <2>3. r.peak \in Nat /\ H[n + 1] <= r.peak /\ q.peak <= r.peak
        /\ (r.peak = H[n + 1] \/ r.peak = q.peak)
    BY <1>2, <1>3, <1>5
  <2>4. \A j \in 0..n + 1 : H[j] <= r.peak
    <3>1. ASSUME NEW j \in 0..n PROVE H[j] <= r.peak
      BY <1>1, <1>3, <2>1, <2>2, <2>3
    <3> QED BY <1>8, <2>3, <3>1
  <2>5. \E j \in 0..n + 1 : r.peak = H[j]
    <3>1. n + 1 \in 0..n + 1
      OBVIOUS
    <3> QED BY <2>1, <2>2, <2>3, <3>1
  <2> QED BY <2>3, <2>4, <2>5 DEF IsPeak
<1>10. IsFall(H, n + 1, r.max_drawdown)
  <2>1. /\ \E j, k \in 0..n : j <= k /\ q.max_drawdown = H[j] - H[k]
        /\ \A j, k \in 0..n : j <= k => H[j] - H[k] <= q.max_drawdown
    BY DEF Agrees, IsFall
  <2>2. /\ r.max_drawdown \in Int /\ q.max_drawdown <= r.max_drawdown
        /\ r.peak - H[n + 1] <= r.max_drawdown
        /\ (r.max_drawdown = q.max_drawdown \/ r.max_drawdown = r.peak - H[n + 1])
    BY <1>2, <1>3, <1>5, <1>9
  <2>3. ASSUME NEW j \in 0..n + 1, NEW k \in 0..n + 1, j <= k
        PROVE  H[j] - H[k] <= r.max_drawdown
    <3>1. CASE k \in 0..n
      <4>1. j \in 0..n
        BY <2>3, <3>1
      <4>2. H[j] - H[k] <= q.max_drawdown
        BY <2>1, <2>3, <3>1, <4>1
      <4> QED BY SMTT(30), <1>1, <1>3, <2>2, <4>2
    <3>2. CASE k = n + 1
      <4>1. H[j] <= r.peak
        BY <1>9 DEF IsPeak
      <4> QED BY <1>1, <1>9, <2>2, <3>2, <4>1
    <3> QED BY <1>8, <3>1, <3>2
  <2>4. \E j, k \in 0..n + 1 : j <= k /\ r.max_drawdown = H[j] - H[k]
    <3>1. CASE r.max_drawdown = q.max_drawdown
      <4>1. \A j \in 0..n : j \in 0..n + 1
        OBVIOUS
      <4> QED BY <2>1, <3>1, <4>1
    <3>2. CASE r.max_drawdown = r.peak - H[n + 1]
      <4>1. PICK j \in 0..n + 1 : r.peak = H[j]
        BY <1>9 DEF IsPeak
      <4>2. n + 1 \in 0..n + 1 /\ j <= n + 1
        OBVIOUS
      <4> QED BY <3>2, <4>1, <4>2
    <3> QED BY <2>2, <3>1, <3>2
  <2> QED BY <2>3, <2>4 DEF IsFall
<1> QED BY <1>5, <1>6, <1>7, <1>9, <1>10 DEF Agrees, r, p

LEMMA StatsIs ==
  ASSUME NEW w, NEW H, Balances(w.trades, H)
  PROVE  Agrees(H, Len(w.trades), Stats(w))
<1> DEFINE s == w.trades
           N == Len(s)
           Step == [x \in Stat \X (1..N) |-> StatsStep(x[1], s[x[2]])]
           Body(g, T) == IF T = {} THEN Stat0 ELSE StatsStep(g[T \ {Max(T)}], s[Max(T)])
           c == CHOOSE g : g = [T \in SUBSET (DOMAIN s) |-> Body(g, T)]
<1>1. N \in Nat /\ DOMAIN s = 1..N /\ \A i \in 1..N : s[i] \in Int
  BY LenProperties, ElementOfSeq DEF Balances
<1>2. Step \in [Stat \X (1..N) -> Stat]
  <2>1. \A q \in Stat : \A i \in 1..N : StatsStep(q, s[i]) \in Stat
    BY <1>1, StatsStepIs
  <2> HIDE DEF s, N
  <2> QED BY <2>1
<1>3. PICK g : Folds(g, N, Stat, Stat0, Step)
  <2>1. Stat0 \in Stat
    BY WalletAssumption DEF Stat, Stat0
  <2> HIDE DEF Step, N
  <2> QED BY <1>1, <1>2, <2>1, FoldExists
<1>4. g = [T \in SUBSET (1..N) |-> Body(g, T)]
  <2>1. ASSUME NEW T \in SUBSET (1..N), T # {}
        PROVE  Step[<<g[T \ {Max(T)}], Max(T)>>] = Body(g, T)
    <3>1. Max(T) \in 1..N
      BY <1>1, <2>1, MaxIs
    <3>2. T \ {Max(T)} \in SUBSET (1..N)
      OBVIOUS
    <3>3. g[T \ {Max(T)}] \in Stat
      BY <1>3, <3>2 DEF Folds
    <3> QED BY <2>1, <3>1, <3>3
  <2>2. \A T \in SUBSET (1..N) : (IF T = {} THEN Stat0 ELSE Step[<<g[T \ {Max(T)}], Max(T)>>]) = Body(g, T)
    <3> HIDE DEF Step
    <3> QED BY <2>1
  <2> HIDE DEF Step, Body
  <2> QED BY <1>3, <2>2 DEF Folds
<1>5. c = [T \in SUBSET (1..N) |-> Body(c, T)]
  <2> HIDE DEF Body
  <2>1. c = [T \in SUBSET (DOMAIN s) |-> Body(c, T)]
    BY <1>1, <1>4, Zenon
  <2> QED BY <1>1, <2>1
<1>6. Stats(w) = c[1..N]
  BY <1>1, Zenon DEF Stats, Stat0, FoldLeft, MapThenFoldSet
<1> HIDE DEF c
<1>7. \A T \in SUBSET (1..N) : c[T] = Body(c, T)
  <2> HIDE DEF Body
  <2> QED BY <1>5
<1> DEFINE S == {i \in Nat : i <= N => Agrees(H, i, c[1..i])}
<1>8. 0 \in S
  <2>1. 1..0 = {} /\ {} \in SUBSET (1..N)
    OBVIOUS
  <2>2. c[1..0] = Stat0
    BY <1>7, <2>1
  <2>3. Agrees(H, 0, Stat0)
    BY AgreesAtFirst DEF Balances
  <2> QED BY <2>2, <2>3
<1>9. ASSUME NEW i \in Nat, i \in S PROVE i + 1 \in S
  <2>1. SUFFICES ASSUME i + 1 <= N PROVE Agrees(H, i + 1, c[1..i + 1])
    OBVIOUS
  <2>2. Agrees(H, i, c[1..i])
    BY <1>1, <1>9, <2>1
  <2>3. i + 1 \in 1..N /\ (i + 1) - 1 = i
    BY <1>1, <2>1
  <2>4. /\ 1..i + 1 \in SUBSET (1..N) /\ 1..i + 1 # {} /\ Max(1..i + 1) = i + 1
        /\ (1..i + 1) \ {Max(1..i + 1)} = 1..i
    BY <1>1, <2>3, MaxOfFirst
  <2>5. c[1..i + 1] = StatsStep(c[1..i], s[i + 1])
    BY <1>7, <2>4
  <2>6. Agrees(H, i + 1, StatsStep(c[1..i], s[i + 1]))
    BY <2>1, <2>2, AgreesNext
  <2> QED BY <2>5, <2>6
<1>10. N \in S
  <2> HIDE DEF S
  <2> QED BY <1>1, <1>8, <1>9, Induct
<1> QED BY <1>1, <1>6, <1>10

-----------------------------------------------------------------------------
(* The largest of a set of integers. *)
LEMMA MaxOf ==
  ASSUME NEW T \in SUBSET Int, NEW x \in T, \A y \in T : y <= x PROVE Max(T) = x
<1>1. \E m \in T : \A y \in T : m >= y
  OBVIOUS
<1>2. Max(T) \in T /\ \A y \in T : Max(T) >= y
  BY <1>1, Zenon DEF Max
<1>3. Max(T) \in Int /\ x \in Int /\ Max(T) >= x /\ Max(T) <= x
  BY <1>2
<1> QED BY <1>3

(* The balance after the first i trades. *)
LEMMA HadIs ==
  ASSUME NEW s, NEW H, Balances(s, H), NEW i \in 0..Len(s)
  PROVE  Start + SumOf(SubSeq(s, 1, i)) = H[i]
<1> DEFINE t == SubSeq(s, 1, i)
           D == [j \in 0..i |-> H[j] - Start]
<1>1. s \in Seq(Int) /\ Len(s) \in Nat /\ i \in Nat /\ i <= Len(s) /\ H[0] = Start /\ Start \in Nat
      /\ \A j \in 1..Len(s) : s[j] \in Int
  BY LenProperties, ElementOfSeq, WalletAssumption DEF Balances
<1>2. /\ t \in Seq(Int) /\ Len(t) = i /\ \A j \in 1..i : t[j] = s[j]
  <2>1. \A j \in 1..i : s[j] \in Int
    BY <1>1
  <2>2. 1 \in Int /\ i \in Int /\ i - 1 + 1 = i /\ (1 <= i + 1)
    BY <1>1
  <2>3. /\ t \in Seq(Int) /\ Len(t) = (IF 1 <= i THEN i - 1 + 1 ELSE 0)
        /\ \A j \in 1..i - 1 + 1 : t[j] = s[1 + j - 1]
    BY <2>1, <2>2, SubSeqProperties
  <2>4. \A j \in 1..i : 1 + j - 1 = j
    OBVIOUS
  <2> HIDE DEF t
  <2> QED BY <1>1, <2>2, <2>3, <2>4
<1>3. \A j \in 0..i : H[j] \in Nat
  <2>1. \A j \in 0..i : j \in 0..Len(s)
    BY <1>1
  <2> QED BY <2>1 DEF Balances
<1>4. D \in [0..i -> Int] /\ D[0] = 0
  BY <1>1, <1>3
<1>5. \A j \in 1..i : D[j] = D[j - 1] + t[j]
  <2> SUFFICES ASSUME NEW j \in 1..i PROVE D[j] = D[j - 1] + t[j]
    OBVIOUS
  <2>1. j \in 1..Len(s) /\ j \in 0..i /\ j - 1 \in 0..i
    BY <1>1
  <2>2. H[j] = H[j - 1] + s[j] /\ s[j] \in Int /\ t[j] = s[j]
    BY <1>1, <1>2, <2>1 DEF Balances
  <2>3. H[j] \in Nat /\ H[j - 1] \in Nat
    BY <1>3, <2>1
  <2> HIDE DEF t
  <2> QED BY <1>1, <2>1, <2>2, <2>3
<1> HIDE DEF t, D
<1>6. SumOf(t) = D[i]
  BY <1>2, <1>4, <1>5, SumIs
<1>7. D[i] = H[i] - Start /\ H[i] \in Nat
  BY <1>1, <1>3 DEF D
<1>8. Start + SumOf(t) = H[i]
  BY <1>1, <1>6, <1>7
<1> QED BY <1>8 DEF t

-----------------------------------------------------------------------------
(* Every wallet in memory or on disk has the balances of its trades, none  *)
(* of them negative: saturation never took place.                          *)
Honest(w) ==
    \E H : Balances(w.trades, H) /\ w.balance = H[Len(w.trades)]

AllHonest == \A w \in file \cup durable \cup {wallet} : Honest(w)

LEMMA FreshHonest == Honest(Fresh)
<1> DEFINE H == [i \in 0..0 |-> Start]
<1>1. Fresh.trades = <<>> /\ Fresh.balance = Start /\ Start \in Nat
  BY WalletAssumption DEF Fresh
<1>2. <<>> \in Seq(Int) /\ Len(<<>>) = 0 /\ 1..0 = {}
  BY EmptySeq
<1>3. H \in [0..0 -> Nat] /\ H[0] = Start
  BY <1>1
<1> HIDE DEF H
<1>4. Balances(<<>>, H)
  BY <1>2, <1>3 DEF Balances
<1> QED BY <1>1, <1>2, <1>3, <1>4 DEF Honest

LEMMA ExecuteHonest ==
  ASSUME NEW p \in Profits, Execute(p), Honest(wallet)
  PROVE  Honest(wallet')
<1>1. PICK H : Balances(wallet.trades, H) /\ wallet.balance = H[Len(wallet.trades)]
  BY DEF Honest
<1> DEFINE s == wallet.trades
           n == Len(s)
           t == Append(s, p)
           b == Credit(wallet.balance, p)
           G == [i \in 0..n + 1 |-> IF i = n + 1 THEN b ELSE H[i]]
<1>2. /\ p \in Int /\ s \in Seq(Int) /\ n \in Nat /\ H \in [0..n -> Nat] /\ H[0] = Start
      /\ \A i \in 1..n : H[i] = H[i - 1] + s[i]
  BY <1>1, LenProperties, WalletAssumption DEF Balances
<1>3. /\ t \in Seq(Int) /\ Len(t) = n + 1 /\ t[n + 1] = p /\ \A i \in 1..n : t[i] = s[i]
  BY <1>2, AppendProperties
<1>4. wallet.balance = H[n] /\ H[n] \in Nat
  <2>1. n \in 0..n
    BY <1>2
  <2> QED BY <1>1, <1>2, <2>1
<1>5. b = H[n] + p /\ b \in Nat
  <2>1. p >= 0 \/ -p <= H[n]
    BY <1>4 DEF Execute, Affordable
  <2>2. H[n] + p >= 0
    BY <1>2, <1>4, <2>1
  <2> QED BY <1>2, <1>4, <2>2 DEF Credit
<1> HIDE DEF s, t, b
<1>6. /\ G \in [0..n + 1 -> Nat] /\ G[n + 1] = b /\ \A i \in 0..n : G[i] = H[i]
  <2> HIDE DEF n
  <2>1. ASSUME NEW i \in 0..n + 1 PROVE (IF i = n + 1 THEN b ELSE H[i]) \in Nat
    <3>1. i = n + 1 \/ i \in 0..n
      BY <1>2
    <3> QED BY <1>2, <1>5, <3>1
  <2>2. \A i \in 0..n : i \in 0..n + 1 /\ i # n + 1
    BY <1>2
  <2>3. n + 1 \in 0..n + 1
    BY <1>2
  <2> QED BY <2>1, <2>2, <2>3
<1> HIDE DEF G, n
<1>7. \A i \in 1..n + 1 : G[i] = G[i - 1] + t[i]
  <2> SUFFICES ASSUME NEW i \in 1..n + 1 PROVE G[i] = G[i - 1] + t[i]
    OBVIOUS
  <2>1. CASE i = n + 1
    <3>1. n \in 0..n /\ (n + 1) - 1 = n
      BY <1>2
    <3> QED BY <1>3, <1>5, <1>6, <2>1, <3>1
  <2>2. CASE i # n + 1
    <3>1. i \in 1..n /\ i \in 0..n /\ i - 1 \in 0..n
      BY <1>2, <2>2
    <3> QED BY <1>2, <1>3, <1>6, <3>1
  <2> QED BY <2>1, <2>2
<1>8. G[0] = Start
  <2>1. 0 \in 0..n
    BY <1>2
  <2> QED BY <1>2, <1>6, <2>1
<1>9. Balances(t, G)
  BY <1>3, <1>6, <1>7, <1>8 DEF Balances
<1>10. wallet'.trades = t /\ wallet'.balance = b
  BY DEF Execute, s, t, b
<1> QED BY <1>3, <1>6, <1>9, <1>10 DEF Honest

LEMMA HonestStep == AllHonest /\ [Next]_vars => AllHonest'
<1> SUFFICES ASSUME AllHonest, [Next]_vars PROVE AllHonest'
  OBVIOUS
<1>1. ASSUME NEW p \in Profits, Execute(p) PROVE AllHonest'
  <2>1. UNCHANGED <<file, durable>>
    BY <1>1 DEF Execute, disk
  <2>2. Honest(wallet')
    BY <1>1, ExecuteHonest DEF AllHonest
  <2> QED BY <2>1, <2>2 DEF AllHonest, Honest
<1>2. CASE /\ file' \cup durable' \subseteq file \cup durable \cup {wallet}
           /\ wallet' \in file \cup {wallet, Fresh}
  <2>1. \A w \in file' \cup durable' \cup {wallet'} : w = Fresh \/ w \in file \cup durable \cup {wallet}
    BY <1>2
  <2>2. \A w \in file' \cup durable' \cup {wallet'} : Honest(w)
    BY <2>1, FreshHonest DEF AllHonest
  <2> QED BY <2>2 DEF AllHonest, Honest
<1>3. CASE Boot \/ BootUnread
  BY <1>2, <1>3 DEF Boot, BootUnread, Loaded, disk
<1>4. CASE Rename \/ WriteBack
  BY <1>2, <1>4 DEF Rename, WriteBack
<1>5. ASSUME NEW kept, NEW tearing, LosePower(kept, tearing) PROVE AllHonest'
  BY <1>2, <1>5 DEF LosePower, Down
<1>6. CASE Stop \/ \E tearing \in BOOLEAN : StopAtLine(tearing)
  BY <1>2, <1>6 DEF Stop, StopAtLine, Down, disk
<1>7. CASE \/ Skip \/ WriteTmp \/ SaveFails \/ AppendLine \/ WriteBackLines \/ UNCHANGED vars
           \/ \E tearing \in BOOLEAN : AppendFails(tearing)
           \/ \E n \in 1 .. MaxBatch : Detect(n)
           \/ \E p \in Profits : InsufficientFunds(p)
  <2>1. UNCHANGED <<file, durable, wallet>>
    BY <1>7 DEF Skip, WriteTmp, SaveFails, AppendLine, AppendFails, WriteBackLines, Detect,
                InsufficientFunds, Advance, Break, disk, vars
  <2> QED BY <1>2, <2>1
<1> QED BY <1>1, <1>3, <1>4, <1>5, <1>6, <1>7 DEF Next

(* What an honest wallet says of itself is true. *)
LEMMA HonestExact ==
  ASSUME NEW w, Honest(w)
  PROVE  LET s == Stats(w)
             Had(i) == Start + SumOf(SubSeq(w.trades, 1, i))
             moments == 0 .. Len(w.trades)
             falls == {Had(p[1]) - Had(p[2]) : p \in {q \in moments \X moments : q[1] <= q[2]}}
         IN  /\ w.balance = Had(Len(w.trades)) /\ w.balance = Start + s.total_pnl
             /\ s.wins + s.losses <= Len(w.trades)
             /\ s.peak = Max({Had(i) : i \in moments})
             /\ s.max_drawdown = Max(falls)
<1> DEFINE s == Stats(w)
           n == Len(w.trades)
           Had(i) == Start + SumOf(SubSeq(w.trades, 1, i))
           ups == {Had(i) : i \in 0..n}
           falls == {Had(p[1]) - Had(p[2]) : p \in {q \in (0..n) \X (0..n) : q[1] <= q[2]}}
<1>1. PICK H : Balances(w.trades, H) /\ w.balance = H[n]
  BY DEF Honest
<1>2. n \in Nat /\ n \in 0..n /\ \A i \in 0..n : H[i] \in Nat
  <2>1. w.trades \in Seq(Int) /\ H \in [0..n -> Nat]
    BY <1>1 DEF Balances
  <2>2. n \in Nat
    BY <2>1, LenProperties
  <2> HIDE DEF n
  <2> QED BY <2>1, <2>2
<1>3. \A i \in 0..n : Had(i) = H[i]
  BY <1>1, HadIs
<1>4. Agrees(H, n, s)
  BY <1>1, StatsIs
<1> HIDE DEF s, n, Had
<1>5. s.peak = Max(ups)
  <2>1. ups \in SUBSET Int
    BY <1>2, <1>3
  <2>2. s.peak \in ups /\ \A y \in ups : y <= s.peak
    BY <1>3, <1>4 DEF Agrees, IsPeak
  <2> HIDE DEF ups
  <2> QED BY <2>1, <2>2, MaxOf
<1>6. s.max_drawdown = Max(falls)
  <2>1. \A y \in falls : \E i, j \in 0..n : i <= j /\ y = H[i] - H[j]
    BY <1>3
  <2>2. \A i, j \in 0..n : i <= j => H[i] - H[j] \in falls
    <3> SUFFICES ASSUME NEW i \in 0..n, NEW j \in 0..n, i <= j PROVE H[i] - H[j] \in falls
      OBVIOUS
    <3>1. <<i, j>> \in {q \in (0..n) \X (0..n) : q[1] <= q[2]}
      OBVIOUS
    <3>2. Had(<<i, j>>[1]) - Had(<<i, j>>[2]) = H[i] - H[j]
      BY <1>3
    <3> QED BY <3>1, <3>2
  <2> HIDE DEF falls
  <2>3. falls \in SUBSET Int
    <3>1. \A i, j \in 0..n : H[i] - H[j] \in Int
      BY <1>2
    <3> QED BY <2>1, <3>1
  <2>4. s.max_drawdown \in falls /\ \A y \in falls : y <= s.max_drawdown
    BY <1>4, <2>1, <2>2 DEF Agrees, IsFall
  <2> QED BY <2>3, <2>4, MaxOf
<1>7. w.balance = Had(n) /\ w.balance = Start + s.total_pnl /\ s.wins + s.losses <= n
  BY <1>1, <1>2, <1>3, <1>4 DEF Agrees
<1> QED BY <1>5, <1>6, <1>7 DEF s, n, Had

(* What any wallet says, in memory or in a file a restart may load, is of  *)
(* its history: balance and profit are the sum of the trades, no           *)
(* saturation ever hides a loss, the peak is the highest balance it had    *)
(* and the drawdown the largest fall to a later one, for any profits and   *)
(* any number of trades (dl-paper/src/lib.rs execute, stats, load).        *)
THEOREM WalletIsExact == Spec => []BalanceExact
<1>1. Init => AllHonest
  BY FreshHonest DEF Init, AllHonest
<1>2. AllHonest => BalanceExact
  <2> SUFFICES ASSUME AllHonest, NEW w \in file \cup {wallet}, Honest(w)
               PROVE  LET s == Stats(w)
                          Had(i) == Start + SumOf(SubSeq(w.trades, 1, i))
                          moments == 0 .. Len(w.trades)
                          falls == {Had(p[1]) - Had(p[2]) : p \in {q \in moments \X moments : q[1] <= q[2]}}
                      IN  /\ w.balance = Had(Len(w.trades)) /\ w.balance = Start + s.total_pnl
                          /\ s.wins + s.losses <= Len(w.trades)
                          /\ s.peak = Max({Had(i) : i \in moments})
                          /\ s.max_drawdown = Max(falls)
    BY DEF AllHonest, BalanceExact
  <2> QED BY HonestExact
<1> QED BY <1>1, <1>2, HonestStep, PTL DEF Spec

-----------------------------------------------------------------------------
(* The elements of a sequence that are in a set, in their order.           *)
Selects(k, h, s, S, n) ==
    /\ h \in [1..Len(k) -> 1..n]
    /\ \A i, j \in 1..Len(k) : i < j => h[i] < h[j]
    /\ \A i \in 1..Len(k) : k[i] = s[h[i]] /\ s[h[i]] \in S
    /\ \A m \in 1..n : s[m] \in S => \E i \in 1..Len(k) : h[i] = m

LEMMA SelectsMore ==
  ASSUME NEW D, NEW s \in Seq(D), NEW S, NEW n \in Nat, n + 1 <= Len(s),
         NEW k \in Seq(D), NEW h, Selects(k, h, s, S, n)
  PROVE  \E g : Selects(IF s[n + 1] \in S THEN Append(k, s[n + 1]) ELSE k, g, s, S, n + 1)
<1> DEFINE L == Len(k)
<1>1. L \in Nat /\ s[n + 1] \in D
  <2>1. Len(s) \in Nat /\ n + 1 \in 1..Len(s)
    BY LenProperties
  <2> QED BY <2>1, LenProperties, ElementOfSeq
<1>2. CASE s[n + 1] \in S
  <2> DEFINE t == Append(k, s[n + 1])
             g == [i \in 1..L + 1 |-> IF i = L + 1 THEN n + 1 ELSE h[i]]
  <2>1. Len(t) = L + 1 /\ t[L + 1] = s[n + 1] /\ \A i \in 1..L : t[i] = k[i]
    BY <1>1, AppendProperties
  <2>2. \A i \in 1..L + 1 : i \in 1..L \/ i = L + 1
    BY <1>1
  <2>3. g[L + 1] = n + 1 /\ \A i \in 1..L : g[i] = h[i] /\ h[i] \in 1..n
    <3>1. L + 1 \in 1..L + 1 /\ \A i \in 1..L : i \in 1..L + 1 /\ i # L + 1
      BY <1>1
    <3>2. \A i \in 1..L : h[i] \in 1..n
      BY DEF Selects
    <3> HIDE DEF L
    <3> QED BY <3>1, <3>2
  <2>4. g \in [1..L + 1 -> 1..n + 1]
    BY <1>1, <2>2 DEF Selects
  <2> HIDE DEF t, g
  <2>5. ASSUME NEW i \in 1..L + 1, NEW j \in 1..L + 1, i < j PROVE g[i] < g[j]
    <3>1. i \in 1..L
      BY <1>1, <2>5
    <3>2. CASE j = L + 1
      BY <2>3, <3>1, <3>2
    <3>3. CASE j \in 1..L
      BY <2>3, <2>5, <3>1, <3>3 DEF Selects
    <3> QED BY <2>2, <3>2, <3>3
  <2>6. \A i \in 1..L + 1 : t[i] = s[g[i]] /\ s[g[i]] \in S
    BY <1>2, <2>1, <2>2, <2>3 DEF Selects
  <2>7. ASSUME NEW m \in 1..n + 1, s[m] \in S PROVE \E i \in 1..L + 1 : g[i] = m
    <3>1. CASE m = n + 1
      BY <1>1, <2>3, <3>1
    <3>2. CASE m \in 1..n
      <4>1. PICK i \in 1..L : h[i] = m
        BY <2>7, <3>2 DEF Selects
      <4> QED BY <1>1, <2>3, <4>1
    <3> QED BY <3>1, <3>2
  <2>8. Selects(t, g, s, S, n + 1)
    BY <2>1, <2>4, <2>5, <2>6, <2>7 DEF Selects
  <2> QED BY <1>2, <2>8 DEF t
<1>3. CASE s[n + 1] \notin S
  <2>1. h \in [1..L -> 1..n + 1]
    BY DEF Selects
  <2>2. ASSUME NEW m \in 1..n + 1, s[m] \in S PROVE \E i \in 1..L : h[i] = m
    <3>1. m \in 1..n
      BY <1>3, <2>2
    <3> QED BY <2>2, <3>1 DEF Selects
  <2>3. Selects(k, h, s, S, n + 1)
    BY <2>1, <2>2 DEF Selects
  <2> QED BY <1>3, <2>3
<1> QED BY <1>2, <1>3

LEMMA PickedIs ==
  ASSUME NEW D, NEW s \in Seq(D), NEW S
  PROVE  /\ Picked(s, S) \in Seq(D)
         /\ \E h : Selects(Picked(s, S), h, s, S, Len(s))
<1> DEFINE N == Len(s)
           More(k, x) == IF x \in S THEN Append(k, x) ELSE k
           Step == [p \in Seq(D) \X (1..N) |-> More(p[1], s[p[2]])]
           Body(g, T) == IF T = {} THEN <<>> ELSE More(g[T \ {Max(T)}], s[Max(T)])
           c == CHOOSE g : g = [T \in SUBSET (DOMAIN s) |-> Body(g, T)]
<1>1. N \in Nat /\ DOMAIN s = 1..N /\ \A i \in 1..N : s[i] \in D
  BY LenProperties, ElementOfSeq
<1>2. \A k \in Seq(D) : \A i \in 1..N : More(k, s[i]) \in Seq(D)
  BY <1>1, AppendProperties
<1>3. Step \in [Seq(D) \X (1..N) -> Seq(D)]
  <2> HIDE DEF More, N
  <2> QED BY <1>2
<1>4. PICK g : Folds(g, N, Seq(D), <<>>, Step)
  <2>1. <<>> \in Seq(D)
    BY EmptySeq
  <2> HIDE DEF Step, N
  <2> QED BY <1>1, <1>3, <2>1, FoldExists
<1>5. g = [T \in SUBSET (1..N) |-> Body(g, T)]
  <2>1. ASSUME NEW T \in SUBSET (1..N), T # {}
        PROVE  Step[<<g[T \ {Max(T)}], Max(T)>>] = Body(g, T)
    <3>1. Max(T) \in 1..N
      BY <1>1, <2>1, MaxIs
    <3>2. T \ {Max(T)} \in SUBSET (1..N)
      OBVIOUS
    <3>3. g[T \ {Max(T)}] \in Seq(D)
      BY <1>4, <3>2 DEF Folds
    <3> HIDE DEF More, N
    <3> QED BY <2>1, <3>1, <3>3
  <2>2. \A T \in SUBSET (1..N) : (IF T = {} THEN <<>> ELSE Step[<<g[T \ {Max(T)}], Max(T)>>]) = Body(g, T)
    <3> HIDE DEF Step, More
    <3> QED BY <2>1
  <2> HIDE DEF Step, Body
  <2> QED BY <1>4, <2>2 DEF Folds
<1>6. c = [T \in SUBSET (1..N) |-> Body(c, T)]
  <2> HIDE DEF Body
  <2>1. c = [T \in SUBSET (DOMAIN s) |-> Body(c, T)]
    BY <1>1, <1>5, Zenon
  <2> QED BY <1>1, <2>1
<1>7. Picked(s, S) = c[1..N]
  BY <1>1, Zenon DEF Picked, FoldLeft, MapThenFoldSet
<1> HIDE DEF c
<1>8. \A T \in SUBSET (1..N) : c[T] = Body(c, T)
  <2> HIDE DEF Body
  <2> QED BY <1>6
<1> DEFINE Q == {i \in Nat : i <= N => /\ c[1..i] \in Seq(D)
                                       /\ \E h : Selects(c[1..i], h, s, S, i)}
<1>9. 0 \in Q
  <2>1. 1..0 = {} /\ {} \in SUBSET (1..N)
    OBVIOUS
  <2>2. c[1..0] = <<>>
    BY <1>8, <2>1
  <2>3. Len(<<>>) = 0 /\ <<>> \in Seq(D)
    BY EmptySeq
  <2>4. Selects(<<>>, [i \in 1..0 |-> 0], s, S, 0)
    BY <2>1, <2>3 DEF Selects
  <2> QED BY <2>2, <2>3, <2>4
<1>10. ASSUME NEW i \in Nat, i \in Q PROVE i + 1 \in Q
  <2>1. SUFFICES ASSUME i + 1 <= N
                 PROVE  /\ c[1..i + 1] \in Seq(D)
                        /\ \E h : Selects(c[1..i + 1], h, s, S, i + 1)
    OBVIOUS
  <2>2. c[1..i] \in Seq(D) /\ \E h : Selects(c[1..i], h, s, S, i)
    BY <1>1, <1>10, <2>1
  <2>3. i + 1 \in 1..N /\ (i + 1) - 1 = i
    BY <1>1, <2>1
  <2>4. /\ 1..i + 1 \in SUBSET (1..N) /\ 1..i + 1 # {} /\ Max(1..i + 1) = i + 1
        /\ (1..i + 1) \ {Max(1..i + 1)} = 1..i
    BY <1>1, <2>3, MaxOfFirst
  <2>5. c[1..i + 1] = More(c[1..i], s[i + 1])
    <3> HIDE DEF More
    <3> QED BY <1>8, <2>4
  <2>6. PICK h : Selects(c[1..i], h, s, S, i)
    BY <2>2
  <2>7. \E e : Selects(IF s[i + 1] \in S THEN Append(c[1..i], s[i + 1]) ELSE c[1..i], e, s, S, i + 1)
    BY <2>1, <2>2, <2>6, SelectsMore
  <2> QED BY <1>2, <2>2, <2>3, <2>5, <2>7
<1>11. N \in Q
  <2> HIDE DEF Q
  <2> QED BY <1>1, <1>9, <1>10, Induct
<1> QED BY <1>1, <1>7, <1>11

-----------------------------------------------------------------------------
(* A graph that is built lists the two directions of each pool, in order.  *)
Mints == {Pools[a].base : a \in DOMAIN Pools} \cup {Pools[a].quote : a \in DOMAIN Pools}
Edges == [from : Nat, to : Nat, weight : Int, pool : DOMAIN Pools, b2q : BOOLEAN]
Graphs == [tokens : Seq(Mints), edges : Seq(Edges)]
Reported == {Snapshot(a, r, slot) : a \in DOMAIN Pools, r \in Nat \X Nat, slot \in Nat}
Filled == {p \in Reported : p.rb > 0 /\ p.rq > 0}

LEMMA SnapshotIs ==
  ASSUME NEW p \in Reported
  PROVE  /\ p.address \in DOMAIN Pools /\ p.base \in Mints /\ p.quote \in Mints
         /\ p.rb \in Nat /\ p.rq \in Nat /\ p.fee \in Nat /\ p.slot \in Nat
<1>1. PICK a \in DOMAIN Pools, r \in Nat \X Nat, slot \in Nat : p = Snapshot(a, r, slot)
  BY DEF Reported
<1>2. /\ p.address = a /\ p.base = Pools[a].base /\ p.quote = Pools[a].quote
      /\ p.rb = r[1] /\ p.rq = r[2] /\ p.fee = Pools[a].fee /\ p.slot = slot
  BY <1>1 DEF Snapshot
<1>3. Pools[a].fee \in Nat
  BY DetectionConstants
<1>4. p.base \in Mints /\ p.quote \in Mints
  BY <1>2 DEF Mints
<1> QED BY <1>2, <1>3, <1>4

LEMMA InternedIs ==
  ASSUME NEW M, NEW tokens \in Seq(M), NEW mint \in M
  PROVE  /\ Interned(tokens, mint) \in Seq(M) /\ mint \in ToSet(Interned(tokens, mint))
         /\ ToSet(tokens) \subseteq ToSet(Interned(tokens, mint))
<1>1. CASE mint \in ToSet(tokens)
  BY <1>1 DEF Interned
<1>2. CASE mint \notin ToSet(tokens)
  <2> DEFINE t == Append(tokens, mint)
             n == Len(tokens)
  <2>1. /\ n \in Nat /\ DOMAIN tokens = 1..n /\ t \in Seq(M) /\ DOMAIN t = 1..n + 1
        /\ t[n + 1] = mint /\ \A i \in 1..n : t[i] = tokens[i]
    <3>1. n \in Nat /\ DOMAIN tokens = 1..n
      BY LenProperties
    <3>2. t \in Seq(M) /\ Len(t) = n + 1
      BY AppendProperties
    <3>3. DOMAIN t = 1..n + 1
      BY <3>2, LenProperties
    <3> QED BY <3>1, <3>2, <3>3, AppendProperties
  <2>2. Interned(tokens, mint) = t
    BY <1>2 DEF Interned
  <2> HIDE DEF t, n
  <2> QED BY <2>1, <2>2 DEF ToSet
<1> QED BY <1>1, <1>2

LEMMA TokenIs ==
  ASSUME NEW tokens \in Seq(Mints), NEW mint \in ToSet(tokens)
  PROVE  TokenId(tokens, mint) \in Nat
<1>1. \E i \in DOMAIN tokens : tokens[i] = mint
  BY DEF ToSet
<1>2. TokenId(tokens, mint) \in DOMAIN tokens
  BY <1>1, Zenon DEF TokenId
<1> QED BY <1>2, LenProperties

LEMMA WeightIs ==
  ASSUME NEW other \in Nat, NEW this \in Nat \ {0}, NEW fee \in Nat
  PROVE  WeightFromRate(EffectiveRate(other, this, fee)) \in Int
<1>1. One \in Nat \ {0} /\ MaxWeight \in Nat
  BY GraphConstants
<1>2. FeeMultiplier(fee) \in Int
  BY <1>1 DEF FeeMultiplier
<1>3. (other * One) \div this \in Int
  <2>1. other * One \in Int
    BY <1>1
  <2> DEFINE m == other * One
  <2> HIDE DEF m
  <2> QED BY <2>1 DEF m
<1> DEFINE q == (other * One) \div this
<1> HIDE DEF q
<1>4. q * FeeMultiplier(fee) \in Int
  BY <1>2, <1>3 DEF q
<1> DEFINE r == q * FeeMultiplier(fee)
<1> HIDE DEF r
<1>5. r \div One \in Int
  BY <1>1, <1>4 DEF r
<1>6. EffectiveRate(other, this, fee) = r \div One
  BY DEF EffectiveRate, q, r
<1> DEFINE rate == r \div One
<1> HIDE DEF rate
<1>7. WeightFromRate(rate) \in Int
  BY <1>1, <1>5 DEF WeightFromRate, MinWeight, rate
<1> QED BY <1>6, <1>7 DEF rate

LEMMA PushIs ==
  ASSUME NEW g \in Graphs, NEW p \in Filled
  PROVE  /\ PushPool(g, p) \in Graphs
         /\ \E e, f \in Edges : /\ PushPool(g, p).edges = g.edges \o <<e, f>>
                                /\ e.pool = p.address /\ e.b2q = TRUE
                                /\ f.pool = p.address /\ f.b2q = FALSE
<1> DEFINE tokens == Interned(Interned(g.tokens, p.base), p.quote)
           b == TokenId(tokens, p.base)
           q == TokenId(tokens, p.quote)
           e == BuiltEdge(b, q, EffectiveRate(p.rq, p.rb, p.fee), p.address, TRUE)
           f == BuiltEdge(q, b, EffectiveRate(p.rb, p.rq, p.fee), p.address, FALSE)
<1>1. /\ p.address \in DOMAIN Pools /\ p.base \in Mints /\ p.quote \in Mints
      /\ p.rb \in Nat \ {0} /\ p.rq \in Nat \ {0} /\ p.fee \in Nat
  BY SnapshotIs DEF Filled
<1>2. g.tokens \in Seq(Mints) /\ g.edges \in Seq(Edges)
  BY DEF Graphs
<1>3. tokens \in Seq(Mints) /\ p.base \in ToSet(tokens) /\ p.quote \in ToSet(tokens)
  <2> DEFINE t == Interned(g.tokens, p.base)
  <2>1. t \in Seq(Mints) /\ p.base \in ToSet(t)
    BY <1>1, <1>2, InternedIs
  <2> HIDE DEF t
  <2>2. Interned(t, p.quote) \in Seq(Mints) /\ p.quote \in ToSet(Interned(t, p.quote))
        /\ ToSet(t) \subseteq ToSet(Interned(t, p.quote))
    BY <1>1, <2>1, InternedIs
  <2> QED BY <2>1, <2>2 DEF t
<1>4. PushPool(g, p) = [tokens |-> tokens, edges |-> g.edges \o <<e, f>>]
  BY DEF PushPool
<1> HIDE DEF tokens
<1>5. b \in Nat /\ q \in Nat
  BY <1>3, TokenIs
<1> HIDE DEF b, q
<1>6. /\ WeightFromRate(EffectiveRate(p.rq, p.rb, p.fee)) \in Int
      /\ WeightFromRate(EffectiveRate(p.rb, p.rq, p.fee)) \in Int
  BY <1>1, WeightIs
<1>7. /\ e \in Edges /\ f \in Edges
      /\ e.pool = p.address /\ e.b2q = TRUE /\ f.pool = p.address /\ f.b2q = FALSE
  BY <1>1, <1>5, <1>6 DEF BuiltEdge, Edges
<1> HIDE DEF e, f
<1>8. <<e, f>> \in Seq(Edges)
  BY <1>7
<1>9. g.edges \o <<e, f>> \in Seq(Edges)
  BY <1>2, <1>8, ConcatProperties
<1>10. PushPool(g, p) \in Graphs
  BY <1>3, <1>4, <1>9 DEF Graphs
<1>11. PushPool(g, p).edges = g.edges \o <<e, f>>
  BY <1>4
<1> QED BY <1>7, <1>10, <1>11

LEMMA AppendedTwo ==
  ASSUME NEW D, NEW s \in Seq(D), NEW e \in D, NEW f \in D
  PROVE  /\ s \o <<e, f>> \in Seq(D) /\ Len(s \o <<e, f>>) = Len(s) + 2
         /\ ToSet(s \o <<e, f>>) = ToSet(s) \cup {e, f}
         /\ (s \o <<e, f>>)[Len(s) + 1] = e /\ (s \o <<e, f>>)[Len(s) + 2] = f
         /\ \A i \in 1..Len(s) : (s \o <<e, f>>)[i] = s[i]
<1> DEFINE N == Len(s)
           v == <<e, f>>
           u == s \o v
<1>1. N \in Nat /\ v \in Seq(D) /\ Len(v) = 2 /\ v[1] = e /\ v[2] = f
  BY LenProperties
<1>2. ToSet(s) = {s[i] : i \in 1..N}
  BY LenProperties DEF ToSet
<1> HIDE DEF v
<1>3. /\ u \in Seq(D) /\ Len(u) = N + 2
      /\ \A i \in 1..N + 2 : u[i] = IF i <= N THEN s[i] ELSE v[i - N]
  <2>1. /\ u \in Seq(D) /\ Len(u) = Len(s) + Len(v)
        /\ \A i \in 1..Len(s) + Len(v) : u[i] = IF i <= Len(s) THEN s[i] ELSE v[i - Len(s)]
    BY <1>1, ConcatProperties
  <2> HIDE DEF u
  <2> QED BY <1>1, <2>1
<1>4. ToSet(u) = {u[i] : i \in 1..N + 2}
  BY <1>3, LenProperties DEF ToSet
<1> HIDE DEF u, N
<1> DEFINE y == N + 1
           z == N + 2
<1>5. /\ y \in 1..N + 2 /\ ~ (y <= N) /\ y - N = 1
      /\ z \in 1..N + 2 /\ ~ (z <= N) /\ z - N = 2
      /\ \A i \in 1..N : i \in 1..N + 2 /\ i <= N
      /\ \A i \in 1..N + 2 : i \in 1..N \/ i = y \/ i = z
  BY <1>1
<1> HIDE DEF y, z
<1>6. u[y] = e /\ u[z] = f /\ \A i \in 1..N : u[i] = s[i]
  BY <1>1, <1>3, <1>5
<1>7. ToSet(u) = ToSet(s) \cup {e, f}
  <2>1. ASSUME NEW x \in ToSet(u) PROVE x \in ToSet(s) \cup {e, f}
    <3>1. PICK i \in 1..N + 2 : x = u[i]
      BY <1>4
    <3> QED BY <1>2, <1>5, <1>6, <3>1
  <2>2. ASSUME NEW x \in ToSet(s) \cup {e, f} PROVE x \in ToSet(u)
    BY <1>2, <1>4, <1>5, <1>6
  <2> QED BY <2>1, <2>2
<1> QED BY <1>3, <1>6, <1>7 DEF u, v, N, y, z

Laid(g, pools, n) ==
    /\ Len(g.edges) = 2 * n
    /\ \A i \in 1..n : /\ g.edges[2 * i - 1].pool = pools[i].address
                       /\ g.edges[2 * i - 1].b2q = TRUE
                       /\ g.edges[2 * i].pool = pools[i].address
                       /\ g.edges[2 * i].b2q = FALSE

LEMMA LaidMore ==
  ASSUME NEW pools \in Seq(Filled), NEW n \in Nat, n + 1 <= Len(pools),
         NEW g \in Graphs, Laid(g, pools, n)
  PROVE  Laid(PushPool(g, pools[n + 1]), pools, n + 1)
<1> DEFINE p == pools[n + 1]
           h == PushPool(g, p).edges
<1>1. p \in Filled
  <2>1. n + 1 \in 1..Len(pools)
    BY LenProperties
  <2> QED BY <2>1, ElementOfSeq
<1> HIDE DEF p
<1>2. PICK e, f \in Edges : /\ h = g.edges \o <<e, f>>
                            /\ e.pool = p.address /\ e.b2q = TRUE
                            /\ f.pool = p.address /\ f.b2q = FALSE
  BY <1>1, PushIs
<1>3. g.edges \in Seq(Edges) /\ Len(g.edges) = 2 * n
  BY DEF Graphs, Laid
<1>4. /\ Len(h) = 2 * n + 2 /\ h[2 * n + 1] = e /\ h[2 * n + 2] = f
      /\ \A i \in 1..2 * n : h[i] = g.edges[i]
  <2> DEFINE u == g.edges
  <2> HIDE DEF u
  <2>0. u \in Seq(Edges)
    BY <1>3 DEF u
  <2>1. /\ Len(u \o <<e, f>>) = Len(u) + 2
        /\ (u \o <<e, f>>)[Len(u) + 1] = e /\ (u \o <<e, f>>)[Len(u) + 2] = f
        /\ \A k \in 1..Len(u) : (u \o <<e, f>>)[k] = u[k]
    BY <2>0, AppendedTwo
  <2>2. Len(u) = 2 * n /\ h = u \o <<e, f>>
    BY <1>2, <1>3 DEF u
  <2> HIDE DEF h
  <2> QED BY <2>1, <2>2 DEF u
<1> HIDE DEF h
<1>5. ASSUME NEW i \in 1..n + 1
      PROVE  /\ h[2 * i - 1].pool = pools[i].address /\ h[2 * i - 1].b2q = TRUE
             /\ h[2 * i].pool = pools[i].address /\ h[2 * i].b2q = FALSE
  <2>1. CASE i = n + 1
    <3>1. 2 * i - 1 = 2 * n + 1 /\ 2 * i = 2 * n + 2
      BY <2>1
    <3> QED BY <1>2, <1>4, <2>1, <3>1 DEF p
  <2>2. CASE i \in 1..n
    <3>1. 2 * i - 1 \in 1..2 * n /\ 2 * i \in 1..2 * n
      BY <2>2
    <3> QED BY <1>4, <2>2, <3>1 DEF Laid
  <2>3. i = n + 1 \/ i \in 1..n
    OBVIOUS
  <2> QED BY <2>1, <2>2, <2>3, Zenon
<1>6. Len(h) = 2 * (n + 1)
  BY <1>4
<1> QED BY <1>5, <1>6 DEF Laid, h, p

(* The graphs the builder goes through, one pool at a time. *)
Grown(c, s) ==
    /\ c[0] = NoGraph /\ BuildFromPools(s) = c[Len(s)]
    /\ \A i \in 0..Len(s) : c[i] \in Graphs
    /\ \A i \in 0..Len(s) : i < Len(s) => s[i + 1] \in Filled /\ c[i + 1] = PushPool(c[i], s[i + 1])

LEMMA BuildGrows ==
  ASSUME NEW s \in Seq(Filled)
  PROVE  \E c : Grown(c, s)
<1> DEFINE N == Len(s)
           Step == [x \in Graphs \X (1..N) |-> PushPool(x[1], s[x[2]])]
           Body(g, T) == IF T = {} THEN NoGraph ELSE PushPool(g[T \ {Max(T)}], s[Max(T)])
           c == CHOOSE g : g = [T \in SUBSET (DOMAIN s) |-> Body(g, T)]
<1>1. N \in Nat /\ DOMAIN s = 1..N /\ \A i \in 1..N : s[i] \in Filled
  BY LenProperties, ElementOfSeq
<1>2. \A g \in Graphs : \A i \in 1..N : PushPool(g, s[i]) \in Graphs
  BY <1>1, PushIs
<1>3. Step \in [Graphs \X (1..N) -> Graphs]
  <2> HIDE DEF N
  <2> QED BY <1>2
<1>4. NoGraph \in Graphs
  BY EmptySeq DEF NoGraph, Graphs
<1>5. PICK g : Folds(g, N, Graphs, NoGraph, Step)
  <2> HIDE DEF Step, N
  <2> QED BY <1>1, <1>3, <1>4, FoldExists
<1>6. g = [T \in SUBSET (1..N) |-> Body(g, T)]
  <2>1. ASSUME NEW T \in SUBSET (1..N), T # {}
        PROVE  Step[<<g[T \ {Max(T)}], Max(T)>>] = Body(g, T)
    <3>1. Max(T) \in 1..N
      BY <1>1, <2>1, MaxIs
    <3>2. T \ {Max(T)} \in SUBSET (1..N)
      OBVIOUS
    <3>3. g[T \ {Max(T)}] \in Graphs
      BY <1>5, <3>2 DEF Folds
    <3> HIDE DEF N
    <3> QED BY <2>1, <3>1, <3>3
  <2>2. \A T \in SUBSET (1..N) : (IF T = {} THEN NoGraph ELSE Step[<<g[T \ {Max(T)}], Max(T)>>]) = Body(g, T)
    <3> HIDE DEF Step
    <3> QED BY <2>1
  <2> HIDE DEF Step, Body
  <2> QED BY <1>5, <2>2 DEF Folds
<1>7. c = [T \in SUBSET (1..N) |-> Body(c, T)]
  <2> HIDE DEF Body
  <2>1. c = [T \in SUBSET (DOMAIN s) |-> Body(c, T)]
    BY <1>1, <1>6, Zenon
  <2> QED BY <1>1, <2>1
<1>8. BuildFromPools(s) = c[1..N]
  BY <1>1, Zenon DEF BuildFromPools, FoldLeft, MapThenFoldSet
<1> HIDE DEF c
<1>9. \A T \in SUBSET (1..N) : c[T] = Body(c, T)
  <2> HIDE DEF Body
  <2> QED BY <1>7
<1>10. c[1..0] = NoGraph
  <2>1. 1..0 = {} /\ {} \in SUBSET (1..N)
    OBVIOUS
  <2> QED BY <1>9, <2>1
<1>11. ASSUME NEW i \in 0..N, i < N
       PROVE  i + 1 \in 1..N /\ c[1..i + 1] = PushPool(c[1..i], s[i + 1])
  <2>1. i \in Nat /\ i + 1 \in 1..N /\ (i + 1) - 1 = i
    BY <1>1, <1>11
  <2>2. /\ 1..i + 1 \in SUBSET (1..N) /\ 1..i + 1 # {} /\ Max(1..i + 1) = i + 1
        /\ (1..i + 1) \ {Max(1..i + 1)} = 1..i
    BY <1>1, <2>1, MaxOfFirst
  <2> QED BY <1>9, <2>1, <2>2
<1> DEFINE d == [i \in 0..N |-> c[1..i]]
           S == {i \in 0..N : c[1..i] \in Graphs}
<1>12. \A i \in 0..N : i \in S
  <2>1. 0 \in S
    BY <1>1, <1>4, <1>10
  <2>2. \A i \in 0..N : i < N /\ i \in S => i + 1 \in S
    BY <1>1, <1>2, <1>11
  <2> HIDE DEF S, N
  <2> QED BY <1>1, <2>1, <2>2, InductUpTo
<1>13. /\ d[0] = NoGraph /\ BuildFromPools(s) = d[N]
       /\ \A i \in 0..N : d[i] = c[1..i] /\ d[i] \in Graphs
       /\ \A i \in 0..N : i < N => i + 1 \in 0..N
  BY <1>1, <1>8, <1>10, <1>12
<1>14. \A i \in 0..N : i < N => s[i + 1] \in Filled /\ d[i + 1] = PushPool(d[i], s[i + 1])
  <2> HIDE DEF d
  <2> QED BY <1>1, <1>11, <1>13
<1> QED BY <1>13, <1>14, Zenon DEF Grown

LEMMA BuildIs ==
  ASSUME NEW s \in Seq(Filled)
  PROVE  BuildFromPools(s) \in Graphs /\ Laid(BuildFromPools(s), s, Len(s))
<1> DEFINE N == Len(s)
<1>1. N \in Nat /\ N \in 0..N
  BY LenProperties
<1>2. PICK c : Grown(c, s)
  BY BuildGrows
<1>3. \A i \in 0..N : c[i] \in Graphs
  BY <1>2 DEF Grown
<1> DEFINE S == {i \in 0..N : Laid(c[i], s, i)}
<1>4. \A i \in 0..N : i \in S
  <2>1. 0 \in S
    <3>1. c[0].edges = <<>> /\ Len(c[0].edges) = 0
      BY <1>2 DEF Grown, NoGraph
    <3> QED BY <1>1, <3>1 DEF Laid
  <2>2. ASSUME NEW i \in 0..N, i < N, i \in S PROVE i + 1 \in S
    <3>1. i \in Nat /\ i + 1 \in 0..N /\ i + 1 <= Len(s)
      BY <1>1, <2>2
    <3>2. c[i + 1] = PushPool(c[i], s[i + 1]) /\ c[i] \in Graphs
      BY <1>2, <2>2 DEF Grown
    <3>3. Laid(PushPool(c[i], s[i + 1]), s, i + 1)
      BY <2>2, <3>1, <3>2, LaidMore
    <3> QED BY <3>1, <3>2, <3>3
  <2> HIDE DEF S, N
  <2> QED BY <1>1, <2>1, <2>2, InductUpTo
<1>5. BuildFromPools(s) = c[N]
  BY <1>2 DEF Grown
<1> QED BY <1>1, <1>3, <1>4, <1>5

-----------------------------------------------------------------------------
(* What is left after the edges at some places were removed, the last one  *)
(* first: an edge that moves into a hole is one that was to be kept.       *)
LEMMA SwapRemoveIs ==
  ASSUME NEW D, NEW s \in Seq(D), NEW i \in Nat
  PROVE  /\ SwapRemove(s, i) \in Seq(D)
         /\ i \in 1..Len(s) =>
              /\ Len(SwapRemove(s, i)) = Len(s) - 1
              /\ \A j \in 1..Len(s) - 1 : SwapRemove(s, i)[j] = IF j = i THEN s[Len(s)] ELSE s[j]
<1> DEFINE L == Len(s)
           f == Front(s)
           t == SwapRemove(s, i)
<1>1. L \in Nat /\ \A j \in 1..L : s[j] \in D
  BY LenProperties, ElementOfSeq
<1>2. /\ f \in Seq(D) /\ Len(f) = (IF 1 <= L - 1 THEN L - 1 ELSE 0)
      /\ \A j \in 1..L - 1 : f[j] = s[j]
  <2>1. 1 \in Int /\ L - 1 \in Int /\ \A j \in 1..L - 1 : s[j] \in D
    BY <1>1
  <2> DEFINE k == L - 1
  <2> HIDE DEF k
  <2>2. /\ SubSeq(s, 1, k) \in Seq(D)
        /\ Len(SubSeq(s, 1, k)) = (IF 1 <= k THEN k - 1 + 1 ELSE 0)
        /\ \A j \in 1..k - 1 + 1 : SubSeq(s, 1, k)[j] = s[1 + j - 1]
    BY <2>1, SubSeqProperties DEF k
  <2>3. k - 1 + 1 = k /\ \A j \in 1..k : 1 + j - 1 = j
    BY <2>1 DEF k
  <2>4. f = SubSeq(s, 1, k)
    BY DEF Front, k
  <2> QED BY <2>2, <2>3, <2>4 DEF k
<1> HIDE DEF f
<1>3. CASE i = L
  <2>1. t = f
    BY <1>3 DEF SwapRemove, f
  <2>2. i \in 1..L => Len(f) = L - 1 /\ \A j \in 1..L - 1 : f[j] = s[j] /\ j # i
    BY <1>1, <1>2, <1>3
  <2> QED BY <1>2, <2>1, <2>2
<1>4. CASE i # L
  <2>1. t = [f EXCEPT ![i] = s[L]]
    BY <1>4 DEF SwapRemove, f, Last
  <2> HIDE DEF t
  <2>2. CASE i \in 1..Len(f)
    <3>1. Len(f) = L - 1 /\ i \in 1..L - 1
      BY <1>1, <1>2, <2>2
    <3>2. s[L] \in D
      BY <1>1, <3>1
    <3> DEFINE e == s[L]
    <3> HIDE DEF e
    <3>3. /\ [f EXCEPT ![i] = e] \in Seq(D) /\ Len([f EXCEPT ![i] = e]) = Len(f)
          /\ \A j \in 1..Len(f) : [f EXCEPT ![i] = e][j] = IF j = i THEN e ELSE f[j]
      BY <1>2, <2>2, <3>2, ExceptSeq DEF e
    <3>4. t = [f EXCEPT ![i] = e]
      BY <2>1 DEF e
    <3>5. /\ t \in Seq(D) /\ Len(t) = L - 1
          /\ \A j \in 1..L - 1 : t[j] = IF j = i THEN e ELSE s[j]
      BY <1>2, <3>1, <3>3, <3>4
    <3> QED BY <3>5 DEF e, t
  <2>3. CASE i \notin 1..Len(f)
    <3>1. f = [j \in 1..Len(f) |-> f[j]] /\ DOMAIN f = 1..Len(f)
      BY <1>2, LenProperties
    <3>2. t = f
      BY <2>1, <2>3, <3>1
    <3>3. i \notin 1..L
      BY <1>1, <1>2, <1>4, <2>3
    <3> QED BY <1>2, <3>2, <3>3 DEF t
  <2> QED BY <2>2, <2>3
<1> QED BY <1>3, <1>4

Distinct(s) == \A i, j \in 1..Len(s) : s[i] = s[j] => i = j

Cut(r, s, u, n) ==
    /\ Len(r) = Len(s) - n
    /\ Distinct(r)
    /\ \A x : (\E j \in 1..Len(r) : r[j] = x) <=>
                 \E j \in 1..Len(s) : s[j] = x /\ \A m \in 1..n : u[m] # j
    /\ \A j \in 1..Len(s) : (\A m \in 1..n : j < u[m]) => j <= Len(r) /\ r[j] = s[j]

LEMMA CutMore ==
  ASSUME NEW D, NEW s \in Seq(D), Distinct(s), NEW u \in Seq(1..Len(s)),
         \A i, j \in 1..Len(u) : i < j => u[j] < u[i],
         NEW n \in Nat, n + 1 <= Len(u), NEW r \in Seq(D), Cut(r, s, u, n)
  PROVE  Cut(SwapRemove(r, u[n + 1]), s, u, n + 1)
<1> DEFINE i == u[n + 1]
           t == SwapRemove(r, i)
           L == Len(r)
           N == Len(s)
<1>1. L \in Nat /\ N \in Nat /\ Len(u) \in Nat
  BY LenProperties
<1>2. n + 1 \in 1..Len(u) /\ i \in 1..N /\ \A m \in 1..n : i < u[m]
  <2>1. n + 1 \in 1..Len(u) /\ \A m \in 1..n : m \in 1..Len(u) /\ m < n + 1
    BY <1>1
  <2> QED BY <2>1, ElementOfSeq
<1> HIDE DEF i
<1>3. i \in 1..L /\ r[i] = s[i] /\ L = N - n
  <2>1. i <= L /\ r[i] = s[i] /\ L = N - n
    BY <1>2, Zenon DEF Cut
  <2> QED BY <1>1, <1>2, <2>1
<1>4. /\ t \in Seq(D) /\ Len(t) = L - 1
      /\ \A j \in 1..L - 1 : t[j] = IF j = i THEN r[L] ELSE r[j]
  <2>1. i \in Nat
    BY <1>1, <1>3
  <2> QED BY <1>3, <2>1, SwapRemoveIs
<1> HIDE DEF t
<1>5. Distinct(r) /\ \A j, k \in 1..L : r[j] = r[k] => j = k
  BY DEF Cut, Distinct
<1>6. Distinct(t)
  <2>1. SUFFICES ASSUME NEW j \in 1..L - 1, NEW k \in 1..L - 1, t[j] = t[k] PROVE j = k
    BY <1>4 DEF Distinct
  <2>2. j \in 1..L /\ k \in 1..L /\ L \in 1..L /\ j # L /\ k # L
    BY <1>1
  <2>3. t[j] = (IF j = i THEN r[L] ELSE r[j]) /\ t[k] = IF k = i THEN r[L] ELSE r[k]
    BY <1>4
  <2> QED BY <1>5, <2>1, <2>2, <2>3
<1>7. ASSUME NEW x PROVE (\E j \in 1..L - 1 : t[j] = x) <=> (\E j \in 1..L : r[j] = x) /\ x # r[i]
  <2>1. ASSUME NEW j \in 1..L - 1, t[j] = x PROVE (\E k \in 1..L : r[k] = x) /\ x # r[i]
    <3>1. j \in 1..L /\ L \in 1..L /\ j # L /\ (i = L \/ i # L)
      BY <1>1
    <3>2. t[j] = IF j = i THEN r[L] ELSE r[j]
      BY <1>4
    <3> QED BY <1>3, <1>5, <2>1, <3>1, <3>2
  <2>2. ASSUME NEW k \in 1..L, r[k] = x, x # r[i] PROVE \E j \in 1..L - 1 : t[j] = x
    <3>1. k # i
      BY <2>2
    <3>2. CASE k = L
      <4>1. i \in 1..L /\ i # L
        BY <1>3, <3>1, <3>2
      <4>2. i \in 1..L - 1
        <5> HIDE DEF L
        <5> QED BY <1>1, <4>1
      <4> QED BY <1>4, <2>2, <3>2, <4>2
    <3>3. CASE k # L
      <4>1. k \in 1..L - 1
        BY <1>1, <3>3
      <4> QED BY <1>4, <2>2, <3>1, <4>1
    <3> QED BY <3>2, <3>3
  <2> QED BY <2>1, <2>2
<1>8. ASSUME NEW x
      PROVE  (\E j \in 1..Len(t) : t[j] = x) <=>
                \E j \in 1..N : s[j] = x /\ \A m \in 1..n + 1 : u[m] # j
  <2>1. (\E j \in 1..L : r[j] = x) <=> \E j \in 1..N : s[j] = x /\ \A m \in 1..n : u[m] # j
    BY DEF Cut
  <2>2. \A j \in 1..N : s[j] = s[i] <=> j = i
    BY <1>2 DEF Distinct
  <2>3. \A j : (\A m \in 1..n + 1 : u[m] # j) <=> (\A m \in 1..n : u[m] # j) /\ j # i
    <3>1. \A m : m \in 1..n + 1 <=> m \in 1..n \/ m = n + 1
      OBVIOUS
    <3> QED BY <3>1, Zenon DEF i
  <2> QED BY <1>3, <1>4, <1>7, <2>1, <2>2, <2>3, ZenonT(30)
<1>9. ASSUME NEW j \in 1..N, \A m \in 1..n + 1 : j < u[m]
      PROVE  j <= Len(t) /\ t[j] = s[j]
  <2>1. j < i /\ \A m \in 1..n : j < u[m]
    BY <1>9 DEF i
  <2>2. j <= L /\ r[j] = s[j]
    BY <2>1 DEF Cut
  <2>3. j \in 1..L - 1 /\ j # i
    BY <1>1, <1>3, <2>1
  <2> QED BY <1>4, <2>2, <2>3
<1>10. Len(t) = N - (n + 1)
  BY <1>1, <1>3, <1>4
<1> QED BY <1>6, <1>8, <1>9, <1>10 DEF Cut, t, i

LEMMA PruneIs ==
  ASSUME NEW D, NEW s \in Seq(D), Distinct(s), NEW drops \in Seq(1..Len(s)),
         \A i, j \in 1..Len(drops) : i < j => drops[i] < drops[j]
  PROVE  PruneStale(s, drops) \in Seq(D) /\ Cut(PruneStale(s, drops), s, Reverse(drops), Len(drops))
<1> DEFINE u == Reverse(drops)
           N == Len(drops)
           Step == [x \in Seq(D) \X (1..N) |-> SwapRemove(x[1], u[x[2]])]
           Body(g, T) == IF T = {} THEN s ELSE SwapRemove(g[T \ {Max(T)}], u[Max(T)])
           c == CHOOSE g : g = [T \in SUBSET (DOMAIN u) |-> Body(g, T)]
<1>1. N \in Nat /\ Len(s) \in Nat /\ \A i \in 1..N : drops[i] \in 1..Len(s) /\ drops[i] \in Nat
  <2>1. N \in Nat /\ Len(s) \in Nat
    BY LenProperties
  <2>2. \A i \in 1..N : drops[i] \in 1..Len(s)
    BY ElementOfSeq
  <2> QED BY <2>1, <2>2
<1>2. /\ u \in Seq(1..Len(s)) /\ Len(u) = N /\ DOMAIN u = 1..N
      /\ \A i \in 1..N : u[i] \in Nat
      /\ \A i, j \in 1..N : i < j => u[j] < u[i]
  <2>1. u = [i \in 1..N |-> drops[(N - i) + 1]]
    BY DEF Reverse
  <2>2. \A i \in 1..N : (N - i) + 1 \in 1..N
    BY <1>1
  <2>3. u \in [1..N -> 1..Len(s)]
    BY <1>1, <2>1, <2>2
  <2>4. u \in Seq(1..Len(s)) /\ Len(u) = N
    BY SMTT(30), <1>1, <2>3
  <2>5. ASSUME NEW i \in 1..N, NEW j \in 1..N, i < j PROVE u[j] < u[i]
    <3>1. (N - j) + 1 < (N - i) + 1
      BY <1>1, <2>5
    <3> QED BY <2>1, <2>2, <3>1
  <2>6. \A i \in 1..N : u[i] \in Nat
    BY <1>1, <2>1, <2>2
  <2> QED BY <2>3, <2>4, <2>5, <2>6
<1> HIDE DEF u
<1>3. \A r \in Seq(D) : \A i \in 1..N : SwapRemove(r, u[i]) \in Seq(D)
  BY <1>2, SwapRemoveIs
<1>4. Step \in [Seq(D) \X (1..N) -> Seq(D)]
  <2> HIDE DEF N
  <2> QED BY <1>3
<1>5. PICK g : Folds(g, N, Seq(D), s, Step)
  <2> HIDE DEF Step, N
  <2> QED BY <1>1, <1>4, FoldExists
<1>6. g = [T \in SUBSET (1..N) |-> Body(g, T)]
  <2>1. ASSUME NEW T \in SUBSET (1..N), T # {}
        PROVE  Step[<<g[T \ {Max(T)}], Max(T)>>] = Body(g, T)
    <3>1. Max(T) \in 1..N
      BY <1>1, <2>1, MaxIs
    <3>2. T \ {Max(T)} \in SUBSET (1..N)
      OBVIOUS
    <3>3. g[T \ {Max(T)}] \in Seq(D)
      BY <1>5, <3>2 DEF Folds
    <3> HIDE DEF N
    <3> QED BY <2>1, <3>1, <3>3
  <2>2. \A T \in SUBSET (1..N) : (IF T = {} THEN s ELSE Step[<<g[T \ {Max(T)}], Max(T)>>]) = Body(g, T)
    <3> HIDE DEF Step
    <3> QED BY <2>1
  <2> HIDE DEF Step, Body
  <2> QED BY <1>5, <2>2 DEF Folds
<1>7. c = [T \in SUBSET (1..N) |-> Body(c, T)]
  <2> HIDE DEF Body
  <2>1. c = [T \in SUBSET (DOMAIN u) |-> Body(c, T)]
    BY <1>2, <1>6, Zenon
  <2> QED BY <1>2, <2>1
<1>8. PruneStale(s, drops) = c[1..N]
  BY <1>2, Zenon DEF PruneStale, FoldLeft, MapThenFoldSet, u
<1> HIDE DEF c
<1>9. \A T \in SUBSET (1..N) : c[T] = Body(c, T)
  <2> HIDE DEF Body
  <2> QED BY <1>7
<1> DEFINE Q == {i \in Nat : i <= N => c[1..i] \in Seq(D) /\ Cut(c[1..i], s, u, i)}
<1>10. 0 \in Q
  <2>1. 1..0 = {} /\ {} \in SUBSET (1..N)
    OBVIOUS
  <2>2. c[1..0] = s
    BY <1>9, <2>1
  <2>3. Cut(s, s, u, 0)
    <3>1. Len(s) - 0 = Len(s) /\ \A j \in 1..Len(s) : j <= Len(s)
      BY <1>1
    <3>2. \A x : (\E j \in 1..Len(s) : s[j] = x) <=>
                  \E j \in 1..Len(s) : s[j] = x /\ \A m \in 1..0 : u[m] # j
      BY <2>1
    <3> QED BY <3>1, <3>2 DEF Cut
  <2> QED BY <2>2, <2>3
<1>11. ASSUME NEW i \in Nat, i \in Q PROVE i + 1 \in Q
  <2>1. SUFFICES ASSUME i + 1 <= N
                 PROVE  c[1..i + 1] \in Seq(D) /\ Cut(c[1..i + 1], s, u, i + 1)
    OBVIOUS
  <2>2. c[1..i] \in Seq(D) /\ Cut(c[1..i], s, u, i)
    BY <1>1, <1>11, <2>1
  <2>3. i + 1 \in 1..N /\ (i + 1) - 1 = i
    BY <1>1, <2>1
  <2>4. /\ 1..i + 1 \in SUBSET (1..N) /\ 1..i + 1 # {} /\ Max(1..i + 1) = i + 1
        /\ (1..i + 1) \ {Max(1..i + 1)} = 1..i
    BY <1>1, <2>3, MaxOfFirst
  <2>5. c[1..i + 1] = SwapRemove(c[1..i], u[i + 1])
    BY <1>9, <2>4
  <2>6. Cut(SwapRemove(c[1..i], u[i + 1]), s, u, i + 1)
    BY <1>2, <2>1, <2>2, CutMore
  <2> QED BY <1>3, <2>2, <2>3, <2>5, <2>6
<1>12. N \in Q
  <2> HIDE DEF Q
  <2> QED BY <1>1, <1>10, <1>11, Induct
<1> QED BY <1>1, <1>8, <1>12 DEF u

-----------------------------------------------------------------------------
(* The streaming graph.  Edges are never taken out of it, so an index that *)
(* names the two directions of a pool names them for good.                 *)
Formed(e) ==
    e = [from |-> e.from, to |-> e.to, weight |-> e.weight, pool |-> e.pool, b2q |-> e.b2q]

TwoWays(edges, S, a) ==
    /\ \A k \in 1..Len(edges) : edges[k].pool = a <=> k \in S
    /\ \E i, j \in 1..Len(edges) :
          i # j /\ S = {i, j} /\ edges[i].b2q = TRUE /\ edges[j].b2q = FALSE

Indexed(edges, index) ==
    /\ \E D : edges \in Seq(D)
    /\ \A i \in 1..Len(edges) : Formed(edges[i]) /\ edges[i].pool \in DOMAIN index
    /\ \A a \in DOMAIN index : TwoWays(edges, index[a], a)

Observed == \A a \in DOMAIN pool : pool[a] \in Reported /\ pool[a].address = a

Current ==
    /\ now \in Nat /\ Observed
    /\ stream = [tokens |-> stream.tokens, edges |-> stream.edges]
    /\ Indexed(stream.edges, live)
    /\ streamed \subseteq DOMAIN live \cap DOMAIN pool
    /\ \A a \in streamed : \A i \in live[a] :
          stream.edges[i] = Reweighted(stream.edges[i], pool[a])

LEMMA ReweightedIs ==
  ASSUME NEW e, Formed(e), NEW p
  PROVE  /\ Formed(Reweighted(e, p))
         /\ Reweighted(e, p).pool = e.pool /\ Reweighted(e, p).b2q = e.b2q
         /\ Reweighted(Reweighted(e, p), p) = Reweighted(e, p)
<1> DEFINE W(b) == StreamWeight(IF b THEN StreamRate(p.rb, p.rq, p.fee)
                                     ELSE StreamRate(p.rq, p.rb, p.fee))
           f == Reweighted(e, p)
<1>1. \A x : Reweighted(x, p) = [x EXCEPT !.weight = W(x.b2q)]
  BY DEF Reweighted
<1> HIDE DEF W
<1>2. f = [from |-> e.from, to |-> e.to, weight |-> W(e.b2q), pool |-> e.pool, b2q |-> e.b2q]
  <2>1. f = [e EXCEPT !.weight = W(e.b2q)]
    BY <1>1
  <2>2. e = [from |-> e.from, to |-> e.to, weight |-> e.weight, pool |-> e.pool, b2q |-> e.b2q]
    BY DEF Formed
  <2> DEFINE w == W(e.b2q)
  <2> HIDE DEF w, f
  <2>3. f = [from |-> e.from, to |-> e.to, weight |-> w, pool |-> e.pool, b2q |-> e.b2q]
    BY <2>1, <2>2 DEF w
  <2> QED BY <2>3 DEF w
<1>3. Reweighted(f, p) = [f EXCEPT !.weight = W(f.b2q)]
  BY <1>1
<1> HIDE DEF f
<1>4. f.b2q = e.b2q /\ f.pool = e.pool /\ f.weight = W(e.b2q)
      /\ f.from = e.from /\ f.to = e.to
  BY <1>2
<1>5. Formed(f)
  BY <1>2, <1>4 DEF Formed
<1>6. Reweighted(f, p) = f
  <2>1. [f EXCEPT !.weight = f.weight] = f
    BY <1>2
  <2> QED BY <1>3, <1>4, <2>1
<1> QED BY <1>4, <1>5, <1>6 DEF f

LEMMA RewrittenIs ==
  ASSUME NEW D, NEW edges \in Seq(D), NEW index, NEW p,
         \A i \in 1..Len(edges) : Formed(edges[i])
  PROVE  LET r == Rewritten(edges, index, p)
         IN  /\ \E E : r \in Seq(E)
             /\ Len(r) = Len(edges)
             /\ \A i \in 1..Len(edges) :
                   /\ Formed(r[i]) /\ r[i].pool = edges[i].pool /\ r[i].b2q = edges[i].b2q
                   /\ i \in index[p.address] => r[i] = Reweighted(r[i], p)
                   /\ i \notin index[p.address] => r[i] = edges[i]
<1> DEFINE N == Len(edges)
           r == Rewritten(edges, index, p)
           E == {r[i] : i \in 1..N}
<1>1. N \in Nat /\ DOMAIN edges = 1..N
  BY LenProperties
<1>2. r = [i \in 1..N |-> IF i \in index[p.address] THEN Reweighted(edges[i], p) ELSE edges[i]]
  BY <1>1 DEF Rewritten
<1>3. /\ r = [i \in 1..N |-> r[i]]
      /\ \A i \in 1..N : r[i] = IF i \in index[p.address] THEN Reweighted(edges[i], p) ELSE edges[i]
  BY <1>2
<1> HIDE DEF r
<1>4. r \in Seq(E) /\ Len(r) = N
  <2>1. r \in [1..N -> E]
    BY <1>3
  <2> QED BY <1>1, <2>1
<1>5. ASSUME NEW i \in 1..N
      PROVE  /\ Formed(r[i]) /\ r[i].pool = edges[i].pool /\ r[i].b2q = edges[i].b2q
             /\ i \in index[p.address] => r[i] = Reweighted(r[i], p)
             /\ i \notin index[p.address] => r[i] = edges[i]
  <2>1. Formed(edges[i])
    OBVIOUS
  <2>2. /\ Formed(Reweighted(edges[i], p))
        /\ Reweighted(edges[i], p).pool = edges[i].pool
        /\ Reweighted(edges[i], p).b2q = edges[i].b2q
        /\ Reweighted(Reweighted(edges[i], p), p) = Reweighted(edges[i], p)
    BY <2>1, ReweightedIs
  <2>3. CASE i \in index[p.address]
    <3>1. r[i] = Reweighted(edges[i], p)
      BY <1>3, <2>3
    <3> QED BY <2>2, <2>3, <3>1
  <2>4. CASE i \notin index[p.address]
    BY <1>3, <2>1, <2>4
  <2> QED BY <2>3, <2>4
<1> HIDE DEF E, N
<1>6. (\E F : r \in Seq(F)) /\ Len(r) = N
  BY <1>4
<1> QED BY <1>5, <1>6, Zenon DEF r, N

LEMMA AdditionIs ==
  ASSUME NEW p \in Reported, Addition(p) # <<>>
  PROVE  /\ Addition(p) \in Seq(Edges) /\ Len(Addition(p)) = 2
         /\ Addition(p)[1].pool = p.address /\ Addition(p)[1].b2q = TRUE
         /\ Addition(p)[2].pool = p.address /\ Addition(p)[2].b2q = FALSE
<1> DEFINE s == <<p>>
           g == BuildFromPools(s)
<1>1. Buildable(s) /\ Addition(p) = g.edges
  BY DEF Addition
<1>2. p \in Filled
  <2>1. s[1].rb > 0 /\ s[1].rq > 0
    BY <1>1 DEF Buildable
  <2> QED BY <2>1 DEF Filled
<1>3. s \in Seq(Filled) /\ Len(s) = 1 /\ s[1] = p
  BY <1>2
<1> HIDE DEF s
<1>4. g \in Graphs /\ Laid(g, s, 1)
  BY <1>3, BuildIs
<1> HIDE DEF g
<1>5. g.edges \in Seq(Edges) /\ Len(g.edges) = 2
  BY <1>4 DEF Graphs, Laid
<1>6. /\ g.edges[1].pool = p.address /\ g.edges[1].b2q = TRUE
      /\ g.edges[2].pool = p.address /\ g.edges[2].b2q = FALSE
  <2>1. 2 * 1 - 1 = 1 /\ 2 * 1 = 2 /\ 1 \in 1..1
    OBVIOUS
  <2>2. /\ g.edges[2 * 1 - 1].pool = s[1].address /\ g.edges[2 * 1 - 1].b2q = TRUE
        /\ g.edges[2 * 1].pool = s[1].address /\ g.edges[2 * 1].b2q = FALSE
    BY <1>4, <2>1, Zenon DEF Laid
  <2> QED BY <1>3, <2>1, <2>2
<1> QED BY <1>1, <1>5, <1>6

(* The edges of a pool the graph has are rewritten in place. *)
LEMMA IndexedRewritten ==
  ASSUME NEW edges, NEW index, Indexed(edges, index), NEW p, p.address \in DOMAIN index
  PROVE  /\ Indexed(Rewritten(edges, index, p), index)
         /\ \A a \in DOMAIN index : \A i \in index[a] :
               IF a = p.address
               THEN Rewritten(edges, index, p)[i] = Reweighted(Rewritten(edges, index, p)[i], p)
               ELSE Rewritten(edges, index, p)[i] = edges[i]
<1> DEFINE N == Len(edges)
           r == Rewritten(edges, index, p)
<1>1. PICK D : edges \in Seq(D)
  BY DEF Indexed
<1>2. /\ \E E : r \in Seq(E)
      /\ Len(r) = N
      /\ \A i \in 1..N :
            /\ Formed(r[i]) /\ r[i].pool = edges[i].pool /\ r[i].b2q = edges[i].b2q
            /\ i \in index[p.address] => r[i] = Reweighted(r[i], p)
            /\ i \notin index[p.address] => r[i] = edges[i]
  <2>1. \A i \in 1..Len(edges) : Formed(edges[i])
    BY DEF Indexed
  <2> QED BY <1>1, <2>1, RewrittenIs
<1> HIDE DEF r
<1>3. ASSUME NEW a \in DOMAIN index
      PROVE  /\ \A k \in 1..N : edges[k].pool = a <=> k \in index[a]
             /\ index[a] \subseteq 1..N
  <2>1. TwoWays(edges, index[a], a)
    BY DEF Indexed
  <2> QED BY <2>1 DEF TwoWays
<1>4. Indexed(r, index)
  <2>1. \A i \in 1..Len(r) : Formed(r[i]) /\ r[i].pool \in DOMAIN index
    BY <1>2 DEF Indexed
  <2>2. ASSUME NEW a \in DOMAIN index PROVE TwoWays(r, index[a], a)
    <3>1. TwoWays(edges, index[a], a)
      BY DEF Indexed
    <3> QED BY <1>2, <3>1 DEF TwoWays
  <2> QED BY <1>2, <2>1, <2>2 DEF Indexed
<1>5. ASSUME NEW a \in DOMAIN index, NEW i \in index[a]
      PROVE  IF a = p.address THEN r[i] = Reweighted(r[i], p) ELSE r[i] = edges[i]
  <2>1. i \in 1..N /\ edges[i].pool = a
    BY <1>3
  <2>2. a # p.address => i \notin index[p.address]
    BY <1>3, <2>1
  <2> QED BY <1>2, <2>1, <2>2
<1> QED BY <1>4, <1>5 DEF r

(* A pool the graph has not is put behind the others. *)
LEMMA IndexedAdded ==
  ASSUME NEW edges, NEW index, Indexed(edges, index), NEW p \in Reported,
         p.address \notin DOMAIN index, Addition(p) # <<>>
  PROVE  LET new == [a \in DOMAIN index \union {p.address} |->
                        IF a \in DOMAIN index THEN index[a] ELSE {Len(edges) + 1, Len(edges) + 2}]
         IN  /\ Indexed(edges \o Addition(p), new)
             /\ DOMAIN new = DOMAIN index \cup {p.address}
             /\ \A a \in DOMAIN index : new[a] = index[a] /\ index[a] \subseteq 1..Len(edges)
             /\ \A i \in 1..Len(edges) : (edges \o Addition(p))[i] = edges[i]
<1> DEFINE N == Len(edges)
           v == Addition(p)
           u == edges \o v
           b == p.address
           new == [a \in DOMAIN index \union {b} |->
                     IF a \in DOMAIN index THEN index[a] ELSE {N + 1, N + 2}]
<1>1. PICK D : edges \in Seq(D)
  BY DEF Indexed
<1>2. N \in Nat
  BY <1>1, LenProperties
<1>3. /\ v \in Seq(Edges) /\ Len(v) = 2
      /\ v[1].pool = b /\ v[1].b2q = TRUE /\ v[2].pool = b /\ v[2].b2q = FALSE
  BY AdditionIs
<1> HIDE DEF v
<1>4. /\ u \in Seq(D \cup Edges) /\ Len(u) = N + 2
      /\ \A i \in 1..N : u[i] = edges[i]
      /\ u[N + 1] = v[1] /\ u[N + 2] = v[2]
  <2>1. edges \in Seq(D \cup Edges) /\ v \in Seq(D \cup Edges)
    BY <1>1, <1>3, SeqMonotonic
  <2>2. /\ u \in Seq(D \cup Edges) /\ Len(u) = Len(edges) + Len(v)
        /\ \A i \in 1..Len(edges) + Len(v) :
              u[i] = IF i <= Len(edges) THEN edges[i] ELSE v[i - Len(edges)]
    BY <2>1, ConcatProperties
  <2> DEFINE y == N + 1
             z == N + 2
  <2>3. /\ y \in 1..N + 2 /\ ~ (y <= N) /\ y - N = 1
        /\ z \in 1..N + 2 /\ ~ (z <= N) /\ z - N = 2
        /\ \A i \in 1..N : i \in 1..N + 2 /\ i <= N
    BY <1>2
  <2> HIDE DEF y, z, u
  <2>4. \A i \in 1..N + 2 : u[i] = IF i <= N THEN edges[i] ELSE v[i - N]
    BY <1>3, <2>2
  <2> HIDE DEF N
  <2>5. u[y] = v[1] /\ u[z] = v[2] /\ \A i \in 1..N : u[i] = edges[i]
    BY <2>3, <2>4
  <2>6. Len(u) = N + 2
    BY <1>3, <2>2 DEF N
  <2> QED BY <2>2, <2>5, <2>6 DEF y, z
<1> HIDE DEF u
<1>5. /\ DOMAIN new = DOMAIN index \cup {b} /\ new[b] = {N + 1, N + 2}
      /\ \A a \in DOMAIN index : new[a] = index[a]
  OBVIOUS
<1> HIDE DEF new
<1>6. \A i \in 1..N + 2 : i \in 1..N \/ i = N + 1 \/ i = N + 2
  BY <1>2
<1>7. ASSUME NEW i \in 1..N + 2 PROVE Formed(u[i]) /\ u[i].pool \in DOMAIN new
  <2>1. CASE i \in 1..N
    BY <1>4, <1>5, <2>1 DEF Indexed
  <2>2. CASE i = N + 1 \/ i = N + 2
    <3>1. v[1] \in Edges /\ v[2] \in Edges
      <4>1. 1 \in 1..Len(v) /\ 2 \in 1..Len(v)
        BY <1>3
      <4> QED BY <1>3, <4>1, ElementOfSeq
    <3>2. \A e \in Edges : Formed(e)
      BY DEF Edges, Formed
    <3> QED BY <1>3, <1>4, <1>5, <2>2, <3>1, <3>2
  <2> QED BY <1>6, <2>1, <2>2
<1>8. ASSUME NEW a \in DOMAIN index PROVE index[a] \subseteq 1..N
  <2>1. TwoWays(edges, index[a], a)
    BY DEF Indexed
  <2> QED BY <2>1 DEF TwoWays
<1>9. ASSUME NEW a \in DOMAIN index PROVE TwoWays(u, new[a], a)
  <2>1. TwoWays(edges, index[a], a) /\ new[a] = index[a] /\ a # b
    BY <1>5 DEF Indexed
  <2>2. ASSUME NEW k \in 1..N + 2 PROVE u[k].pool = a <=> k \in new[a]
    <3>1. CASE k \in 1..N
      BY <1>4, <2>1, <3>1 DEF TwoWays
    <3>2. CASE k = N + 1 \/ k = N + 2
      <4>1. u[k].pool = b /\ k \notin 1..N
        BY <1>2, <1>3, <1>4, <3>2
      <4> QED BY <1>8, <2>1, <4>1
    <3> QED BY <1>6, <3>1, <3>2
  <2>3. PICK i \in 1..N, j \in 1..N :
           i # j /\ new[a] = {i, j} /\ edges[i].b2q = TRUE /\ edges[j].b2q = FALSE
    BY <2>1 DEF TwoWays
  <2>4. i \in 1..Len(u) /\ j \in 1..Len(u) /\ u[i] = edges[i] /\ u[j] = edges[j]
    BY <1>2, <1>4
  <2> QED BY <1>4, <2>2, <2>3, <2>4 DEF TwoWays
<1>10. TwoWays(u, new[b], b)
  <2>1. ASSUME NEW k \in 1..N + 2 PROVE u[k].pool = b <=> k \in new[b]
    <3>1. CASE k \in 1..N
      <4>1. u[k].pool # b
        BY <1>4, <3>1 DEF Indexed
      <4>2. k # N + 1 /\ k # N + 2
        BY <1>2, <3>1
      <4> QED BY <1>5, <4>1, <4>2
    <3>2. CASE k = N + 1 \/ k = N + 2
      BY <1>3, <1>4, <1>5, <3>2
    <3> QED BY <1>6, <3>1, <3>2
  <2>2. N + 1 \in 1..Len(u) /\ N + 2 \in 1..Len(u) /\ N + 1 # N + 2
    BY <1>2, <1>4
  <2>3. u[N + 1].b2q = TRUE /\ u[N + 2].b2q = FALSE
    BY <1>3, <1>4
  <2> QED BY <1>4, <1>5, <2>1, <2>2, <2>3 DEF TwoWays
<1>11. Indexed(u, new)
  BY <1>4, <1>5, <1>7, <1>9, <1>10 DEF Indexed
<1> QED BY <1>4, <1>5, <1>8, <1>11 DEF u, v, new

LEMMA CurrentStep == Current /\ [DetectionNext]_detectionVars => Current'
<1> SUFFICES ASSUME Current, [DetectionNext]_detectionVars PROVE Current'
  OBVIOUS
<1>1. ASSUME UNCHANGED <<pool, stream, live, streamed>>, now' \in Nat PROVE Current'
  BY <1>1 DEF Current, Observed
<1>2. CASE NextSlot
  <2>1. now' = now + 1 /\ now \in Nat
    BY <1>2 DEF NextSlot, Current
  <2>2. now' \in Nat
    BY <2>1
  <2> QED BY <1>1, <1>2, <2>2 DEF NextSlot
<1>3. ASSUME NEW a \in DOMAIN Pools \ {Seed}, NEW r \in Reserves, PoolUpdate(a, r) PROVE Current'
  <2> DEFINE p == Snapshot(a, r, now)
  <2>1. /\ Update(p) /\ now' = now /\ now \in Nat
        /\ pool' = [b \in Known \union {a} |-> IF b = a THEN p ELSE pool[b]]
    BY <1>3 DEF PoolUpdate, Current
  <2>2. p \in Reported /\ p.address = a
    <3>1. r \in Nat \X Nat
      BY DetectionConstants
    <3> QED BY <2>1, <3>1 DEF Reported, Snapshot
  <2> HIDE DEF p
  <2>3. /\ DOMAIN pool' = DOMAIN pool \cup {a} /\ pool'[a] = p
        /\ \A b \in DOMAIN pool : b # a => pool'[b] = pool[b]
    BY <2>1 DEF Known
  <2>4. Observed'
    BY <2>2, <2>3 DEF Observed, Current
  <2>5. Indexed(stream.edges, live) /\ streamed \subseteq DOMAIN live \cap DOMAIN pool
        /\ stream = [tokens |-> stream.tokens, edges |-> stream.edges]
    BY DEF Current
  <2>6. CASE p.address \in DOMAIN live /\ streamed' = streamed \union {p.address} /\ live' = live
             /\ stream' = [stream EXCEPT !.edges = Rewritten(@, live, p)]
    <3> DEFINE e == Rewritten(stream.edges, live, p)
    <3>1. /\ Indexed(e, live)
          /\ \A b \in DOMAIN live : \A i \in live[b] :
                IF b = a THEN e[i] = Reweighted(e[i], p) ELSE e[i] = stream.edges[i]
      BY <2>2, <2>5, <2>6, IndexedRewritten
    <3>2. stream' = [tokens |-> stream.tokens, edges |-> e]
      BY <2>5, <2>6
    <3> HIDE DEF e
    <3>3. stream'.edges = e /\ stream' = [tokens |-> stream'.tokens, edges |-> stream'.edges]
      BY <3>2
    <3>4. ASSUME NEW b \in streamed', NEW i \in live'[b]
          PROVE  stream'.edges[i] = Reweighted(stream'.edges[i], pool'[b])
      <4>1. b \in DOMAIN live /\ i \in live[b] /\ (b # a => b \in streamed /\ b \in DOMAIN pool)
        BY <2>2, <2>5, <2>6, <3>4
      <4>2. CASE b = a
        BY <2>3, <3>1, <3>3, <4>1, <4>2
      <4>3. CASE b # a
        <5>1. stream.edges[i] = Reweighted(stream.edges[i], pool[b])
          BY <4>1, <4>3 DEF Current
        <5> QED BY <2>3, <3>1, <3>3, <4>1, <4>3, <5>1
      <4> QED BY <4>2, <4>3
    <3>5. streamed' \subseteq DOMAIN live' \cap DOMAIN pool'
      BY <2>2, <2>3, <2>5, <2>6
    <3>6. Indexed(stream.edges, live)'
      BY <2>6, <3>1, <3>3
    <3> QED BY <2>1, <2>4, <3>3, <3>4, <3>5, <3>6 DEF Current
  <2>7. CASE /\ p.address \notin DOMAIN live /\ Addition(p) # <<>>
             /\ streamed' = streamed \union {p.address}
             /\ LET n == Len(stream.edges)
                    index == [b \in DOMAIN live \union {p.address} |->
                                IF b \in DOMAIN live THEN live[b] ELSE {n + 1, n + 2}]
                IN  /\ stream' = [stream EXCEPT !.edges = Rewritten(@ \o Addition(p), index, p)]
                    /\ live' = index
    <3> DEFINE index == [b \in DOMAIN live \union {p.address} |->
                           IF b \in DOMAIN live THEN live[b]
                           ELSE {Len(stream.edges) + 1, Len(stream.edges) + 2}]
               u == stream.edges \o Addition(p)
               e == Rewritten(u, index, p)
    <3>1. /\ Indexed(u, index) /\ DOMAIN index = DOMAIN live \cup {a}
          /\ \A b \in DOMAIN live : index[b] = live[b] /\ live[b] \subseteq 1..Len(stream.edges)
          /\ \A i \in 1..Len(stream.edges) : u[i] = stream.edges[i]
      BY <2>2, <2>5, <2>7, IndexedAdded
    <3>2. stream' = [stream EXCEPT !.edges = e] /\ live' = index
      BY <2>7
    <3> HIDE DEF index, u
    <3>3. p.address \in DOMAIN index
      BY <2>2, <3>1
    <3>4. /\ Indexed(e, index)
          /\ \A b \in DOMAIN index : \A i \in index[b] :
                IF b = a THEN e[i] = Reweighted(e[i], p) ELSE e[i] = u[i]
      BY <2>2, <3>1, <3>3, IndexedRewritten
    <3> HIDE DEF e
    <3>5. stream' = [tokens |-> stream.tokens, edges |-> e]
      BY <2>5, <3>2
    <3>6. stream'.edges = e /\ stream' = [tokens |-> stream'.tokens, edges |-> stream'.edges]
      BY <3>5
    <3>7. ASSUME NEW b \in streamed', NEW i \in live'[b]
          PROVE  stream'.edges[i] = Reweighted(stream'.edges[i], pool'[b])
      <4>1. b \in DOMAIN index /\ i \in index[b]
            /\ (b # a => b \in streamed /\ b \in DOMAIN pool /\ b \in DOMAIN live)
        BY <2>2, <2>5, <2>7, <3>1, <3>2, <3>7
      <4>2. CASE b = a
        BY <2>3, <3>4, <3>6, <4>1, <4>2
      <4>3. CASE b # a
        <5>1. i \in live[b] /\ u[i] = stream.edges[i]
          BY <3>1, <4>1, <4>3
        <5>2. stream.edges[i] = Reweighted(stream.edges[i], pool[b])
          BY <4>1, <4>3, <5>1 DEF Current
        <5> QED BY <2>3, <3>4, <3>6, <4>1, <4>3, <5>1, <5>2
      <4> QED BY <4>2, <4>3
    <3>8. streamed' \subseteq DOMAIN live' \cap DOMAIN pool'
      BY <2>2, <2>3, <2>5, <2>7, <3>1, <3>2
    <3>9. Indexed(stream.edges, live)'
      BY <3>2, <3>4, <3>6
    <3> QED BY <2>1, <2>4, <3>6, <3>7, <3>8, <3>9 DEF Current
  <2>8. CASE p.address \notin DOMAIN live /\ UNCHANGED <<stream, live, streamed>>
    <3>1. \A b \in streamed : b # a /\ pool'[b] = pool[b]
      BY <2>2, <2>3, <2>5, <2>8
    <3>2. streamed' \subseteq DOMAIN live' \cap DOMAIN pool'
      BY <2>3, <2>5, <2>8
    <3> QED BY <2>1, <2>4, <2>8, <3>1, <3>2 DEF Current
  <2> QED BY <2>1, <2>6, <2>7, <2>8, Zenon DEF Update
<1>4. CASE Rebuild
  BY <1>1, <1>4 DEF Rebuild, Current
<1>5. ASSUME NEW S, Prune(S) PROVE Current'
  BY <1>1, <1>5 DEF Prune, Current
<1>6. CASE UNCHANGED detectionVars
  BY <1>1, <1>6 DEF detectionVars, Current
<1> QED BY <1>2, <1>3, <1>4, <1>5, <1>6 DEF DetectionNext

LEMMA CurrentAtFirst == DetectionInit => Current
<1> SUFFICES ASSUME DetectionInit PROVE Current
  OBVIOUS
<1> DEFINE s == <<Snapshot(Seed, <<One, One>>, 0)>>
<1>1. /\ now = 0 /\ pool = <<>> /\ stream = BuildFromPools(s)
      /\ live = [a \in {Seed} |-> {1, 2}] /\ streamed = {}
  BY DEF DetectionInit
<1>2. s \in Seq(Filled) /\ Len(s) = 1 /\ s[1].address = Seed
  <2>1. One \in Nat \ {0} /\ Seed \in DOMAIN Pools
    BY GraphConstants, DetectionConstants
  <2>2. <<One, One>> \in Nat \X Nat /\ <<One, One>>[1] = One /\ <<One, One>>[2] = One
    BY <2>1
  <2> DEFINE p == Snapshot(Seed, <<One, One>>, 0)
  <2>3. p \in Reported
    BY <2>1, <2>2 DEF Reported
  <2>4. p.rb = One /\ p.rq = One /\ p.address = Seed
    BY <2>2 DEF Snapshot
  <2> HIDE DEF p
  <2>5. p \in Filled
    BY <2>1, <2>3, <2>4 DEF Filled
  <2>6. s = <<p>>
    BY DEF p
  <2> QED BY <2>4, <2>5, <2>6
<1> HIDE DEF s
<1>3. stream \in Graphs /\ Laid(stream, s, 1)
  BY <1>1, <1>2, BuildIs
<1> DEFINE e == stream.edges
<1>4. e \in Seq(Edges) /\ Len(e) = 2 /\ stream = [tokens |-> stream.tokens, edges |-> e]
  BY <1>3 DEF Graphs, Laid
<1>5. e[1].pool = Seed /\ e[1].b2q = TRUE /\ e[2].pool = Seed /\ e[2].b2q = FALSE
  <2>1. 2 * 1 - 1 = 1 /\ 2 * 1 = 2 /\ 1 \in 1..1
    OBVIOUS
  <2>2. /\ e[2 * 1 - 1].pool = s[1].address /\ e[2 * 1 - 1].b2q = TRUE
        /\ e[2 * 1].pool = s[1].address /\ e[2 * 1].b2q = FALSE
    BY <1>3, <2>1, Zenon DEF Laid
  <2> QED BY <1>2, <2>1, <2>2
<1>6. \A i \in 1..2 : e[i] \in Edges
  BY <1>4, ElementOfSeq
<1> HIDE DEF e
<1>7. \A i \in 1..2 : i = 1 \/ i = 2
  OBVIOUS
<1>8. DOMAIN live = {Seed} /\ live[Seed] = {1, 2}
  BY <1>1
<1>9. TwoWays(e, live[Seed], Seed)
  <2>1. \A k \in 1..2 : e[k].pool = Seed <=> k \in {1, 2}
    BY <1>5, <1>7
  <2>2. 1 \in 1..2 /\ 2 \in 1..2 /\ 1 # 2
    OBVIOUS
  <2> QED BY <1>4, <1>5, <1>8, <2>1, <2>2 DEF TwoWays
<1>10. \A i \in 1..2 : Formed(e[i]) /\ e[i].pool \in DOMAIN live
  <2>1. \A x \in Edges : Formed(x)
    BY DEF Edges, Formed
  <2> QED BY <1>5, <1>6, <1>7, <1>8, <2>1
<1>11. Indexed(e, live)
  BY <1>4, <1>8, <1>9, <1>10 DEF Indexed
<1>12. Observed
  <2>1. DOMAIN pool = {}
    BY <1>1
  <2> QED BY <2>1 DEF Observed
<1> QED BY <1>1, <1>4, <1>11, <1>12 DEF Current, e

(* For any listing of pools, reserves and fees, and any order of updates:  *)
(* each pool has its two directions in the streaming graph, at the places  *)
(* the index names, and once updated they carry the weights of the         *)
(* reserves reported last (dl-stream detector.rs, on_pool_update,          *)
(* update_pool, add_pool).                                                 *)
THEOREM StreamIsCurrent == DetectionSpec => []StreamCurrent
<1>1. DetectionInit => Current
  BY CurrentAtFirst
<1>2. Current /\ [DetectionNext]_detectionVars => Current'
  BY CurrentStep
<1>3. Current => StreamCurrent
  <2> SUFFICES ASSUME Current PROVE StreamCurrent
    OBVIOUS
  <2> DEFINE e == stream.edges
             N == Len(e)
  <2>1. Indexed(e, live) /\ DOMAIN e = 1..N
    BY LenProperties DEF Current, Indexed
  <2> HIDE DEF e
  <2>2. ASSUME NEW a \in DOMAIN live
        PROVE  /\ live[a] = {i \in DOMAIN e : e[i].pool = a}
               /\ {e[i].b2q : i \in live[a]} = BOOLEAN
               /\ Cardinality(live[a]) = 2
               /\ \E i \in 1..N : e[i].pool = a
    <3>1. TwoWays(e, live[a], a)
      BY <2>1 DEF Indexed
    <3>2. PICK i \in 1..N, j \in 1..N :
             i # j /\ live[a] = {i, j} /\ e[i].b2q = TRUE /\ e[j].b2q = FALSE
      BY <3>1 DEF TwoWays
    <3>3. live[a] = {k \in DOMAIN e : e[k].pool = a}
      BY <2>1, <3>1, <3>2 DEF TwoWays
    <3>4. {e[k].b2q : k \in live[a]} = BOOLEAN
      BY <3>2
    <3>5. Cardinality(live[a]) = 2
      <4> DEFINE c == Cardinality({i})
                 d == Cardinality({i} \cup {j})
      <4>1. IsFiniteSet({i}) /\ c = 1
        BY FS_Singleton
      <4>2. d = c + 1
        BY <3>2, <4>1, FS_AddElement
      <4>3. live[a] = {i} \cup {j}
        BY <3>2
      <4>4. Cardinality(live[a]) = d
        BY <4>3, Zenon
      <4> HIDE DEF c, d
      <4> QED BY <4>1, <4>2, <4>4
    <3>6. \E k \in 1..N : e[k].pool = a
      BY <3>1, <3>2 DEF TwoWays
    <3> QED BY <3>3, <3>4, <3>5, <3>6
  <2>3. {x.pool : x \in ToSet(e)} = DOMAIN live
    <3>1. \A i \in 1..N : e[i].pool \in DOMAIN live
      BY <2>1 DEF Indexed
    <3>2. ToSet(e) = {e[i] : i \in 1..N}
      BY <2>1 DEF ToSet
    <3>3. ASSUME NEW a \in DOMAIN live PROVE \E x \in ToSet(e) : x.pool = a
      <4>1. PICK i \in 1..N : e[i].pool = a
        BY <2>2
      <4> QED BY <3>2, <4>1
    <3>4. \A x \in ToSet(e) : x.pool \in DOMAIN live
      BY <3>1, <3>2
    <3> HIDE DEF N
    <3>5. {x.pool : x \in ToSet(e)} \subseteq DOMAIN live
      BY <3>4, Zenon
    <3>6. DOMAIN live \subseteq {x.pool : x \in ToSet(e)}
      BY <3>3
    <3> QED BY <3>5, <3>6, Zenon
  <2>4. \A a \in streamed : \A i \in live[a] : e[i] = Reweighted(e[i], pool[a])
    BY DEF Current, e
  <2> QED BY <2>2, <2>3, <2>4 DEF StreamCurrent, e
<1> QED BY <1>1, <1>2, <1>3, PTL DEF DetectionSpec

(* A prune starts from a graph whose edges all differ. *)
Batched ==
    /\ batch = [tokens |-> batch.tokens, edges |-> batch.edges]
    /\ batch.edges \in Seq(Edges) /\ Distinct(batch.edges)

LEMMA DistinctSize ==
  ASSUME NEW D, NEW s \in Seq(D), Distinct(s)
  PROVE  Cardinality(ToSet(s)) = Len(s)
<1> DEFINE N == Len(s)
           T == ToSet(s)
           f == [i \in 1..N |-> s[i]]
<1>1. N \in Nat /\ T = {s[i] : i \in 1..N}
  BY LenProperties DEF ToSet
<1>2. f \in [1..N -> T]
  BY <1>1
<1>3. \A i, j \in DOMAIN f : f[i] = f[j] => i = j
  BY DEF Distinct
<1>4. \A t \in T : \E i \in 1..N : f[i] = t
  BY <1>1
<1>5. f \in Bijection(1..N, T)
  BY <1>2, <1>3, <1>4 DEF Bijection, Injection, Surjection, IsInjective
<1> HIDE DEF T, N, f
<1>6. Cardinality(T) = N
  BY <1>1, <1>5, FS_CountingElements DEF ExistsBijection
<1> QED BY <1>6 DEF T, N

LEMMA LaidKeys ==
  ASSUME NEW s \in Seq(Filled), NEW g \in Graphs, Laid(g, s, Len(s)),
         \A i, j \in 1..Len(s) : s[i].address = s[j].address => i = j
  PROVE  \A k, l \in 1..Len(g.edges) :
           g.edges[k].pool = g.edges[l].pool /\ g.edges[k].b2q = g.edges[l].b2q => k = l
<1> DEFINE N == Len(s)
           e == g.edges
<1>1. N \in Nat /\ Len(e) = 2 * N
  BY LenProperties DEF Laid
<1>2. \A i \in 1..N : /\ e[2 * i - 1].pool = s[i].address /\ e[2 * i - 1].b2q = TRUE
                      /\ e[2 * i].pool = s[i].address /\ e[2 * i].b2q = FALSE
  BY DEF Laid
<1>3. \A i, j \in 1..N : s[i].address = s[j].address => i = j
  OBVIOUS
<1> HIDE DEF N, e
<1>4. ASSUME NEW k \in 1..2 * N
      PROVE  \E i \in 1..N : \/ k = 2 * i - 1 /\ e[k].b2q = TRUE /\ e[k].pool = s[i].address
                             \/ k = 2 * i /\ e[k].b2q = FALSE /\ e[k].pool = s[i].address
  <2> DEFINE i == (k + 1) \div 2
  <2>1. i \in Int /\ (k = 2 * i - 1 \/ k = 2 * i)
    OBVIOUS
  <2> HIDE DEF i
  <2>2. i \in 1..N
    BY <1>1, <2>1
  <2>3. CASE k = 2 * i - 1
    BY <1>2, <2>2, <2>3
  <2>4. CASE k = 2 * i
    BY <1>2, <2>2, <2>4
  <2> QED BY <2>1, <2>3, <2>4
<1>5. ASSUME NEW k \in 1..2 * N, NEW l \in 1..2 * N, e[k].pool = e[l].pool, e[k].b2q = e[l].b2q
      PROVE  k = l
  <2>1. PICK i \in 1..N : \/ k = 2 * i - 1 /\ e[k].b2q = TRUE /\ e[k].pool = s[i].address
                          \/ k = 2 * i /\ e[k].b2q = FALSE /\ e[k].pool = s[i].address
    BY <1>4
  <2>2. PICK j \in 1..N : \/ l = 2 * j - 1 /\ e[l].b2q = TRUE /\ e[l].pool = s[j].address
                          \/ l = 2 * j /\ e[l].b2q = FALSE /\ e[l].pool = s[j].address
    BY <1>4
  <2>3. i = j
    BY <1>3, <1>5, <2>1, <2>2
  <2> QED BY <1>5, <2>1, <2>2, <2>3
<1> QED BY <1>1, <1>5 DEF e

LEMMA LaidDiffer ==
  ASSUME NEW s \in Seq(Filled), NEW g \in Graphs, Laid(g, s, Len(s)),
         \A i, j \in 1..Len(s) : s[i].address = s[j].address => i = j
  PROVE  Distinct(g.edges)
BY LaidKeys DEF Distinct

LEMMA ListedIs ==
  /\ Listed(Known) \in Seq(DOMAIN Pools)
  /\ \A i \in 1..Len(Listed(Known)) : Listed(Known)[i] \in Known
  /\ \A i, j \in 1..Len(Listed(Known)) : Listed(Known)[i] = Listed(Known)[j] => i = j
<1> DEFINE k == Listed(Known)
<1>1. ByAddress \in Seq(DOMAIN Pools)
  BY DetectionConstants
<1>2. k \in Seq(DOMAIN Pools) /\ \E h : Selects(k, h, ByAddress, Known, Len(ByAddress))
  BY <1>1, PickedIs DEF Listed
<1> HIDE DEF k
<1>3. PICK h : Selects(k, h, ByAddress, Known, Len(ByAddress))
  BY <1>2
<1>4. Len(k) \in Nat /\ DOMAIN ByAddress = 1..Len(ByAddress)
  BY <1>1, <1>2, LenProperties
<1>5. \A i \in 1..Len(k) : k[i] \in Known
  BY <1>3 DEF Selects
<1>6. ASSUME NEW i \in 1..Len(k), NEW j \in 1..Len(k), k[i] = k[j] PROVE i = j
  <2>1. h[i] \in DOMAIN ByAddress /\ h[j] \in DOMAIN ByAddress
    BY <1>3, <1>4 DEF Selects
  <2>2. ByAddress[h[i]] = ByAddress[h[j]]
    BY <1>3, <1>6 DEF Selects
  <2>3. h[i] = h[j]
    BY <2>1, <2>2, DetectionConstants
  <2>4. ~(h[i] < h[j]) /\ ~(h[j] < h[i])
    BY <1>4, <2>1, <2>3
  <2>5. ~(i < j) /\ ~(j < i)
    BY <1>3, <2>4 DEF Selects
  <2> QED BY <1>4, <2>5
<1> QED BY <1>2, <1>5, <1>6 DEF k

(* The places of the edges a prune drops: those too old, ascending.        *)
Dropped(S) ==
    IF MaxAge = 0 THEN <<>>
    ELSE StaleEdges(batch.edges, {pool[a] : a \in S}, now, MaxAge)

LEMMA DroppedIs ==
  ASSUME Current, Batched, NEW S \in SUBSET Known
  PROVE  /\ Dropped(S) \in Seq(1..Len(batch.edges))
         /\ \A i, j \in 1..Len(Dropped(S)) : i < j => Dropped(S)[i] < Dropped(S)[j]
         /\ \A i \in 1..Len(batch.edges) :
               TooOld(batch.edges[i], S) <=> \E k \in 1..Len(Dropped(S)) : Dropped(S)[k] = i
<1> DEFINE e == batch.edges
           N == Len(e)
           P == {pool[a] : a \in S}
           id == [i \in DOMAIN e |-> i]
           Old == {i \in DOMAIN e : \E p \in P : p.address = e[i].pool /\ Age(now, p) > MaxAge}
           d == Dropped(S)
<1>1. N \in Nat /\ DOMAIN e = 1..N
  BY LenProperties DEF Batched
<1>2. MaxAge \in Nat /\ now \in Nat
  BY DetectionConstants DEF Current
<1>3. ASSUME MaxAge # 0, NEW i \in 1..N PROVE i \in Old <=> TooOld(e[i], S)
  <2>1. ASSUME NEW a \in S
        PROVE  pool[a].address = a /\ (Age(now, pool[a]) > MaxAge <=> now > pool[a].slot + MaxAge)
    <3>1. pool[a] \in Reported /\ pool[a].address = a
      BY <2>1 DEF Current, Observed, Known
    <3>2. pool[a].slot \in Nat
      BY <3>1, SnapshotIs
    <3> QED BY <1>2, <3>1, <3>2 DEF Age
  <2>2. i \in Old <=> \E a \in S : pool[a].address = e[i].pool /\ Age(now, pool[a]) > MaxAge
    BY <1>1
  <2>3. i \in Old <=> e[i].pool \in S /\ now > pool[e[i].pool].slot + MaxAge
    BY <2>1, <2>2
  <2>4. MaxAge > 0
    BY <1>2, <1>3
  <2> QED BY <2>3, <2>4 DEF TooOld
<1>4. CASE MaxAge = 0
  <2>1. d = <<>> /\ Len(d) = 0
    BY <1>4 DEF Dropped
  <2>2. \A x : ~TooOld(x, S)
    BY <1>4 DEF TooOld
  <2> QED BY <2>1, <2>2
<1>5. CASE MaxAge # 0
  <2>1. id \in Seq(1..N) /\ Len(id) = N /\ \A i \in 1..N : id[i] = i
    <3>1. id = [i \in 1..N |-> i]
      BY <1>1
    <3> QED BY <1>1, <3>1
  <2>2. d = Picked(id, Old)
    BY <1>5 DEF Dropped, StaleEdges
  <2> HIDE DEF id, Old, N, e
  <2>3. d \in Seq(1..N) /\ \E h : Selects(d, h, id, Old, N)
    <3>1. Picked(id, Old) \in Seq(1..N) /\ \E h : Selects(Picked(id, Old), h, id, Old, Len(id))
      BY <2>1, PickedIs
    <3> QED BY <2>1, <2>2, <3>1
  <2> HIDE DEF d
  <2>4. PICK h : Selects(d, h, id, Old, N)
    BY <2>3
  <2>5. Len(d) \in Nat /\ \A i \in 1..Len(d) : h[i] \in 1..N /\ d[i] = h[i] /\ d[i] \in Old
    BY <2>1, <2>3, <2>4, LenProperties DEF Selects
  <2>6. \A i, j \in 1..Len(d) : i < j => d[i] < d[j]
    BY <2>4, <2>5 DEF Selects
  <2>7. \A i \in 1..N : i \in Old <=> \E k \in 1..Len(d) : d[k] = i
    BY <2>1, <2>4, <2>5 DEF Selects
  <2> QED BY <1>3, <1>5, <2>3, <2>6, <2>7 DEF d, e, N
<1> QED BY <1>4, <1>5

LEMMA PruneStep ==
  ASSUME Current, Batched, NEW S \in SUBSET Known, Prune(S)
  PROVE  /\ Batched'
         /\ ToSet(batch'.edges) = {e \in ToSet(batch.edges) : ~TooOld(e, S)}
         /\ Len(batch'.edges) = Cardinality(ToSet(batch'.edges))
         /\ {r.edge : r \in ToSet(dropped')} =
               {i \in DOMAIN batch.edges : TooOld(batch.edges[i], S)}
         /\ \A i, j \in DOMAIN dropped' : i < j => dropped'[i].edge < dropped'[j].edge
<1> DEFINE d == Dropped(S)
           s == batch.edges
           r == PruneStale(s, d)
           N == Len(s)
           n == Len(d)
           u == Reverse(d)
<1>1. /\ batch' = [batch EXCEPT !.edges = r]
      /\ dropped' = [k \in DOMAIN d |-> [pool |-> s[d[k]].pool, edge |-> d[k]]]
  BY DEF Prune, Dropped
<1>2. s \in Seq(Edges) /\ Distinct(s) /\ batch = [tokens |-> batch.tokens, edges |-> s]
  BY DEF Batched
<1>3. /\ d \in Seq(1..N)
      /\ \A i, j \in 1..n : i < j => d[i] < d[j]
      /\ \A i \in 1..N : TooOld(s[i], S) <=> \E k \in 1..n : d[k] = i
  BY DroppedIs
<1>4. batch' = [tokens |-> batch.tokens, edges |-> r] /\ batch'.edges = r
  BY <1>1, <1>2
<1> HIDE DEF d
<1>5. r \in Seq(Edges) /\ Cut(r, s, u, n)
  BY <1>2, <1>3, PruneIs
<1>6. N \in Nat /\ n \in Nat /\ DOMAIN s = 1..N /\ DOMAIN d = 1..n
  BY <1>2, <1>3, LenProperties
<1>7. ASSUME NEW j \in 1..N PROVE (\A m \in 1..n : u[m] # j) <=> ~TooOld(s[j], S)
  <2>1. \A m \in 1..n : u[m] = d[n - m + 1]
    BY <1>6 DEF Reverse
  <2>2. \A m \in 1..n : n - m + 1 \in 1..n /\ n - (n - m + 1) + 1 = m
    BY <1>6
  <2>3. (\E m \in 1..n : u[m] = j) <=> \E k \in 1..n : d[k] = j
    <3>1. ASSUME NEW m \in 1..n, u[m] = j PROVE \E k \in 1..n : d[k] = j
      BY <2>1, <2>2, <3>1
    <3>2. ASSUME NEW k \in 1..n, d[k] = j PROVE \E m \in 1..n : u[m] = j
      <4> DEFINE m == n - k + 1
      <4>1. m \in 1..n /\ n - m + 1 = k
        BY <1>6
      <4> HIDE DEF m
      <4>2. u[m] = d[k]
        BY <2>1, <4>1
      <4> QED BY <3>2, <4>1, <4>2
    <3> QED BY <3>1, <3>2
  <2> QED BY <1>3, <2>3
<1> HIDE DEF s, r, N, n, u
<1>8. Distinct(r)
  BY <1>5 DEF Cut
<1>9. Batched'
  BY <1>4, <1>5, <1>8 DEF Batched
<1>10. ToSet(r) = {e \in ToSet(s) : ~TooOld(e, S)}
  <2>1. \A x : x \in ToSet(r) <=> \E j \in 1..Len(r) : r[j] = x
    BY <1>5 DEF ToSet
  <2>2. \A x : x \in ToSet(s) <=> \E j \in 1..N : s[j] = x
    BY <1>6 DEF ToSet
  <2>3. ASSUME NEW x
        PROVE  (\E j \in 1..Len(r) : r[j] = x) <=> \E j \in 1..N : s[j] = x /\ ~TooOld(s[j], S)
    <3>1. (\E j \in 1..Len(r) : r[j] = x) <=>
             \E j \in 1..N : s[j] = x /\ \A m \in 1..n : u[m] # j
      BY <1>5 DEF Cut, N
    <3> QED BY <1>7, <3>1
  <2>4. \A x : x \in ToSet(r) <=> x \in ToSet(s) /\ ~TooOld(x, S)
    BY <2>1, <2>2, <2>3
  <2> QED BY <2>4
<1>11. Len(r) = Cardinality(ToSet(r))
  BY <1>5, <1>8, DistinctSize
<1>12. dropped' = [k \in 1..n |-> [pool |-> s[d[k]].pool, edge |-> d[k]]]
  BY <1>1, <1>6 DEF s
<1>13. DOMAIN dropped' = 1..n /\ \A k \in 1..n : dropped'[k].edge = d[k]
  BY <1>12
<1>14. {x.edge : x \in ToSet(dropped')} = {i \in 1..N : TooOld(s[i], S)}
  <2>1. ToSet(dropped') = {dropped'[k] : k \in 1..n}
    BY <1>13 DEF ToSet
  <2>2. \A k \in 1..n : d[k] \in 1..N
    BY <1>3, <1>6, ElementOfSeq DEF n
  <2>3. ASSUME NEW i
        PROVE  (\E x \in ToSet(dropped') : x.edge = i) <=> \E k \in 1..n : d[k] = i
    BY <1>13, <2>1
  <2>4. ASSUME NEW i PROVE i \in {x.edge : x \in ToSet(dropped')} <=>
                           i \in {j \in 1..N : TooOld(s[j], S)}
    <3>1. i \in {x.edge : x \in ToSet(dropped')} <=> \E k \in 1..n : d[k] = i
      BY <2>3
    <3>2. (\E k \in 1..n : d[k] = i) <=> i \in 1..N /\ TooOld(s[i], S)
      BY <1>3, <2>2 DEF s, N, n
    <3> QED BY <3>1, <3>2
  <2> QED BY <2>4
<1>15. \A i, j \in 1..n : i < j => dropped'[i].edge < dropped'[j].edge
  BY <1>3, <1>13 DEF n
<1>16. s = batch.edges /\ DOMAIN batch.edges = 1..N
  BY <1>6 DEF s
<1> QED BY <1>4, <1>9, <1>10, <1>11, <1>13, <1>14, <1>15, <1>16

LEMMA RebuildStep ==
  ASSUME Current, Rebuild
  PROVE  Batched'
<1> DEFINE k == Listed(Known)
           s == [i \in DOMAIN k |-> pool[k[i]]]
<1>1. Buildable(s) /\ batch' = BuildFromPools(s)
  BY DEF Rebuild
<1>2. /\ DOMAIN k = 1..Len(k) /\ Len(k) \in Nat
      /\ \A i \in 1..Len(k) : k[i] \in Known
      /\ \A i, j \in 1..Len(k) : k[i] = k[j] => i = j
  BY ListedIs, LenProperties
<1> HIDE DEF k
<1>3. s = [i \in 1..Len(k) |-> pool[k[i]]]
  BY <1>2
<1>4. \A i \in 1..Len(k) : s[i] \in Filled /\ s[i].address = k[i]
  <2> TAKE i \in 1..Len(k)
  <2>1. s[i] = pool[k[i]] /\ k[i] \in DOMAIN pool /\ i \in DOMAIN s
    BY <1>2, <1>3 DEF Known
  <2>2. s[i] \in Reported /\ s[i].address = k[i]
    BY <2>1 DEF Current, Observed
  <2>3. s[i].rb > 0 /\ s[i].rq > 0
    BY <1>1, <2>1 DEF Buildable
  <2> QED BY <2>2, <2>3 DEF Filled
<1>5. s \in Seq(Filled) /\ Len(s) = Len(k)
  <2>1. s \in [1..Len(k) -> Filled]
    BY <1>3, <1>4
  <2> QED BY <1>2, <2>1, LenProperties
<1>6. \A i, j \in 1..Len(s) : s[i].address = s[j].address => i = j
  BY <1>2, <1>4, <1>5
<1> HIDE DEF s
<1>7. batch' \in Graphs /\ Laid(batch', s, Len(s))
  BY <1>1, <1>5, BuildIs
<1>8. Distinct(batch'.edges)
  BY <1>5, <1>6, <1>7, LaidDiffer
<1> QED BY <1>7, <1>8 DEF Batched, Graphs

LEMMA BatchedStep == Current /\ Batched /\ [DetectionNext]_detectionVars => Batched'
<1> SUFFICES ASSUME Current, Batched, [DetectionNext]_detectionVars PROVE Batched'
  OBVIOUS
<1>1. ASSUME batch' = batch PROVE Batched'
  BY <1>1 DEF Batched
<1>2. CASE NextSlot
  BY <1>1, <1>2 DEF NextSlot
<1>3. ASSUME NEW a, NEW r, PoolUpdate(a, r) PROVE Batched'
  BY <1>1, <1>3 DEF PoolUpdate
<1>4. CASE Rebuild
  BY <1>4, RebuildStep
<1>5. ASSUME NEW S \in SUBSET Known, Prune(S) PROVE Batched'
  BY <1>5, PruneStep
<1>6. CASE UNCHANGED detectionVars
  BY <1>1, <1>6 DEF detectionVars
<1> QED BY <1>2, <1>3, <1>4, <1>5, <1>6 DEF DetectionNext

(* For any listing, any set of pools consulted and any age limit: a prune  *)
(* removes the edges of the consulted pools that are too old and no        *)
(* others, although every removal moves the last edge into the hole, and   *)
(* reports their old places in ascending order (dl-detect staleness.rs,    *)
(* prune_stale_edges).                                                     *)
THEOREM PruneIsExact == DetectionSpec => PruneExact
<1> DEFINE Inv == Current /\ Batched
           Exact == \A S \in SUBSET Known : S # {} /\ updates' = updates /\ Prune(S) =>
                      /\ ToSet(batch'.edges) = {e \in ToSet(batch.edges) : ~TooOld(e, S)}
                      /\ Len(batch'.edges) = Cardinality(ToSet(batch'.edges))
                      /\ {r.edge : r \in ToSet(dropped')} =
                            {i \in DOMAIN batch.edges : TooOld(batch.edges[i], S)}
                      /\ \A i, j \in DOMAIN dropped' : i < j => dropped'[i].edge < dropped'[j].edge
<1>1. DetectionInit => Inv
  <2> SUFFICES ASSUME DetectionInit PROVE Batched
    BY CurrentAtFirst
  <2>1. batch = [tokens |-> <<>>, edges |-> <<>>]
    BY DEF DetectionInit, NoGraph
  <2>2. batch.edges = <<>> /\ Len(batch.edges) = 0
    BY <2>1
  <2> QED BY <2>1, <2>2 DEF Batched, Distinct
<1>2. Inv /\ [DetectionNext]_detectionVars => Inv'
  BY CurrentStep, BatchedStep
<1>3. Inv => Exact
  BY PruneStep
<1>4. Inv /\ [DetectionNext]_detectionVars => [Exact]_detectionVars
  BY <1>3
<1> QED BY <1>1, <1>2, <1>4, PTL DEF DetectionSpec, PruneExact

-----------------------------------------------------------------------------
(* What a function defined along a sequence is, for every stage of it:     *)
(* flatten[i] is the first i sequences, one behind the other.              *)
Flatten(seqs) ==
    CHOOSE g : g = [i \in 1 .. Len(seqs) |->
                      IF i = 1 THEN seqs[i] ELSE g[i - 1] \o seqs[i]]

LEMMA FlattenSteps ==
  ASSUME NEW T, NEW s \in Seq(Seq(T))
  PROVE  /\ \A i \in 1 .. Len(s) :
              Flatten(s)[i] = IF i = 1 THEN s[i] ELSE Flatten(s)[i - 1] \o s[i]
         /\ Len(s) # 0 => FlattenSeq(s) = Flatten(s)[Len(s)]
<1> DEFINE N == Len(s)
           Def(g, n) == g = [i \in 1 .. n |-> IF i = 1 THEN s[i] ELSE g[i - 1] \o s[i]]
           S == {n \in Nat : \E g : Def(g, n)}
<1>0. N \in Nat
  BY LenProperties
<1>1. 0 \in S
  <2> DEFINE g == [i \in 1 .. 0 |-> <<>>]
  <2>1. Def(g, 0)
    OBVIOUS
  <2> QED BY <2>1
<1>2. ASSUME NEW n \in Nat, n \in S PROVE n + 1 \in S
  <2>1. PICK g : Def(g, n)
    BY <1>2
  <2> DEFINE h == [i \in 1 .. n + 1 |->
                     IF i \in 1 .. n THEN g[i] ELSE IF i = 1 THEN s[i] ELSE g[n] \o s[i]]
  <2>2. \A i \in 1 .. n : g[i] = IF i = 1 THEN s[i] ELSE g[i - 1] \o s[i]
    BY <2>1, Zenon
  <2>3. ASSUME NEW i \in 1 .. n + 1
        PROVE  h[i] = IF i = 1 THEN s[i] ELSE h[i - 1] \o s[i]
    <3>1. CASE i = n + 1
      <4>1. h[i] = IF i = 1 THEN s[i] ELSE g[n] \o s[i]
        BY <3>1
      <4>2. i # 1 => h[i - 1] = g[n]
        BY <3>1
      <4> HIDE DEF h
      <4> QED BY <4>1, <4>2
    <3>2. CASE i \in 1 .. n
      <4>1. h[i] = g[i] /\ (i # 1 => h[i - 1] = g[i - 1])
        BY <3>2
      <4> HIDE DEF h
      <4> QED BY <2>2, <3>2, <4>1
    <3> QED BY <3>1, <3>2
  <2>4. DOMAIN h = 1 .. n + 1 /\ h = [i \in 1 .. n + 1 |-> h[i]]
    OBVIOUS
  <2>5. Def(h, n + 1)
    <3> HIDE DEF h
    <3> QED BY <2>3, <2>4, Zenon
  <2> HIDE DEF h, Def
  <2> QED BY <2>5
<1>3. N \in S
  <2> HIDE DEF S
  <2> QED BY <1>0, <1>1, <1>2, Induct
<1>4. Def(Flatten(s), N)
  <2>1. \E g : Def(g, N)
    BY <1>3
  <2>2. Flatten(s) = CHOOSE g : Def(g, N)
    BY Zenon DEF Flatten
  <2> HIDE DEF Def
  <2> QED BY <2>1, <2>2, Zenon
<1>5. N # 0 => FlattenSeq(s) = Flatten(s)[N]
  BY Zenon DEF FlattenSeq, Flatten
<1>6. \A i \in 1 .. N : Flatten(s)[i] = IF i = 1 THEN s[i] ELSE Flatten(s)[i - 1] \o s[i]
  BY <1>4, Zenon
<1> QED BY <1>5, <1>6

(* Every element of the joined sequence stands at one place of the         *)
(* sequences it was made from, and every place has one.                    *)
Places(s, n) == UNION {{<<r, j>> : j \in DOMAIN s[r]} : r \in 1 .. n}

Placed(b, u, s, n) ==
    /\ b \in [1 .. Len(u) -> Places(s, n)]
    /\ \A k \in 1 .. Len(u) : u[k] = s[b[k][1]][b[k][2]]
    /\ \A i, k \in 1 .. Len(u) : b[i] = b[k] => i = k
    /\ \A p \in Places(s, n) : \E k \in 1 .. Len(u) : b[k] = p

LEMMA PlacesIs ==
  ASSUME NEW s, NEW n \in Nat
  PROVE  /\ \A r \in 1 .. n : \A j \in DOMAIN s[r] : <<r, j>> \in Places(s, n)
         /\ \A p \in Places(s, n) :
              \E r \in 1 .. n : \E j \in DOMAIN s[r] : p = <<r, j>>
BY DEF Places

LEMMA PlacedMore ==
  ASSUME NEW T, NEW s, NEW n \in Nat, NEW u \in Seq(T), NEW v \in Seq(T),
         s[n + 1] = v, NEW b, Placed(b, u, s, n)
  PROVE  \E c : Placed(c, u \o v, s, n + 1)
<1> DEFINE L == Len(u)
           M == Len(v)
           c == [k \in 1 .. L + M |-> IF k <= L THEN b[k] ELSE <<n + 1, k - L>>]
           w == u \o v
<1>1. /\ w \in Seq(T) /\ Len(w) = L + M /\ L \in Nat /\ M \in Nat
      /\ DOMAIN u = 1 .. L /\ DOMAIN v = 1 .. M
      /\ \A k \in 1 .. L + M : w[k] = IF k <= L THEN u[k] ELSE v[k - L]
  BY ConcatProperties, LenProperties
<1>2. /\ b \in [1 .. L -> Places(s, n)]
      /\ \A k \in 1 .. L : u[k] = s[b[k][1]][b[k][2]]
      /\ \A i, k \in 1 .. L : b[i] = b[k] => i = k
      /\ \A p \in Places(s, n) : \E k \in 1 .. L : b[k] = p
  BY DEF Placed
<1> HIDE DEF L, M, w
<1>3. \A k \in 1 .. L + M : k <= L => c[k] = b[k] /\ k \in 1 .. L
  BY <1>1
<1>4. \A k \in 1 .. L + M : ~ (k <= L) => c[k] = <<n + 1, k - L>> /\ k - L \in 1 .. M
  BY <1>1
<1>5. DOMAIN c = 1 .. L + M
  OBVIOUS
<1>6. c = [k \in 1 .. L + M |-> c[k]]
  OBVIOUS
<1> HIDE DEF c
<1>7. Places(s, n) \subseteq Places(s, n + 1)
  <2>1. 1 .. n \subseteq 1 .. n + 1
    OBVIOUS
  <2> QED BY <2>1 DEF Places
<1>8. n + 1 \in Nat /\ n + 1 \in 1 .. n + 1 /\ DOMAIN s[n + 1] = 1 .. M
  BY <1>1
<1>9. ASSUME NEW k \in 1 .. L + M
      PROVE  c[k] \in Places(s, n + 1) /\ w[k] = s[c[k][1]][c[k][2]]
  <2>1. CASE k <= L
    BY <1>1, <1>2, <1>3, <1>7, <2>1
  <2>2. CASE ~ (k <= L)
    <3>1. c[k] = <<n + 1, k - L>> /\ k - L \in DOMAIN s[n + 1]
      BY <1>4, <1>8, <2>2
    <3>2. <<n + 1, k - L>> \in Places(s, n + 1)
      BY <1>8, <3>1, PlacesIs
    <3>3. w[k] = v[k - L]
      BY <1>1, <2>2
    <3> QED BY <3>1, <3>2, <3>3
  <2> QED BY <2>1, <2>2
<1>10. ASSUME NEW k \in 1 .. L, NEW j PROVE b[k] # <<n + 1, j>>
  <2>1. PICK r \in 1 .. n : \E i \in DOMAIN s[r] : b[k] = <<r, i>>
    BY <1>2, PlacesIs
  <2>2. r # n + 1
    OBVIOUS
  <2> QED BY <2>1, <2>2
<1>11. ASSUME NEW i \in 1 .. L + M, NEW k \in 1 .. L + M, c[i] = c[k] PROVE i = k
  <2>1. CASE i <= L /\ k <= L
    BY <1>2, <1>3, <1>11, <2>1
  <2>2. CASE ~ (i <= L) /\ ~ (k <= L)
    <3>1. i - L = k - L
      BY <1>4, <1>11, <2>2
    <3> QED BY <1>1, <3>1
  <2>3. CASE i <= L /\ ~ (k <= L)
    BY <1>3, <1>4, <1>10, <1>11, <2>3
  <2>4. CASE ~ (i <= L) /\ k <= L
    BY <1>3, <1>4, <1>10, <1>11, <2>4
  <2> QED BY <2>1, <2>2, <2>3, <2>4
<1>12. ASSUME NEW p \in Places(s, n + 1) PROVE \E k \in 1 .. L + M : c[k] = p
  <2>0. PICK r \in 1 .. n + 1 : \E j \in DOMAIN s[r] : p = <<r, j>>
    BY <1>8, PlacesIs
  <2>1. PICK j \in DOMAIN s[r] : p = <<r, j>>
    BY <2>0
  <2>2. CASE r = n + 1
    <3>1. j \in 1 .. M
      BY <1>8, <2>1, <2>2
    <3>2. j + L \in 1 .. L + M /\ ~ (j + L <= L) /\ (j + L) - L = j
      BY <1>1, <3>1
    <3> QED BY <1>4, <2>1, <2>2, <3>2
  <2>3. CASE r \in 1 .. n
    <3>1. p \in Places(s, n)
      BY <2>1, <2>3, PlacesIs
    <3>2. PICK k \in 1 .. L : b[k] = p
      BY <1>2, <3>1
    <3>3. k \in 1 .. L + M /\ k <= L
      BY <1>1
    <3> QED BY <1>3, <3>2, <3>3
  <2> QED BY <2>2, <2>3
<1>13. c \in [1 .. L + M -> Places(s, n + 1)]
  BY <1>6, <1>9
<1>14. Placed(c, w, s, n + 1)
  BY <1>1, <1>9, <1>11, <1>12, <1>13 DEF Placed
<1> QED BY <1>14 DEF w

LEMMA FlattenPlaced ==
  ASSUME NEW T, NEW s \in Seq(Seq(T))
  PROVE  /\ FlattenSeq(s) \in Seq(T)
         /\ \E b : Placed(b, FlattenSeq(s), s, Len(s))
<1> DEFINE N == Len(s)
           flat == Flatten(s)
           P == {n \in Nat : n > 0 => flat[n] \in Seq(T) /\ \E b : Placed(b, flat[n], s, n)}
<1>0. N \in Nat /\ DOMAIN s = 1 .. N /\ \A i \in 1 .. N : s[i] \in Seq(T)
  BY LenProperties, ElementOfSeq
<1>1. \A i \in 1 .. N : flat[i] = IF i = 1 THEN s[i] ELSE flat[i - 1] \o s[i]
  BY FlattenSteps
<1>2. N # 0 => FlattenSeq(s) = flat[N]
  BY FlattenSteps
<1> HIDE DEF flat
<1>3. \E b : Placed(b, <<>>, s, 0)
  <2> DEFINE b == [k \in 1 .. 0 |-> k]
  <2>1. Places(s, 0) = {} /\ Len(<<>>) = 0 /\ 1 .. 0 = {}
    BY DEF Places
  <2>2. Placed(b, <<>>, s, 0)
    BY <2>1 DEF Placed
  <2> QED BY <2>2
<1>4. 0 \in P
  OBVIOUS
<1>5. ASSUME NEW n \in 0 .. N, n < N, n \in P PROVE n + 1 \in P
  <2>1. n \in Nat /\ n + 1 \in Nat /\ n + 1 \in 1 .. N /\ (n + 1) - 1 = n /\ s[n + 1] \in Seq(T)
    BY <1>0, <1>5
  <2> SUFFICES flat[n + 1] \in Seq(T) /\ \E b : Placed(b, flat[n + 1], s, n + 1)
    BY <2>1
  <2>2. \E u \in Seq(T) : flat[n + 1] = u \o s[n + 1] /\ \E b : Placed(b, u, s, n)
    <3>1. CASE n = 0
      <4>1. flat[n + 1] = s[n + 1]
        BY <1>1, <2>1, <3>1
      <4>2. s[n + 1] = <<>> \o s[n + 1] /\ <<>> \in Seq(T)
        BY <2>1, ConcatEmptySeq, EmptySeq
      <4> QED BY <1>3, <3>1, <4>1, <4>2
    <3>2. CASE n # 0
      <4>1. flat[n + 1] = flat[n] \o s[n + 1]
        <5>1. n + 1 # 1
          BY <2>1, <3>2
        <5> QED BY <1>1, <2>1, <5>1
      <4>2. flat[n] \in Seq(T) /\ \E b : Placed(b, flat[n], s, n)
        BY <1>5, <2>1, <3>2
      <4> QED BY <4>1, <4>2
    <3> QED BY <3>1, <3>2
  <2>3. PICK u \in Seq(T) : flat[n + 1] = u \o s[n + 1] /\ \E b : Placed(b, u, s, n)
    BY <2>2
  <2>4. PICK b : Placed(b, u, s, n)
    BY <2>3
  <2>5. \E c : Placed(c, u \o s[n + 1], s, n + 1)
    BY <2>1, <2>4, PlacedMore
  <2>6. u \o s[n + 1] \in Seq(T)
    BY <2>1, ConcatProperties
  <2> QED BY <2>3, <2>5, <2>6
<1>6. N \in P
  <2>1. \A n \in 0 .. N : n \in P
    <3> HIDE DEF P
    <3> QED BY <1>0, <1>4, <1>5, InductUpTo
  <2> QED BY SMTT(30), <1>0, <2>1
<1>7. CASE N = 0
  <2>1. s = <<>> /\ FlattenSeq(s) = s
    BY <1>7, EmptySeq DEF FlattenSeq
  <2> QED BY <1>3, <1>7, <2>1, EmptySeq
<1>8. CASE N # 0
  <2>1. flat[N] \in Seq(T) /\ \E b : Placed(b, flat[N], s, N)
    BY <1>0, <1>6, <1>8
  <2> QED BY <1>2, <1>8, <2>1
<1> QED BY <1>7, <1>8

LEMMA FlattenHas ==
  ASSUME NEW T, NEW s \in Seq(Seq(T))
  PROVE  \A q : q \in ToSet(FlattenSeq(s)) <=> \E n \in DOMAIN s : q \in ToSet(s[n])
<1> DEFINE u == FlattenSeq(s)
<1>1. u \in Seq(T) /\ \E b : Placed(b, u, s, Len(s))
  BY FlattenPlaced
<1> HIDE DEF u
<1>2. PICK b : Placed(b, u, s, Len(s))
  BY <1>1
<1>3. DOMAIN u = 1 .. Len(u) /\ DOMAIN s = 1 .. Len(s) /\ Len(s) \in Nat
  BY <1>1, LenProperties
<1>4. ASSUME NEW q, q \in ToSet(u) PROVE \E n \in DOMAIN s : q \in ToSet(s[n])
  <2>1. PICK k \in 1 .. Len(u) : u[k] = q
    BY <1>3, <1>4 DEF ToSet
  <2>2. b[k] \in Places(s, Len(s)) /\ q = s[b[k][1]][b[k][2]]
    BY <1>2, <2>1 DEF Placed
  <2>0. \A p \in Places(s, Len(s)) : \E r \in 1 .. Len(s) : \E j \in DOMAIN s[r] : p = <<r, j>>
    BY SMTT(30), <1>3, PlacesIs
  <2>3. PICK r \in 1 .. Len(s) : \E j \in DOMAIN s[r] : b[k] = <<r, j>>
    BY <2>0, <2>2
  <2>4. PICK j \in DOMAIN s[r] : b[k] = <<r, j>>
    BY <2>3
  <2>5. q = s[r][j]
    BY <2>2, <2>4
  <2> QED BY <1>3, <2>4, <2>5 DEF ToSet
<1>5. ASSUME NEW q, NEW n \in DOMAIN s, q \in ToSet(s[n]) PROVE q \in ToSet(u)
  <2>1. PICK j \in DOMAIN s[n] : s[n][j] = q
    BY <1>5 DEF ToSet
  <2>2. <<n, j>> \in Places(s, Len(s))
    BY <1>3, <2>1, PlacesIs
  <2>3. PICK k \in 1 .. Len(u) : b[k] = <<n, j>>
    BY <1>2, <2>2 DEF Placed
  <2>4. u[k] = q
    BY <1>2, <2>1, <2>3 DEF Placed
  <2> QED BY <1>3, <2>4 DEF ToSet
<1> QED BY <1>4, <1>5 DEF u

LEMMA FlattenIs ==
  ASSUME NEW T, NEW s \in Seq(Seq(T))
  PROVE  /\ FlattenSeq(s) \in Seq(T)
         /\ \A i \in DOMAIN FlattenSeq(s) :
               \E n \in DOMAIN s : \E k \in DOMAIN s[n] : FlattenSeq(s)[i] = s[n][k]
         /\ FlattenSeq(s) = <<>> => \A n \in DOMAIN s : s[n] = <<>>
<1> DEFINE u == FlattenSeq(s)
<1>1. u \in Seq(T) /\ \A q : q \in ToSet(u) <=> \E n \in DOMAIN s : q \in ToSet(s[n])
  BY FlattenPlaced, FlattenHas
<1> HIDE DEF u
<1>2. \A n \in DOMAIN s : s[n] \in Seq(T)
  BY ElementOfSeq, LenProperties
<1>3. \A i \in DOMAIN u : \E n \in DOMAIN s : \E k \in DOMAIN s[n] : u[i] = s[n][k]
  BY <1>1 DEF ToSet
<1>4. ASSUME u = <<>>, NEW n \in DOMAIN s PROVE s[n] = <<>>
  <2>0. ToSet(u) = {}
    BY <1>4 DEF ToSet
  <2>1. ToSet(s[n]) = {}
    BY <1>1, <1>4, <2>0
  <2>2. DOMAIN s[n] = {}
    BY <2>1 DEF ToSet
  <2>3. Len(s[n]) = 0
    <3>1. Len(s[n]) \in Nat /\ DOMAIN s[n] = 1..Len(s[n])
      BY <1>2, LenProperties
    <3> QED BY <2>2, <3>1
  <2> QED BY <1>2, <2>3, EmptySeq
<1> QED BY <1>1, <1>3, <1>4 DEF u

-----------------------------------------------------------------------------
(* The search of one start token.  It goes on from a path only when one    *)
(* more edge leaves it shorter than the limit, so the function the search  *)
(* is exists, and what it returns are paths.                               *)
Tried(edges, start, maxLegs, f, path, i) ==
    IF edges[i].to = start /\ path # <<>>
    THEN IF Closes(edges, maxLegs, path, i) THEN << Append(path, i) >> ELSE <<>>
    ELSE IF \/ edges[i].to \in {start} \union {edges[j].to : j \in ToSet(path)}
            \/ Len(path) + 1 >= maxLegs
            \/ ~Fits(PathWeight(edges, path) + edges[i].weight)
         THEN <<>> ELSE f[Append(path, i)]

Joined(edges, start, maxLegs, f, path) ==
    [i \in DOMAIN edges |->
        IF edges[i].from = (IF path = <<>> THEN start ELSE edges[Last(path)].to)
        THEN Tried(edges, start, maxLegs, f, path, i) ELSE <<>>]

Search(edges, start, maxLegs) ==
    CHOOSE f : f = [path \in Seq(DOMAIN edges) |-> FlattenSeq(Joined(edges, start, maxLegs, f, path))]

LEMMA SearchForm ==
  ASSUME NEW edges, NEW start, NEW maxLegs
  PROVE  PathsFrom(edges, start, maxLegs) = Search(edges, start, maxLegs)[<<>>]
BY Zenon DEF PathsFrom, Search, Joined, Tried

LEMMA JoinedSame ==
  ASSUME NEW n \in Nat, NEW edges, DOMAIN edges = 1..n, NEW start, NEW maxLegs \in Nat,
         NEW f, NEW g, NEW path \in Seq(1..n),
         \A i \in 1..n : Len(path) + 1 < maxLegs => f[Append(path, i)] = g[Append(path, i)]
  PROVE  Joined(edges, start, maxLegs, f, path) = Joined(edges, start, maxLegs, g, path)
<1>1. Len(path) \in Nat
  BY LenProperties
<1>2. ASSUME NEW i \in 1..n
      PROVE  Tried(edges, start, maxLegs, f, path, i) = Tried(edges, start, maxLegs, g, path, i)
  <2>1. CASE Len(path) + 1 >= maxLegs
    BY <2>1, Zenon DEF Tried
  <2>2. CASE ~ (Len(path) + 1 >= maxLegs)
    <3>1. f[Append(path, i)] = g[Append(path, i)]
      BY <1>1, <2>2
    <3> QED BY <3>1, Zenon DEF Tried
  <2> QED BY <2>1, <2>2
<1> QED BY <1>2, Zenon DEF Joined

Searches(f, n, edges, start, maxLegs) ==
    /\ f = [path \in Seq(1..n) |-> FlattenSeq(Joined(edges, start, maxLegs, f, path))]
    /\ PathsFrom(edges, start, maxLegs) = f[<<>>]

LEMMA SearchExists ==
  ASSUME NEW n \in Nat, NEW edges, DOMAIN edges = 1..n, NEW start, NEW maxLegs \in Nat
  PROVE  \E f : Searches(f, n, edges, start, maxLegs)
<1> DEFINE Join(f, path) == FlattenSeq(Joined(edges, start, maxLegs, f, path))
           Right(f, k) == /\ f = [path \in Seq(1..n) |-> f[path]]
                          /\ \A path \in Seq(1..n) : Len(path) >= maxLegs - k => f[path] = Join(f, path)
           S == {k \in Nat : \E f : Right(f, k)}
           dfs == CHOOSE f : f = [path \in Seq(1..n) |-> Join(f, path)]
<1>1. \A path \in Seq(1..n) : /\ Len(path) \in Nat
                              /\ \A i \in 1..n : /\ Append(path, i) \in Seq(1..n)
                                                /\ Len(Append(path, i)) = Len(path) + 1
  BY LenProperties, AppendProperties
<1>2. ASSUME NEW f, NEW g, NEW path \in Seq(1..n),
             \A i \in 1..n : Len(path) + 1 < maxLegs => f[Append(path, i)] = g[Append(path, i)]
      PROVE  Join(f, path) = Join(g, path)
  BY <1>2, JoinedSame
<1> HIDE DEF Join
<1>3. 0 \in S
  <2> DEFINE g == [path \in Seq(1..n) |-> <<>>]
             f == [path \in Seq(1..n) |-> Join(g, path)]
  <2>1. ASSUME NEW path \in Seq(1..n), Len(path) >= maxLegs - 0
        PROVE  f[path] = Join(f, path)
    <3>1. f[path] = Join(g, path)
      OBVIOUS
    <3>2. ~ (Len(path) + 1 < maxLegs)
      BY <1>1, <2>1
    <3>3. Join(f, path) = Join(g, path)
      <4> HIDE DEF f, g
      <4> QED BY <1>2, <3>2
    <3> QED BY <3>1, <3>3
  <2>2. f = [path \in Seq(1..n) |-> f[path]]
    OBVIOUS
  <2> HIDE DEF f
  <2>3. Right(f, 0)
    BY <2>1, <2>2
  <2> QED BY <2>3
<1>4. ASSUME NEW k \in Nat, k \in S PROVE k + 1 \in S
  <2>1. PICK g : Right(g, k)
    BY <1>4
  <2> DEFINE f == [path \in Seq(1..n) |-> Join(g, path)]
  <2>2. \A path \in Seq(1..n) : f[path] = Join(g, path)
    OBVIOUS
  <2>3. f = [path \in Seq(1..n) |-> f[path]]
    OBVIOUS
  <2> HIDE DEF f
  <2>4. ASSUME NEW path \in Seq(1..n), Len(path) >= maxLegs - (k + 1)
        PROVE  f[path] = Join(f, path)
    <3>1. ASSUME NEW i \in 1..n PROVE f[Append(path, i)] = g[Append(path, i)]
      <4> DEFINE more == Append(path, i)
      <4>1. more \in Seq(1..n) /\ Len(more) = Len(path) + 1 /\ Len(path) \in Nat
        BY <1>1
      <4> HIDE DEF more
      <4>2. Len(more) >= maxLegs - k
        BY <2>4, <4>1
      <4>3. g[more] = Join(g, more)
        BY <2>1, <4>1, <4>2
      <4>4. f[more] = g[more]
        BY <2>2, <4>1, <4>3
      <4> QED BY <4>4 DEF more
    <3>2. Join(f, path) = Join(g, path)
      BY <1>2, <3>1
    <3> QED BY <2>2, <3>2
  <2>5. Right(f, k + 1)
    BY <2>3, <2>4
  <2> QED BY <2>5
<1>5. maxLegs \in S
  <2> HIDE DEF S
  <2> QED BY <1>3, <1>4, Induct
<1>6. dfs = [path \in Seq(1..n) |-> Join(dfs, path)]
  <2>1. PICK f : Right(f, maxLegs)
    BY <1>5
  <2>2. \A path \in Seq(1..n) : f[path] = Join(f, path)
    <3>1. \A path \in Seq(1..n) : Len(path) >= maxLegs - maxLegs
      BY <1>1
    <3> QED BY <2>1, <3>1
  <2>3. f = [path \in Seq(1..n) |-> Join(f, path)]
    BY <2>1, <2>2
  <2> QED BY <2>3, Zenon
<1>7. PathsFrom(edges, start, maxLegs) = dfs[<<>>]
  BY SearchForm, Zenon DEF Search, Join
<1> HIDE DEF dfs
<1>8. dfs = [path \in Seq(1..n) |-> FlattenSeq(Joined(edges, start, maxLegs, dfs, path))]
  BY <1>6 DEF Join
<1> QED BY <1>7, <1>8 DEF Searches

LEMMA SearchIs ==
  ASSUME NEW n \in Nat, NEW edges, DOMAIN edges = 1..n, NEW start, NEW maxLegs \in Nat
  PROVE  PathsFrom(edges, start, maxLegs) \in Seq(Seq(1..n))
<1>1. \A path \in Seq(1..n) : /\ Len(path) \in Nat
                              /\ \A i \in 1..n : /\ Append(path, i) \in Seq(1..n)
                                                /\ Len(Append(path, i)) = Len(path) + 1
  BY LenProperties, AppendProperties
<1>2. PICK dfs : Searches(dfs, n, edges, start, maxLegs)
  BY SearchExists
<1>6. \A path \in Seq(1..n) : dfs[path] = FlattenSeq(Joined(edges, start, maxLegs, dfs, path))
  BY <1>2, Zenon DEF Searches
<1>7. PathsFrom(edges, start, maxLegs) = dfs[<<>>]
  BY <1>2, Zenon DEF Searches
<1> DEFINE T == {k \in Nat : \A path \in Seq(1..n) : Len(path) >= maxLegs - k =>
                                dfs[path] \in Seq(Seq(1..n))}
<1>8. ASSUME NEW path \in Seq(1..n),
             \A i \in 1..n : Len(path) + 1 < maxLegs => dfs[Append(path, i)] \in Seq(Seq(1..n))
      PROVE  dfs[path] \in Seq(Seq(1..n))
  <2> DEFINE J == Joined(edges, start, maxLegs, dfs, path)
             Q == Seq(1..n)
  <2>1. ASSUME NEW i \in 1..n PROVE Tried(edges, start, maxLegs, dfs, path, i) \in Seq(Q)
    <3>1. <<>> \in Seq(Q) /\ << Append(path, i) >> \in Seq(Q)
      <4>1. Append(path, i) \in Q
        BY <1>1
      <4> HIDE DEF Q
      <4> QED BY <4>1
    <3>2. CASE Len(path) + 1 >= maxLegs
      BY <3>1, <3>2, Zenon DEF Tried
    <3>3. CASE ~ (Len(path) + 1 >= maxLegs)
      <4>1. dfs[Append(path, i)] \in Seq(Q)
        BY <1>1, <1>8, <3>3
      <4> HIDE DEF Q
      <4> QED BY <3>1, <4>1, Zenon DEF Tried
    <3> QED BY <3>2, <3>3
  <2>2. <<>> \in Seq(Q)
    BY EmptySeq
  <2> HIDE DEF Q
  <2>3. J = [i \in 1..n |-> J[i]] /\ \A i \in 1..n : J[i] \in Seq(Q)
    BY <2>1, <2>2 DEF Joined
  <2> HIDE DEF J
  <2>4. J \in Seq(Seq(Q))
    BY SMTT(30), <2>3, IsASeq
  <2>5. FlattenSeq(J) \in Seq(Q)
    BY <2>4, FlattenIs
  <2>6. dfs[path] = FlattenSeq(J)
    BY <1>6 DEF J
  <2> QED BY <2>5, <2>6 DEF Q
<1>9. 0 \in T
  <2>1. ASSUME NEW path \in Seq(1..n), Len(path) >= maxLegs - 0 PROVE dfs[path] \in Seq(Seq(1..n))
    <3>1. ~ (Len(path) + 1 < maxLegs)
      BY <1>1, <2>1
    <3> QED BY <1>8, <3>1
  <2> QED BY <2>1
<1>10. ASSUME NEW k \in Nat, k \in T PROVE k + 1 \in T
  <2>1. ASSUME NEW path \in Seq(1..n), Len(path) >= maxLegs - (k + 1)
        PROVE  dfs[path] \in Seq(Seq(1..n))
    <3>1. ASSUME NEW i \in 1..n PROVE dfs[Append(path, i)] \in Seq(Seq(1..n))
      <4> DEFINE more == Append(path, i)
      <4>1. more \in Seq(1..n) /\ Len(more) = Len(path) + 1 /\ Len(path) \in Nat
        BY <1>1
      <4> HIDE DEF more
      <4>2. Len(more) >= maxLegs - k
        BY <2>1, <4>1
      <4>3. dfs[more] \in Seq(Seq(1..n))
        BY <1>10, <4>1, <4>2
      <4> QED BY <4>3 DEF more
    <3> QED BY <1>8, <3>1
  <2> QED BY <2>1
<1>11. maxLegs \in T
  <2> HIDE DEF T
  <2> QED BY <1>9, <1>10, Induct
<1>12. <<>> \in Seq(1..n) /\ Len(<<>>) >= maxLegs - maxLegs
  BY EmptySeq
<1> QED BY <1>7, <1>11, <1>12

LEMMA CyclesAre ==
  ASSUME NEW m \in Nat, NEW n \in Nat, NEW g, DOMAIN g.edges = 1..m, DOMAIN g.tokens = 1..n,
         NEW maxLegs \in Nat
  PROVE  FindNegativeCycles(g, maxLegs) \in Seq(Seq(1..m))
<1> DEFINE Q == Seq(1..m)
           lists == [t \in DOMAIN g.tokens |-> PathsFrom(g.edges, t, maxLegs)]
           paths == FlattenSeq(lists)
           sig == [k \in DOMAIN paths |-> Signature(g.edges, paths[k])]
           again(k) == \E j \in 1..(k-1) : sig[j] = sig[k]
           kept == [k \in DOMAIN paths |-> IF again(k) THEN <<>> ELSE <<paths[k]>>]
<1>1. CASE maxLegs < 2
  <2>1. FindNegativeCycles(g, maxLegs) = <<>>
    BY <1>1 DEF FindNegativeCycles
  <2> QED BY <2>1, EmptySeq
<1>2. CASE ~ (maxLegs < 2)
  <2>1. FindNegativeCycles(g, maxLegs) = FlattenSeq(kept)
    BY <1>2, Zenon DEF FindNegativeCycles
  <2>2. lists \in Seq(Seq(Q))
    <3>1. \A t \in 1..n : PathsFrom(g.edges, t, maxLegs) \in Seq(Q)
      BY SearchIs
    <3> HIDE DEF Q
    <3> QED BY <3>1, IsASeq
  <2>3. paths \in Seq(Q)
    <3> HIDE DEF Q, lists
    <3> QED BY <2>2, FlattenIs
  <2> HIDE DEF paths
  <2>4. kept \in Seq(Seq(Q))
    <3>1. Len(paths) \in Nat /\ DOMAIN paths = 1..Len(paths)
          /\ \A k \in 1..Len(paths) : paths[k] \in Q
      BY <2>3, LenProperties, ElementOfSeq
    <3>2. \A k \in 1..Len(paths) : (IF again(k) THEN <<>> ELSE <<paths[k]>>) \in Seq(Q)
      <4> HIDE DEF again, Q
      <4> QED BY <3>1
    <3> HIDE DEF again, Q
    <3> QED BY <3>1, <3>2, IsASeq
  <2>5. FlattenSeq(kept) \in Seq(Q)
    <3> HIDE DEF kept, Q
    <3> QED BY <2>4, FlattenIs
  <2> QED BY <2>1, <2>5
<1> QED BY <1>1, <1>2

(* A graph made of any pools has a sequence of tokens and one of edges.   *)
LEMMA GraphIs ==
  ASSUME NEW M \in Nat, NEW s, DOMAIN s = 1..M, s = [i \in 1..M |-> s[i]]
  PROVE  \E m, n \in Nat : /\ DOMAIN BuildFromPools(s).edges = 1..m
                           /\ DOMAIN BuildFromPools(s).tokens = 1..n
<1> DEFINE D == {s[i].base : i \in 1..M} \cup {s[i].quote : i \in 1..M}
           From == {TokenId(t, x) : t \in Seq(D), x \in D}
           W == {WeightFromRate(EffectiveRate(s[i].rq, s[i].rb, s[i].fee)) : i \in 1..M}
                \cup {WeightFromRate(EffectiveRate(s[i].rb, s[i].rq, s[i].fee)) : i \in 1..M}
           A == {s[i].address : i \in 1..M}
           E == [from : From, to : From, weight : W, pool : A, b2q : BOOLEAN]
           G == [tokens : Seq(D), edges : Seq(E)]
           Step == [x \in G \X (1..M) |-> PushPool(x[1], s[x[2]])]
           Body(g, T) == IF T = {} THEN NoGraph ELSE PushPool(g[T \ {Max(T)}], s[Max(T)])
           c == CHOOSE g : g = [T \in SUBSET (DOMAIN s) |-> Body(g, T)]
<1>1. ASSUME NEW g \in G, NEW i \in 1..M PROVE PushPool(g, s[i]) \in G
  <2> DEFINE p == s[i]
             t == Interned(g.tokens, p.base)
             tokens == Interned(t, p.quote)
             b == TokenId(tokens, p.base)
             q == TokenId(tokens, p.quote)
             e == BuiltEdge(b, q, EffectiveRate(p.rq, p.rb, p.fee), p.address, TRUE)
             f == BuiltEdge(q, b, EffectiveRate(p.rb, p.rq, p.fee), p.address, FALSE)
  <2>1. p.base \in D /\ p.quote \in D /\ p.address \in A
        /\ WeightFromRate(EffectiveRate(p.rq, p.rb, p.fee)) \in W
        /\ WeightFromRate(EffectiveRate(p.rb, p.rq, p.fee)) \in W
    <3>1. p.base \in D
      OBVIOUS
    <3>2. p.quote \in D
      OBVIOUS
    <3>3. p.address \in A
      OBVIOUS
    <3>4. WeightFromRate(EffectiveRate(p.rq, p.rb, p.fee)) \in W
      OBVIOUS
    <3>5. WeightFromRate(EffectiveRate(p.rb, p.rq, p.fee)) \in W
      OBVIOUS
    <3> HIDE DEF D, W, A
    <3> QED BY <3>1, <3>2, <3>3, <3>4, <3>5
  <2>2. g.tokens \in Seq(D) /\ g.edges \in Seq(E)
    <3> HIDE DEF D, E
    <3> QED OBVIOUS
  <2>3. PushPool(g, p) = [tokens |-> tokens, edges |-> g.edges \o <<e, f>>]
    BY DEF PushPool
  <2> HIDE DEF D, W, A
  <2>4. t \in Seq(D)
    BY <2>1, <2>2, InternedIs
  <2> HIDE DEF t
  <2>5. tokens \in Seq(D)
    BY <2>1, <2>4, InternedIs
  <2> HIDE DEF tokens
  <2>6. b \in From /\ q \in From
    BY <2>1, <2>5
  <2> HIDE DEF b, q, From
  <2>7. e \in E /\ f \in E
    BY <2>1, <2>6 DEF BuiltEdge
  <2> HIDE DEF e, f, E
  <2>8. <<e, f>> \in Seq(E)
    BY <2>7
  <2> DEFINE h == g.edges \o <<e, f>>
  <2>9. h \in Seq(E)
    BY <2>2, <2>8, ConcatProperties
  <2> HIDE DEF h
  <2>10. [tokens |-> tokens, edges |-> h] \in G
    BY <2>5, <2>9
  <2> QED BY <2>3, <2>10, Zenon DEF h
<1>2. NoGraph \in G
  <2> HIDE DEF D, E
  <2> QED BY EmptySeq DEF NoGraph
<1> HIDE DEF G
<1>3. Step \in [G \X (1..M) -> G]
  BY <1>1
<1>4. PICK g : Folds(g, M, G, NoGraph, Step)
  <2> HIDE DEF Step
  <2> QED BY <1>2, <1>3, FoldExists
<1>5. g = [T \in SUBSET (1..M) |-> Body(g, T)]
  <2>1. ASSUME NEW T \in SUBSET (1..M), T # {}
        PROVE  Step[<<g[T \ {Max(T)}], Max(T)>>] = Body(g, T)
    <3>1. Max(T) \in 1..M
      BY <2>1, MaxIs
    <3>2. T \ {Max(T)} \in SUBSET (1..M)
      OBVIOUS
    <3>3. g[T \ {Max(T)}] \in G
      BY <1>4, <3>2 DEF Folds
    <3> QED BY <2>1, <3>1, <3>3
  <2>2. \A T \in SUBSET (1..M) : (IF T = {} THEN NoGraph ELSE Step[<<g[T \ {Max(T)}], Max(T)>>]) = Body(g, T)
    <3> HIDE DEF Step
    <3> QED BY <2>1
  <2> HIDE DEF Step, Body
  <2> QED BY <1>4, <2>2 DEF Folds
<1>6. c = [T \in SUBSET (1..M) |-> Body(c, T)]
  <2> HIDE DEF Body
  <2>1. c = [T \in SUBSET (DOMAIN s) |-> Body(c, T)]
    BY <1>5, Zenon
  <2> QED BY <2>1
<1>7. BuildFromPools(s) = c[1..M]
  <2>1. s = <<>> \/ s # <<>>
    OBVIOUS
  <2>2. Len(s) = M
    OBVIOUS
  <2> QED BY <2>2, Zenon DEF BuildFromPools, FoldLeft, MapThenFoldSet
<1> HIDE DEF c
<1>8. \A T \in SUBSET (1..M) : c[T] = Body(c, T)
  <2> HIDE DEF Body
  <2> QED BY <1>6
<1> DEFINE Q == {i \in Nat : i <= M => c[1..i] \in G}
<1>9. 0 \in Q
  <2>1. 1..0 = {} /\ {} \in SUBSET (1..M)
    OBVIOUS
  <2>2. c[1..0] = NoGraph
    BY <1>8, <2>1
  <2> QED BY <1>2, <2>2
<1>10. ASSUME NEW i \in Nat, i \in Q PROVE i + 1 \in Q
  <2>1. SUFFICES ASSUME i + 1 <= M PROVE c[1..i + 1] \in G
    OBVIOUS
  <2>2. c[1..i] \in G /\ i + 1 \in 1..M /\ (i + 1) - 1 = i
    BY <1>10, <2>1
  <2>3. /\ 1..i + 1 \in SUBSET (1..M) /\ 1..i + 1 # {} /\ Max(1..i + 1) = i + 1
        /\ (1..i + 1) \ {Max(1..i + 1)} = 1..i
    BY <2>2, MaxOfFirst
  <2>4. c[1..i + 1] = PushPool(c[1..i], s[i + 1])
    BY <1>8, <2>3
  <2> QED BY <1>1, <2>2, <2>4
<1>11. M \in Q
  <2> HIDE DEF Q
  <2> QED BY <1>9, <1>10, Induct
<1>12. BuildFromPools(s) \in G
  BY <1>7, <1>11
<1> DEFINE made == BuildFromPools(s)
<1>13. made.tokens \in Seq(D) /\ made.edges \in Seq(E)
  <2> HIDE DEF D, E, made
  <2> QED BY <1>12 DEF G, made
<1> HIDE DEF D, E, made
<1>14. /\ Len(made.tokens) \in Nat /\ DOMAIN made.tokens = 1..Len(made.tokens)
       /\ Len(made.edges) \in Nat /\ DOMAIN made.edges = 1..Len(made.edges)
  BY <1>13, LenProperties
<1> QED BY <1>14, Zenon DEF made

(* What a cycle is evaluated to. *)
Sized(cycle, registry) == InputOf(FindOptimalInput(cycle.legs, registry, Cost, MaxInput))
Returned(cycle, registry) == SimulateCycle(cycle.legs, registry, Sized(cycle, registry))
NetOf(cycle, registry) == NetProfit(Sized(cycle, registry), Returned(cycle, registry), Cost)

LEMMA EvaluatedIs ==
  ASSUME NEW seq, NEW cycle, NEW registry
  PROVE  /\ EvaluateCycle(seq, cycle, registry).cycle = cycle
         /\ EvaluateCycle(seq, cycle, registry).entry =
               Entry(seq, cycle.legs, NetOf(cycle, registry),
                     Evaluate(NetOf(cycle, registry), Optimistic, Conservative))
         /\ EvaluateCycle(seq, cycle, registry).ok => Returned(cycle, registry) # SimErr
<1> DEFINE sizing == FindOptimalInput(cycle.legs, registry, Cost, MaxInput)
           gross == SimulateCycle(cycle.legs, registry, InputOf(sizing))
           net == NetProfit(InputOf(sizing), gross, Cost)
           fine == ~sizing.fails /\ gross # SimErr
           entry == Entry(seq, cycle.legs, net, Evaluate(net, Optimistic, Conservative))
           r == CycleRecord(seq, cycle, net, Evaluate(net, Optimistic, Conservative))
<1>1. EvaluateCycle(seq, cycle, registry) = [r EXCEPT !.ok = fine]
  BY Zenon DEF EvaluateCycle
<1>2. r = [ok |-> TRUE, cycle |-> cycle, entry |-> entry]
  BY DEF CycleRecord
<1>3. fine => Returned(cycle, registry) # SimErr
  BY Zenon DEF Returned, Sized
<1>4. entry = Entry(seq, cycle.legs, NetOf(cycle, registry),
                    Evaluate(NetOf(cycle, registry), Optimistic, Conservative))
  BY Zenon DEF NetOf, Returned, Sized
<1> HIDE DEF entry, fine, r
<1>5. EvaluateCycle(seq, cycle, registry) = [ok |-> fine, cycle |-> cycle, entry |-> entry]
  BY <1>1, <1>2
<1>6. /\ EvaluateCycle(seq, cycle, registry).cycle = cycle
      /\ EvaluateCycle(seq, cycle, registry).entry = entry
      /\ EvaluateCycle(seq, cycle, registry).ok = fine
  BY <1>5
<1> QED BY <1>3, <1>4, <1>6, Zenon

(* What a replay reports: the records of its cycles, whose legs are edges  *)
(* of a path, all of them evaluated; or nothing.                           *)
Evaluated(rep, pools, k, cycles) ==
    /\ rep.entries = [n \in 1..k |-> EvaluateCycle(n - 1, cycles[n], Registry(pools)).entry]
    /\ rep.cycles = [n \in 1..k |-> cycles[n]]
    /\ rep.summary = FromEntries(rep.entries)
    /\ \A n \in 1..k : /\ EvaluateCycle(n - 1, cycles[n], Registry(pools)).ok
                       /\ \E l \in Nat : /\ DOMAIN cycles[n].legs = 1..l
                                         /\ cycles[n].legs = [i \in 1..l |-> cycles[n].legs[i]]

LEMMA ReportOf ==
  ASSUME NEW records, NEW k \in Nat, NEW cycles, NEW pools, NEW ok,
         records = [n \in 1..k |-> EvaluateCycle(n - 1, cycles[n], Registry(pools))],
         \A n \in 1..k : records[n].ok,
         \A n \in 1..k : \E l \in Nat : /\ DOMAIN cycles[n].legs = 1..l
                                        /\ cycles[n].legs = [i \in 1..l |-> cycles[n].legs[i]]
  PROVE  /\ Evaluated(ReconReport(records), pools, k, cycles)
         /\ Evaluated([ReconReport(records) EXCEPT !.ok = ok], pools, k, cycles)
<1> DEFINE entries == [n \in DOMAIN records |-> records[n].entry]
           cs == [n \in DOMAIN records |-> records[n].cycle]
<1>1. ReconReport(records) = [ok |-> TRUE, entries |-> entries, cycles |-> cs,
                              summary |-> FromEntries(entries), divergences |-> <<>>, events |-> 0]
  BY DEF ReconReport
<1>2. entries = [n \in 1..k |-> EvaluateCycle(n - 1, cycles[n], Registry(pools)).entry]
  <2>1. \A n \in 1..k : records[n] = EvaluateCycle(n - 1, cycles[n], Registry(pools))
    BY Zenon
  <2>2. DOMAIN records = 1..k
    BY Zenon
  <2> QED BY <2>1, <2>2, Zenon
<1>3. cs = [n \in 1..k |-> cycles[n]]
  <2>1. \A n \in 1..k : records[n].cycle = cycles[n]
    BY EvaluatedIs
  <2>2. DOMAIN records = 1..k
    BY Zenon
  <2> QED BY <2>1, <2>2, Zenon
<1>4. \A n \in 1..k : EvaluateCycle(n - 1, cycles[n], Registry(pools)).ok
  BY Zenon
<1> HIDE DEF entries, cs
<1> DEFINE e == FromEntries(entries)
<1> HIDE DEF e
<1>5. ASSUME NEW rep, rep.entries = entries, rep.cycles = cs, rep.summary = e
      PROVE  Evaluated(rep, pools, k, cycles)
  BY <1>2, <1>3, <1>4, <1>5, Zenon DEF Evaluated, e
<1>6. ReconReport(records).entries = entries /\ ReconReport(records).cycles = cs
      /\ ReconReport(records).summary = e
  BY <1>1 DEF e
<1> DEFINE rep == [ReconReport(records) EXCEPT !.ok = ok]
<1>7. rep.entries = entries /\ rep.cycles = cs /\ rep.summary = e
  BY <1>1 DEF e
<1> HIDE DEF rep
<1> QED BY <1>5, <1>6, <1>7, Zenon DEF rep

LEMMA ReplayIs ==
  ASSUME NEW pools \in Seq(Snapshots)
  PROVE  \E k \in Nat : \E cycles : Evaluated(ReplayPoolsToLedger(pools), pools, k, cycles)
<1> DEFINE registry == Registry(pools)
           slice == SortedPools(pools, registry)
           forGraph == [n \in DOMAIN slice |-> GraphPool(slice[n])]
           graph == BuildFromPools(forGraph)
           paths == FindNegativeCycles(graph, MaxCycleLegsSearched)
           cycle(n) == NewCycle(graph.edges, paths[n])
           records == [n \in DOMAIN paths |-> EvaluateCycle(n - 1, cycle(n), registry)]
           made == IF \A n \in DOMAIN records : records[n].ok THEN ReconReport(records) ELSE ReconError
           refused == pools # <<>> /\ ~Buildable(forGraph)
<1>1. ReplayPoolsToLedger(pools) \in {ReconReport(<<>>), ReconError, made}
  <2>1. ReplayPoolsToLedger(pools) =
          CASE pools = <<>> -> ReconReport(<<>>)
            [] refused -> ReconError
            [] OTHER -> made
    BY Zenon DEF ReplayPoolsToLedger
  <2> HIDE DEF refused, made
  <2>2. \/ pools = <<>> /\ ~refused
        \/ refused /\ pools # <<>>
        \/ pools # <<>> /\ ~refused
    BY DEF refused
  <2> QED BY <2>1, <2>2
<1>2. Evaluated(ReconReport(<<>>), pools, 0, <<>>) /\ Evaluated(ReconError, pools, 0, <<>>)
  <2>1. <<>> = [n \in 1..0 |-> EvaluateCycle(n - 1, <<>>[n], Registry(pools))]
        /\ ~ \E n \in 1..0 : TRUE
    OBVIOUS
  <2>2. /\ Evaluated(ReconReport(<<>>), pools, 0, <<>>)
        /\ Evaluated([ReconReport(<<>>) EXCEPT !.ok = FALSE], pools, 0, <<>>)
    BY <2>1, ReportOf
  <2> QED BY <2>2, Zenon DEF ReconError
<1>3. CASE \A n \in DOMAIN records : records[n].ok
  <2>1. PICK M \in Nat : DOMAIN slice = 1..M
    <3> DEFINE A == {p.address : p \in Snapshots}
               present == Picked(ByAddress, DOMAIN registry)
    <3>1. present \in Seq(A)
      <4>1. ByAddress \in Seq(A)
        BY ReplayConstants
      <4> HIDE DEF A
      <4> QED BY <4>1, PickedIs
    <3>2. slice = [n \in DOMAIN present |-> registry[present[n]]]
      BY Zenon DEF SortedPools, Listed
    <3> HIDE DEF present, A
    <3>3. Len(present) \in Nat /\ DOMAIN present = 1..Len(present)
      BY <3>1, LenProperties
    <3>4. DOMAIN slice = 1..Len(present)
      BY <3>2, <3>3, Zenon
    <3> QED BY <3>3, <3>4
  <2>2. DOMAIN forGraph = 1..M /\ forGraph = [n \in 1..M |-> forGraph[n]]
    <3> HIDE DEF slice
    <3> QED BY <2>1
  <2> HIDE DEF forGraph
  <2>3. PICK m \in Nat : DOMAIN graph.edges = 1..m /\ \E n \in Nat : DOMAIN graph.tokens = 1..n
    BY <2>2, GraphIs
  <2>4. PICK n \in Nat : DOMAIN graph.tokens = 1..n
    BY <2>3
  <2> HIDE DEF graph
  <2>5. paths \in Seq(Seq(1..m))
    <3>1. MaxCycleLegsSearched \in Nat
      BY ReplayConstants
    <3> QED BY <2>3, <2>4, <3>1, CyclesAre
  <2> HIDE DEF paths
  <2> DEFINE k == Len(paths)
             cycles == [i \in 1..k |-> cycle(i)]
  <2>6. k \in Nat /\ DOMAIN paths = 1..k /\ \A i \in 1..k : paths[i] \in Seq(1..m)
    BY <2>5, LenProperties, ElementOfSeq
  <2> HIDE DEF k
  <2>7. ASSUME NEW i \in 1..k
        PROVE  \E l \in Nat : /\ DOMAIN cycles[i].legs = 1..l
                              /\ cycles[i].legs = [j \in 1..l |-> cycles[i].legs[j]]
    <3> DEFINE path == paths[i]
    <3>1. path \in Seq(1..m)
      BY <2>6
    <3>2. cycles[i] = NewCycle(graph.edges, path)
      BY Zenon
    <3> HIDE DEF path, cycles
    <3>3. Len(path) \in Nat /\ DOMAIN path = 1..Len(path)
      BY <3>1, LenProperties
    <3>4. cycles[i].legs = [j \in DOMAIN path |-> graph.edges[path[j]]]
      BY <3>2 DEF NewCycle
    <3> DEFINE legs == cycles[i].legs
    <3> HIDE DEF legs
    <3>5. DOMAIN legs = 1..Len(path) /\ legs = [j \in 1..Len(path) |-> legs[j]]
      BY <3>3, <3>4 DEF legs
    <3> QED BY <3>3, <3>5 DEF legs
  <2>8. records = [i \in 1..k |-> EvaluateCycle(i - 1, cycles[i], Registry(pools))]
    <3>1. \A i \in 1..k : cycles[i] = cycle(i)
      BY Zenon
    <3> HIDE DEF cycles, cycle
    <3> QED BY <2>6, <3>1, Zenon
  <2>9. \A i \in 1..k : records[i].ok
    <3>1. DOMAIN records = 1..k
      BY <2>8, Zenon
    <3> HIDE DEF records
    <3> QED BY <1>3, <3>1
  <2> HIDE DEF records, cycles
  <2>10. Evaluated(ReconReport(records), pools, k, cycles)
    BY <2>6, <2>7, <2>8, <2>9, ReportOf
  <2>11. made = ReconReport(records)
    BY <1>3, Zenon
  <2> HIDE DEF made
  <2>12. \E j \in Nat : \E c : Evaluated(made, pools, j, c)
    BY <2>6, <2>10, <2>11
  <2>13. \E j \in Nat : \E c : Evaluated(ReconReport(<<>>), pools, j, c)
    BY <1>2
  <2>14. \E j \in Nat : \E c : Evaluated(ReconError, pools, j, c)
    BY <1>2
  <2> QED BY <1>1, <2>12, <2>13, <2>14
<1>4. CASE ~ \A n \in DOMAIN records : records[n].ok
  <2>1. made = ReconError
    BY <1>4, Zenon
  <2> HIDE DEF made
  <2>2. \E j \in Nat : \E c : Evaluated(ReconReport(<<>>), pools, j, c)
    BY <1>2
  <2>3. \E j \in Nat : \E c : Evaluated(ReconError, pools, j, c)
    BY <1>2
  <2> QED BY <1>1, <2>1, <2>2, <2>3
<1> QED BY <1>3, <1>4

Predicted(rows) == Total(rows, LAMBDA r : r.predicted)
Realized(rows) == Total(rows, LAMBDA r : r.realized)
Hoped(entries) == Total(entries, LAMBDA e : e.ev.optimistic)
Expected(entries) == Total(entries, LAMBDA e : e.ev.conservative)

(* The totals of two lists that agree in the summed figure at each place.  *)
RowsOf(s, t, k) ==
    /\ DOMAIN s = 1..k /\ DOMAIN t = 1..k
    /\ \A n \in 1..k : s[n].predicted = t[n].ev.optimistic /\ s[n].realized = t[n].ev.conservative

LEMMA TotalsSame ==
  ASSUME NEW k \in Nat, NEW s, NEW t, RowsOf(s, t, k)
  PROVE  Predicted(s) = Hoped(t) /\ Realized(s) = Expected(t)
<1>1. DOMAIN s = 1..k /\ DOMAIN t = 1..k
  BY DEF RowsOf
<1>2. \A T \in SUBSET (1..k) : T # {} => Max(T) \in 1..k
  BY MaxIs
<1>3. Predicted(s) = Hoped(t)
  <2> DEFINE P(g) == [T \in SUBSET (1..k) |->
                        IF T = {} THEN 0 ELSE g[T \ {Max(T)}] + s[Max(T)].predicted]
             Q(g) == [T \in SUBSET (1..k) |->
                        IF T = {} THEN 0 ELSE g[T \ {Max(T)}] + t[Max(T)].ev.optimistic]
  <2>1. /\ Predicted(s) = (CHOOSE g : g = P(g))[1..k]
        /\ Hoped(t) = (CHOOSE g : g = Q(g))[1..k]
    BY <1>1, Zenon DEF Predicted, Hoped, Total, FoldLeft, MapThenFoldSet
  <2>2. ASSUME NEW g PROVE P(g) = Q(g)
    <3>1. \A T \in SUBSET (1..k) : T # {} => s[Max(T)].predicted = t[Max(T)].ev.optimistic
      BY <1>2 DEF RowsOf
    <3> QED BY <3>1, Zenon
  <2> HIDE DEF P, Q
  <2>3. (CHOOSE g : g = P(g)) = (CHOOSE g : g = Q(g))
    BY <2>2, Zenon
  <2> QED BY <2>1, <2>3, Zenon
<1>4. Realized(s) = Expected(t)
  <2> DEFINE P(g) == [T \in SUBSET (1..k) |->
                        IF T = {} THEN 0 ELSE g[T \ {Max(T)}] + s[Max(T)].realized]
             Q(g) == [T \in SUBSET (1..k) |->
                        IF T = {} THEN 0 ELSE g[T \ {Max(T)}] + t[Max(T)].ev.conservative]
  <2>1. /\ Realized(s) = (CHOOSE g : g = P(g))[1..k]
        /\ Expected(t) = (CHOOSE g : g = Q(g))[1..k]
    BY <1>1, Zenon DEF Realized, Expected, Total, FoldLeft, MapThenFoldSet
  <2>2. ASSUME NEW g PROVE P(g) = Q(g)
    <3>1. \A T \in SUBSET (1..k) : T # {} => s[Max(T)].realized = t[Max(T)].ev.conservative
      BY <1>2 DEF RowsOf
    <3> QED BY <3>1, Zenon
  <2> HIDE DEF P, Q
  <2>3. (CHOOSE g : g = P(g)) = (CHOOSE g : g = Q(g))
    BY <2>2, Zenon
  <2> QED BY <2>1, <2>3, Zenon
<1> QED BY <1>3, <1>4

LEMMA RowIs ==
  ASSUME NEW e
  PROVE  /\ ReconRow(e).predicted = e.ev.optimistic /\ ReconRow(e).realized = e.ev.conservative
         /\ ReconRow(e).decision = e.decision
BY DEF ReconRow

LEMMA EntryDecides ==
  ASSUME NEW seq, NEW cycle, NEW registry
  PROVE  EvaluateCycle(seq, cycle, registry).entry.decision \in {"WouldTrade", "WouldNotTrade"}
<1> DEFINE outcome == Evaluate(NetOf(cycle, registry), Optimistic, Conservative)
<1>1. EvaluateCycle(seq, cycle, registry).entry = Entry(seq, cycle.legs, NetOf(cycle, registry), outcome)
  BY EvaluatedIs, ZenonT(30)
<1> HIDE DEF outcome
<1>2. Entry(seq, cycle.legs, NetOf(cycle, registry), outcome).decision = Decision(outcome)
  BY DEF Entry
<1> QED BY <1>1, <1>2 DEF Decision

(* An entry that does not trade is one that was decided so. *)
LEMMA CountsAre ==
  ASSUME NEW k \in Nat, NEW s, s = [n \in 1..k |-> s[n]],
         \A n \in 1..k : s[n].decision \in {"WouldTrade", "WouldNotTrade"}
  PROVE  Count(s, "WouldNotTrade") = k - Count(s, "WouldTrade")
<1> DEFINE A == {n \in 1..k : s[n].decision = "WouldTrade"}
           B == {n \in 1..k : s[n].decision = "WouldNotTrade"}
<1>1. DOMAIN s = 1..k
  BY Zenon
<1>2. Count(s, "WouldTrade") = Cardinality(A) /\ Count(s, "WouldNotTrade") = Cardinality(B)
  BY <1>1, Zenon DEF Count
<1>3. IsFiniteSet(1..k) /\ Cardinality(1..k) = k
  BY FS_Interval
<1>4. A \subseteq 1..k /\ B = (1..k) \ A
  OBVIOUS
<1> HIDE DEF A, B
<1>5. IsFiniteSet(A) /\ Cardinality((1..k) \ A) = Cardinality(1..k) - Cardinality(1..k \cap A)
  BY <1>3, <1>4, FS_Subset, FS_Difference
<1>6. 1..k \cap A = A
  BY <1>4
<1> QED BY <1>2, <1>3, <1>4, <1>5, <1>6

(* The report is that of the pools observed, the ledger a beginning of its *)
(* entries, and what was reconciled is the ledger as it is now.            *)
Replayed ==
    /\ given \in Seq(Snapshots)
    /\ report = <<>> => ledger = <<>> /\ recon = <<>>
    /\ report # <<>> =>
         /\ report = << ReplayPoolsToLedger(given) >>
         /\ Len(ledger) \in 0 .. Len(report[1].entries)
         /\ ledger = [n \in 1..Len(ledger) |-> report[1].entries[n]]
    /\ recon # <<>> => recon = << ReconcileLedger(ledger, cut) >>

LEMMA ReplayedAtFirst == ReplayInit => Replayed
<1> SUFFICES ASSUME ReplayInit PROVE Replayed
  OBVIOUS
<1>1. <<>> \in Seq(Snapshots)
  BY EmptySeq
<1> QED BY <1>1 DEF ReplayInit, Replayed

LEMMA ObserveReplayed ==
  ASSUME Replayed, NEW p \in Snapshots, Observe(p) PROVE Replayed'
<1>1. given' \in Seq(Snapshots)
  BY AppendProperties DEF Replayed, Observe
<1>2. report' = <<>> /\ ledger' = <<>> /\ recon' = <<>>
  BY DEF Replayed, Observe
<1> QED BY <1>1, <1>2 DEF Replayed

LEMMA ReplayReplayed == ASSUME Replayed, ReplayPools PROVE Replayed'
<1> DEFINE rep == ReplayPoolsToLedger(given)
<1>1. /\ report' = <<rep>> /\ given' = given /\ ledger' = <<>> /\ recon' = <<>>
      /\ given \in Seq(Snapshots)
  BY DEF Replayed, ReplayPools
<1>2. PICK k \in Nat : \E cycles : Evaluated(rep, given, k, cycles)
  BY <1>1, ReplayIs
<1>3. PICK cycles : Evaluated(rep, given, k, cycles)
  BY <1>2
<1> HIDE DEF rep
<1>4. Len(rep.entries) = k
  BY <1>3 DEF Evaluated
<1>5. report'[1] = rep
  BY <1>1
<1>6. Len(<<>>) \in 0..k /\ <<>> = [n \in 1..Len(<<>>) |-> rep.entries[n]]
  OBVIOUS
<1> QED BY <1>1, <1>4, <1>5, <1>6 DEF Replayed, rep

LEMMA WriteReplayed == ASSUME Replayed, WriteEntry PROVE Replayed'
<1> DEFINE entries == report[1].entries
           n == Len(ledger)
           S == {entries[i] : i \in 1..n + 1}
<1>1. /\ report' = report /\ report # <<>> /\ given' = given /\ cut' = cut /\ recon' = <<>>
      /\ report = << ReplayPoolsToLedger(given) >> /\ given \in Seq(Snapshots)
      /\ n \in 0..Len(entries) /\ ledger = [i \in 1..n |-> entries[i]] /\ n < Len(entries)
      /\ ledger' = Append(ledger, entries[n + 1])
  BY DEF Replayed, WriteEntry
<1> HIDE DEF entries
<1>2. n \in Nat
  BY <1>1
<1>3. ledger \in Seq(S) /\ entries[n + 1] \in S
  <2> DEFINE N == Len(ledger)
  <2>1. ledger = [i \in 1..N |-> entries[i]] /\ N \in Nat
    BY <1>1, <1>2
  <2> HIDE DEF N
  <2>2. \A i \in 1..N + 1 : entries[i] \in {entries[j] : j \in 1..N + 1}
    OBVIOUS
  <2>3. \A i \in 1..N : i \in 1..N + 1
    BY <2>1
  <2>4. ledger \in Seq({entries[j] : j \in 1..N + 1})
    BY <2>1, <2>2, <2>3, IsASeq
  <2>5. N + 1 \in 1..N + 1
    BY <2>1
  <2> QED BY <2>2, <2>4, <2>5 DEF N
<1> HIDE DEF S
<1>4. /\ ledger' \in Seq(S) /\ Len(ledger') = n + 1 /\ ledger'[n + 1] = entries[n + 1]
      /\ \A i \in 1..n : ledger'[i] = ledger[i]
  BY <1>1, <1>3, AppendProperties
<1>5. DOMAIN ledger' = 1..n + 1 /\ ledger' = [i \in 1..n + 1 |-> ledger'[i]]
  BY <1>4, LenProperties
<1>6. \A i \in 1..n : ledger[i] = entries[i]
  BY <1>1
<1>7. \A i \in 1..n + 1 : ledger'[i] = entries[i]
  <2> HIDE DEF n
  <2> QED BY <1>2, <1>4, <1>6
<1>8. ledger' = [i \in 1..Len(ledger') |-> entries[i]]
  BY <1>4, <1>5, <1>7, Zenon
<1>9. Len(ledger') \in 0..Len(entries)
  BY <1>1, <1>4
<1>10. report'[1].entries = entries
  BY <1>1 DEF entries
<1> QED BY <1>1, <1>8, <1>9, <1>10 DEF Replayed

LEMMA ReplayedStep == Replayed /\ [ReplayNext]_replayVars => Replayed'
<1> SUFFICES ASSUME Replayed, [ReplayNext]_replayVars PROVE Replayed'
  OBVIOUS
<1>1. ASSUME NEW p \in Snapshots, Observe(p) PROVE Replayed'
  BY <1>1, ObserveReplayed
<1>2. CASE ReplayPools
  BY <1>2, ReplayReplayed
<1>3. CASE WriteEntry
  BY <1>3, WriteReplayed
<1>4. CASE StopInEntry
  <2>1. /\ report' = report /\ given' = given /\ ledger' = ledger
        /\ recon = <<>> /\ recon' = recon
    BY <1>4 DEF StopInEntry
  <2> QED BY <2>1 DEF Replayed
<1>5. CASE Reconcile
  <2>1. /\ report' = report /\ given' = given /\ ledger' = ledger /\ cut' = cut
        /\ report # <<>> /\ recon' = << ReconcileLedger(ledger, cut) >>
    BY <1>5 DEF Reconcile
  <2> QED BY <2>1 DEF Replayed
<1>6. CASE UNCHANGED replayVars
  BY <1>6 DEF replayVars, Replayed
<1> QED BY <1>1, <1>2, <1>3, <1>4, <1>5, <1>6 DEF ReplayNext

LEMMA ReplayedAgrees == Replayed => ReconcileAgrees
<1> SUFFICES ASSUME Replayed, recon # <<>> PROVE
      LET r == recon[1] s == report[1].summary
      IN  /\ r.ok = ~cut
          /\ r.ok /\ Len(ledger) = s.total =>
                /\ r.predicted = s.optimistic /\ r.realized = s.conservative
                /\ r.traded = s.would_trade /\ r.not_traded = s.would_not_trade
  BY DEF ReconcileAgrees
<1> DEFINE r == ReconcileLedger(ledger, cut)
           rep == ReplayPoolsToLedger(given)
           rows == [n \in DOMAIN ledger |-> ReconRow(ledger[n])]
<1>1. /\ recon[1] = r /\ report[1] = rep /\ given \in Seq(Snapshots)
      /\ Len(ledger) \in 0..Len(rep.entries)
      /\ ledger = [n \in 1..Len(ledger) |-> rep.entries[n]]
  BY DEF Replayed
<1>2. PICK k \in Nat : \E cycles : Evaluated(rep, given, k, cycles)
  BY <1>1, ReplayIs
<1>3. PICK cycles : Evaluated(rep, given, k, cycles)
  BY <1>2
<1> HIDE DEF rep
<1>4. /\ DOMAIN rep.entries = 1..k /\ Len(rep.entries) = k
      /\ rep.entries = [n \in 1..k |-> rep.entries[n]]
      /\ \A n \in 1..k : rep.entries[n] = EvaluateCycle(n - 1, cycles[n], Registry(given)).entry
      /\ rep.summary = FromEntries(rep.entries)
  BY <1>3 DEF Evaluated
<1> DEFINE e == rep.entries
           s == FromEntries(e)
<1> HIDE DEF e
<1>5. /\ s.total = Len(e) /\ s.would_trade = Count(e, "WouldTrade")
      /\ s.would_not_trade = Len(e) - Count(e, "WouldTrade")
      /\ s.optimistic = Hoped(e)
      /\ s.conservative = Expected(e)
  BY DEF FromEntries, Hoped, Expected
<1>6. /\ r.ok = ~cut /\ r.predicted = Predicted(rows)
      /\ r.realized = Realized(rows)
      /\ r.traded = Count(rows, "WouldTrade") /\ r.not_traded = Count(rows, "WouldNotTrade")
  BY DEF ReconcileLedger, Predicted, Realized
<1> HIDE DEF r, s
<1>7. ASSUME Len(ledger) = s.total
      PROVE  /\ r.predicted = s.optimistic /\ r.realized = s.conservative
             /\ r.traded = s.would_trade /\ r.not_traded = s.would_not_trade
  <2>1. Len(ledger) = k /\ Len(e) = k
    BY <1>4, <1>5, <1>7 DEF e
  <2>2. e = [n \in 1..k |-> e[n]] /\ ledger = e
    BY <1>1, <1>4, <2>1, Zenon DEF e
  <2>3. DOMAIN e = 1..k /\ rows = [n \in 1..k |-> ReconRow(e[n])]
    BY <1>4, <2>2, Zenon DEF e
  <2> HIDE DEF rows
  <2>4. \A n \in 1..k : rows[n] = ReconRow(e[n])
    BY <2>3
  <2>5. rows = [n \in 1..k |-> rows[n]]
    BY <2>3
  <2>6. \A n \in 1..k : /\ rows[n].predicted = e[n].ev.optimistic
                        /\ rows[n].realized = e[n].ev.conservative
                        /\ rows[n].decision = e[n].decision
    BY <2>4, RowIs, Zenon
  <2>7. r.predicted = s.optimistic /\ r.realized = s.conservative
    <3>1. Predicted(rows) = Hoped(e) /\ Realized(rows) = Expected(e)
      <4>1. RowsOf(rows, e, k)
        BY <2>3, <2>6 DEF RowsOf
      <4> QED BY <4>1, TotalsSame, Zenon
    <3> QED BY <1>5, <1>6, <3>1
  <2>8. \A n \in 1..k : e[n].decision \in {"WouldTrade", "WouldNotTrade"}
    <3>1. ASSUME NEW n \in 1..k PROVE e[n].decision \in {"WouldTrade", "WouldNotTrade"}
      BY <1>4, EntryDecides DEF e
    <3> QED BY <3>1
  <2>9. Count(e, "WouldNotTrade") = k - Count(e, "WouldTrade")
    BY <2>2, <2>8, CountsAre
  <2>10. DOMAIN rows = 1..k
    BY <2>3
  <2>11. \A d : Count(rows, d) = Count(e, d)
    <3>1. ASSUME NEW d PROVE {n \in 1..k : rows[n].decision = d} = {n \in 1..k : e[n].decision = d}
      BY <2>6
    <3> QED BY <2>3, <2>10, <3>1, Zenon DEF Count
  <2> QED BY <1>5, <1>6, <2>1, <2>7, <2>9, <2>11
<1> QED BY <1>1, <1>4, <1>6, <1>7, Zenon DEF s, e


(* A ledger that was written whole reconciles to the summary of the replay *)
(* that wrote it, and one that stops inside an entry is refused: for any   *)
(* pools, costs and bounds (pipeline.rs replay_pools_to_ledger,            *)
(* reconcile.rs reconcile_ledger).                                         *)
THEOREM LedgerReconciles == ReplaySpec => []ReconcileAgrees
<1>1. ReplayInit => Replayed
  BY ReplayedAtFirst
<1>2. Replayed /\ [ReplayNext]_replayVars => Replayed'
  BY ReplayedStep
<1>3. Replayed => ReconcileAgrees
  BY ReplayedAgrees
<1> QED BY <1>1, <1>2, <1>3, PTL DEF ReplaySpec

-----------------------------------------------------------------------------
(* Quotients that round down. *)
LEMMA QuotientIs ==
  ASSUME NEW a \in Nat, NEW b \in Nat \ {0}
  PROVE  a \div b \in Nat /\ (a \div b) * b <= a /\ a < (a \div b + 1) * b
<1> DEFINE q == a \div b
<1>1. q \in Nat /\ a = q * b + (a % b) /\ a % b \in 0..(b - 1)
  OBVIOUS
<1> HIDE DEF q
<1>2. (q + 1) * b = q * b + b /\ q * b \in Int
  BY <1>1
<1> DEFINE p == q * b
<1> HIDE DEF p
<1>3. p <= a /\ a < p + b
  BY <1>1, <1>2 DEF p
<1> QED BY <1>1, <1>2, <1>3 DEF p, q

LEMMA ShareIs ==
  ASSUME NEW a \in Nat, NEW m \in Nat, NEW d \in Nat \ {0}, m <= d
  PROVE  (a * m) \div d \in Nat /\ (a * m) \div d <= a /\ (a = 0 => (a * m) \div d = 0)
<1> DEFINE p == a * m
           q == p \div d
<1>1. p \in Nat /\ p <= a * d /\ (a = 0 => p = 0)
  <2>1. p \in Nat /\ (a = 0 => p = 0)
    OBVIOUS
  <2>2. a * d = a * m + a * (d - m) /\ a * (d - m) >= 0
    OBVIOUS
  <2> QED BY <2>1, <2>2
<1> HIDE DEF p
<1>2. q \in Nat /\ q * d <= p
  BY <1>1, QuotientIs
<1>3. p = 0 => q = 0
  OBVIOUS
<1> HIDE DEF q
<1>4. q <= a
  <2>1. SUFFICES ASSUME q >= a + 1 PROVE FALSE
    BY <1>2
  <2>2. q * d = (a + 1) * d + (q - (a + 1)) * d /\ (q - (a + 1)) * d >= 0 /\ (a + 1) * d = a * d + d
    BY <1>2, <2>1
  <2>3. q * d >= a * d + d
    <3> DEFINE u == q * d
               v == (a + 1) * d
               w == (q - (a + 1)) * d
               x == a * d
    <3>1. u \in Int /\ v \in Int /\ w \in Int /\ x \in Int
      BY <1>2
    <3> HIDE DEF u, v, w, x
    <3>2. u = v + w /\ w >= 0 /\ v = x + d
      BY <2>2 DEF u, v, w, x
    <3>3. u >= x + d
      BY <3>1, <3>2
    <3> QED BY <3>3 DEF u, x
  <2> DEFINE u == q * d
             x == a * d
  <2>4. u \in Int /\ x \in Int
    BY <1>2
  <2>5. u >= x + d /\ u <= p /\ p <= x
    BY <1>1, <1>2, <2>3
  <2> HIDE DEF u, x
  <2> QED BY <1>1, <2>4, <2>5
<1> QED BY <1>1, <1>2, <1>3, <1>4 DEF p, q

-----------------------------------------------------------------------------
(* The fills.  What comes out is less than the reserve it is taken from,   *)
(* and what comes out when it is put back is no more than went in.         *)
LEMMA ProductFill ==
  ASSUME NEW rin \in Nat \ {0}, NEW rout \in Nat, NEW dx \in Nat
  PROVE  LET out == (rout * dx) \div (rin + dx)
         IN  /\ out \in Nat /\ out * (rin + dx) <= rout * dx
             /\ out <= rout /\ (rout > 0 => out < rout) /\ (dx = 0 => out = 0)
<1> DEFINE p == rout * dx
           s == rin + dx
           out == p \div s
<1>1. p \in Nat /\ s \in Nat \ {0} /\ (dx = 0 => p = 0)
  OBVIOUS
<1>2. rout * s = rout * rin + p /\ rout * rin \in Nat /\ (rout > 0 => rout * rin > 0)
  OBVIOUS
<1>3. out \in Nat /\ out * s <= p
  <2> HIDE DEF p, s
  <2> QED BY <1>1, QuotientIs
<1>4. p = 0 => out = 0
  <2> HIDE DEF p, s
  <2> QED BY <1>1
<1> HIDE DEF p, s, out
<1>5. ASSUME out > rout \/ (rout > 0 /\ out >= rout) PROVE FALSE
  <2> DEFINE u == out * s
             v == rout * s
             w == (out - rout) * s
             x == rout * rin
  <2>1. u = v + w /\ u \in Int /\ v \in Int /\ w \in Int /\ x \in Int
        /\ w >= 0 /\ (out > rout => w > 0)
    BY <1>1, <1>3, <1>5
  <2>2. v = x + p /\ u <= p /\ x >= 0 /\ (rout > 0 => x > 0)
    BY <1>2, <1>3
  <2> HIDE DEF u, v, w, x
  <2> QED BY <1>1, <1>5, <2>1, <2>2
<1>6. out <= rout /\ (rout > 0 => out < rout)
  BY <1>3, <1>5
<1> QED BY <1>1, <1>3, <1>4, <1>6 DEF p, s, out

LEMMA ThereAndBack ==
  ASSUME NEW rin \in Nat \ {0}, NEW rout \in Nat \ {0}, NEW dx \in Nat,
         NEW out \in Nat, out * (rin + dx) <= rout * dx,
         NEW d \in Nat, d <= out
  PROVE  (rin * d) \div (rout + d) <= dx
<1> DEFINE back == (rin * d) \div (rout + d)
<1>1. back \in Nat /\ back * (rout + d) <= rin * d
  BY ProductFill
<1> HIDE DEF back
<1>2. SUFFICES ASSUME back >= dx + 1 PROVE FALSE
  BY <1>1 DEF back
<1> DEFINE A == d * rin
           B == d * dx
           C == rout * dx
           E == (back - (dx + 1)) * (rout + d)
           F == (out - d) * (rin + dx)
<1>3. A \in Nat /\ B \in Nat /\ C \in Nat /\ E \in Int /\ F \in Int /\ E >= 0 /\ F >= 0
  BY <1>1, <1>2
<1>4. back * (rout + d) = E + C + B + rout + d
  BY <1>1
<1>5. out * (rin + dx) = F + A + B
  OBVIOUS
<1>6. rin * d = A
  OBVIOUS
<1>7. E + C + B + rout + d <= A /\ F + A + B <= C
  BY <1>1, <1>4, <1>5, <1>6
<1> HIDE DEF A, B, C, E, F
<1> QED BY <1>3, <1>7

LEMMA FillIs ==
  ASSUME NEW rin \in Nat, NEW rout \in Nat, NEW fee \in Nat, NEW amount \in Nat
  PROVE  LET out == FillConstantProduct(rin, rout, fee, amount)
         IN  /\ out \in Nat \cup {SimErr}
             /\ amount = 0 => out = 0
             /\ out > 0 => /\ out < rout
                           /\ \A given_back \in Nat : given_back <= out =>
                                FillConstantProduct(rout, rin, fee, given_back) <= amount
<1> DEFINE out == FillConstantProduct(rin, rout, fee, amount)
           dx == (amount * (FeeDenom - fee)) \div FeeDenom
<1>1. FeeDenom \in Nat \ {0}
  BY PricingConstants
<1>2. CASE amount = 0
  <2>1. out = 0
    BY <1>2 DEF FillConstantProduct
  <2> QED BY <2>1
<1>3. CASE amount > 0 /\ (rin = 0 \/ rout = 0 \/ fee >= FeeDenom)
  <2>1. out = SimErr
    BY <1>3 DEF FillConstantProduct
  <2> QED BY <1>3, <2>1 DEF SimErr
<1>4. CASE amount > 0 /\ ~ (rin = 0 \/ rout = 0 \/ fee >= FeeDenom)
  <2>1. rin \in Nat \ {0} /\ rout \in Nat \ {0} /\ FeeDenom - fee \in Nat /\ FeeDenom - fee <= FeeDenom
    BY <1>1, <1>4
  <2>2. out = (rout * dx) \div (rin + dx)
    <3>1. ~ (rin = 0 \/ rout = 0 \/ fee >= FeeDenom) /\ amount # 0
      BY <1>4
    <3> QED BY <3>1, Zenon DEF FillConstantProduct
  <2>3. dx \in Nat /\ dx <= amount
    <3> DEFINE m == FeeDenom - fee
    <3> HIDE DEF m
    <3>1. m \in Nat /\ m <= FeeDenom
      BY <2>1 DEF m
    <3>2. (amount * m) \div FeeDenom \in Nat /\ (amount * m) \div FeeDenom <= amount
      BY <1>1, <3>1, ShareIs
    <3> QED BY <3>2 DEF m
  <2> HIDE DEF dx, out
  <2>4. out \in Nat /\ out * (rin + dx) <= rout * dx /\ out < rout
    <3> DEFINE r == (rout * dx) \div (rin + dx)
    <3>1. r \in Nat /\ r * (rin + dx) <= rout * dx /\ r < rout
      <4>1. rin \in Nat \ {0} /\ rout \in Nat /\ dx \in Nat /\ rout > 0
        BY <2>1, <2>3
      <4> QED BY <4>1, ProductFill, Zenon
    <3>2. out = r
      BY <2>2
    <3> HIDE DEF r
    <3> QED BY <3>1, <3>2
  <2>5. ASSUME NEW b \in Nat, b <= out PROVE FillConstantProduct(rout, rin, fee, b) <= amount
    <3> DEFINE d == (b * (FeeDenom - fee)) \div FeeDenom
    <3>1. CASE b = 0
      <4>1. FillConstantProduct(rout, rin, fee, b) = 0
        BY <3>1 DEF FillConstantProduct
      <4> QED BY <4>1
    <3>2. CASE b > 0
      <4>1. ~ (rout = 0 \/ rin = 0 \/ fee >= FeeDenom) /\ b # 0
        BY <1>4, <3>2
      <4>2. FillConstantProduct(rout, rin, fee, b) = (rin * d) \div (rout + d)
        BY <4>1, Zenon DEF FillConstantProduct
      <4>3. d \in Nat /\ d <= b
        <5> DEFINE m == FeeDenom - fee
        <5> HIDE DEF m
        <5>1. m \in Nat /\ m <= FeeDenom
          BY <2>1 DEF m
        <5>2. (b * m) \div FeeDenom \in Nat /\ (b * m) \div FeeDenom <= b
          BY <1>1, <5>1, ShareIs
        <5> QED BY <5>2 DEF m
      <4> HIDE DEF d
      <4>4. d <= out
        BY <2>4, <2>5, <4>3
      <4>5. (rin * d) \div (rout + d) <= dx
        BY <2>1, <2>3, <2>4, <4>3, <4>4, ThereAndBack
      <4>6. (rin * d) \div (rout + d) \in Nat
        BY <2>1, <4>3, ProductFill
      <4> DEFINE back == (rin * d) \div (rout + d)
      <4> HIDE DEF back
      <4>7. back <= amount
        BY <2>3, <4>5, <4>6 DEF back
      <4> QED BY <4>2, <4>7 DEF back
    <3> QED BY <2>5, <3>1, <3>2
  <2>6. out > 0 \/ out = 0
    BY <2>4
  <2> QED BY <1>4, <2>4, <2>5 DEF out
<1> QED BY <1>2, <1>3, <1>4

LEMMA PoolIs ==
  ASSUME NEW p \in Snapshots
  PROVE  /\ p.rb \in Nat /\ p.rq \in Nat /\ p.fee \in Nat /\ p.sqrt \in Nat
         /\ p.x \in Nat /\ p.y \in Nat
BY ReplayConstants

LEMMA LegIs ==
  ASSUME NEW p \in Snapshots, NEW b2q, NEW amount \in Nat
  PROVE  /\ SimulateOneLeg(p, b2q, amount) \in Nat \cup {SimErr}
         /\ amount = 0 => SimulateOneLeg(p, b2q, amount) \in {0, SimErr}
<1> DEFINE Good(out) == out \in Nat \cup {SimErr} /\ (amount = 0 => out \in {0, SimErr})
<1>1. U64 \in Nat \ {0} /\ Q64 \in Nat \ {0} /\ MinSqrtPrice \in Nat \ {0}
  BY PricingConstants
<1>2. \A rin, rout \in Nat : Good(FillConstantProduct(rin, rout, p.fee, amount))
  BY PoolIs, FillIs
<1>3. \A rin, rout \in Nat : Good(FillMeteoraSingleBin(rin, rout, p.fee, amount))
  <2> DEFINE cast == amount % U64
  <2>1. cast \in Nat /\ (amount = 0 => cast = 0)
    BY <1>1
  <2> HIDE DEF cast
  <2>2. \A rin, rout \in Nat : Good(FillConstantProduct(rin, rout, p.fee, cast))
    BY <2>1, PoolIs, FillIs
  <2> HIDE DEF Good
  <2> QED BY <2>2, Zenon DEF FillMeteoraSingleBin, cast
<1>4. Good(FillOrcaSingleTick(p.sqrt, amount, p.fee))
  <2>1. CASE ValidSqrtPrice(p.sqrt)
    <3> DEFINE q == p.sqrt
    <3>1. q \in Nat
      BY PoolIs
    <3> HIDE DEF q
    <3>2. q * q \in Nat
      BY <3>1
    <3>3. (q * q) \div Q64 \in Nat
      <4> DEFINE s == q * q
      <4> HIDE DEF s
      <4>1. s \in Nat
        BY <3>2 DEF s
      <4>2. s \div Q64 \in Nat
        BY <1>1, <4>1, QuotientIs
      <4> QED BY <4>2 DEF s
    <3>4. VirtualReserve(q) \in Nat
      <4> DEFINE t == (q * q) \div Q64
      <4>1. VirtualReserve(q) = t \/ VirtualReserve(q) = q
        BY Zenon DEF VirtualReserve
      <4> HIDE DEF t
      <4> QED BY <3>1, <3>3, <4>1 DEF t
    <3>5. FillOrcaSingleTick(p.sqrt, amount, p.fee)
            = FillConstantProduct(Q64, VirtualReserve(q), p.fee, amount)
      BY <2>1, Zenon DEF FillOrcaSingleTick, q
    <3> HIDE DEF Good
    <3> QED BY <1>1, <1>2, <3>4, <3>5
  <2>2. CASE ~ ValidSqrtPrice(p.sqrt)
    <3>1. FillOrcaSingleTick(p.sqrt, amount, p.fee) = SimErr
      BY <2>2, Zenon DEF FillOrcaSingleTick
    <3> QED BY <3>1
  <2> QED BY <2>1, <2>2
<1> HIDE DEF Good
<1>5. Good(Fill(p, b2q, amount))
  <2>1. /\ Good(FillConstantProduct(p.rb, p.rq, p.fee, amount))
        /\ Good(FillConstantProduct(p.rq, p.rb, p.fee, amount))
        /\ Good(FillMeteoraSingleBin(p.x, p.y, p.fee, amount))
        /\ Good(FillMeteoraSingleBin(p.y, p.x, p.fee, amount))
    BY <1>2, <1>3, PoolIs
  <2>2. p.kind = "whirlpool" => p.kind # "raydium"
    OBVIOUS
  <2> QED BY <1>4, <2>1, <2>2 DEF Fill
<1>6. Good(SimErr)
  BY DEF Good
<1>7. SimulateOneLeg(p, b2q, amount) = Fill(p, b2q, amount) \/ SimulateOneLeg(p, b2q, amount) = SimErr
  BY Zenon DEF SimulateOneLeg
<1>8. Good(SimulateOneLeg(p, b2q, amount))
  BY <1>5, <1>6, <1>7
<1> QED BY <1>8, Zenon DEF Good

(* One pool of two reserves: there, and back with no more than came out. *)
LEMMA RoundTrip ==
  ASSUME NEW p \in Snapshots, p.kind # "whirlpool", NEW b2q \in BOOLEAN, NEW amount \in Nat
  PROVE  LET out == SimulateOneLeg(p, b2q, amount)
             held == IF p.kind = "raydium"
                     THEN IF b2q THEN p.rq ELSE p.rb
                     ELSE IF b2q THEN p.y ELSE p.x
         IN  out > 0 => out < held /\ SimulateOneLeg(p, ~b2q, out) <= amount
<1> DEFINE held == IF p.kind = "raydium" THEN IF b2q THEN p.rq ELSE p.rb
                   ELSE IF b2q THEN p.y ELSE p.x
           owned == IF p.kind = "raydium" THEN IF b2q THEN p.rb ELSE p.rq
                    ELSE IF b2q THEN p.x ELSE p.y
           out == SimulateOneLeg(p, b2q, amount)
<1>1. SUFFICES ASSUME out > 0 PROVE out < held /\ SimulateOneLeg(p, ~b2q, out) <= amount
  BY Zenon
<1>2. held \in Nat /\ owned \in Nat /\ p.fee \in Nat
  BY PoolIs
<1>3. U64 \in Nat \ {0}
  BY PricingConstants
<1>4. CASE p.fee > FeeDenom
  <2>1. out = SimErr
    BY <1>4, Zenon DEF SimulateOneLeg
  <2> QED BY <1>1, <2>1 DEF SimErr
<1>5. CASE ~ (p.fee > FeeDenom)
  <2>1. ASSUME NEW x PROVE /\ SimulateOneLeg(p, b2q, x) = Fill(p, b2q, x)
                           /\ SimulateOneLeg(p, ~b2q, x) = Fill(p, ~b2q, x)
    BY <1>5, Zenon DEF SimulateOneLeg
  <2>2. out = Fill(p, b2q, amount) /\ SimulateOneLeg(p, ~b2q, out) = Fill(p, ~b2q, out)
    BY <2>1
  <2>3. out \in Nat
    BY <1>1, LegIs DEF SimErr
  <2> HIDE DEF out
  <2>4. CASE p.kind = "raydium"
    <3>1. \A x : /\ Fill(p, b2q, x) = FillConstantProduct(owned, held, p.fee, x)
                 /\ Fill(p, ~b2q, x) = FillConstantProduct(held, owned, p.fee, x)
      BY <2>4 DEF Fill
    <3> HIDE DEF held, owned
    <3>2. out = FillConstantProduct(owned, held, p.fee, amount)
      BY <2>2, <3>1
    <3>3. out < held /\ FillConstantProduct(held, owned, p.fee, out) <= amount
      BY <1>1, <1>2, <2>3, <3>2, FillIs
    <3> QED BY <2>2, <3>1, <3>3
  <2>5. CASE p.kind # "raydium"
    <3> DEFINE cast == amount % U64
               back == out % U64
    <3>1. cast \in Nat /\ cast <= amount /\ back \in Nat /\ back <= out
      BY <1>3, <2>3
    <3>2. \A x : /\ Fill(p, b2q, x) = FillConstantProduct(owned, held, p.fee, x % U64)
                 /\ Fill(p, ~b2q, x) = FillConstantProduct(held, owned, p.fee, x % U64)
      BY <2>5 DEF Fill, FillMeteoraSingleBin
    <3> HIDE DEF held, owned
    <3>3. /\ out = FillConstantProduct(owned, held, p.fee, cast)
          /\ Fill(p, ~b2q, out) = FillConstantProduct(held, owned, p.fee, back)
      BY <2>2, <3>2
    <3> HIDE DEF cast, back
    <3>4. out < held /\ FillConstantProduct(held, owned, p.fee, back) <= cast
      BY <1>1, <1>2, <3>1, <3>3, FillIs
    <3>5. FillConstantProduct(held, owned, p.fee, back) \in Nat \cup {SimErr}
      BY <1>2, <3>1, FillIs
    <3>6. FillConstantProduct(held, owned, p.fee, back) <= amount
      BY <3>1, <3>4, <3>5 DEF SimErr
    <3> QED BY <2>2, <3>3, <3>4, <3>6
  <2> QED BY <2>4, <2>5 DEF out
<1> QED BY <1>4, <1>5

LEMMA RegistryIs ==
  ASSUME NEW pools \in Seq(Snapshots), NEW a \in DOMAIN Registry(pools)
  PROVE  Registry(pools)[a] \in Snapshots
<1> DEFINE N == Len(pools)
           T == {i \in DOMAIN pools : pools[i].address = a}
<1>1. N \in Nat /\ DOMAIN pools = 1..N /\ \A i \in 1..N : pools[i] \in Snapshots
  BY LenProperties, ElementOfSeq
<1>2. a \in {pools[i].address : i \in DOMAIN pools}
  BY Zenon DEF Registry
<1> DEFINE last == CHOOSE i \in DOMAIN pools : /\ pools[i].address = a
                                               /\ \A j \in DOMAIN pools : pools[j].address = a => j <= i
<1>3. T \in SUBSET (1..N) /\ T # {}
  BY <1>1, <1>2
<1>4. Max(T) \in T /\ \A j \in T : j <= Max(T)
  <2> HIDE DEF T, N
  <2> QED BY <1>1, <1>3, MaxIs
<1>5. \E i \in DOMAIN pools : /\ pools[i].address = a
                              /\ \A j \in DOMAIN pools : pools[j].address = a => j <= i
  BY <1>4
<1>6. last \in DOMAIN pools
  BY <1>5, Zenon
<1>7. Registry(pools)[a] = pools[last]
  BY <1>2, Zenon DEF Registry
<1> HIDE DEF last
<1> QED BY <1>1, <1>6, <1>7

(* What each leg keeps in D, the legs of a cycle keep in D. *)
LEMMA SimulateStays ==
  ASSUME NEW pools \in Seq(Snapshots), NEW l \in Nat, NEW legs, DOMAIN legs = 1..l,
         legs = [i \in 1..l |-> legs[i]], NEW D, NEW input \in D, SimErr \in D,
         \A x \in D \ {SimErr} : \A p \in Snapshots : \A b2q : SimulateOneLeg(p, b2q, x) \in D
  PROVE  SimulateCycle(legs, Registry(pools), input) \in D
<1> DEFINE registry == Registry(pools)
           Turn(x, leg) == IF x = SimErr \/ leg.pool \notin DOMAIN registry THEN SimErr
                           ELSE SimulateOneLeg(registry[leg.pool], leg.b2q, x)
           Step == [x \in D \X (1..l) |-> Turn(x[1], legs[x[2]])]
           Body(g, T) == IF T = {} THEN input ELSE Turn(g[T \ {Max(T)}], legs[Max(T)])
           c == CHOOSE g : g = [T \in SUBSET (DOMAIN legs) |-> Body(g, T)]
<1>1. ASSUME NEW x \in D, NEW leg PROVE Turn(x, leg) \in D
  <2>1. CASE x = SimErr \/ leg.pool \notin DOMAIN registry
    <3>1. Turn(x, leg) = SimErr
      BY <2>1, Zenon
    <3> QED BY <3>1
  <2>2. CASE ~ (x = SimErr \/ leg.pool \notin DOMAIN registry)
    <3>1. registry[leg.pool] \in Snapshots
      BY <2>2, RegistryIs
    <3>2. x \in D \ {SimErr}
      BY <1>1, <2>2
    <3>3. Turn(x, leg) = SimulateOneLeg(registry[leg.pool], leg.b2q, x)
      BY <2>2, Zenon
    <3> HIDE DEF Turn, registry
    <3> QED BY <3>1, <3>2, <3>3
  <2> QED BY <2>1, <2>2
<1>2. Step \in [D \X (1..l) -> D]
  <2> HIDE DEF Turn
  <2> QED BY <1>1
<1>3. PICK g : Folds(g, l, D, input, Step)
  <2> HIDE DEF Step
  <2> QED BY <1>2, FoldExists
<1>4. g = [T \in SUBSET (1..l) |-> Body(g, T)]
  <2>1. ASSUME NEW T \in SUBSET (1..l), T # {}
        PROVE  Step[<<g[T \ {Max(T)}], Max(T)>>] = Body(g, T)
    <3>1. Max(T) \in 1..l
      BY <2>1, MaxIs
    <3>2. T \ {Max(T)} \in SUBSET (1..l)
      OBVIOUS
    <3>3. g[T \ {Max(T)}] \in D
      BY <1>3, <3>2 DEF Folds
    <3> HIDE DEF Turn
    <3> QED BY <2>1, <3>1, <3>3
  <2>2. \A T \in SUBSET (1..l) : (IF T = {} THEN input ELSE Step[<<g[T \ {Max(T)}], Max(T)>>]) = Body(g, T)
    <3> HIDE DEF Step, Turn
    <3> QED BY <2>1
  <2> HIDE DEF Step, Body
  <2> QED BY <1>3, <2>2 DEF Folds
<1>5. c = [T \in SUBSET (1..l) |-> Body(c, T)]
  <2> HIDE DEF Body
  <2>1. c = [T \in SUBSET (DOMAIN legs) |-> Body(c, T)]
    BY <1>4, Zenon
  <2> QED BY <2>1
<1>6. SimulateCycle(legs, registry, input) \in {SimErr, c[1..l]}
  <2> HIDE DEF registry
  <2>1. FoldLeft(Turn, input, legs) = c[1..l]
    BY Zenon DEF FoldLeft, MapThenFoldSet
  <2>2. SimulateCycle(legs, registry, input) = IF Len(legs) > MaxCycleLegs THEN SimErr
                                               ELSE FoldLeft(Turn, input, legs)
    BY Zenon DEF SimulateCycle
  <2> HIDE DEF c, Turn
  <2> QED BY <2>1, <2>2
<1> HIDE DEF c
<1>7. \A T \in SUBSET (1..l) : c[T] = Body(c, T)
  <2> HIDE DEF Body
  <2> QED BY <1>5
<1> DEFINE Q == {i \in Nat : i <= l => c[1..i] \in D}
<1>8. 0 \in Q
  <2>1. 1..0 = {} /\ {} \in SUBSET (1..l)
    OBVIOUS
  <2>2. c[1..0] = input
    BY <1>7, <2>1
  <2> QED BY <2>2
<1>9. ASSUME NEW i \in Nat, i \in Q PROVE i + 1 \in Q
  <2>1. SUFFICES ASSUME i + 1 <= l PROVE c[1..i + 1] \in D
    OBVIOUS
  <2>2. c[1..i] \in D /\ i + 1 \in 1..l /\ (i + 1) - 1 = i
    BY <1>9, <2>1
  <2>3. /\ 1..i + 1 \in SUBSET (1..l) /\ 1..i + 1 # {} /\ Max(1..i + 1) = i + 1
        /\ (1..i + 1) \ {Max(1..i + 1)} = 1..i
    BY <2>2, MaxOfFirst
  <2>4. c[1..i + 1] = Turn(c[1..i], legs[i + 1])
    <3> HIDE DEF Turn
    <3> QED BY <1>7, <2>3
  <2> HIDE DEF Turn
  <2> QED BY <1>1, <2>2, <2>4
<1>10. l \in Q
  <2> HIDE DEF Q
  <2> QED BY <1>8, <1>9, Induct
<1> QED BY <1>6, <1>10

-----------------------------------------------------------------------------
(* The search for the input stays between nothing and the limit: the       *)
(* offset of a span lies between zero and the span, on either side of zero. *)
LEMMA OffsetIs ==
  ASSUME NEW x \in Int
  PROVE  /\ Offset(x) \in Int
         /\ x >= 0 => Offset(x) \in 0..x
         /\ x <= 0 => Offset(x) \in x..0
<1>1. PhiDen \in Nat \ {0} /\ PhiNum \in Nat /\ PhiNum <= PhiDen
  BY PricingConstants
<1> DEFINE p == x * PhiNum
           q == p \div PhiDen
<1>2. p \in Int
  BY <1>1
<1>3. q \in Int /\ p = q * PhiDen + (p % PhiDen) /\ p % PhiDen \in 0..(PhiDen - 1)
  <2> HIDE DEF p
  <2> QED BY <1>1, <1>2
<1>4. CASE x >= 0
  <2>1. q \in Nat /\ q <= x
    BY <1>1, <1>4, ShareIs
  <2>2. Offset(x) = q
    BY DEF Offset
  <2> HIDE DEF q
  <2>3. x = 0 => q = 0
    BY <2>1
  <2> QED BY <1>4, <2>1, <2>2, <2>3
<1>5. CASE x <= 0
  <2> DEFINE y == -x
             r == p % PhiDen
             u == y * PhiNum
             v == y * PhiDen
             w == q * PhiDen
  <2>1. y \in Nat /\ u \in Nat /\ v \in Nat /\ u <= v /\ p = -u
    <3>1. y \in Nat /\ u \in Nat /\ v \in Nat
      BY <1>1, <1>5
    <3>2. v = u + y * (PhiDen - PhiNum) /\ y * (PhiDen - PhiNum) >= 0
      BY <1>1, <1>5
    <3>3. p = -u
      BY <1>1
    <3> DEFINE z == y * (PhiDen - PhiNum)
    <3>4. z \in Int
      BY <1>1, <3>1
    <3>5. v = u + z /\ z >= 0
      BY <3>2
    <3> HIDE DEF u, v, z
    <3>6. u <= v
      BY <3>1, <3>4, <3>5
    <3> QED BY <3>1, <3>3, <3>6
  <2>2. q <= 0
    <3>1. SUFFICES ASSUME q >= 1 PROVE FALSE
      BY <1>3
    <3>2. w = PhiDen + (q - 1) * PhiDen /\ (q - 1) * PhiDen >= 0
      <4> HIDE DEF q
      <4> QED BY <1>1, <1>3, <3>1
    <3>3. w >= PhiDen /\ w \in Int
      <4> DEFINE z == (q - 1) * PhiDen
      <4>1. z \in Int /\ w \in Int /\ w = PhiDen + z /\ z >= 0
        <5> HIDE DEF q
        <5> QED BY <1>1, <1>3, <3>2
      <4> HIDE DEF z, w
      <4> QED BY <1>1, <4>1
    <3>4. p = w + r /\ r \in 0..(PhiDen - 1)
      BY <1>3
    <3> HIDE DEF p, w, r, u
    <3> QED BY <1>1, <2>1, <3>3, <3>4
  <2>3. q >= x
    <3>1. SUFFICES ASSUME q <= x - 1 PROVE FALSE
      BY <1>3
    <3> DEFINE e == x - 1 - q
               z == e * PhiDen
    <3>2. e \in Nat /\ z \in Nat /\ w \in Int /\ w = -v - PhiDen - z
      <4> HIDE DEF q
      <4>1. e \in Nat
        BY <1>3, <3>1
      <4>2. z \in Nat /\ w \in Int
        BY <1>1, <1>3, <4>1
      <4>3. w = (x - 1 - e) * PhiDen
        BY <1>3
      <4>4. (x - 1 - e) * PhiDen = -((-x) * PhiDen) - PhiDen - e * PhiDen
        <5> HIDE DEF e
        <5> QED BY <1>1, <4>1
      <4> QED BY <4>1, <4>2, <4>3, <4>4
    <3>3. p = w + r /\ r \in 0..(PhiDen - 1)
      BY <1>3
    <3> HIDE DEF p, w, r, u, v, z
    <3> QED BY <1>1, <2>1, <3>2, <3>3
  <2>4. Offset(x) = q
    BY DEF Offset
  <2> HIDE DEF q
  <2> QED BY <1>3, <1>5, <2>2, <2>3, <2>4
<1> QED BY <1>4, <1>5

Brackets(max) == [lo : 0..max, hi : 0..max, m1 : 0..max, m2 : 0..max]

LEMMA BracketStays ==
  ASSUME NEW max \in Nat, NEW s \in Brackets(max), NEW f PROVE Narrow(s, f) \in Brackets(max)
<1> DEFINE a == s.m1 + Offset(s.hi - s.m1)
           b == s.m2 - Offset(s.m2 - s.lo)
<1>1. s.lo \in 0..max /\ s.hi \in 0..max /\ s.m1 \in 0..max /\ s.m2 \in 0..max
  BY DEF Brackets
<1>2. a \in 0..max
  <2> DEFINE x == s.hi - s.m1
             o == Offset(x)
  <2>1. x \in Int /\ o \in Int /\ (x >= 0 => o \in 0..x) /\ (x <= 0 => o \in x..0)
    BY <1>1, OffsetIs
  <2> HIDE DEF o
  <2>2. s.m1 + o \in 0..max
    BY <1>1, <2>1
  <2> QED BY <2>2 DEF o
<1>3. b \in 0..max
  <2> DEFINE x == s.m2 - s.lo
             o == Offset(x)
  <2>1. x \in Int /\ o \in Int /\ (x >= 0 => o \in 0..x) /\ (x <= 0 => o \in x..0)
    BY <1>1, OffsetIs
  <2> HIDE DEF o
  <2>2. s.m2 - o \in 0..max
    BY <1>1, <2>1
  <2> QED BY <2>2 DEF o
<1>4. \/ Narrow(s, f) = [lo |-> s.m1, hi |-> s.hi, m1 |-> s.m2, m2 |-> a]
      \/ Narrow(s, f) = [lo |-> s.lo, hi |-> s.m2, m2 |-> s.m1, m1 |-> b]
  BY Zenon DEF Narrow
<1> HIDE DEF a, b
<1> QED BY <1>1, <1>2, <1>3, <1>4 DEF Brackets

LEMMA GoldenIs ==
  ASSUME NEW max \in Nat, NEW f
  PROVE  /\ Golden(f, max).lo \in 0..max /\ Golden(f, max).m1 \in 0..max
         /\ Golden(f, max).m2 \in 0..max
<1> DEFINE first == [lo |-> 0, hi |-> max, m1 |-> Offset(max), m2 |-> max - Offset(max)]
           Turn(s) == IF s.hi - s.lo <= max \div Tolerance THEN s ELSE Narrow(s, f)
           Body(g, n) == IF n = 0 THEN first ELSE Turn(g[n - 1])
           Right(g, k) == \A n \in 0..MaxIters : n <= k => g[n] = Body(g, n)
           S == {k \in Nat : \E g : Right(g, k)}
           turn == CHOOSE g : g = [n \in 0..MaxIters |-> Body(g, n)]
           last == turn[MaxIters]
<1>1. MaxIters \in Nat
  BY PricingConstants
<1>2. first \in Brackets(max)
  <2> DEFINE o == Offset(max)
  <2>1. o \in 0..max
    BY OffsetIs
  <2> HIDE DEF o
  <2>2. 0 \in 0..max /\ max \in 0..max /\ max - o \in 0..max
    BY <2>1
  <2> QED BY <2>1, <2>2 DEF Brackets, o
<1>3. \A s \in Brackets(max) : Turn(s) \in Brackets(max)
  BY BracketStays
<1> HIDE DEF first, Turn
<1>4. 0 \in S
  <2> DEFINE g == [n \in 0..MaxIters |-> first]
  <2>1. Right(g, 0)
    BY <1>1
  <2> HIDE DEF g, Right
  <2> QED BY <2>1
<1>5. ASSUME NEW k \in Nat, k \in S PROVE k + 1 \in S
  <2>1. PICK g : Right(g, k)
    BY <1>5
  <2> DEFINE h == [n \in 0..MaxIters |-> Body(g, n)]
  <2>2. \A n \in 0..MaxIters : h[n] = Body(g, n)
    OBVIOUS
  <2> HIDE DEF h
  <2>3. ASSUME NEW n \in 0..MaxIters, n <= k + 1 PROVE h[n] = Body(h, n)
    <3>1. CASE n = 0
      BY <2>2, <3>1
    <3>2. CASE n # 0
      <4>1. n - 1 \in 0..MaxIters /\ n - 1 <= k
        BY <1>1, <2>3, <3>2
      <4> DEFINE j == n - 1
      <4>2. h[j] = Body(g, j) /\ g[j] = Body(g, j)
        <5> HIDE DEF Body, j
        <5> QED BY <2>1, <2>2, <4>1 DEF j
      <4>3. h[n - 1] = g[n - 1]
        <5> HIDE DEF Body
        <5> QED BY <4>2
      <4> QED BY <2>2, <3>2, <4>3
    <3> QED BY <3>1, <3>2
  <2>4. Right(h, k + 1)
    <3> HIDE DEF Body
    <3> QED BY <2>3
  <2> HIDE DEF Right
  <2> QED BY <2>4
<1>6. turn = [n \in 0..MaxIters |-> Body(turn, n)]
  <2>1. MaxIters \in S
    <3> HIDE DEF S
    <3> QED BY <1>1, <1>4, <1>5, Induct
  <2>2. PICK g : Right(g, MaxIters)
    BY <2>1
  <2> DEFINE w == [n \in 0..MaxIters |-> g[n]]
  <2>3. \A n \in 0..MaxIters : w[n] = g[n]
    OBVIOUS
  <2>4. w = [n \in 0..MaxIters |-> w[n]]
    OBVIOUS
  <2> HIDE DEF w
  <2>5. ASSUME NEW n \in 0..MaxIters PROVE w[n] = Body(w, n)
    <3>1. g[n] = Body(g, n)
      <4> HIDE DEF Body
      <4> QED BY <1>1, <2>2
    <3>2. n # 0 => w[n - 1] = g[n - 1]
      BY <1>1, <2>3
    <3>3. Body(w, n) = Body(g, n)
      BY <3>2
    <3> HIDE DEF Body
    <3> QED BY <2>3, <3>1, <3>3
  <2>6. w = [n \in 0..MaxIters |-> Body(w, n)]
    <3> HIDE DEF Body
    <3> QED BY <2>4, <2>5, Zenon
  <2> HIDE DEF Body
  <2> QED BY <2>6, Zenon
<1>7. Golden(f, max) = [last EXCEPT !.lo = (last.lo + last.hi) \div 2]
  BY Zenon DEF Golden, first, Turn
<1> HIDE DEF turn
<1>8. \A n \in 0..MaxIters : turn[n] = Body(turn, n)
  <2> HIDE DEF Body
  <2> QED BY <1>6
<1> DEFINE Q == {n \in Nat : n <= MaxIters => turn[n] \in Brackets(max)}
<1>9. 0 \in Q
  BY <1>1, <1>2, <1>8
<1>10. ASSUME NEW n \in Nat, n \in Q PROVE n + 1 \in Q
  <2>1. SUFFICES ASSUME n + 1 <= MaxIters PROVE turn[n + 1] \in Brackets(max)
    OBVIOUS
  <2>2. turn[n] \in Brackets(max) /\ n + 1 \in 0..MaxIters /\ n + 1 # 0 /\ (n + 1) - 1 = n
    BY <1>1, <1>10, <2>1
  <2>3. turn[n + 1] = Turn(turn[n])
    BY <1>8, <2>2
  <2> QED BY <1>3, <2>2, <2>3
<1>11. last \in Brackets(max)
  <2>1. MaxIters \in Q
    <3> HIDE DEF Q
    <3> QED BY <1>1, <1>9, <1>10, Induct
  <2> QED BY <1>1, <2>1
<1> HIDE DEF last
<1>12. /\ last.lo \in 0..max /\ last.hi \in 0..max /\ last.m1 \in 0..max /\ last.m2 \in 0..max
       /\ last = [lo |-> last.lo, hi |-> last.hi, m1 |-> last.m1, m2 |-> last.m2]
  BY <1>11 DEF Brackets
<1>13. (last.lo + last.hi) \div 2 \in 0..max
  BY <1>12
<1> DEFINE mid == (last.lo + last.hi) \div 2
<1> HIDE DEF mid
<1>14. Golden(f, max).lo = mid /\ Golden(f, max).m1 = last.m1 /\ Golden(f, max).m2 = last.m2
  BY <1>7, <1>12 DEF mid
<1> QED BY <1>12, <1>13, <1>14 DEF mid

(* The input of a search that ends in a trade. *)
LEMMA SizingIs ==
  ASSUME NEW legs, NEW registry, NEW cost, NEW max \in Nat
  PROVE  LET sizing == FindOptimalInput(legs, registry, cost, max)
         IN  sizing.trade => sizing.amount \in 0..max
<1> DEFINE out == [i \in 0..max |-> SimulateCycle(legs, registry, i)]
           f == [i \in 0..max |-> out[i] - i - TotalCost(cost)]
           best == BestOf(f, Golden(f, max))
           sizing == FindOptimalInput(legs, registry, cost, max)
           fails == max > 0 /\ \E i \in {0, max, max \div 2} : out[i] = SimErr
           flat == max > 0 /\ \A i \in {0, max, max \div 2} : out[i] # SimErr /\ f[i] <= 0
           least == Bigger(f[0], Bigger(f[max], f[max \div 2]))
           taken == [trade |-> TRUE, amount |-> best.amount, net |-> best.net, fails |-> FALSE]
<1>1. sizing = CASE max = 0 -> NoTrade(0)
                 [] fails -> Failed
                 [] flat -> NoTrade(least)
                 [] OTHER -> IF best.net > 0 THEN taken ELSE NoTrade(best.net)
  BY Zenon DEF FindOptimalInput
<1>2. (max = 0 => ~fails /\ ~flat) /\ ~ (fails /\ flat)
  <2>1. max = 0 => ~ (max > 0)
    OBVIOUS
  <2> HIDE DEF out, f
  <2> QED BY <2>1, Zenon
<1>3. best.amount \in 0..max
  <2> DEFINE s == Golden(f, max)
  <2>1. s.lo \in 0..max /\ s.m1 \in 0..max /\ s.m2 \in 0..max
    <3> HIDE DEF f
    <3> QED BY GoldenIs
  <2> HIDE DEF s, f
  <2>2. best.amount \in {s.lo, s.m1, s.m2}
    BY DEF BestOf, s
  <2> QED BY <2>1, <2>2
<1> HIDE DEF fails, flat, best, least, sizing
<1>4. sizing = taken \/ \E x : sizing = NoTrade(x) \/ sizing = Failed
  BY <1>1, <1>2
<1>5. \A x : NoTrade(x).trade = FALSE /\ Failed.trade = FALSE
  BY DEF NoTrade, Failed
<1>6. sizing = taken => sizing.amount = best.amount
  OBVIOUS
<1> QED BY <1>3, <1>4, <1>5, <1>6 DEF sizing

-----------------------------------------------------------------------------
(* The expected value is no more than the net profit it is taken from, and *)
(* positive only when that exceeds what failed attempts are to cost.       *)
LEMMA TotalMsIs == ASSUME NEW s \in Seq(Nat) PROVE TotalMs(s) \in Nat
<1> DEFINE N == Len(s)
           Step == [p \in Nat \X (1..N) |-> p[1] + s[p[2]]]
           Body(g, T) == IF T = {} THEN 0 ELSE g[T \ {Max(T)}] + s[Max(T)]
           c == CHOOSE g : g = [T \in SUBSET (DOMAIN s) |-> Body(g, T)]
<1>1. N \in Nat /\ DOMAIN s = 1..N /\ \A i \in 1..N : s[i] \in Nat
  BY LenProperties, ElementOfSeq
<1>2. Step \in [Nat \X (1..N) -> Nat]
  BY <1>1
<1>3. PICK g : Folds(g, N, Nat, 0, Step)
  <2>1. N \in Nat /\ 0 \in Nat
    BY <1>1
  <2> HIDE DEF Step, N
  <2> QED BY <1>2, <2>1, FoldExists
<1>4. g = [T \in SUBSET (1..N) |-> Body(g, T)]
  <2>1. ASSUME NEW T \in SUBSET (1..N), T # {}
        PROVE  Step[<<g[T \ {Max(T)}], Max(T)>>] = Body(g, T)
    <3>1. Max(T) \in 1..N
      BY <1>1, <2>1, MaxIs
    <3>2. T \ {Max(T)} \in SUBSET (1..N)
      OBVIOUS
    <3>3. g[T \ {Max(T)}] \in Nat
      BY <1>3, <3>2 DEF Folds
    <3> QED BY <2>1, <3>1, <3>3
  <2>2. \A T \in SUBSET (1..N) : (IF T = {} THEN 0 ELSE Step[<<g[T \ {Max(T)}], Max(T)>>]) = Body(g, T)
    <3> HIDE DEF Step
    <3> QED BY <2>1
  <2> HIDE DEF Step, Body
  <2> QED BY <1>3, <2>2 DEF Folds
<1>5. c = [T \in SUBSET (1..N) |-> Body(c, T)]
  <2> HIDE DEF Body
  <2>1. c = [T \in SUBSET (DOMAIN s) |-> Body(c, T)]
    BY <1>1, <1>4, Zenon
  <2> QED BY <1>1, <2>1
<1>6. TotalMs(s) = c[1..N]
  BY <1>1, Zenon DEF TotalMs, FoldLeft, MapThenFoldSet
<1> HIDE DEF c
<1>7. \A T \in SUBSET (1..N) : c[T] = Body(c, T)
  <2> HIDE DEF Body
  <2> QED BY <1>5
<1> DEFINE S == {i \in Nat : i <= N => c[1..i] \in Nat}
<1>8. 0 \in S
  <2>1. 1..0 = {} /\ {} \in SUBSET (1..N)
    OBVIOUS
  <2>2. c[1..0] = 0
    BY <1>7, <2>1
  <2> QED BY <2>2
<1>9. ASSUME NEW i \in Nat, i \in S PROVE i + 1 \in S
  <2>1. SUFFICES ASSUME i + 1 <= N PROVE c[1..i + 1] \in Nat
    OBVIOUS
  <2>2. c[1..i] \in Nat /\ i + 1 \in 1..N /\ (i + 1) - 1 = i
    BY <1>1, <1>9, <2>1
  <2>3. /\ 1..i + 1 \in SUBSET (1..N) /\ 1..i + 1 # {} /\ Max(1..i + 1) = i + 1
        /\ (1..i + 1) \ {Max(1..i + 1)} = 1..i
    BY <1>1, <2>2, MaxOfFirst
  <2>4. c[1..i + 1] = c[1..i] + s[i + 1]
    BY <1>7, <2>3
  <2> QED BY <1>1, <2>2, <2>4
<1>10. N \in S
  <2> HIDE DEF S
  <2> QED BY <1>1, <1>8, <1>9, Induct
<1> QED BY <1>1, <1>6, <1>10

LEMMA CombineIs ==
  ASSUME NEW p \in 0..Certain, NEW q \in 0..Certain PROVE Combine(p, q) \in 0..Certain
<1>1. Certain \in Nat \ {0} /\ p \in Nat /\ q \in Nat /\ q <= Certain /\ p <= Certain
  BY PricingConstants
<1>2. (p * q) \div Certain \in Nat /\ (p * q) \div Certain <= p
  BY <1>1, ShareIs
<1> DEFINE r == (p * q) \div Certain
<1>3. Combine(p, q) = r
  BY DEF Combine
<1>4. r \in Nat /\ r <= p
  BY <1>2
<1> HIDE DEF r
<1> QED BY <1>1, <1>3, <1>4

LEMMA HaircutIs ==
  ASSUME NEW p, EvalParams(p), NEW net, net.bps \in Int
  PROVE  Haircut(net, p) \in 0..Certain
<1> DEFINE c == p.competition
           l == p.landing
           total == TotalMs(p.latency)
<1>1. Certain \in Nat
  BY PricingConstants
<1>2. /\ p.detect \in 0..Certain /\ c.threshold \in Int /\ c.base \in Nat /\ c.decay \in Nat
      /\ p.latency \in Seq(Nat) /\ l.grace \in Nat /\ l.decay \in Nat
  BY DEF EvalParams
<1>3. PWin(net.bps, c) \in 0..Certain
  <2> DEFINE x == c.base - (net.bps - c.threshold) * c.decay
  <2>1. x \in Int
    BY <1>2
  <2>2. \/ PWin(net.bps, c) = Smaller(c.base, Certain)
        \/ PWin(net.bps, c) = Smaller(Bigger(x, 0), Certain)
    BY Zenon DEF PWin
  <2> HIDE DEF x, c
  <2>3. Smaller(Bigger(x, 0), Certain) \in 0..Certain /\ Smaller(c.base, Certain) \in 0..Certain
    BY <1>1, <1>2, <2>1 DEF Smaller, Bigger
  <2> QED BY <2>2, <2>3
<1>4. PLand(p.latency, l) \in 0..Certain
  <2>1. total \in Nat
    BY <1>2, TotalMsIs
  <2>2. PLand(p.latency, l) = IF total <= l.grace THEN Certain
                              ELSE Bigger(Certain - (total - l.grace) * l.decay, 0)
    BY Zenon DEF PLand
  <2> HIDE DEF total, l
  <2>3. CASE total <= l.grace
    BY <1>1, <2>2, <2>3
  <2>4. CASE ~ (total <= l.grace)
    <3> DEFINE late == total - l.grace
               loss == late * l.decay
    <3>1. late \in Nat
      BY <1>2, <2>1, <2>4
    <3>2. loss \in Nat
      <4> HIDE DEF late
      <4> QED BY <1>2, <3>1
    <3>3. PLand(p.latency, l) = Bigger(Certain - loss, 0)
      BY <2>2, <2>4
    <3> HIDE DEF loss
    <3> QED BY <1>1, <3>2, <3>3 DEF Bigger
  <2> QED BY <2>3, <2>4
<1>5. Combine(p.detect, PWin(net.bps, c)) \in 0..Certain
  BY <1>2, <1>3, CombineIs
<1>6. Combine(Combine(p.detect, PWin(net.bps, c)), PLand(p.latency, l)) \in 0..Certain
  BY <1>4, <1>5, CombineIs
<1> QED BY <1>6, Zenon DEF Haircut

LEMMA TotalCostIs == TotalCost(Cost) \in Nat
<1>1. /\ Cost.signatures \in Nat /\ Cost.cu \in Nat /\ Cost.price \in Nat /\ Cost.tip \in Nat
  BY ReplayConstants
<1>2. PriorityScale \in Nat \ {0} /\ TipFeeDenom \in Nat \ {0} /\ BaseSigFee \in Nat /\ TipFeeBps \in Nat
  BY PricingConstants
<1> DEFINE a == BaseSigFee * Cost.signatures
           b == Cost.cu * Cost.price
           d == Cost.tip * TipFeeBps
           q == b \div PriorityScale
           r == d \div TipFeeDenom
<1>3. a \in Nat /\ b \in Nat /\ d \in Nat
  BY <1>1, <1>2
<1>4. q \in Nat /\ r \in Nat
  <2> HIDE DEF b, d
  <2> QED BY <1>2, <1>3, QuotientIs
<1>5. TotalCost(Cost) = a + q + Cost.tip + r
  BY Zenon DEF TotalCost
<1> HIDE DEF a, q, r
<1> QED BY <1>1, <1>3, <1>4, <1>5

LEMMA GainCovers ==
  ASSUME NEW input \in Nat, NEW gross \in Nat,
         EvaluateOne(NetProfit(input, gross, Cost), Conservative) > 0
  PROVE  gross > input + TotalCost(Cost) + ExpectedFailedCost(Conservative.failed)
<1> DEFINE net == NetProfit(input, gross, Cost)
           v == gross - input - TotalCost(Cost)
           h == Haircut(net, Conservative)
           failed == ExpectedFailedCost(Conservative.failed)
           tip == Conservative.tip * h
           cut_tip == tip \div Certain
           applied == ApplyTo(h, v)
<1>1. Certain \in Nat \ {0} /\ TotalCost(Cost) \in Nat
  BY PricingConstants, TotalCostIs
<1>2. v \in Int
  BY <1>1
<1>3. net.net = v /\ net.bps \in Int
  <2> DEFINE bps == IF input = 0 THEN 0 ELSE IF v >= 0 THEN (v * 10000) \div input
                    ELSE -((-v * 10000) \div input)
  <2>1. bps \in Int
    <3> HIDE DEF v
    <3>1. CASE input = 0
      BY <3>1
    <3>2. CASE input # 0
      <4>1. input \in Nat \ {0} /\ v * 10000 \in Int /\ -v * 10000 \in Int
        BY <1>2, <3>2
      <4> DEFINE a == v * 10000
                 b == -v * 10000
      <4> HIDE DEF a, b
      <4>2. a \div input \in Int /\ b \div input \in Int
        BY <4>1 DEF a, b
      <4>3. bps = a \div input \/ bps = -(b \div input)
        BY <3>2 DEF a, b
      <4> DEFINE x == a \div input
                 y == b \div input
      <4> HIDE DEF x, y, bps
      <4>4. x \in Int /\ y \in Int /\ (bps = x \/ bps = -y)
        BY <4>2, <4>3 DEF x, y
      <4> QED BY <4>4
    <3> QED BY <3>1, <3>2
  <2>2. net = [input |-> input, gross |-> gross, net |-> v, profitable |-> v > 0, bps |-> bps]
    BY DEF NetProfit
  <2> HIDE DEF bps, v, net
  <2> QED BY <2>1, <2>2
<1>4. EvalParams(Conservative)
  BY ReplayConstants
<1>5. h \in 0..Certain
  <2> HIDE DEF net
  <2> QED BY <1>3, <1>4, HaircutIs
<1>6. failed \in Nat /\ cut_tip \in Nat
  <2>1. Conservative.failed.attempts \in Nat /\ Conservative.failed.each \in Nat
        /\ Conservative.tip \in Nat
    BY <1>4 DEF EvalParams
  <2>2. failed \in Nat
    BY <2>1 DEF ExpectedFailedCost
  <2> HIDE DEF h
  <2>3. tip \in Nat
    BY <1>1, <1>5, <2>1
  <2> HIDE DEF tip
  <2>4. cut_tip \in Nat
    BY <1>1, <2>3, QuotientIs
  <2> QED BY <2>2, <2>4
<1>7. EvaluateOne(net, Conservative) = applied - failed - cut_tip
  BY <1>3 DEF EvaluateOne
<1> HIDE DEF h, v, net, failed, cut_tip
<1>8. applied \in Int /\ (v >= 0 => applied <= v) /\ (v < 0 => applied <= 0)
  <2>1. CASE v >= 0
    <3>1. h \in Nat /\ h <= Certain /\ v \in Nat
      BY <1>1, <1>2, <1>5, <2>1
    <3>2. (v * h) \div Certain \in Nat /\ (v * h) \div Certain <= v
      BY <1>1, <3>1, ShareIs
    <3>3. applied = (v * h) \div Certain
      BY <1>2, <2>1 DEF ApplyTo
    <3> DEFINE x == (v * h) \div Certain
    <3> HIDE DEF x, applied
    <3> QED BY <2>1, <3>1, <3>2, <3>3 DEF x
  <2>2. CASE v < 0
    <3> DEFINE x == -v * h
               y == x \div Certain
    <3>1. x \in Nat
      BY <1>1, <1>2, <1>5, <2>2
    <3>2. applied = -y
      BY <2>2 DEF ApplyTo
    <3>3. y \in Nat
      <4> HIDE DEF x
      <4> QED BY <1>1, <3>1, QuotientIs
    <3> HIDE DEF y, applied
    <3> QED BY <1>2, <2>2, <3>2, <3>3
  <2> QED BY <1>2, <2>1, <2>2
<1> HIDE DEF applied
<1>9. applied - failed - cut_tip > 0
  BY <1>7 DEF net
<1>10. v > failed
  BY <1>2, <1>6, <1>8, <1>9
<1> QED BY <1>1, <1>6, <1>10 DEF v, failed

-----------------------------------------------------------------------------
LEMMA RecordPays ==
  ASSUME NEW pools \in Seq(Snapshots), NEW seq, NEW cycle, NEW l \in Nat,
         DOMAIN cycle.legs = 1..l, cycle.legs = [i \in 1..l |-> cycle.legs[i]],
         EvaluateCycle(seq, cycle, Registry(pools)).ok,
         EvaluateCycle(seq, cycle, Registry(pools)).entry.decision = "WouldTrade"
  PROVE  LET e == EvaluateCycle(seq, cycle, Registry(pools)).entry
         IN  /\ e.net.input \in 1..MaxInput
             /\ SimulateCycle(cycle.legs, Registry(pools), e.net.input)
                   > e.net.input + TotalCost(Cost) + ExpectedFailedCost(Conservative.failed)
<1> DEFINE registry == Registry(pools)
           sizing == FindOptimalInput(cycle.legs, registry, Cost, MaxInput)
           input == Sized(cycle, registry)
           gross == Returned(cycle, registry)
           net == NetOf(cycle, registry)
           outcome == Evaluate(net, Optimistic, Conservative)
           entry == EvaluateCycle(seq, cycle, registry).entry
           extra == TotalCost(Cost) + ExpectedFailedCost(Conservative.failed)
<1>1. entry = Entry(seq, cycle.legs, net, outcome) /\ gross # SimErr
  BY EvaluatedIs
<1>2. MaxInput \in Nat
  BY ReplayConstants
<1>3. input \in 0..MaxInput
  <2>1. sizing.trade => sizing.amount \in 0..MaxInput
    BY <1>2, SizingIs
  <2>2. input = IF sizing.trade THEN sizing.amount ELSE MaxInput \div 2
    BY Zenon DEF InputOf, Sized
  <2> HIDE DEF sizing
  <2>3. MaxInput \div 2 \in 0..MaxInput
    BY <1>2
  <2> QED BY <2>1, <2>2, <2>3
<1>4. gross \in Nat
  <2> DEFINE D == Nat \cup {SimErr}
  <2>1. input \in D /\ SimErr \in D
    BY <1>3
  <2>2. \A x \in D \ {SimErr} : \A p \in Snapshots : \A b2q : SimulateOneLeg(p, b2q, x) \in D
    <3>1. ASSUME NEW x \in D \ {SimErr}, NEW p \in Snapshots, NEW b2q PROVE SimulateOneLeg(p, b2q, x) \in D
      <4>1. x \in Nat
        OBVIOUS
      <4> QED BY <4>1, LegIs
    <3> QED BY <3>1, Zenon
  <2> HIDE DEF D
  <2>3. gross \in D
    BY <2>1, <2>2, SimulateStays DEF Returned
  <2> QED BY <1>1, <2>3 DEF D
<1>5. input = 0 => gross = 0
  <2> DEFINE D == {0, SimErr}
  <2>1. SUFFICES ASSUME input = 0 PROVE gross = 0
    OBVIOUS
  <2>2. input \in D /\ SimErr \in D
    BY <2>1
  <2>3. \A x \in D \ {SimErr} : \A p \in Snapshots : \A b2q : SimulateOneLeg(p, b2q, x) \in D
    <3>1. ASSUME NEW x \in D \ {SimErr}, NEW p \in Snapshots, NEW b2q PROVE SimulateOneLeg(p, b2q, x) \in D
      <4>1. x \in Nat /\ x = 0
        OBVIOUS
      <4> QED BY <4>1, LegIs
    <3> QED BY <3>1, Zenon
  <2> HIDE DEF D
  <2>4. gross \in D
    BY <2>2, <2>3, SimulateStays DEF Returned
  <2> QED BY <1>1, <2>4 DEF D
<1>6. entry.decision = Decision(outcome) /\ entry.net = net
  <2> HIDE DEF entry, outcome, net
  <2> QED BY <1>1 DEF Entry
<1>7. outcome.conservative = EvaluateOne(net, Conservative)
  <2> HIDE DEF net
  <2> QED BY DEF Evaluate
<1>8. EvaluateOne(net, Conservative) > 0
  <2>1. Decision(outcome) = "WouldTrade"
    BY <1>6
  <2> HIDE DEF outcome, net
  <2> QED BY <1>7, <2>1 DEF Decision
<1>9. net = NetProfit(input, gross, Cost) /\ gross = SimulateCycle(cycle.legs, registry, input)
  BY Zenon DEF NetOf, Returned
<1>10. net.input = input
  <2> HIDE DEF net
  <2> QED BY <1>9 DEF NetProfit
<1> HIDE DEF input, gross, net, outcome, entry, registry
<1>11. gross > input + TotalCost(Cost) + ExpectedFailedCost(Conservative.failed)
  <2>1. input \in Nat
    BY <1>3
  <2> QED BY <1>4, <1>8, <1>9, <2>1, GainCovers
<1>12. TotalCost(Cost) \in Nat /\ ExpectedFailedCost(Conservative.failed) \in Nat
  <2>1. Conservative.failed.attempts \in Nat /\ Conservative.failed.each \in Nat
    BY ReplayConstants DEF EvalParams
  <2> QED BY <2>1, TotalCostIs DEF ExpectedFailedCost
<1>13. input \in 1..MaxInput
  <2>1. CASE input = 0
    BY <1>5, <1>11, <1>12, <2>1
  <2>2. CASE input # 0
    BY <1>2, <1>3, <2>2
  <2> QED BY <2>1, <2>2
<1> QED BY <1>6, <1>9, <1>10, <1>11, <1>13 DEF entry, registry

LEMMA ReplayedPays == Replayed => TradesPay
<1> SUFFICES ASSUME Replayed PROVE TradesPay
  OBVIOUS
<1>1. given \in Seq(Snapshots)
  BY DEF Replayed
<1>2. ASSUME report # <<>>, NEW n \in DOMAIN report[1].entries,
             report[1].entries[n].decision = "WouldTrade"
      PROVE  LET e == report[1].entries[n]
             IN  /\ e.net.input \in 1..MaxInput
                 /\ SimulateCycle(report[1].cycles[n].legs, Registry(given), e.net.input)
                       > e.net.input + TotalCost(Cost) + ExpectedFailedCost(Conservative.failed)
  <2> DEFINE rep == ReplayPoolsToLedger(given)
  <2>1. report[1] = rep
    BY <1>2 DEF Replayed
  <2>2. PICK k \in Nat : \E cycles : Evaluated(rep, given, k, cycles)
    BY <1>1, ReplayIs
  <2>3. PICK cycles : Evaluated(rep, given, k, cycles)
    BY <2>2
  <2> HIDE DEF rep
  <2>4. /\ n \in 1..k /\ rep.cycles[n] = cycles[n]
        /\ rep.entries[n] = EvaluateCycle(n - 1, cycles[n], Registry(given)).entry
        /\ EvaluateCycle(n - 1, cycles[n], Registry(given)).ok
    BY <1>2, <2>1, <2>3 DEF Evaluated
  <2>5. PICK l \in Nat : /\ DOMAIN cycles[n].legs = 1..l
                         /\ cycles[n].legs = [i \in 1..l |-> cycles[n].legs[i]]
    BY <2>3, <2>4 DEF Evaluated
  <2> DEFINE e == EvaluateCycle(n - 1, cycles[n], Registry(given)).entry
  <2>6. e.decision = "WouldTrade"
    BY <1>2, <2>1, <2>4
  <2>7. /\ e.net.input \in 1..MaxInput
        /\ SimulateCycle(cycles[n].legs, Registry(given), e.net.input)
              > e.net.input + TotalCost(Cost) + ExpectedFailedCost(Conservative.failed)
    BY <1>1, <2>4, <2>5, <2>6, RecordPays, Zenon
  <2> HIDE DEF e
  <2> QED BY <2>1, <2>4, <2>7 DEF e
<1>3. ASSUME NEW n \in DOMAIN given, given[n].kind # "whirlpool",
             NEW b2q \in BOOLEAN, NEW amount \in 1..MaxInput
      PROVE  LET out == SimulateOneLeg(given[n], b2q, amount)
                 held == IF given[n].kind = "raydium"
                         THEN IF b2q THEN given[n].rq ELSE given[n].rb
                         ELSE IF b2q THEN given[n].y ELSE given[n].x
             IN  out > 0 => out < held /\ SimulateOneLeg(given[n], ~b2q, out) <= amount
  <2>1. given[n] \in Snapshots /\ amount \in Nat
    BY <1>1, LenProperties, ElementOfSeq
  <2> DEFINE p == given[n]
  <2> HIDE DEF p
  <2>2. p \in Snapshots /\ p.kind # "whirlpool"
    BY <1>3, <2>1 DEF p
  <2> QED BY <2>1, <2>2, RoundTrip, Zenon DEF p
<1> QED BY <1>2, <1>3, Zenon DEF TradesPay

(* A record that would trade gains at the input it names, and going        *)
(* through a pool of two reserves and back never does: for any pools,      *)
(* costs, limits and bounds of the expected value (sizing.rs, simulate.rs, *)
(* fill_raydium.rs, fill_meteora.rs, ev.rs).                               *)
THEOREM ReplayTradesPay == ReplaySpec => []TradesPay
<1>1. ReplayInit => Replayed
  BY ReplayedAtFirst
<1>2. Replayed /\ [ReplayNext]_replayVars => Replayed'
  BY ReplayedStep
<1>3. Replayed => TradesPay
  BY ReplayedPays
<1> QED BY <1>1, <1>2, <1>3, PTL DEF ReplaySpec

-----------------------------------------------------------------------------
(* What the depth-first search finds: every way round a cycle whose weights *)
(* add up to a loss, each from the token it starts at, and nothing else.   *)
(* What the search does at one edge: it goes on along it, comes back to    *)
(* its start by it, or leaves it.                                          *)
Leaves(edges, start, path, i) ==
    edges[i].from = IF path = <<>> THEN start ELSE edges[Last(path)].to

GoesOn(edges, start, maxLegs, path, i) ==
    /\ Leaves(edges, start, path, i)
    /\ edges[i].to \notin {start} \union {edges[j].to : j \in ToSet(path)}
    /\ Len(path) + 1 < maxLegs
    /\ Fits(PathWeight(edges, path) + edges[i].weight)

ComesBack(edges, start, maxLegs, path, i) ==
    /\ Leaves(edges, start, path, i)
    /\ edges[i].to = start /\ path # <<>>
    /\ Closes(edges, maxLegs, path, i)

LEMMA SearchStep ==
  ASSUME NEW n \in Nat, NEW edges, DOMAIN edges = 1..n, NEW start, NEW maxLegs \in Nat, NEW f,
         NEW path \in Seq(1..n), NEW i \in 1..n
  PROVE  LET e == Joined(edges, start, maxLegs, f, path)[i]
         IN  \/ /\ ComesBack(edges, start, maxLegs, path, i)
                /\ ~GoesOn(edges, start, maxLegs, path, i)
                /\ e = << Append(path, i) >>
             \/ /\ GoesOn(edges, start, maxLegs, path, i)
                /\ ~ComesBack(edges, start, maxLegs, path, i)
                /\ e = f[Append(path, i)]
             \/ /\ ~GoesOn(edges, start, maxLegs, path, i)
                /\ ~ComesBack(edges, start, maxLegs, path, i)
                /\ e = <<>>
<1> DEFINE e == Joined(edges, start, maxLegs, f, path)[i]
           A == Leaves(edges, start, path, i)
           B == edges[i].to = start /\ path # <<>>
           C == Closes(edges, maxLegs, path, i)
           D == edges[i].to \in {start} \union {edges[j].to : j \in ToSet(path)}
           E == Len(path) + 1 >= maxLegs
           F == Fits(PathWeight(edges, path) + edges[i].weight)
<1>1. e = IF A THEN Tried(edges, start, maxLegs, f, path, i) ELSE <<>>
  BY Zenon DEF Joined, Leaves
<1>2. Tried(edges, start, maxLegs, f, path, i) =
        IF B THEN IF C THEN << Append(path, i) >> ELSE <<>>
        ELSE IF D \/ E \/ ~F THEN <<>> ELSE f[Append(path, i)]
  BY Zenon DEF Tried
<1>3. ~E <=> Len(path) + 1 < maxLegs
  BY LenProperties
<1>4. GoesOn(edges, start, maxLegs, path, i) <=> A /\ ~D /\ ~E /\ F
  <2> HIDE DEF E
  <2> QED BY <1>3, Zenon DEF GoesOn
<1>5. ComesBack(edges, start, maxLegs, path, i) <=> A /\ B /\ C
  BY Zenon DEF ComesBack
<1>6. B => D
  BY Zenon
<1> HIDE DEF e, A, B, C, D, E, F
<1>7. CASE ~A
  BY <1>1, <1>4, <1>5, <1>7, Zenon DEF e
<1>8. CASE A /\ B
  BY <1>1, <1>2, <1>4, <1>5, <1>6, <1>8, Zenon DEF e
<1>9. CASE A /\ ~B
  BY <1>1, <1>2, <1>4, <1>5, <1>9, Zenon DEF e
<1> QED BY <1>7, <1>8, <1>9, Zenon

Finds(f, n, edges, start, maxLegs) ==
    /\ \A path \in Seq(1..n) : \A q :
         q \in ToSet(f[path]) <=>
           \E i \in 1..n :
             \/ ComesBack(edges, start, maxLegs, path, i) /\ q = Append(path, i)
             \/ GoesOn(edges, start, maxLegs, path, i) /\ q \in ToSet(f[Append(path, i)])
    /\ PathsFrom(edges, start, maxLegs) = f[<<>>]

LEMMA SearchFinds ==
  ASSUME NEW n \in Nat, NEW edges, DOMAIN edges = 1..n, NEW start, NEW maxLegs \in Nat
  PROVE  \E f : Finds(f, n, edges, start, maxLegs)
<1> DEFINE Q == Seq(1..n)
<1>0. PICK f : Searches(f, n, edges, start, maxLegs)
  BY SearchExists
<1>1. /\ f = [path \in Q |-> FlattenSeq(Joined(edges, start, maxLegs, f, path))]
      /\ PathsFrom(edges, start, maxLegs) = f[<<>>]
  BY <1>0 DEF Searches
<1> DEFINE J(path) == Joined(edges, start, maxLegs, f, path)
           On(path, i) == GoesOn(edges, start, maxLegs, path, i)
           Back(path, i) == ComesBack(edges, start, maxLegs, path, i)
<1>2. \A path \in Q : f[path] = FlattenSeq(J(path))
  BY <1>1, Zenon
<1>3. \A path \in Q : /\ Len(path) \in Nat
                      /\ \A i \in 1..n : Append(path, i) \in Q /\ Len(Append(path, i)) = Len(path) + 1
  BY LenProperties, AppendProperties
<1>4. \A path \in Q : \A i \in 1..n :
         \/ Back(path, i) /\ ~On(path, i) /\ J(path)[i] = << Append(path, i) >>
         \/ On(path, i) /\ ~Back(path, i) /\ J(path)[i] = f[Append(path, i)]
         \/ ~On(path, i) /\ ~Back(path, i) /\ J(path)[i] = <<>>
  BY SearchStep
<1>5. \A path \in Q : \A i \in 1..n : On(path, i) => Len(path) + 1 < maxLegs
  BY DEF GoesOn
<1>6. \A path \in Q : J(path) = [i \in 1..n |-> J(path)[i]]
  BY DEF Joined
<1> HIDE DEF J, On, Back
<1>7. ASSUME NEW path \in Q, \A i \in 1..n : On(path, i) => f[Append(path, i)] \in Seq(Q)
      PROVE  J(path) \in Seq(Seq(Q))
  <2>1. ASSUME NEW i \in 1..n PROVE J(path)[i] \in Seq(Q)
    <3>1. Append(path, i) \in Q
      BY <1>3
    <3> HIDE DEF Q
    <3>2. <<>> \in Seq(Q) /\ << Append(path, i) >> \in Seq(Q)
      BY <3>1, EmptySeq
    <3> QED BY <1>4, <1>7, <3>2
  <2> DEFINE s == J(path)
  <2>2. s = [i \in 1..n |-> s[i]] /\ \A i \in 1..n : s[i] \in Seq(Q)
    BY <1>6, <2>1
  <2> HIDE DEF Q, s
  <2>3. s \in Seq(Seq(Q))
    BY <2>2, IsASeq
  <2> QED BY <2>3 DEF s
<1>8. \A path \in Q : f[path] \in Seq(Q)
  <2> DEFINE T == {k \in Nat : \A path \in Q : Len(path) >= maxLegs - k => f[path] \in Seq(Q)}
  <2>0. ASSUME NEW path \in Q, \A i \in 1..n : On(path, i) => f[Append(path, i)] \in Seq(Q)
        PROVE  f[path] \in Seq(Q)
    <3> DEFINE s == J(path)
    <3>1. s \in Seq(Seq(Q)) /\ f[path] = FlattenSeq(s)
      BY <1>2, <1>7, <2>0
    <3> HIDE DEF Q, s
    <3> QED BY <3>1, FlattenPlaced
  <2>1. 0 \in T
    <3>1. ASSUME NEW path \in Q, Len(path) >= maxLegs - 0 PROVE f[path] \in Seq(Q)
      <4>1. \A i \in 1..n : ~On(path, i)
        <5>1. ~ (Len(path) + 1 < maxLegs)
          BY <1>3, <3>1
        <5> QED BY <1>5, <5>1
      <4> HIDE DEF Q
      <4> QED BY <2>0, <4>1
    <3> HIDE DEF Q
    <3> QED BY <3>1
  <2>2. ASSUME NEW k \in Nat, k \in T PROVE k + 1 \in T
    <3>1. ASSUME NEW path \in Q, Len(path) >= maxLegs - (k + 1) PROVE f[path] \in Seq(Q)
      <4>1. ASSUME NEW i \in 1..n PROVE f[Append(path, i)] \in Seq(Q)
        <5> DEFINE more == Append(path, i)
        <5>1. more \in Q /\ Len(more) = Len(path) + 1 /\ Len(path) \in Nat
          BY <1>3
        <5> HIDE DEF more
        <5>2. Len(more) >= maxLegs - k
          BY <3>1, <5>1
        <5> HIDE DEF Q
        <5>3. f[more] \in Seq(Q)
          BY <2>2, <5>1, <5>2
        <5> QED BY <5>3 DEF more
      <4> HIDE DEF Q
      <4> QED BY <2>0, <4>1
    <3> HIDE DEF Q
    <3> QED BY <3>1
  <2>3. maxLegs \in T
    <3> HIDE DEF T
    <3> QED BY <2>1, <2>2, Induct
  <2>4. \A path \in Q : Len(path) >= maxLegs - maxLegs
    BY <1>3
  <2> HIDE DEF Q
  <2> QED BY <2>3, <2>4
<1>9. ASSUME NEW path \in Q, NEW q
      PROVE  q \in ToSet(f[path]) <=>
               \E i \in 1..n : \/ Back(path, i) /\ q = Append(path, i)
                               \/ On(path, i) /\ q \in ToSet(f[Append(path, i)])
  <2> DEFINE s == J(path)
  <2>1. s \in Seq(Seq(Q)) /\ f[path] = FlattenSeq(s) /\ DOMAIN s = 1..n
    <3>1. \A i \in 1..n : f[Append(path, i)] \in Seq(Q)
      <4>1. \A i \in 1..n : Append(path, i) \in Q
        BY <1>3
      <4> HIDE DEF Q
      <4> QED BY <1>8, <4>1
    <3>2. DOMAIN s = 1..n
      <4>1. s = [i \in 1..n |-> J(path)[i]]
        BY <1>6
      <4> HIDE DEF s
      <4> QED BY <4>1
    <3> QED BY <1>2, <1>7, <3>1, <3>2
  <2>2. q \in ToSet(f[path]) <=> \E i \in 1..n : q \in ToSet(s[i])
    <3> HIDE DEF s, Q
    <3> QED BY <2>1, FlattenHas
  <2>3. ASSUME NEW i \in 1..n
        PROVE  q \in ToSet(s[i]) <=> \/ Back(path, i) /\ q = Append(path, i)
                                     \/ On(path, i) /\ q \in ToSet(f[Append(path, i)])
    <3>1. CASE Back(path, i) /\ ~On(path, i) /\ s[i] = << Append(path, i) >>
      <4> DEFINE a == Append(path, i)
      <4> HIDE DEF a, s
      <4>1. ToSet(<<a>>) = {a}
        BY DEF ToSet
      <4> QED BY <3>1, <4>1 DEF a
    <3>2. CASE On(path, i) /\ ~Back(path, i) /\ s[i] = f[Append(path, i)]
      BY <3>2
    <3>3. CASE ~On(path, i) /\ ~Back(path, i) /\ s[i] = <<>>
      <4>1. ToSet(<<>>) = {}
        BY DEF ToSet
      <4> QED BY <3>3, <4>1
    <3> HIDE DEF s
    <3> QED BY <1>4, <3>1, <3>2, <3>3 DEF s
  <2> QED BY <2>2, <2>3
<1> QED BY <1>1, <1>9 DEF On, Back, Finds

-----------------------------------------------------------------------------
(* The weight of a path, edge by edge.                                     *)
Summed(H, edges, q) ==
    /\ H \in [0..Len(q) -> Int] /\ H[0] = 0
    /\ \A i \in 1..Len(q) : H[i] = H[i - 1] + edges[q[i]].weight

LEMMA WeightSummed ==
  ASSUME NEW n \in Nat, NEW edges, \A i \in 1..n : edges[i].weight \in Int, NEW q \in Seq(1..n)
  PROVE  \E H : Summed(H, edges, q) /\ PathWeight(edges, q) = H[Len(q)]
<1> DEFINE N == Len(q)
           Step == [p \in Int \X (1..N) |-> p[1] + edges[q[p[2]]].weight]
           Body(g, T) == IF T = {} THEN 0 ELSE g[T \ {Max(T)}] + edges[q[Max(T)]].weight
           c == CHOOSE g : g = [T \in SUBSET (DOMAIN q) |-> Body(g, T)]
<1>1. N \in Nat /\ DOMAIN q = 1..N /\ \A i \in 1..N : edges[q[i]].weight \in Int
  BY LenProperties, ElementOfSeq
<1>2. Step \in [Int \X (1..N) -> Int]
  BY <1>1
<1>3. PICK g : Folds(g, N, Int, 0, Step)
  <2>1. N \in Nat /\ 0 \in Int
    BY <1>1
  <2> HIDE DEF Step, N
  <2> QED BY <1>2, <2>1, FoldExists
<1>4. g = [T \in SUBSET (1..N) |-> Body(g, T)] /\ \A T \in SUBSET (1..N) : g[T] \in Int
  <2>1. ASSUME NEW T \in SUBSET (1..N), T # {}
        PROVE  Step[<<g[T \ {Max(T)}], Max(T)>>] = Body(g, T)
    <3>1. Max(T) \in 1..N
      BY <1>1, <2>1, MaxIs
    <3>2. T \ {Max(T)} \in SUBSET (1..N)
      OBVIOUS
    <3>3. g[T \ {Max(T)}] \in Int
      BY <1>3, <3>2 DEF Folds
    <3> QED BY <2>1, <3>1, <3>3
  <2>2. \A T \in SUBSET (1..N) : (IF T = {} THEN 0 ELSE Step[<<g[T \ {Max(T)}], Max(T)>>]) = Body(g, T)
    <3> HIDE DEF Step
    <3> QED BY <2>1
  <2> HIDE DEF Step, Body
  <2> QED BY <1>3, <2>2 DEF Folds
<1>5. c = [T \in SUBSET (1..N) |-> Body(c, T)]
  <2> HIDE DEF Body
  <2>1. c = [T \in SUBSET (DOMAIN q) |-> Body(c, T)]
    BY <1>1, <1>4, Zenon
  <2> QED BY <1>1, <2>1
<1>6. PathWeight(edges, q) = c[1..N]
  BY <1>1, Zenon DEF PathWeight, FoldLeft, MapThenFoldSet
<1> HIDE DEF c
<1>7. \A T \in SUBSET (1..N) : c[T] = Body(c, T)
  <2> HIDE DEF Body
  <2> QED BY <1>5
<1> DEFINE H == [i \in 0..N |-> c[1..i]]
           S == {i \in Nat : i <= N => c[1..i] \in Int}
<1>8. c[1..0] = 0
  <2>1. 1..0 = {}
    OBVIOUS
  <2> QED BY <1>1, <1>7, <2>1
<1>9. ASSUME NEW i \in 1..N PROVE c[1..i] = c[1..(i - 1)] + edges[q[i]].weight
  <2>1. /\ 1..i \in SUBSET (1..N) /\ 1..i # {} /\ Max(1..i) = i
        /\ (1..i) \ {Max(1..i)} = 1..(i - 1)
    BY <1>1, MaxOfFirst
  <2> QED BY <1>7, <2>1
<1>10. ASSUME NEW i \in Nat, i \in S PROVE i + 1 \in S
  <2>1. SUFFICES ASSUME i + 1 <= N PROVE c[1..i + 1] \in Int
    OBVIOUS
  <2>2. i + 1 \in 1..N /\ (i + 1) - 1 = i /\ c[1..i] \in Int
    BY <1>1, <1>10, <2>1
  <2> QED BY SMTT(30), <1>1, <1>9, <2>2
<1>11. Nat \subseteq S
  <2>1. 0 \in S
    BY <1>8
  <2> HIDE DEF S
  <2> QED BY <1>10, <2>1, Induct
<1>12. \A i \in 0..N : H[i] = c[1..i] /\ H[i] \in Int
  BY <1>1, <1>11
<1>13. H = [i \in 0..N |-> H[i]]
  OBVIOUS
<1>14. \A i \in 1..N : i \in 0..N /\ i - 1 \in 0..N
  BY <1>1
<1> HIDE DEF H
<1>15. H[0] = 0 /\ H[N] = c[1..N]
  BY <1>1, <1>8, <1>12
<1>16. \A i \in 1..N : H[i] = H[i - 1] + edges[q[i]].weight
  BY <1>9, <1>12, <1>14
<1>17. H \in [0..N -> Int]
  BY <1>12, <1>13
<1> QED BY <1>6, <1>15, <1>16, <1>17 DEF Summed

LEMMA SummedSame ==
  ASSUME NEW edges, NEW q, NEW H, Summed(H, edges, q), NEW r, NEW K, Summed(K, edges, r),
         Len(q) \in Nat, Len(r) \in 0..Len(q), \A i \in 1..Len(r) : r[i] = q[i]
  PROVE  \A j \in 0..Len(r) : K[j] = H[j]
<1> DEFINE M == Len(r)
           S == {j \in Nat : j <= M => K[j] = H[j]}
<1>1. M \in Nat /\ Len(q) \in Nat /\ M <= Len(q)
  OBVIOUS
<1>2. /\ K[0] = 0 /\ H[0] = 0
      /\ \A i \in 1..M : K[i] = K[i - 1] + edges[r[i]].weight /\ r[i] = q[i]
      /\ \A i \in 1..Len(q) : H[i] = H[i - 1] + edges[q[i]].weight
  BY DEF Summed
<1> HIDE DEF M
<1>3. 0 \in S
  BY <1>2
<1>4. ASSUME NEW j \in Nat, j \in S PROVE j + 1 \in S
  <2>1. SUFFICES ASSUME j + 1 <= M PROVE K[j + 1] = H[j + 1]
    OBVIOUS
  <2>2. j + 1 \in 1..M /\ j + 1 \in 1..Len(q) /\ (j + 1) - 1 = j /\ K[j] = H[j]
    BY <1>1, <1>4, <2>1
  <2> QED BY <1>2, <2>2
<1>5. Nat \subseteq S
  <2> HIDE DEF S
  <2> QED BY <1>3, <1>4, Induct
<1> QED BY <1>1, <1>5 DEF M

LEMMA Beginning ==
  ASSUME NEW n \in Nat, NEW q \in Seq(1..n), NEW j \in 0..Len(q)
  PROVE  /\ SubSeq(q, 1, j) \in Seq(1..n) /\ Len(SubSeq(q, 1, j)) = j
         /\ \A i \in 1..j : SubSeq(q, 1, j)[i] = q[i]
<1>1. Len(q) \in Nat /\ \A i \in 1..Len(q) : q[i] \in 1..n
  BY LenProperties, ElementOfSeq
<1>2. \A i \in 1..j : q[i] \in 1..n
  BY <1>1
<1>3. /\ Len(SubSeq(q, 1, j)) = (IF 1 <= j THEN j - 1 + 1 ELSE 0)
      /\ \A i \in 1..j - 1 + 1 : SubSeq(q, 1, j)[i] = q[1 + i - 1]
      /\ SubSeq(q, 1, j) \in Seq(1..n)
  <2>1. \A i \in 1..j : q[i] \in 1..n /\ i \in 1..Len(q)
    BY <1>1
  <2> QED BY <2>1, <1>1, SubSeqProperties
<1>4. j - 1 + 1 = j /\ \A i \in 1..j : 1 + i - 1 = i
  OBVIOUS
<1> QED BY <1>1, <1>3, <1>4

LEMMA BeginningMore ==
  ASSUME NEW n \in Nat, NEW q \in Seq(1..n)
  PROVE  /\ SubSeq(q, 1, 0) = <<>> /\ SubSeq(q, 1, Len(q)) = q
         /\ \A j \in 0..Len(q) - 1 : SubSeq(q, 1, j + 1) = Append(SubSeq(q, 1, j), q[j + 1])
<1>1. Len(q) \in Nat
  BY LenProperties
<1>2. \A j \in 0..Len(q) : /\ SubSeq(q, 1, j) \in Seq(1..n) /\ Len(SubSeq(q, 1, j)) = j
                           /\ \A i \in 1..j : SubSeq(q, 1, j)[i] = q[i]
  BY Beginning
<1>3. SubSeq(q, 1, 0) = <<>>
  BY <1>1, <1>2, EmptySeq
<1>4. SubSeq(q, 1, Len(q)) = q
  <2> DEFINE s == SubSeq(q, 1, Len(q))
  <2>1. s \in Seq(1..n) /\ Len(s) = Len(q) /\ \A i \in 1..Len(q) : s[i] = q[i]
    BY <1>1, <1>2
  <2> HIDE DEF s
  <2>2. s = q
    BY <2>1, SeqEqual
  <2> QED BY <2>2 DEF s
<1>5. ASSUME NEW j \in 0..Len(q) - 1
      PROVE  SubSeq(q, 1, j + 1) = Append(SubSeq(q, 1, j), q[j + 1])
  <2> DEFINE s == SubSeq(q, 1, j)
             t == SubSeq(q, 1, j + 1)
             a == q[j + 1]
  <2>1. j \in Nat /\ j \in 0..Len(q) /\ j + 1 \in 0..Len(q) /\ j + 1 \in 1..Len(q)
    BY <1>1
  <2>2. /\ s \in Seq(1..n) /\ Len(s) = j /\ \A i \in 1..j : s[i] = q[i]
        /\ t \in Seq(1..n) /\ Len(t) = j + 1 /\ \A i \in 1..j + 1 : t[i] = q[i]
        /\ a \in 1..n
    BY <1>2, <2>1, ElementOfSeq
  <2>3. t[j + 1] = a
    BY <2>1, <2>2
  <2> HIDE DEF s, t, a
  <2>4. /\ Append(s, a) \in Seq(1..n) /\ Len(Append(s, a)) = j + 1 /\ Append(s, a)[j + 1] = a
        /\ \A i \in 1..j : Append(s, a)[i] = s[i]
    BY <2>2, AppendProperties
  <2> DEFINE u == Append(s, a)
  <2> HIDE DEF u
  <2>5. \A i \in 1..j + 1 : u[i] = t[i]
    <3>1. \A i \in 1..j + 1 : i \in 1..j \/ i = j + 1
      BY <2>1
    <3>2. ASSUME NEW i \in 1..j PROVE u[i] = t[i]
      <4>1. i \in 1..j + 1
        BY <2>1
      <4> QED BY <2>2, <2>4, <4>1 DEF u
    <3> QED BY <2>3, <2>4, <3>1, <3>2 DEF u
  <2>6. u = t
    BY <2>2, <2>4, <2>5, SeqEqual DEF u
  <2> QED BY <2>6 DEF u, s, t, a
<1> QED BY <1>3, <1>4, <1>5

LEMMA WeightIsSum ==
  ASSUME NEW n \in Nat, NEW edges, \A i \in 1..n : edges[i].weight \in Int, NEW q \in Seq(1..n)
  PROVE  \E H : /\ Summed(H, edges, q)
                /\ \A j \in 0..Len(q) : PathWeight(edges, SubSeq(q, 1, j)) = H[j]
                /\ PathWeight(edges, q) = H[Len(q)]
<1>1. PICK H : Summed(H, edges, q) /\ PathWeight(edges, q) = H[Len(q)]
  BY WeightSummed
<1>2. ASSUME NEW j \in 0..Len(q) PROVE PathWeight(edges, SubSeq(q, 1, j)) = H[j]
  <2> DEFINE r == SubSeq(q, 1, j)
  <2>1. r \in Seq(1..n) /\ Len(r) = j /\ \A i \in 1..j : r[i] = q[i]
    BY Beginning
  <2> HIDE DEF r
  <2>2. PICK K : Summed(K, edges, r) /\ PathWeight(edges, r) = K[Len(r)]
    BY <2>1, WeightSummed
  <2>3. Len(q) \in Nat /\ Len(r) \in 0..Len(q)
    BY <2>1, LenProperties
  <2>4. \A i \in 0..Len(r) : K[i] = H[i]
    BY <1>1, <2>1, <2>2, <2>3, SummedSame
  <2>5. Len(r) \in 0..Len(r)
    BY <2>3
  <2> QED BY <2>1, <2>2, <2>4, <2>5 DEF r
<1> QED BY <1>1, <1>2

-----------------------------------------------------------------------------
(* What the search finds behind the first k edges of a path: it goes on    *)
(* along each of the next ones and comes back by the last.                 *)
Reaches(edges, start, maxLegs, q, k) ==
    /\ k < Len(q)
    /\ \A j \in k..Len(q) - 2 : GoesOn(edges, start, maxLegs, SubSeq(q, 1, j), q[j + 1])
    /\ ComesBack(edges, start, maxLegs, SubSeq(q, 1, Len(q) - 1), q[Len(q)])

FoundBehind(edges, start, maxLegs, n, path, q) ==
    /\ q \in Seq(1..n) /\ Len(path) < Len(q) /\ SubSeq(q, 1, Len(path)) = path
    /\ Reaches(edges, start, maxLegs, q, Len(path))

LEMMA ReachesStep ==
  ASSUME NEW n \in Nat, NEW edges, NEW start, NEW maxLegs, NEW path \in Seq(1..n), NEW q
  PROVE  FoundBehind(edges, start, maxLegs, n, path, q) <=>
           \E i \in 1..n :
             \/ ComesBack(edges, start, maxLegs, path, i) /\ q = Append(path, i)
             \/ /\ GoesOn(edges, start, maxLegs, path, i)
                /\ FoundBehind(edges, start, maxLegs, n, Append(path, i), q)
<1> DEFINE On(p, i) == GoesOn(edges, start, maxLegs, p, i)
           Back(p, i) == ComesBack(edges, start, maxLegs, p, i)
           B(p) == FoundBehind(edges, start, maxLegs, n, p, q)
           L == Len(path)
<1>1. /\ L \in Nat
      /\ \A i \in 1..n : Append(path, i) \in Seq(1..n) /\ Len(Append(path, i)) = L + 1
                         /\ Append(path, i)[L + 1] = i
  BY LenProperties, AppendProperties
<1>2. \A p : B(p) <=> /\ q \in Seq(1..n) /\ Len(p) < Len(q) /\ SubSeq(q, 1, Len(p)) = p
                      /\ \A j \in Len(p)..Len(q) - 2 : On(SubSeq(q, 1, j), q[j + 1])
                      /\ Back(SubSeq(q, 1, Len(q) - 1), q[Len(q)])
  BY DEF FoundBehind, Reaches
<1> HIDE DEF On, Back, B, L
<1>3. ASSUME B(path)
      PROVE  \E i \in 1..n : \/ Back(path, i) /\ q = Append(path, i)
                             \/ On(path, i) /\ B(Append(path, i))
  <2>1. /\ q \in Seq(1..n) /\ L < Len(q) /\ SubSeq(q, 1, L) = path
        /\ \A j \in L..Len(q) - 2 : On(SubSeq(q, 1, j), q[j + 1])
        /\ Back(SubSeq(q, 1, Len(q) - 1), q[Len(q)])
    BY <1>2, <1>3 DEF L
  <2> DEFINE i == q[L + 1]
  <2>2. Len(q) \in Nat /\ L \in 0..Len(q) - 1 /\ i \in 1..n
    <3>1. Len(q) \in Nat
      BY <2>1, LenProperties
    <3>2. L + 1 \in 1..Len(q)
      BY <1>1, <2>1, <3>1
    <3> QED BY <1>1, <2>1, <3>1, <3>2, ElementOfSeq
  <2>3. SubSeq(q, 1, L + 1) = Append(path, i) /\ SubSeq(q, 1, Len(q)) = q
    BY <2>1, <2>2, BeginningMore
  <2> HIDE DEF i
  <2>4. CASE Len(q) = L + 1
    <3>1. Len(q) - 1 = L
      BY <1>1, <2>4
    <3>2. Back(path, i)
      BY <2>1, <2>4, <3>1 DEF i
    <3>3. q = Append(path, i)
      BY <2>3, <2>4
    <3> QED BY <2>2, <3>2, <3>3
  <2>5. CASE Len(q) # L + 1
    <3>1. L \in L..Len(q) - 2 /\ L + 1 < Len(q)
      BY <1>1, <2>1, <2>2, <2>5
    <3>2. On(path, i)
      BY <2>1, <3>1 DEF i
    <3>3. \A j \in L + 1..Len(q) - 2 : j \in L..Len(q) - 2
      BY <1>1, <2>2
    <3>4. Len(Append(path, i)) = L + 1
      BY <1>1, <2>2
    <3>5. B(Append(path, i))
      BY <1>2, <2>1, <2>3, <3>1, <3>3, <3>4
    <3> QED BY <2>2, <3>2, <3>5
  <2> QED BY <2>4, <2>5
<1>4. ASSUME NEW i \in 1..n, Back(path, i), q = Append(path, i) PROVE B(path)
  <2>1. q \in Seq(1..n) /\ Len(q) = L + 1 /\ q[L + 1] = i
    BY <1>1, <1>4
  <2>2. Len(q) - 1 = L /\ L < Len(q) /\ L \in 0..Len(q) /\ L..Len(q) - 2 = {}
    BY <1>1, <2>1
  <2>3. SubSeq(q, 1, L) = path
    <3> DEFINE r == SubSeq(q, 1, L)
    <3>1. r \in Seq(1..n) /\ Len(r) = L /\ \A j \in 1..L : r[j] = q[j]
      BY <2>1, <2>2, Beginning
    <3>2. \A j \in 1..L : q[j] = path[j]
      BY <1>4, AppendProperties DEF L
    <3> HIDE DEF r
    <3>3. r = path
      BY <3>1, <3>2, SeqEqual DEF L
    <3> QED BY <3>3 DEF r
  <2>4. Back(SubSeq(q, 1, Len(q) - 1), q[Len(q)])
    BY <1>4, <2>1, <2>2, <2>3
  <2> QED BY <1>2, <2>1, <2>2, <2>3, <2>4 DEF L
<1>5. ASSUME NEW i \in 1..n, On(path, i), B(Append(path, i)) PROVE B(path)
  <2>1. Len(Append(path, i)) = L + 1 /\ Append(path, i)[L + 1] = i /\ L \in Nat
    BY <1>1
  <2>2. /\ q \in Seq(1..n) /\ L + 1 < Len(q) /\ SubSeq(q, 1, L + 1) = Append(path, i)
        /\ \A j \in L + 1..Len(q) - 2 : On(SubSeq(q, 1, j), q[j + 1])
        /\ Back(SubSeq(q, 1, Len(q) - 1), q[Len(q)])
    BY <1>2, <1>5, <2>1
  <2>3. Len(q) \in Nat /\ L \in 0..Len(q) - 1 /\ L \in 0..Len(q) /\ L + 1 \in 0..Len(q) /\ L + 1 \in 1..L + 1
        /\ L < Len(q)
    <3>1. Len(q) \in Nat
      BY <2>2, LenProperties
    <3> QED BY <2>1, <2>2, <3>1
  <2>4. \A j \in 1..L + 1 : Append(path, i)[j] = q[j]
    <3>1. \A j \in 1..L + 1 : SubSeq(q, 1, L + 1)[j] = q[j]
      BY <2>2, <2>3, Beginning
    <3> QED BY <2>2, <3>1
  <2>5. q[L + 1] = i
    BY <2>1, <2>3, <2>4
  <2>6. SubSeq(q, 1, L) = path
    <3> DEFINE r == SubSeq(q, 1, L)
    <3>1. r \in Seq(1..n) /\ Len(r) = L /\ \A j \in 1..L : r[j] = q[j]
      BY <2>2, <2>3, Beginning
    <3>2. \A j \in 1..L : q[j] = path[j]
      <4>1. \A j \in 1..L : j \in 1..L + 1
        BY <2>1
      <4>2. \A j \in 1..L : Append(path, i)[j] = path[j]
        BY AppendProperties DEF L
      <4> QED BY <2>4, <4>1, <4>2
    <3> HIDE DEF r
    <3>3. r = path
      BY <3>1, <3>2, SeqEqual DEF L
    <3> QED BY <3>3 DEF r
  <2>7. \A j \in L..Len(q) - 2 : On(SubSeq(q, 1, j), q[j + 1])
    <3>1. \A j \in L..Len(q) - 2 : j = L \/ j \in L + 1..Len(q) - 2
      BY <2>3
    <3> QED BY <1>5, <2>2, <2>5, <2>6, <3>1
  <2> QED BY <1>2, <2>2, <2>3, <2>6, <2>7 DEF L
<1> QED BY <1>3, <1>4, <1>5 DEF On, Back, B

LEMMA SearchReaches ==
  ASSUME NEW n \in Nat, NEW edges, DOMAIN edges = 1..n, NEW start, NEW maxLegs \in Nat
  PROVE  \A q : q \in ToSet(PathsFrom(edges, start, maxLegs)) <=>
                  FoundBehind(edges, start, maxLegs, n, <<>>, q)
<1> DEFINE Q == Seq(1..n)
           On(p, i) == GoesOn(edges, start, maxLegs, p, i)
           Back(p, i) == ComesBack(edges, start, maxLegs, p, i)
           B(p, q) == FoundBehind(edges, start, maxLegs, n, p, q)
<1>0. PICK f : Finds(f, n, edges, start, maxLegs)
  BY SearchFinds
<1>1. /\ \A path \in Q : \A q :
           q \in ToSet(f[path]) <=>
             \E i \in 1..n :
               \/ Back(path, i) /\ q = Append(path, i)
               \/ On(path, i) /\ q \in ToSet(f[Append(path, i)])
      /\ PathsFrom(edges, start, maxLegs) = f[<<>>]
  BY <1>0 DEF Finds
<1>2. \A path \in Q : \A q :
         B(path, q) <=>
           \E i \in 1..n :
             \/ Back(path, i) /\ q = Append(path, i)
             \/ On(path, i) /\ B(Append(path, i), q)
  BY ReachesStep
<1>3. \A path \in Q : /\ Len(path) \in Nat
                      /\ \A i \in 1..n : Append(path, i) \in Q /\ Len(Append(path, i)) = Len(path) + 1
  BY LenProperties, AppendProperties
<1>4. \A path \in Q : \A i \in 1..n : On(path, i) => Len(path) + 1 < maxLegs
  BY DEF GoesOn
<1>5. <<>> \in Q /\ Len(<<>>) = 0
  BY EmptySeq
<1> HIDE DEF On, Back, B, Q
<1> DEFINE Same(path) == \A q : q \in ToSet(f[path]) <=> B(path, q)
           T == {k \in Nat : \A path \in Q : Len(path) >= maxLegs - k => Same(path)}
<1>6. ASSUME NEW path \in Q, \A i \in 1..n : On(path, i) => Same(Append(path, i))
      PROVE  Same(path)
  <2>1. ASSUME NEW q PROVE q \in ToSet(f[path]) <=> B(path, q)
    <3>1. \A i \in 1..n : On(path, i) => (q \in ToSet(f[Append(path, i)]) <=> B(Append(path, i), q))
      BY <1>6
    <3> QED BY <1>1, <1>2, <3>1
  <2> QED BY <2>1
<1> HIDE DEF Same
<1>7. 0 \in T
  <2>1. ASSUME NEW path \in Q, Len(path) >= maxLegs - 0 PROVE Same(path)
    <3>1. \A i \in 1..n : ~On(path, i)
      <4>1. ~ (Len(path) + 1 < maxLegs)
        BY <1>3, <2>1
      <4> QED BY <1>4, <4>1
    <3> QED BY <1>6, <3>1
  <2> QED BY <2>1
<1>8. ASSUME NEW k \in Nat, k \in T PROVE k + 1 \in T
  <2>1. ASSUME NEW path \in Q, Len(path) >= maxLegs - (k + 1) PROVE Same(path)
    <3>1. ASSUME NEW i \in 1..n PROVE Same(Append(path, i))
      <4> DEFINE more == Append(path, i)
      <4>1. more \in Q /\ Len(more) = Len(path) + 1 /\ Len(path) \in Nat
        BY <1>3
      <4> HIDE DEF more
      <4>2. Len(more) >= maxLegs - k
        BY <2>1, <4>1
      <4>3. Same(more)
        BY <1>8, <4>1, <4>2
      <4> QED BY <4>3 DEF more
    <3> QED BY <1>6, <3>1
  <2> QED BY <2>1
<1>9. maxLegs \in T
  <2> HIDE DEF T
  <2> QED BY <1>7, <1>8, Induct
<1>10. Same(<<>>)
  <2>1. Len(<<>>) >= maxLegs - maxLegs
    BY <1>5
  <2> QED BY <1>5, <1>9, <2>1
<1> QED BY <1>1, <1>10 DEF Same, B

-----------------------------------------------------------------------------
(* A cycle, edge by edge: each edge starts where the one before it ends,   *)
(* and no two start from one token.                                        *)
Ring(edges, q) ==
    /\ Len(q) >= 2
    /\ \A j \in 1..Len(q) - 1 : edges[q[j + 1]].from = edges[q[j]].to
    /\ edges[q[Len(q)]].to = edges[q[1]].from
    /\ \A i, j \in 1..Len(q) : edges[q[i]].from = edges[q[j]].from => i = j

(* Its sums stay within i64 and its weights add up to a loss.              *)
Losing(edges, q) ==
    /\ \A j \in 1..Len(q) : Fits(PathWeight(edges, SubSeq(q, 1, j)))
    /\ PathWeight(edges, q) < 0

LEMMA RingsAreReached ==
  ASSUME NEW n \in Nat, NEW edges, \A i \in 1..n : edges[i].weight \in Int,
         NEW start, NEW maxLegs \in Nat, NEW q \in Seq(1..n), q # <<>>
  PROVE  Reaches(edges, start, maxLegs, q, 0) <=>
           Ring(edges, q) /\ edges[q[1]].from = start /\ Len(q) <= maxLegs /\ Losing(edges, q)
<1> DEFINE N == Len(q)
           F(j) == edges[q[j]].from
           T(j) == edges[q[j]].to
           On(j) == GoesOn(edges, start, maxLegs, SubSeq(q, 1, j), q[j + 1])
           Back == ComesBack(edges, start, maxLegs, SubSeq(q, 1, N - 1), q[N])
<1>1. N \in Nat \ {0} /\ \A j \in 1..N : q[j] \in 1..n
  BY LenProperties, ElementOfSeq, EmptySeq
<1>2. PICK H : /\ Summed(H, edges, q)
               /\ \A j \in 0..N : PathWeight(edges, SubSeq(q, 1, j)) = H[j]
               /\ PathWeight(edges, q) = H[N]
  BY WeightIsSum
<1>3. ASSUME NEW j \in 0..N - 1
      PROVE  LET s == SubSeq(q, 1, j)
             IN  /\ Len(s) = j
                 /\ s = <<>> <=> j = 0
                 /\ j # 0 => edges[Last(s)].to = T(j)
                 /\ \A x : x \in {edges[i].to : i \in ToSet(s)} <=> \E l \in 1..j : x = T(l)
                 /\ PathWeight(edges, s) + edges[q[j + 1]].weight = H[j + 1]
  <2> DEFINE s == SubSeq(q, 1, j)
  <2>1. j \in 0..N /\ j \in Nat /\ j + 1 \in 1..N /\ (j + 1) - 1 = j
    BY <1>1
  <2>2. s \in Seq(1..n) /\ Len(s) = j /\ \A i \in 1..j : s[i] = q[i]
    BY <2>1, Beginning
  <2>3. PathWeight(edges, s) = H[j]
    BY <1>2, <2>1
  <2>4. H[j + 1] = H[j] + edges[q[j + 1]].weight
    BY <1>2, <2>1 DEF Summed
  <2> HIDE DEF s
  <2>5. s = <<>> <=> j = 0
    BY <2>2, EmptySeq
  <2>6. DOMAIN s = 1..j
    BY <2>2, LenProperties
  <2>7. j # 0 => Last(s) = q[j]
    BY <2>1, <2>2 DEF Last
  <2>8. ToSet(s) = {q[l] : l \in 1..j}
    BY <2>2, <2>6 DEF ToSet
  <2>9. \A x : x \in {edges[i].to : i \in ToSet(s)} <=> \E l \in 1..j : x = T(l)
    BY <2>8
  <2> QED BY <2>2, <2>3, <2>4, <2>5, <2>7, <2>9 DEF s
<1>4. ASSUME NEW j \in 0..N - 1
      PROVE  On(j) <=> /\ F(j + 1) = IF j = 0 THEN start ELSE T(j)
                       /\ T(j + 1) # start /\ \A l \in 1..j : T(j + 1) # T(l)
                       /\ j + 1 < maxLegs /\ Fits(H[j + 1])
  <2> DEFINE s == SubSeq(q, 1, j)
             i == q[j + 1]
             V == {edges[x].to : x \in ToSet(s)}
  <2>1. On(j) <=> /\ edges[i].from = IF s = <<>> THEN start ELSE edges[Last(s)].to
                  /\ edges[i].to \notin {start} \cup V
                  /\ Len(s) + 1 < maxLegs
                  /\ Fits(PathWeight(edges, s) + edges[i].weight)
    BY Zenon DEF GoesOn, Leaves
  <2>2. /\ Len(s) = j /\ (s = <<>> <=> j = 0) /\ (j # 0 => edges[Last(s)].to = T(j))
        /\ \A x : x \in V <=> \E l \in 1..j : x = T(l)
        /\ PathWeight(edges, s) + edges[i].weight = H[j + 1]
    BY <1>3
  <2>3. edges[i].from = F(j + 1) /\ edges[i].to = T(j + 1)
    OBVIOUS
  <2> HIDE DEF s, V, On, F, T, i
  <2> QED BY <2>1, <2>2, <2>3
<1>5. Back <=> /\ F(N) = IF N = 1 THEN start ELSE T(N - 1)
               /\ T(N) = start /\ N # 1 /\ N <= maxLegs /\ Fits(H[N]) /\ H[N] < 0
  <2> DEFINE j == N - 1
             s == SubSeq(q, 1, j)
             i == q[N]
  <2>1. Back <=> /\ edges[i].from = IF s = <<>> THEN start ELSE edges[Last(s)].to
                 /\ edges[i].to = start /\ s # <<>> /\ Len(s) + 1 <= maxLegs
                 /\ Fits(PathWeight(edges, s) + edges[i].weight)
                 /\ PathWeight(edges, s) + edges[i].weight < 0
    BY Zenon DEF ComesBack, Leaves, Closes
  <2>2. j \in 0..N - 1 /\ j + 1 = N /\ (j = 0 <=> N = 1)
    BY <1>1
  <2>3. /\ Len(s) = j /\ (s = <<>> <=> j = 0) /\ (j # 0 => edges[Last(s)].to = T(j))
        /\ PathWeight(edges, s) + edges[i].weight = H[N]
    BY <1>3, <2>2
  <2>4. edges[i].from = F(N) /\ edges[i].to = T(N)
    OBVIOUS
  <2> HIDE DEF s, Back, F, T, i
  <2> QED BY <2>1, <2>2, <2>3, <2>4
<1>6. Reaches(edges, start, maxLegs, q, 0) <=> (\A j \in 0..N - 2 : On(j)) /\ Back
  BY <1>1 DEF Reaches
<1>7. Ring(edges, q) <=> /\ N >= 2 /\ \A j \in 1..N - 1 : F(j + 1) = T(j)
                         /\ T(N) = F(1) /\ \A i, j \in 1..N : F(i) = F(j) => i = j
  BY DEF Ring
<1>8. Losing(edges, q) <=> (\A j \in 1..N : Fits(H[j])) /\ H[N] < 0
  <2>1. \A j \in 1..N : j \in 0..N
    OBVIOUS
  <2> QED BY <1>2, <2>1 DEF Losing
<1>9. edges[q[1]].from = F(1)
  OBVIOUS
<1> HIDE DEF N, F, T, On, Back
<1>10. ASSUME \A j \in 0..N - 2 : On(j), Back
       PROVE  /\ Ring(edges, q) /\ F(1) = start /\ N <= maxLegs /\ Losing(edges, q)
  <2>1. /\ N >= 2 /\ T(N) = start /\ N <= maxLegs /\ Fits(H[N]) /\ H[N] < 0 /\ F(N) = T(N - 1)
    BY <1>1, <1>5, <1>10
  <2>2. \A j \in 0..N - 2 : /\ F(j + 1) = IF j = 0 THEN start ELSE T(j)
                            /\ T(j + 1) # start /\ \A l \in 1..j : T(j + 1) # T(l)
                            /\ Fits(H[j + 1])
    <3>1. \A j \in 0..N - 2 : j \in 0..N - 1
      BY <1>1
    <3> QED BY <1>4, <1>10, <3>1
  <2>3. \A j \in 1..N - 1 : /\ j - 1 \in 0..N - 2 /\ (j - 1) + 1 = j
                            /\ j # N - 1 => j \in 0..N - 2 /\ j # 0
    BY <1>1
  <2>4. F(1) = start
    <3>1. 0 \in 0..N - 2
      BY <1>1, <2>1
    <3> QED BY <2>2, <3>1
  <2>5. \A j \in 1..N - 1 : F(j + 1) = T(j)
    <3> TAKE j \in 1..N - 1
    <3>1. CASE j = N - 1
      <4>1. j + 1 = N
        BY <1>1, <3>1
      <4> QED BY <2>1, <3>1, <4>1
    <3>2. CASE j # N - 1
      BY <2>2, <2>3, <3>2
    <3> QED BY <3>1, <3>2
  <2>6. \A j \in 1..N - 1 : T(j) # start /\ Fits(H[j]) /\ \A l \in 1..j - 1 : T(j) # T(l)
    BY <2>2, <2>3
  <2>7. ASSUME NEW i \in 1..N, NEW j \in 1..N, i < j PROVE F(i) # F(j)
    <3>1. j - 1 \in 1..N - 1 /\ (j - 1) + 1 = j
      BY <1>1, <2>7
    <3>2. F(j) = T(j - 1)
      BY <2>5, <3>1
    <3>3. CASE i = 1
      BY <2>4, <2>6, <3>1, <3>2, <3>3
    <3>4. CASE i # 1
      <4>1. i - 1 \in 1..N - 1 /\ (i - 1) + 1 = i /\ i - 1 \in 1..(j - 1) - 1
        BY <1>1, <2>7, <3>4
      <4>2. F(i) = T(i - 1)
        BY <2>5, <4>1
      <4>3. T(j - 1) # T(i - 1)
        BY <2>6, <3>1, <4>1
      <4> QED BY <3>2, <4>2, <4>3
    <3> QED BY <3>3, <3>4
  <2>8. \A i, j \in 1..N : F(i) = F(j) => i = j
    <3>1. \A i, j \in 1..N : i < j \/ j < i \/ i = j
      BY <1>1
    <3> QED BY <2>7, <3>1
  <2>9. \A j \in 1..N : Fits(H[j])
    <3>1. \A j \in 1..N : j = N \/ j \in 1..N - 1
      BY <1>1
    <3> QED BY <2>1, <2>6, <3>1
  <2> QED BY <1>7, <1>8, <2>1, <2>4, <2>5, <2>8, <2>9
<1>11. ASSUME Ring(edges, q), F(1) = start, N <= maxLegs, Losing(edges, q)
       PROVE  (\A j \in 0..N - 2 : On(j)) /\ Back
  <2>1. /\ N >= 2 /\ \A j \in 1..N - 1 : F(j + 1) = T(j)
        /\ T(N) = F(1) /\ \A i, j \in 1..N : F(i) = F(j) => i = j
    BY <1>7, <1>11
  <2>2. (\A j \in 1..N : Fits(H[j])) /\ H[N] < 0
    BY <1>8, <1>11
  <2>3. Back
    <3>1. N - 1 \in 1..N - 1 /\ (N - 1) + 1 = N /\ N \in 1..N /\ N # 1
      BY <1>1, <2>1
    <3> QED BY <1>5, <1>11, <2>1, <2>2, <3>1
  <2>4. ASSUME NEW j \in 0..N - 2 PROVE On(j)
    <3>1. /\ j \in 0..N - 1 /\ j + 1 \in 1..N - 1 /\ j + 1 \in 1..N /\ (j + 1) + 1 \in 1..N
          /\ (j + 1) + 1 # 1 /\ 1 \in 1..N /\ j + 1 < maxLegs
          /\ (j # 0 => j \in 1..N - 1)
      BY <1>1, <1>11, <2>1
    <3>2. T(j + 1) = F((j + 1) + 1)
      BY <2>1, <3>1
    <3>3. T(j + 1) # start
      BY <1>11, <2>1, <3>1, <3>2
    <3>4. ASSUME NEW l \in 1..j PROVE T(j + 1) # T(l)
      <4>1. l \in 1..N - 1 /\ l + 1 \in 1..N /\ l + 1 # (j + 1) + 1
        BY <1>1, <3>1
      <4>2. T(l) = F(l + 1)
        BY <2>1, <4>1
      <4> QED BY <2>1, <3>1, <3>2, <4>1, <4>2
    <3>5. F(j + 1) = IF j = 0 THEN start ELSE T(j)
      <4>1. CASE j = 0
        BY <1>11, <4>1
      <4>2. CASE j # 0
        BY <2>1, <3>1, <4>2
      <4> QED BY <4>1, <4>2
    <3> QED BY <1>4, <2>2, <3>1, <3>3, <3>4, <3>5
  <2> QED BY <2>3, <2>4
<1> QED BY <1>6, <1>9, <1>10, <1>11 DEF N

-----------------------------------------------------------------------------
LEMMA PathsAre ==
  ASSUME NEW n \in Nat, NEW edges, DOMAIN edges = 1..n, \A i \in 1..n : edges[i].weight \in Int,
         NEW start, NEW maxLegs \in Nat
  PROVE  \A q : q \in ToSet(PathsFrom(edges, start, maxLegs)) <=>
           /\ q \in Seq(1..n) /\ Ring(edges, q) /\ edges[q[1]].from = start
           /\ Len(q) <= maxLegs /\ Losing(edges, q)
<1>1. \A q : q \in ToSet(PathsFrom(edges, start, maxLegs)) <=>
               FoundBehind(edges, start, maxLegs, n, <<>>, q)
  BY SearchReaches
<1>2. ASSUME NEW q
      PROVE  FoundBehind(edges, start, maxLegs, n, <<>>, q) <=>
               q \in Seq(1..n) /\ q # <<>> /\ Reaches(edges, start, maxLegs, q, 0)
  <2>1. Len(<<>>) = 0
    OBVIOUS
  <2>2. q \in Seq(1..n) => /\ SubSeq(q, 1, 0) = <<>> /\ Len(q) \in Nat
                           /\ (q # <<>> <=> 0 < Len(q))
    BY BeginningMore, LenProperties, EmptySeq
  <2> QED BY <2>1, <2>2, Zenon DEF FoundBehind
<1>3. ASSUME NEW q \in Seq(1..n), q # <<>>
      PROVE  Reaches(edges, start, maxLegs, q, 0) <=>
               /\ Ring(edges, q) /\ edges[q[1]].from = start
               /\ Len(q) <= maxLegs /\ Losing(edges, q)
  BY <1>3, RingsAreReached
<1>4. \A q \in Seq(1..n) : Ring(edges, q) => q # <<>>
  BY DEF Ring
<1> QED BY <1>1, <1>2, <1>3, <1>4, Zenon

-----------------------------------------------------------------------------
(* A fold over a finite set takes its elements in any order, when the      *)
(* operation lets two of them change places.                               *)
OneOf(T) == CHOOSE x \in T : TRUE

SetRecurs(g, L, base, op, v) ==
    g = [T \in SUBSET L |->
           IF T = {} THEN base ELSE op[<<v[OneOf(T)], g[T \ {OneOf(T)}]>>]]

SetSteps(g, L, D, base, op, v) ==
    /\ g[{}] = base
    /\ \A T \in SUBSET L :
         T # {} /\ g[T \ {OneOf(T)}] \in D => g[T] = op[<<v[OneOf(T)], g[T \ {OneOf(T)}]>>]

SetFold(g, L, D, base, op, v) ==
    /\ \A T \in SUBSET L : g[T] \in D /\ \A x \in T : g[T] = op[<<v[x], g[T \ {x}]>>]
    /\ g[{}] = base

LEMMA OneOfIs == \A T : T # {} => OneOf(T) \in T
BY DEF OneOf

LEMMA SetFoldExists ==
  ASSUME NEW L, IsFiniteSet(L), NEW base, NEW op, NEW v
  PROVE  \E g : SetRecurs(g, L, base, op, v)
<1> DEFINE Body(g, T) == IF T = {} THEN base ELSE op[<<v[OneOf(T)], g[T \ {OneOf(T)}]>>]
           Right(g, k) == \A T \in SUBSET L : Cardinality(T) <= k => g[T] = Body(g, T)
           S == {k \in Nat : \E g : Right(g, k)}
<1>1. \A T \in SUBSET L : IsFiniteSet(T) /\ Cardinality(T) \in Nat /\ Cardinality(T) <= Cardinality(L)
  BY FS_Subset, FS_CardinalityType
<1>2. \A T \in SUBSET L : T # {} => OneOf(T) \in T
  BY OneOfIs
<1>3. ASSUME NEW T \in SUBSET L, T # {}
      PROVE  T \ {OneOf(T)} \in SUBSET L /\ Cardinality(T \ {OneOf(T)}) = Cardinality(T) - 1
  BY <1>1, <1>2, <1>3, FS_RemoveElement
<1>4. ASSUME NEW f, NEW g, NEW T \in SUBSET L, T # {} => f[T \ {OneOf(T)}] = g[T \ {OneOf(T)}]
      PROVE  Body(f, T) = Body(g, T)
  BY <1>4
<1> HIDE DEF Body
<1>5. 0 \in S
  <2> DEFINE g == [T \in SUBSET L |-> Body([U \in SUBSET L |-> base], T)]
  <2>1. ASSUME NEW T \in SUBSET L, Cardinality(T) <= 0 PROVE g[T] = Body(g, T)
    <3>1. T = {}
      BY <1>1, <2>1, FS_EmptySet
    <3>2. g[T] = Body([U \in SUBSET L |-> base], T)
      OBVIOUS
    <3> HIDE DEF g
    <3> QED BY <1>4, <3>1, <3>2
  <2> HIDE DEF g
  <2>2. Right(g, 0)
    BY <2>1
  <2> QED BY <2>2
<1>6. ASSUME NEW k \in Nat, k \in S PROVE k + 1 \in S
  <2>1. PICK g : Right(g, k)
    BY <1>6
  <2> DEFINE h == [T \in SUBSET L |-> Body(g, T)]
  <2>2. \A T \in SUBSET L : h[T] = Body(g, T)
    OBVIOUS
  <2> HIDE DEF h
  <2>3. ASSUME NEW T \in SUBSET L, Cardinality(T) <= k + 1 PROVE h[T] = Body(h, T)
    <3>1. ASSUME T # {} PROVE h[T \ {OneOf(T)}] = g[T \ {OneOf(T)}]
      <4> DEFINE U == T \ {OneOf(T)}
      <4>1. U \in SUBSET L /\ Cardinality(U) <= k
        BY <1>1, <1>3, <2>3, <3>1
      <4> HIDE DEF U
      <4>2. h[U] = g[U]
        BY <2>1, <2>2, <4>1
      <4> QED BY <4>2 DEF U
    <3> QED BY <1>4, <2>2, <3>1
  <2>4. Right(h, k + 1)
    BY <2>3
  <2> QED BY <2>4
<1>7. Cardinality(L) \in S
  <2>1. Cardinality(L) \in Nat
    BY FS_CardinalityType
  <2> HIDE DEF S
  <2> QED BY <1>5, <1>6, <2>1, Induct
<1>8. PICK g : Right(g, Cardinality(L))
  BY <1>7
<1> DEFINE h == [T \in SUBSET L |-> g[T]]
<1>9. \A T \in SUBSET L : h[T] = g[T] /\ g[T] = Body(g, T)
  BY <1>1, <1>8
<1>10. h = [T \in SUBSET L |-> h[T]]
  OBVIOUS
<1> HIDE DEF h
<1>11. \A T \in SUBSET L : h[T] = Body(h, T)
  <2>1. ASSUME NEW T \in SUBSET L PROVE Body(h, T) = Body(g, T)
    BY <1>3, <1>4, <1>9
  <2> QED BY <1>9, <2>1
<1>12. h = [T \in SUBSET L |-> Body(h, T)]
  BY <1>10, <1>11
<1> QED BY <1>12 DEF Body, SetRecurs

LEMMA SetFoldIs ==
  ASSUME NEW L, IsFiniteSet(L), NEW D, NEW base \in D, NEW op \in [D \X D -> D], NEW v \in [L -> D],
         \A a, b, c \in D : op[<<a, op[<<b, c>>]>>] = op[<<b, op[<<a, c>>]>>],
         NEW g, SetSteps(g, L, D, base, op, v)
  PROVE  SetFold(g, L, D, base, op, v)
<1> DEFINE Each(T) == g[T] \in D /\ \A x \in T : g[T] = op[<<v[x], g[T \ {x}]>>]
           S == {k \in Nat : \A T \in SUBSET L : Cardinality(T) <= k => Each(T)}
<1>1. \A T \in SUBSET L : IsFiniteSet(T) /\ Cardinality(T) \in Nat /\ Cardinality(T) <= Cardinality(L)
  BY FS_Subset, FS_CardinalityType
<1>2. \A T \in SUBSET L : T # {} => OneOf(T) \in T
  BY OneOfIs
<1>3. /\ g[{}] = base
      /\ \A T \in SUBSET L :
           T # {} /\ g[T \ {OneOf(T)}] \in D => g[T] = op[<<v[OneOf(T)], g[T \ {OneOf(T)}]>>]
  BY DEF SetSteps
<1>4. \A T \in SUBSET L : \A x \in T :
         T \ {x} \in SUBSET L /\ Cardinality(T \ {x}) = Cardinality(T) - 1
  BY <1>1, FS_RemoveElement
<1>5. 0 \in S
  <2>1. ASSUME NEW T \in SUBSET L, Cardinality(T) <= 0 PROVE Each(T)
    <3>1. T = {}
      BY <1>1, <2>1, FS_EmptySet
    <3> QED BY <1>3, <3>1
  <2> QED BY <2>1
<1>6. ASSUME NEW k \in Nat, k \in S PROVE k + 1 \in S
  <2> HIDE DEF Each
  <2>1. SUFFICES ASSUME NEW T \in SUBSET L, Cardinality(T) <= k + 1 PROVE Each(T)
    OBVIOUS
  <2>2. \A U \in SUBSET L : Cardinality(U) <= k => Each(U)
    BY <1>6
  <2> USE DEF Each
  <2> HIDE DEF S
  <2>3. CASE T = {}
    BY <1>3, <2>3
  <2>4. CASE T # {}
    <3> DEFINE c == OneOf(T)
    <3>1. c \in T /\ (g[T \ {c}] \in D => g[T] = op[<<v[c], g[T \ {c}]>>])
      BY <1>2, <1>3, <2>4
    <3> HIDE DEF c
    <3>2. \A x \in T : Each(T \ {x})
      <4>1. \A x \in T : T \ {x} \in SUBSET L /\ Cardinality(T \ {x}) <= k
        BY <1>1, <1>4, <2>1
      <4> HIDE DEF Each
      <4> QED BY <2>2, <4>1
    <3>3. g[T] \in D
      <4>1. g[T \ {c}] \in D /\ v[c] \in D
        BY <3>1, <3>2
      <4>2. op[<<v[c], g[T \ {c}]>>] \in D
        BY <4>1
      <4> QED BY <3>1, <4>1, <4>2
    <3>4. ASSUME NEW x \in T PROVE g[T] = op[<<v[x], g[T \ {x}]>>]
      <4>0. g[T] = op[<<v[c], g[T \ {c}]>>]
        BY <3>1, <3>2
      <4>1. CASE x = c
        BY <4>0, <4>1
      <4>2. CASE x # c
        <5> DEFINE r == g[(T \ {c}) \ {x}]
        <5>1. g[T \ {c}] = op[<<v[x], r>>]
          BY <3>2, <3>1, <4>2
        <5>2. g[T \ {x}] = op[<<v[c], g[(T \ {x}) \ {c}]>>]
          BY <3>2, <3>1, <4>2
        <5>3. (T \ {x}) \ {c} = (T \ {c}) \ {x}
          OBVIOUS
        <5>4. r \in D
          <6> DEFINE U == T \ {c}
          <6>1. U \in SUBSET L /\ Cardinality(U) = Cardinality(T) - 1
            BY <1>4, <3>1
          <6>2. x \in U
            BY <4>2
          <6> HIDE DEF U
          <6>3. U \ {x} \in SUBSET L /\ Cardinality(U \ {x}) = Cardinality(U) - 1
            BY <1>4, <6>1, <6>2
          <6>4. Cardinality(T) \in Nat
            BY <1>1
          <6>5. Cardinality(U \ {x}) <= k
            BY <2>1, <6>1, <6>3, <6>4
          <6>6. g[U \ {x}] \in D
            BY <2>2, <6>3, <6>5
          <6> QED BY <6>6 DEF U
        <5>5. v[c] \in D /\ v[x] \in D
          BY <3>1
        <5> HIDE DEF r
        <5>6. op[<<v[c], op[<<v[x], r>>]>>] = op[<<v[x], op[<<v[c], r>>]>>]
          BY <5>4, <5>5
        <5>7. g[T \ {x}] = op[<<v[c], r>>]
          BY <5>2, <5>3 DEF r
        <5> QED BY <4>0, <5>1, <5>6, <5>7
      <4> QED BY <4>1, <4>2
    <3> QED BY <3>3, <3>4
  <2> QED BY <2>3, <2>4
<1>7. \A T \in SUBSET L : Each(T)
  <2>1. Cardinality(L) \in S
    <3>1. Cardinality(L) \in Nat
      BY FS_CardinalityType
    <3> HIDE DEF S
    <3> QED BY <1>5, <1>6, <3>1, Induct
  <2> HIDE DEF Each
  <2> QED BY <1>1, <2>1
<1> QED BY <1>3, <1>7 DEF SetFold

(* The sum of the weights of a set of edges, and the product over one.     *)
Plus == [p \in Int \X Int |-> p[1] + p[2]]

LEMMA SumFolds ==
  ASSUME NEW L, IsFiniteSet(L), NEW edges, \A i \in L : edges[i].weight \in Int
  PROVE  \E g : SetFold(g, L, Int, 0, Plus, [i \in L |-> edges[i].weight]) /\ Sum(edges, L) = g[L]
<1> DEFINE v == [i \in L |-> edges[i].weight]
           Body(g, T) == IF T = {} THEN 0 ELSE edges[OneOf(T)].weight + g[T \ {OneOf(T)}]
           c == CHOOSE g : g = [T \in SUBSET L |-> Body(g, T)]
<1>1. /\ Plus \in [Int \X Int -> Int] /\ v \in [L -> Int] /\ 0 \in Int
      /\ \A a, b, d \in Int : Plus[<<a, Plus[<<b, d>>]>>] = Plus[<<b, Plus[<<a, d>>]>>]
  BY DEF Plus
<1>2. \A a, b \in Int : Plus[<<a, b>>] = a + b
  BY DEF Plus
<1>3. \A T \in SUBSET L : T # {} => /\ OneOf(T) \in T /\ v[OneOf(T)] = edges[OneOf(T)].weight
                                    /\ v[OneOf(T)] \in Int /\ T \ {OneOf(T)} \in SUBSET L
  BY OneOfIs
<1>4. Sum(edges, L) = c[L]
  BY Zenon DEF Sum, MapThenSumSet, MapThenFoldSet, OneOf
<1> HIDE DEF v
<1>5. PICK f : SetRecurs(f, L, 0, Plus, v)
  BY SetFoldExists
<1>6. \A T \in SUBSET L : f[T] = IF T = {} THEN 0 ELSE Plus[<<v[OneOf(T)], f[T \ {OneOf(T)}]>>]
  BY <1>5, Zenon DEF SetRecurs
<1>7. SetFold(f, L, Int, 0, Plus, v)
  <2>1. {} \in SUBSET L
    OBVIOUS
  <2>2. SetSteps(f, L, Int, 0, Plus, v)
    BY <1>6, <2>1 DEF SetSteps
  <2> QED BY <1>1, <2>2, SetFoldIs
<1>8. \A T \in SUBSET L : f[T] = Body(f, T)
  <2>1. \A T \in SUBSET L : f[T] \in Int
    BY <1>7 DEF SetFold
  <2> QED BY <1>2, <1>3, <1>6, <2>1
<1> HIDE DEF Body
<1>9. f = [T \in SUBSET L |-> Body(f, T)]
  <2>1. f = [T \in SUBSET L |-> f[T]]
    BY <1>5, Zenon DEF SetRecurs
  <2> QED BY <1>8, <2>1
<1>10. c = [T \in SUBSET L |-> Body(c, T)]
  BY <1>9, Zenon
<1> HIDE DEF c
<1>11. \A T \in SUBSET L : c[T] = Body(c, T)
  BY <1>10, Zenon
<1>12. SetSteps(c, L, Int, 0, Plus, v)
  <2>1. {} \in SUBSET L
    OBVIOUS
  <2>2. c[{}] = 0
    BY <1>11, <2>1 DEF Body
  <2>3. ASSUME NEW T \in SUBSET L, T # {}, c[T \ {OneOf(T)}] \in Int
        PROVE  c[T] = Plus[<<v[OneOf(T)], c[T \ {OneOf(T)}]>>]
    <3>1. c[T] = v[OneOf(T)] + c[T \ {OneOf(T)}]
      BY <1>3, <1>11, <2>3 DEF Body
    <3>2. v[OneOf(T)] \in Int
      BY <1>3, <2>3
    <3> QED BY <1>2, <2>3, <3>1, <3>2
  <2> QED BY <2>2, <2>3 DEF SetSteps
<1>13. SetFold(c, L, Int, 0, Plus, v)
  BY <1>1, <1>12, SetFoldIs
<1> QED BY <1>4, <1>13 DEF v

LEMMA SumIsWeight ==
  ASSUME NEW n \in Nat, NEW edges, \A i \in 1..n : edges[i].weight \in Int, NEW q \in Seq(1..n),
         \A i, j \in 1..Len(q) : q[i] = q[j] => i = j
  PROVE  Sum(edges, ToSet(q)) = PathWeight(edges, q)
<1> DEFINE N == Len(q)
           L == ToSet(q)
           v == [i \in L |-> edges[i].weight]
           U(j) == {q[i] : i \in 1..j}
<1>1. N \in Nat /\ DOMAIN q = 1..N /\ L = U(N) /\ \A i \in 1..N : q[i] \in 1..n
  BY LenProperties, ElementOfSeq DEF ToSet
<1>2. PICK H : Summed(H, edges, q) /\ PathWeight(edges, q) = H[Len(q)]
  BY WeightSummed
<1>3. H[0] = 0 /\ \A i \in 1..N : H[i - 1] \in Int /\ H[i] = H[i - 1] + edges[q[i]].weight
  <2>1. \A i \in 1..N : i - 1 \in 0..N
    BY <1>1
  <2> QED BY <1>2, <2>1 DEF Summed
<1>4. IsFiniteSet(L) /\ L \in SUBSET (1..n)
  <2>1. L \in SUBSET (1..n)
    BY <1>1
  <2>2. IsFiniteSet(1..n)
    BY FS_Interval
  <2> QED BY <2>1, <2>2, FS_Subset
<1>5. PICK g : SetFold(g, L, Int, 0, Plus, v) /\ Sum(edges, L) = g[L]
  BY <1>4, SumFolds
<1>6. g[{}] = 0 /\ \A T \in SUBSET L : \A x \in T : g[T] = v[x] + g[T \ {x}]
  <2>1. \A x \in L : v[x] \in Int
    BY <1>4
  <2> HIDE DEF v
  <2>2. g[{}] = 0 /\ \A T \in SUBSET L : g[T] \in Int /\ \A x \in T : g[T] = Plus[<<v[x], g[T \ {x}]>>]
    BY <1>5 DEF SetFold
  <2>3. \A a, b \in Int : Plus[<<a, b>>] = a + b
    BY DEF Plus
  <2>4. \A T \in SUBSET L : \A x \in T : T \ {x} \in SUBSET L /\ x \in L
    OBVIOUS
  <2> HIDE DEF L
  <2> QED BY <2>1, <2>2, <2>3, <2>4
<1> DEFINE S == {j \in Nat : j <= N => g[U(j)] = H[j]}
<1>7. 0 \in S
  <2>1. U(0) = {}
    OBVIOUS
  <2> HIDE DEF U
  <2> QED BY <1>3, <1>6, <2>1
<1>8. ASSUME NEW j \in Nat, j \in S PROVE j + 1 \in S
  <2>1. SUFFICES ASSUME j + 1 <= N PROVE g[U(j + 1)] = H[j + 1]
    OBVIOUS
  <2>2. j + 1 \in 1..N /\ (j + 1) - 1 = j /\ g[U(j)] = H[j]
    <3>1. j <= N /\ j + 1 \in 1..N /\ (j + 1) - 1 = j
      BY <1>1, <2>1
    <3> HIDE DEF U
    <3> QED BY <1>8, <3>1
  <2>3. q[j + 1] \in U(j + 1) /\ U(j + 1) \in SUBSET L
    BY <1>1, <2>2
  <2>4. U(j + 1) \ {q[j + 1]} = U(j)
    <3>1. \A i \in 1..j + 1 : i \in 1..N /\ (i = j + 1 \/ i \in 1..j)
      BY <1>1, <2>2
    <3>2. \A i \in 1..j : q[i] # q[j + 1] /\ i \in 1..j + 1
      <4>1. \A i \in 1..j : i \in 1..N /\ i # j + 1 /\ i \in 1..j + 1
        BY <1>1, <2>2
      <4> QED BY <2>2, <4>1
    <3> QED BY <3>1, <3>2
  <2>5. v[q[j + 1]] = edges[q[j + 1]].weight /\ edges[q[j + 1]].weight \in Int
    BY <1>1, <2>2
  <2>6. H[j + 1] = H[j] + edges[q[j + 1]].weight /\ H[j] \in Int /\ edges[q[j + 1]].weight \in Int
    <3>1. H[(j + 1) - 1] \in Int /\ H[j + 1] = H[(j + 1) - 1] + edges[q[j + 1]].weight
      BY <1>3, <2>2
    <3> QED BY <2>2, <2>5, <3>1
  <2> HIDE DEF v, U, L, S
  <2>7. g[U(j + 1)] = v[q[j + 1]] + g[U(j + 1) \ {q[j + 1]}]
    BY <1>6, <2>3
  <2>8. g[U(j + 1)] = edges[q[j + 1]].weight + H[j]
    BY <2>2, <2>4, <2>5, <2>7
  <2> QED BY <2>6, <2>8
<1>9. N \in S
  <2> HIDE DEF S
  <2> QED BY <1>1, <1>7, <1>8, Induct
<1> QED BY <1>1, <1>2, <1>5, <1>9

-----------------------------------------------------------------------------
(* A ring and the set of its edges.                                        *)
Loop(edges, L) ==
    /\ Closed(edges, L)
    /\ \A K \in (SUBSET L) \ {{}, L} : ~Closed(edges, K)

LEMMA ClosedIs ==
  ASSUME NEW n \in Nat, NEW edges, NEW L \in SUBSET (1..n)
  PROVE  /\ IsFiniteSet(L) /\ IsFiniteSet({edges[i].from : i \in L})
         /\ Closed(edges, L) <=>
              /\ {edges[i].from : i \in L} = {edges[i].to : i \in L}
              /\ \A i, j \in L : edges[i].from = edges[j].from => i = j
<1> DEFINE F == {edges[i].from : i \in L}
           f == [i \in L |-> edges[i].from]
<1>1. IsFiniteSet(L)
  <2>1. IsFiniteSet(1..n)
    BY FS_Interval
  <2> QED BY <2>1, FS_Subset
<1>2. f \in Surjection(L, F)
  BY DEF Surjection
<1>3. f \in Injection(L, F) <=> \A i, j \in L : edges[i].from = edges[j].from => i = j
  <2>1. f \in [L -> F]
    OBVIOUS
  <2>2. \A i \in L : f[i] = edges[i].from
    OBVIOUS
  <2> HIDE DEF f, F
  <2> QED BY <2>1, <2>2 DEF Injection, IsInjective
<1> HIDE DEF f, F
<1>4. IsFiniteSet(F) /\ (Cardinality(F) = Cardinality(L) <=> f \in Injection(L, F))
  BY <1>1, <1>2, FS_Surjection
<1> QED BY <1>1, <1>3, <1>4 DEF Closed, F

LEMMA RingIsLoop ==
  ASSUME NEW n \in Nat, NEW edges, NEW q \in Seq(1..n), Ring(edges, q)
  PROVE  /\ \A i, j \in 1..Len(q) : q[i] = q[j] => i = j
         /\ ToSet(q) \in SUBSET (1..n) /\ Cardinality(ToSet(q)) = Len(q)
         /\ Loop(edges, ToSet(q))
<1> DEFINE N == Len(q)
           L == ToSet(q)
           F(i) == edges[q[i]].from
           T(i) == edges[q[i]].to
           after(i) == IF i = N THEN 1 ELSE i + 1
<1>1. N \in Nat /\ N >= 2 /\ L = {q[i] : i \in 1..N} /\ \A i \in 1..N : q[i] \in 1..n
  BY LenProperties, ElementOfSeq DEF Ring, ToSet
<1>2. /\ \A j \in 1..N - 1 : F(j + 1) = T(j)
      /\ T(N) = F(1) /\ \A i, j \in 1..N : F(i) = F(j) => i = j
  BY DEF Ring
<1>3. \A i, j \in 1..N : q[i] = q[j] => i = j
  BY <1>2
<1>4. L \in SUBSET (1..n)
  BY <1>1
<1>5. Cardinality(L) = N
  BY <1>3, DistinctSize DEF Distinct
<1>6. \A i \in 1..N : after(i) \in 1..N /\ F(after(i)) = T(i)
  <2>1. \A i \in 1..N : i = N \/ (i \in 1..N - 1 /\ i + 1 \in 1..N)
    BY <1>1
  <2>2. 1 \in 1..N
    BY <1>1
  <2> HIDE DEF F, T
  <2> QED BY <1>2, <2>1, <2>2
<1>7. \A j \in 1..N : \E i \in 1..N : after(i) = j
  <2>1. ASSUME NEW j \in 1..N, j # 1 PROVE j - 1 \in 1..N /\ after(j - 1) = j
    BY <1>1, <2>1
  <2>2. N \in 1..N /\ after(N) = 1
    BY <1>1
  <2> QED BY <2>1, <2>2
<1> HIDE DEF N, after
<1>8. Closed(edges, L)
  <2>1. \A x \in L : \E y \in L : edges[x].to = edges[y].from
    <3>1. \A i \in 1..N : \E j \in 1..N : T(i) = F(j)
      <4> HIDE DEF F, T
      <4> QED BY <1>6
    <3> DEFINE Meet(x, y) == edges[x].to = edges[y].from
    <3>2. \A i \in 1..N : \E j \in 1..N : Meet(q[i], q[j])
      BY <3>1
    <3> HIDE DEF Meet, L
    <3>3. \A x \in L : \E y \in L : Meet(x, y)
      BY <1>1, <3>2
    <3> QED BY <3>3 DEF Meet
  <2>2. \A x \in L : \E y \in L : edges[x].from = edges[y].to
    <3>1. \A j \in 1..N : \E i \in 1..N : F(j) = T(i)
      <4> HIDE DEF F, T
      <4> QED BY <1>6, <1>7
    <3> DEFINE Meet(x, y) == edges[x].from = edges[y].to
    <3>2. \A i \in 1..N : \E j \in 1..N : Meet(q[i], q[j])
      BY <3>1
    <3> HIDE DEF Meet, L
    <3>3. \A x \in L : \E y \in L : Meet(x, y)
      BY <1>1, <3>2
    <3> QED BY <3>3 DEF Meet
  <2>3. {edges[i].from : i \in L} = {edges[i].to : i \in L}
    <3> HIDE DEF L
    <3>1. ASSUME NEW t \in {edges[i].from : i \in L} PROVE t \in {edges[i].to : i \in L}
      <4>1. PICK x \in L : t = edges[x].from
        OBVIOUS
      <4> QED BY <2>2, <4>1
    <3>2. ASSUME NEW t \in {edges[i].to : i \in L} PROVE t \in {edges[i].from : i \in L}
      <4>1. PICK x \in L : t = edges[x].to
        OBVIOUS
      <4> QED BY <2>1, <4>1
    <3> QED BY <3>1, <3>2
  <2>4. ASSUME NEW x \in L, NEW y \in L, edges[x].from = edges[y].from PROVE x = y
    <3>1. PICK i \in 1..N : x = q[i]
      BY <1>1
    <3>2. PICK j \in 1..N : y = q[j]
      BY <1>1
    <3> QED BY <1>2, <2>4, <3>1, <3>2
  <2> HIDE DEF L
  <2> QED BY <1>4, <2>3, <2>4, ClosedIs
<1>9. ASSUME NEW K \in SUBSET L, K # {}, Closed(edges, K) PROVE K = L
  <2> DEFINE S == {i \in 1..N : q[i] \in K}
  <2>1. {edges[i].from : i \in K} = {edges[i].to : i \in K}
    BY <1>9 DEF Closed
  <2>2. ASSUME NEW i \in S PROVE after(i) \in S
    <3>1. i \in 1..N /\ q[i] \in K /\ after(i) \in 1..N /\ F(after(i)) = T(i)
      BY <1>6
    <3>2. T(i) \in {edges[x].from : x \in K}
      <4>1. T(i) \in {edges[x].to : x \in K}
        BY <3>1
      <4> QED BY <2>1, <4>1
    <3>3. PICK x \in K : edges[x].from = T(i)
      BY <3>2
    <3>4. PICK j \in 1..N : x = q[j]
      BY <1>1
    <3>5. j = after(i)
      BY <1>2, <3>1, <3>3, <3>4
    <3> QED BY <3>1, <3>4, <3>5
  <2>3. \E i \in 1..N : i \in S
    BY <1>1, <1>9
  <2>4. ASSUME NEW i \in 1..N, i < N, i \in S PROVE i + 1 \in S
    BY <2>2, <2>4 DEF after
  <2>5. N \in S => 1 \in S
    BY <2>2 DEF after
  <2>6. S \subseteq 1..N
    OBVIOUS
  <2> HIDE DEF S
  <2>7. ASSUME NEW m \in 1..N, m \in S PROVE \A k \in 1..N : m <= k => k \in S
    <3> DEFINE D == {k \in Nat : m + k <= N => m + k \in S}
    <3>1. 0 \in D
      BY <1>1, <2>7
    <3>2. ASSUME NEW k \in Nat, k \in D PROVE k + 1 \in D
      <4>1. SUFFICES ASSUME m + (k + 1) <= N PROVE m + (k + 1) \in S
        OBVIOUS
      <4>2. m + k \in 1..N /\ m + k < N /\ m + k \in S /\ (m + k) + 1 = m + (k + 1)
        BY <1>1, <3>2, <4>1
      <4> QED BY <2>4, <4>2
    <3>3. Nat \subseteq D
      <4> HIDE DEF D
      <4> QED BY <3>1, <3>2, Induct
    <3>4. ASSUME NEW k \in 1..N, m <= k PROVE k \in S
      <4>1. k - m \in Nat /\ m + (k - m) = k
        BY <1>1, <3>4
      <4>2. k - m \in D
        BY <3>3, <4>1
      <4> QED BY <1>1, <4>1, <4>2
    <3> QED BY <3>4
  <2>8. N \in 1..N /\ 1 \in 1..N /\ \A k \in 1..N : 1 <= k /\ k <= N
    BY <1>1
  <2>9. N \in S
    BY <2>3, <2>7, <2>8
  <2>10. \A k \in 1..N : k \in S
    BY <2>5, <2>7, <2>8, <2>9
  <2>11. \A k \in 1..N : q[k] \in K
    BY <2>10 DEF S
  <2> QED BY <1>1, <2>11
<1>10. Loop(edges, L)
  BY <1>8, <1>9 DEF Loop
<1> QED BY <1>3, <1>4, <1>5, <1>10 DEF N

(* A ring is given by its edges and the first of them.                     *)
LEMMA RingsAgree ==
  ASSUME NEW n \in Nat, NEW edges, NEW q \in Seq(1..n), Ring(edges, q),
         NEW r \in Seq(1..n), Ring(edges, r), ToSet(q) = ToSet(r), q[1] = r[1]
  PROVE  q = r
<1> DEFINE N == Len(q)
           S == {j \in Nat : j + 1 <= N => q[j + 1] = r[j + 1]}
<1>1. N \in Nat /\ N >= 2 /\ ToSet(q) = {q[i] : i \in 1..N}
  BY LenProperties DEF Ring, ToSet
<1>2. Len(r) = N /\ ToSet(r) = {r[i] : i \in 1..N}
  <2>1. Len(r) = N
    BY RingIsLoop
  <2> QED BY <2>1, LenProperties DEF ToSet
<1>3. /\ \A j \in 1..N - 1 : edges[q[j + 1]].from = edges[q[j]].to
      /\ \A j \in 1..N - 1 : edges[r[j + 1]].from = edges[r[j]].to
      /\ \A i, j \in 1..N : edges[q[i]].from = edges[q[j]].from => i = j
  BY <1>2 DEF Ring
<1> HIDE DEF N
<1>4. 0 \in S
  BY <1>1
<1>5. ASSUME NEW j \in Nat, j \in S PROVE j + 1 \in S
  <2>1. SUFFICES ASSUME (j + 1) + 1 <= N PROVE q[(j + 1) + 1] = r[(j + 1) + 1]
    OBVIOUS
  <2>2. j + 1 \in 1..N - 1 /\ (j + 1) + 1 \in 1..N /\ j + 1 <= N /\ q[j + 1] = r[j + 1]
    BY <1>1, <1>5, <2>1
  <2>3. edges[q[(j + 1) + 1]].from = edges[r[(j + 1) + 1]].from
    BY <1>3, <2>2
  <2>4. r[(j + 1) + 1] \in ToSet(q)
    BY <1>2, <2>2
  <2>5. PICK k \in 1..N : r[(j + 1) + 1] = q[k]
    BY <1>1, <2>4
  <2>6. k = (j + 1) + 1
    BY <1>3, <2>2, <2>3, <2>5
  <2> QED BY <2>5, <2>6
<1>6. Nat \subseteq S
  <2> HIDE DEF S
  <2> QED BY <1>4, <1>5, Induct
<1>7. \A i \in 1..N : q[i] = r[i]
  <2>1. ASSUME NEW i \in 1..N PROVE q[i] = r[i]
    <3>1. i - 1 \in Nat /\ (i - 1) + 1 = i /\ i <= N
      BY <1>1
    <3>2. i - 1 \in S
      BY <1>6, <3>1
    <3> QED BY <3>1, <3>2
  <2> QED BY <2>1
<1> QED BY <1>2, <1>7, SeqEqual DEF N

(* The walk round a loop.                                                  *)
Onward(edges, L, x) == CHOOSE j \in L : edges[j].from = edges[x].to

GoesRound(edges, L) == \A x \in L : Onward(edges, L, x) \in L

Walked(edges, L, i, w) ==
    /\ w \in Seq(L) /\ Len(w) = Cardinality(L) /\ Len(w) >= 1 /\ w[1] = i
    /\ \A k \in 1..Len(w) - 1 : w[k + 1] = Onward(edges, L, w[k])

WalkStep(edges, L, i, C, g) ==
    [k \in 1..C |-> IF k = 1 THEN <<i>>
                    ELSE Append(g[k - 1], Onward(edges, L, Last(g[k - 1])))]

LEMMA WalkExists ==
  ASSUME NEW L, NEW edges, NEW C \in Nat, C = Cardinality(L), NEW i \in L,
         GoesRound(edges, L)
  PROVE  \E f : f = WalkStep(edges, L, i, C, f) /\ Walk(edges, L, i) = f[C]
<1> DEFINE D == Seq(L)
           step == [p \in D \X (1..C) |-> IF p[1] = <<>> THEN <<i>>
                                          ELSE Append(p[1], Onward(edges, L, Last(p[1])))]
           c == CHOOSE f : f = WalkStep(edges, L, i, C, f)
<1>0. \A x \in L : Onward(edges, L, x) \in L
  BY DEF GoesRound
<1>1. step \in [D \X (1..C) -> D]
  <2>1. <<i>> \in D /\ <<>> \in D
    BY EmptySeq
  <2>2. ASSUME NEW s \in D, s # <<>> PROVE Append(s, Onward(edges, L, Last(s))) \in D
    <3>1. Len(s) \in Nat \ {0}
      BY <2>2, EmptySeq
    <3>2. Len(s) \in 1..Len(s)
      BY <3>1
    <3>3. Last(s) \in L
      BY <3>2, ElementOfSeq DEF Last
    <3> QED BY <1>0, <3>3, AppendProperties
  <2> HIDE DEF D
  <2> QED BY <2>1, <2>2
<1>2. <<>> \in D
  BY EmptySeq
<1>3. PICK g : Folds(g, C, D, <<>>, step)
  <2> HIDE DEF step, D
  <2> QED BY <1>1, <1>2, FoldExists
<1> DEFINE f == [k \in 1..C |-> g[1..k]]
<1>4. \A T \in SUBSET (1..C) : /\ g[T] \in D
                               /\ g[T] = IF T = {} THEN <<>> ELSE step[<<g[T \ {Max(T)}], Max(T)>>]
  <2> HIDE DEF step
  <2> QED BY <1>3 DEF Folds
<1>5. ASSUME NEW s \in D, NEW k \in 1..C
      PROVE  step[<<s, k>>] = IF s = <<>> THEN <<i>> ELSE Append(s, Onward(edges, L, Last(s)))
  <2> HIDE DEF D
  <2> QED OBVIOUS
<1> HIDE DEF step
<1>6. ASSUME NEW k \in 1..C
      PROVE  /\ g[1..k - 1] \in D
             /\ g[1..k] = IF g[1..k - 1] = <<>> THEN <<i>>
                          ELSE Append(g[1..k - 1], Onward(edges, L, Last(g[1..k - 1])))
  <2>1. /\ 1..k \in SUBSET (1..C) /\ 1..k # {} /\ Max(1..k) = k
        /\ (1..k) \ {Max(1..k)} = 1..(k - 1)
    BY MaxOfFirst
  <2>2. 1..k - 1 \in SUBSET (1..C)
    OBVIOUS
  <2>3. g[1..k] = step[<<g[1..k - 1], k>>]
    BY <1>4, <2>1
  <2> QED BY <1>4, <1>5, <2>2, <2>3
<1>7. \A k \in 1..C : g[1..k] # <<>>
  <2>1. ASSUME NEW k \in 1..C PROVE g[1..k] # <<>>
    <3> DEFINE s == g[1..k - 1]
    <3>1. s \in D /\ g[1..k] = IF s = <<>> THEN <<i>> ELSE Append(s, Onward(edges, L, Last(s)))
      BY <1>6
    <3> HIDE DEF s
    <3>2. CASE s = <<>>
      BY <3>1, <3>2
    <3>3. CASE s # <<>>
      <4>1. Len(s) \in Nat \ {0}
        BY <3>1, <3>3, EmptySeq
      <4>2. Len(s) \in 1..Len(s)
        BY <4>1
      <4>3. Last(s) \in L
        BY <3>1, <4>2, ElementOfSeq DEF Last
      <4>4. Len(Append(s, Onward(edges, L, Last(s)))) = Len(s) + 1
        BY <1>0, <3>1, <4>3, AppendProperties
      <4> QED BY <3>1, <3>3, <4>1, <4>4
    <3> QED BY <3>2, <3>3
  <2> QED BY <2>1
<1>8. g[1..0] = <<>>
  <2>1. 1..0 = {}
    OBVIOUS
  <2>2. {} \in SUBSET (1..C)
    OBVIOUS
  <2> QED BY <1>4, <2>1, <2>2
<1>9. f = WalkStep(edges, L, i, C, f)
  <2>1. ASSUME NEW k \in 1..C
        PROVE  f[k] = IF k = 1 THEN <<i>> ELSE Append(f[k - 1], Onward(edges, L, Last(f[k - 1])))
    <3>1. CASE k = 1
      <4>1. k - 1 = 0 /\ f[k] = g[1..k]
        BY <3>1
      <4> HIDE DEF f
      <4> QED BY <1>6, <1>8, <3>1, <4>1
    <3>2. CASE k # 1
      <4>1. k - 1 \in 1..C
        BY <3>2
      <4>2. f[k] = g[1..k] /\ f[k - 1] = g[1..k - 1]
        BY <4>1
      <4> HIDE DEF f
      <4> QED BY <1>6, <1>7, <3>2, <4>1, <4>2
    <3> QED BY <3>1, <3>2
  <2>2. f = [k \in 1..C |-> f[k]]
    OBVIOUS
  <2> HIDE DEF f
  <2> QED BY <2>1, <2>2 DEF WalkStep
<1>10. c = WalkStep(edges, L, i, C, c)
  <2> HIDE DEF f
  <2> QED BY <1>9, Zenon
<1>11. Walk(edges, L, i) = c[C]
  BY Zenon DEF Walk, WalkStep, Onward
<1> HIDE DEF c
<1> QED BY <1>10, <1>11

LEMMA WalkIs ==
  ASSUME NEW n \in Nat, NEW edges, NEW L \in SUBSET (1..n), NEW i \in L,
         GoesRound(edges, L)
  PROVE  Walked(edges, L, i, Walk(edges, L, i))
<1> DEFINE C == Cardinality(L)
<1>1. C \in Nat /\ C >= 1
  <2>1. IsFiniteSet(L)
    <3>1. IsFiniteSet(1..n)
      BY FS_Interval
    <3> QED BY <3>1, FS_Subset
  <2>2. C \in Nat
    BY <2>1, FS_CardinalityType
  <2>3. C # 0
    BY <2>1, FS_EmptySet
  <2> QED BY <2>2, <2>3
<1>2. PICK f : f = WalkStep(edges, L, i, C, f) /\ Walk(edges, L, i) = f[C]
  <2>1. C \in Nat /\ C = Cardinality(L)
    BY <1>1
  <2> HIDE DEF C
  <2> QED BY <2>1, WalkExists
<1> HIDE DEF C
<1>3. \A k \in 1..C : f[k] = IF k = 1 THEN <<i>> ELSE Append(f[k - 1], Onward(edges, L, Last(f[k - 1])))
  BY <1>2, Zenon DEF WalkStep
<1> DEFINE Goes(w, k) == /\ w \in Seq(L) /\ Len(w) = k /\ w[1] = i
                         /\ \A j \in 1..k - 1 : w[j + 1] = Onward(edges, L, w[j])
           S == {k \in Nat : k + 1 <= C => Goes(f[k + 1], k + 1)}
<1>4. 0 \in S
  <2>1. f[1] = <<i>>
    BY <1>1, <1>3
  <2>2. Goes(<<i>>, 1)
    OBVIOUS
  <2> HIDE DEF Goes
  <2> QED BY <2>1, <2>2
<1>5. ASSUME NEW k \in Nat, k \in S PROVE k + 1 \in S
  <2> HIDE DEF Goes
  <2>1. SUFFICES ASSUME (k + 1) + 1 <= C PROVE Goes(f[(k + 1) + 1], (k + 1) + 1)
    OBVIOUS
  <2> DEFINE w == f[k + 1]
             x == Onward(edges, L, Last(w))
  <2>2. Goes(w, k + 1)
    BY <1>1, <1>5, <2>1
  <2>3. (k + 1) + 1 \in 1..C /\ (k + 1) + 1 # 1 /\ ((k + 1) + 1) - 1 = k + 1
    BY <1>1, <2>1
  <2>4. f[(k + 1) + 1] = Append(w, x)
    BY <1>3, <2>3
  <2> HIDE DEF w
  <2>5. w \in Seq(L) /\ Len(w) = k + 1 /\ w[1] = i /\ \A j \in 1..k : w[j + 1] = Onward(edges, L, w[j])
    BY <2>2 DEF Goes
  <2>6. Last(w) = w[k + 1] /\ w[k + 1] \in L
    BY <2>5, ElementOfSeq DEF Last
  <2>7. x \in L
    BY <2>6 DEF GoesRound
  <2> HIDE DEF x
  <2>8. /\ Append(w, x) \in Seq(L) /\ Len(Append(w, x)) = (k + 1) + 1
        /\ Append(w, x)[(k + 1) + 1] = x /\ \A j \in 1..k + 1 : Append(w, x)[j] = w[j]
    BY <2>5, <2>7, AppendProperties
  <2>9. ASSUME NEW j \in 1..k + 1 PROVE Append(w, x)[j + 1] = Onward(edges, L, Append(w, x)[j])
    <3>1. CASE j = k + 1
      BY <2>6, <2>8, <3>1 DEF x
    <3>2. CASE j # k + 1
      <4>1. j \in 1..k /\ j + 1 \in 1..k + 1
        BY <3>2
      <4> QED BY <2>5, <2>8, <4>1
    <3> QED BY <3>1, <3>2
  <2>10. 1 \in 1..k + 1 /\ ((k + 1) + 1) - 1 = k + 1
    OBVIOUS
  <2>11. Goes(Append(w, x), (k + 1) + 1)
    BY <2>5, <2>8, <2>9, <2>10 DEF Goes
  <2> QED BY <2>4, <2>11
<1>6. C - 1 \in S
  <2>1. C - 1 \in Nat
    BY <1>1
  <2> HIDE DEF S
  <2> QED BY <1>4, <1>5, <2>1, Induct
<1>7. Goes(f[C], C)
  <2>1. (C - 1) + 1 = C
    BY <1>1
  <2> HIDE DEF Goes
  <2> QED BY <1>1, <1>6, <2>1
<1> QED BY <1>1, <1>2, <1>7 DEF C, Walked

LEMMA WalkIsRing ==
  ASSUME NEW n \in Nat, NEW edges, NEW L \in SUBSET (1..n), Loop(edges, L), Cardinality(L) >= 2,
         NEW i \in L
  PROVE  LET w == Walk(edges, L, i)
         IN  /\ w \in Seq(1..n) /\ Ring(edges, w) /\ ToSet(w) = L
             /\ Len(w) = Cardinality(L) /\ w[1] = i
<1> DEFINE on(x) == Onward(edges, L, x)
           w == Walk(edges, L, i)
           C == Cardinality(L)
<1>1. /\ IsFiniteSet(L)
      /\ {edges[x].from : x \in L} = {edges[x].to : x \in L}
      /\ \A x, y \in L : edges[x].from = edges[y].from => x = y
  BY ClosedIs DEF Loop
<1>2. \A x \in L : on(x) \in L /\ edges[on(x)].from = edges[x].to
  <2>1. ASSUME NEW x \in L PROVE \E y \in L : edges[y].from = edges[x].to
    <3>1. edges[x].to \in {edges[y].from : y \in L}
      <4>1. edges[x].to \in {edges[y].to : y \in L}
        OBVIOUS
      <4> QED BY <1>1, <4>1
    <3> QED BY <3>1
  <2> QED BY <2>1 DEF Onward
<1>3. \A x, y \in L : edges[x].to = edges[y].to => x = y
  <2> DEFINE T == {edges[x].to : x \in L}
             f == [x \in L |-> edges[x].to]
  <2>1. f \in Surjection(L, T)
    BY DEF Surjection
  <2>2. Cardinality(T) = Cardinality(L)
    BY <1>1 DEF Loop, Closed
  <2>3. f \in Injection(L, T)
    <3> HIDE DEF f, T
    <3> QED BY <1>1, <2>1, <2>2, FS_Surjection
  <2>4. \A x, y \in L : f[x] = f[y] => x = y
    <3>1. DOMAIN f = L
      OBVIOUS
    <3> HIDE DEF f, T
    <3> QED BY <2>3, <3>1 DEF Injection, IsInjective
  <2> QED BY <2>4
<1>4. ASSUME NEW x \in L, NEW y \in L, on(x) = on(y) PROVE x = y
  <2>1. edges[on(x)].from = edges[x].to /\ edges[on(y)].from = edges[y].to
    BY <1>2
  <2> HIDE DEF on
  <2> QED BY <1>3, <1>4, <2>1
<1>5. /\ w \in Seq(L) /\ Len(w) = C /\ w[1] = i
      /\ \A k \in 1..C - 1 : w[k + 1] = on(w[k])
  <2>1. GoesRound(edges, L)
    BY <1>2 DEF GoesRound
  <2>2. Walked(edges, L, i, w)
    <3> HIDE DEF w
    <3> QED BY <2>1, WalkIs DEF w
  <2> QED BY <2>2 DEF Walked
<1>6. C \in Nat /\ C >= 2
  BY <1>1, FS_CardinalityType
<1>7. \A k \in 1..C : w[k] \in L
  BY <1>5, ElementOfSeq
<1>8. w \in Seq(1..n) /\ ToSet(w) = {w[k] : k \in 1..C}
  BY <1>5, LenProperties, SeqMonotonic DEF ToSet
<1> HIDE DEF on, w, C
<1>9. ASSUME NEW d \in 1..C - 1, w[d + 1] = i PROVE FALSE
  <2> DEFINE K == {w[k] : k \in 1..d}
  <2>1. d \in 1..C /\ d < C /\ \A k \in 1..d : k \in 1..C - 1 /\ k \in 1..C
    BY <1>6
  <2>2. K \in SUBSET L /\ i \in K /\ K \in SUBSET (1..n)
    <3>1. 1 \in 1..d
      OBVIOUS
    <3> QED BY <1>5, <1>7, <2>1, <3>1
  <2>3. Cardinality(K) <= d
    <3> DEFINE f == [k \in 1..d |-> w[k]]
    <3>1. f \in Surjection(1..d, K)
      BY DEF Surjection
    <3>2. IsFiniteSet(1..d) /\ Cardinality(1..d) = d
      BY FS_Interval
    <3> HIDE DEF f, K
    <3> QED BY <3>1, <3>2, FS_Surjection
  <2>4. \A k \in 1..d : edges[w[k]].to = edges[w[IF k = d THEN 1 ELSE k + 1]].from
    <3>1. ASSUME NEW k \in 1..d PROVE edges[w[k]].to = edges[w[k + 1]].from
      BY <1>2, <1>5, <1>7, <2>1
    <3>2. w[d + 1] = w[1]
      BY <1>5, <1>9
    <3> QED BY <3>1, <3>2
  <2>5. \A t : t \in {edges[x].to : x \in K} => t \in {edges[x].from : x \in K}
    <3>1. \A k \in 1..d : (IF k = d THEN 1 ELSE k + 1) \in 1..d
      OBVIOUS
    <3>2. \A k \in 1..d : edges[w[k]].to \in {edges[x].from : x \in K}
      BY <2>4, <3>1
    <3> QED BY <3>2
  <2>6. \A t : t \in {edges[x].from : x \in K} => t \in {edges[x].to : x \in K}
    <3>1. ASSUME NEW k \in 1..d
          PROVE  edges[w[k]].from \in {edges[x].to : x \in K}
      <4>1. PICK m \in 1..d : k = IF m = d THEN 1 ELSE m + 1
        <5>1. CASE k = 1
          BY <5>1
        <5>2. CASE k # 1
          <6>1. k - 1 \in 1..d /\ k - 1 # d /\ k = (k - 1) + 1
            BY <5>2
          <6> QED BY <6>1
        <5> QED BY <5>1, <5>2
      <4>2. edges[w[m]].to = edges[w[k]].from
        BY <2>4, <4>1
      <4> QED BY <4>2
    <3> QED BY <3>1
  <2>7. Closed(edges, K)
    <3>1. {edges[x].from : x \in K} = {edges[x].to : x \in K}
      BY <2>5, <2>6
    <3>2. \A x, y \in K : edges[x].from = edges[y].from => x = y
      BY <1>1, <2>2
    <3> HIDE DEF K
    <3> QED BY <2>2, <3>1, <3>2, ClosedIs
  <2> HIDE DEF K
  <2>8. K = L
    BY <2>2, <2>7 DEF Loop
  <2> QED BY <1>6, <2>1, <2>3, <2>8 DEF C
<1>10. ASSUME NEW a \in 1..C, NEW b \in 1..C, a < b, w[a] = w[b] PROVE FALSE
  <2> DEFINE S == {k \in Nat : k <= a - 1 => w[a - k] = w[b - k]}
  <2>1. 0 \in S
    BY <1>10
  <2>2. ASSUME NEW k \in Nat, k \in S PROVE k + 1 \in S
    <3>1. SUFFICES ASSUME k + 1 <= a - 1 PROVE w[a - (k + 1)] = w[b - (k + 1)]
      OBVIOUS
    <3> DEFINE x == a - (k + 1)
               y == b - (k + 1)
    <3>2. /\ x \in 1..C - 1 /\ y \in 1..C - 1 /\ x \in 1..C /\ y \in 1..C
          /\ x + 1 = a - k /\ y + 1 = b - k
      BY <1>6, <1>10, <3>1
    <3>3. w[a - k] = w[b - k]
      BY <2>2, <3>1
    <3> HIDE DEF x, y
    <3>4. w[x + 1] = on(w[x]) /\ w[y + 1] = on(w[y])
      BY <1>5, <3>2
    <3>5. on(w[x]) = on(w[y])
      BY <3>2, <3>3, <3>4
    <3>6. w[x] = w[y]
      BY <1>4, <1>7, <3>2, <3>5
    <3> QED BY <3>6 DEF x, y
  <2>3. Nat \subseteq S
    <3> HIDE DEF S
    <3> QED BY <2>1, <2>2, Induct
  <2>4. a - 1 \in Nat /\ a - (a - 1) = 1 /\ b - (a - 1) = (b - a) + 1 /\ b - a \in 1..C - 1
    BY <1>6, <1>10
  <2>5. w[a - (a - 1)] = w[b - (a - 1)]
    BY <2>3, <2>4
  <2>6. w[(b - a) + 1] = i
    BY <1>5, <2>4, <2>5
  <2> QED BY <1>9, <2>4, <2>6
<1>11. \A a, b \in 1..C : w[a] = w[b] => a = b
  <2>1. \A a, b \in 1..C : a < b \/ b < a \/ a = b
    BY <1>6
  <2> QED BY <1>10, <2>1
<1>12. ToSet(w) = L
  <2>1. Cardinality(ToSet(w)) = C
    BY <1>5, <1>8, <1>11, DistinctSize DEF Distinct
  <2>2. ToSet(w) \in SUBSET L
    BY <1>7, <1>8
  <2> QED BY <1>1, <2>1, <2>2, FS_Subset DEF C
<1>13. edges[w[C]].to = edges[w[1]].from
  <2>1. C \in 1..C
    BY <1>6
  <2>2. on(w[C]) \in L
    BY <1>2, <1>7, <2>1
  <2>3. PICK m \in 1..C : on(w[C]) = w[m]
    BY <1>8, <1>12, <2>2
  <2>4. m = 1
    <3>1. SUFFICES ASSUME m # 1 PROVE FALSE
      OBVIOUS
    <3>2. m - 1 \in 1..C - 1 /\ m - 1 \in 1..C /\ (m - 1) + 1 = m /\ m - 1 # C
      BY <1>6, <3>1
    <3>3. w[m] = on(w[m - 1])
      BY <1>5, <3>2
    <3>4. w[m - 1] = w[C]
      BY <1>4, <1>7, <2>1, <2>3, <3>2, <3>3
    <3> QED BY <1>11, <2>1, <3>2, <3>4
  <2> QED BY <1>2, <1>7, <2>1, <2>3, <2>4
<1>14. Ring(edges, w)
  <2>1. \A j \in 1..C - 1 : edges[w[j + 1]].from = edges[w[j]].to
    <3>1. \A j \in 1..C - 1 : j \in 1..C
      BY <1>6
    <3> QED BY <1>2, <1>5, <1>7, <3>1
  <2>2. \A a, b \in 1..C : edges[w[a]].from = edges[w[b]].from => a = b
    BY <1>1, <1>7, <1>11
  <2> QED BY <1>5, <1>6, <1>13, <2>1, <2>2 DEF Ring
<1> QED BY <1>5, <1>8, <1>12, <1>14 DEF w, C

-----------------------------------------------------------------------------
(* What the search promises, and what it returns.                          *)
LEMMA CyclesHave ==
  ASSUME NEW n \in Nat, NEW edges, DOMAIN edges = 1..n, NEW maxLegs \in Nat
  PROVE  \A L : L \in Cycles(edges, maxLegs) <=>
           /\ L \in SUBSET (1..n) /\ Cardinality(L) >= 2 /\ Cardinality(L) <= maxLegs
           /\ Loop(edges, L)
<1> DEFINE F == {e.from : e \in ToSet(edges)}
           longest == Min({maxLegs, Cardinality(F)})
<1>1. F = {edges[i].from : i \in 1..n}
  BY DEF ToSet
<1>2. IsFiniteSet(F)
  <2>1. IsFiniteSet(1..n)
    BY FS_Interval
  <2> DEFINE f == [i \in 1..n |-> edges[i].from]
  <2>2. f \in Surjection(1..n, F)
    BY <1>1 DEF Surjection
  <2> HIDE DEF f, F
  <2> QED BY <2>1, <2>2, FS_Surjection
<1>3. Cardinality(F) \in Nat
  BY <1>2, FS_CardinalityType
<1> HIDE DEF F
<1>4. longest \in Nat /\ longest <= maxLegs /\ \A k \in Nat : k <= maxLegs /\ k <= Cardinality(F) => k <= longest
  <2> DEFINE c == Cardinality(F)
  <2>1. c \in Nat
    BY <1>3
  <2> HIDE DEF c
  <2>2. \E x \in {maxLegs, c} : \A y \in {maxLegs, c} : x <= y
    <3>1. maxLegs <= c \/ c <= maxLegs
      BY <2>1
    <3> QED BY <2>1, <3>1
  <2>3. Min({maxLegs, c}) \in {maxLegs, c} /\ \A y \in {maxLegs, c} : Min({maxLegs, c}) <= y
    BY <2>2, Zenon DEF Min
  <2> QED BY <2>1, <2>3 DEF c
<1>5. ASSUME NEW L \in SUBSET (1..n), Loop(edges, L) PROVE Cardinality(L) \in Nat /\ Cardinality(L) <= Cardinality(F)
  <2> DEFINE E == {edges[i].from : i \in L}
  <2>1. IsFiniteSet(L) /\ Cardinality(E) = Cardinality(L)
    BY <1>5, ClosedIs DEF Loop, Closed
  <2>2. E \in SUBSET F
    BY <1>1
  <2> HIDE DEF E
  <2> QED BY <1>2, <2>1, <2>2, FS_Subset, FS_CardinalityType
<1>6. ASSUME NEW L
      PROVE  L \in Cycles(edges, maxLegs) <=>
               \E k \in 2..longest : /\ L \in SUBSET (1..n) /\ Cardinality(L) = k
                                     /\ Loop(edges, L)
  <2>1. Cycles(edges, maxLegs) =
          {K \in UNION {kSubset(k, DOMAIN edges) : k \in 2..longest} : Loop(edges, K)}
    BY Zenon DEF Cycles, Loop, F
  <2>2. \A k : L \in kSubset(k, DOMAIN edges) <=> L \in SUBSET (1..n) /\ Cardinality(L) = k
    BY DEF kSubset
  <2> HIDE DEF longest
  <2> QED BY <2>1, <2>2
<1> HIDE DEF longest
<1>7. ASSUME NEW L, L \in Cycles(edges, maxLegs)
      PROVE  /\ L \in SUBSET (1..n) /\ Cardinality(L) >= 2 /\ Cardinality(L) <= maxLegs
             /\ Loop(edges, L)
  <2>1. PICK k \in 2..longest : L \in SUBSET (1..n) /\ Cardinality(L) = k /\ Loop(edges, L)
    BY <1>6, <1>7
  <2> QED BY <1>4, <2>1
<1>8. ASSUME NEW L, L \in SUBSET (1..n), Cardinality(L) >= 2, Cardinality(L) <= maxLegs, Loop(edges, L)
      PROVE  L \in Cycles(edges, maxLegs)
  <2>1. Cardinality(L) \in 2..longest
    BY <1>4, <1>5, <1>8
  <2> QED BY <1>6, <1>8, <2>1
<1> QED BY <1>7, <1>8

Found(n, edges, maxLegs, q) ==
    q \in Seq(1..n) /\ Ring(edges, q) /\ Len(q) <= maxLegs /\ Losing(edges, q)

LEMMA FoundAreCycles ==
  ASSUME NEW n \in Nat, NEW edges, DOMAIN edges = 1..n, \A i \in 1..n : edges[i].weight \in Int,
         NEW maxLegs \in Nat
  PROVE  \A L : (\E q : Found(n, edges, maxLegs, q) /\ L = ToSet(q)) <=>
                  L \in Cycles(edges, maxLegs) /\ Sum(edges, L) < 0 /\ SumsFit(edges, L)
<1>1. ASSUME NEW q, Found(n, edges, maxLegs, q)
      PROVE  /\ ToSet(q) \in Cycles(edges, maxLegs)
             /\ Sum(edges, ToSet(q)) < 0 /\ SumsFit(edges, ToSet(q))
  <2> DEFINE L == ToSet(q)
             w == Walk(edges, L, q[1])
  <2>1. q \in Seq(1..n) /\ Ring(edges, q) /\ Len(q) <= maxLegs /\ Losing(edges, q)
    BY <1>1 DEF Found
  <2>2. Len(q) \in Nat /\ Len(q) >= 2 /\ L = {q[i] : i \in 1..Len(q)}
    BY <2>1, LenProperties DEF Ring, ToSet
  <2>3. /\ \A i, j \in 1..Len(q) : q[i] = q[j] => i = j
        /\ L \in SUBSET (1..n) /\ Cardinality(L) = Len(q) /\ Loop(edges, L)
    BY <2>1, RingIsLoop
  <2> HIDE DEF L
  <2>10. Cardinality(L) >= 2 /\ Cardinality(L) <= maxLegs
    BY <2>1, <2>2, <2>3
  <2>4. L \in Cycles(edges, maxLegs)
    <3>1. \A K : K \in Cycles(edges, maxLegs) <=>
                   /\ K \in SUBSET (1..n) /\ Cardinality(K) >= 2 /\ Cardinality(K) <= maxLegs
                   /\ Loop(edges, K)
      BY CyclesHave
    <3> QED BY <2>3, <2>10, <3>1
  <2>5. Sum(edges, L) < 0
    <3>1. Sum(edges, L) = PathWeight(edges, q)
      BY <2>1, <2>3, SumIsWeight DEF L
    <3> QED BY <2>1, <3>1 DEF Losing
  <2>6. q[1] \in L
    BY <2>2
  <2>7. w = q
    <3>1. /\ w \in Seq(1..n) /\ Ring(edges, w) /\ ToSet(w) = L /\ w[1] = q[1]
      <4> DEFINE i == q[1]
      <4>1. i \in L
        BY <2>6
      <4> HIDE DEF i
      <4>2. LET v == Walk(edges, L, i)
            IN  /\ v \in Seq(1..n) /\ Ring(edges, v) /\ ToSet(v) = L
                /\ Len(v) = Cardinality(L) /\ v[1] = i
        BY <2>3, <2>10, <4>1, WalkIsRing
      <4> QED BY <4>2 DEF i
    <3> HIDE DEF w
    <3> QED BY <2>1, <3>1, RingsAgree DEF L
  <2>8. \A k \in 1..Cardinality(L) : Fits(PathWeight(edges, SubSeq(w, 1, k)))
    <3> HIDE DEF w
    <3> QED BY <2>1, <2>3, <2>7 DEF Losing
  <2>9. SumsFit(edges, L)
    BY <2>6, <2>8 DEF SumsFit
  <2> QED BY <2>4, <2>5, <2>9 DEF L
<1>2. ASSUME NEW L, L \in Cycles(edges, maxLegs), Sum(edges, L) < 0, SumsFit(edges, L)
      PROVE  \E q : Found(n, edges, maxLegs, q) /\ L = ToSet(q)
  <2>1. /\ L \in SUBSET (1..n) /\ Cardinality(L) >= 2 /\ Cardinality(L) <= maxLegs
        /\ Loop(edges, L)
    BY <1>2, CyclesHave
  <2>2. PICK i \in L : \A k \in 1..Cardinality(L) :
                          Fits(PathWeight(edges, SubSeq(Walk(edges, L, i), 1, k)))
    BY <1>2 DEF SumsFit
  <2> DEFINE w == Walk(edges, L, i)
  <2>3. /\ w \in Seq(1..n) /\ Ring(edges, w) /\ ToSet(w) = L /\ Len(w) = Cardinality(L)
    BY <2>1, WalkIsRing
  <2>4. \A k \in 1..Len(w) : Fits(PathWeight(edges, SubSeq(w, 1, k)))
    BY <2>2, <2>3
  <2> HIDE DEF w
  <2>5. \A a, b \in 1..Len(w) : w[a] = w[b] => a = b
    BY <2>3, RingIsLoop
  <2>6. PathWeight(edges, w) = Sum(edges, L)
    BY <2>3, <2>5, SumIsWeight
  <2>7. Losing(edges, w)
    BY <1>2, <2>4, <2>6 DEF Losing
  <2> QED BY <2>1, <2>3, <2>7 DEF Found
<1> QED BY <1>1, <1>2

LEMMA PathsAll ==
  ASSUME NEW n \in Nat, NEW m \in Nat, NEW g, DOMAIN g.edges = 1..n, DOMAIN g.tokens = 1..m,
         \A i \in 1..n : g.edges[i].weight \in Int /\ g.edges[i].from \in 1..m,
         NEW maxLegs \in Nat
  PROVE  LET paths == FlattenSeq([t \in DOMAIN g.tokens |-> PathsFrom(g.edges, t, maxLegs)])
         IN  /\ paths \in Seq(Seq(1..n))
             /\ \A q : q \in ToSet(paths) <=> Found(n, g.edges, maxLegs, q)
<1> DEFINE Q == Seq(1..n)
           lists == [t \in DOMAIN g.tokens |-> PathsFrom(g.edges, t, maxLegs)]
           paths == FlattenSeq(lists)
<1>1. lists \in Seq(Seq(Q))
  <2>1. \A t \in 1..m : PathsFrom(g.edges, t, maxLegs) \in Seq(Q)
    BY SearchIs
  <2> HIDE DEF Q
  <2> QED BY <2>1, IsASeq
<1>2. DOMAIN lists = 1..m /\ \A t \in 1..m : lists[t] = PathsFrom(g.edges, t, maxLegs)
  OBVIOUS
<1> HIDE DEF lists, Q
<1>3. paths \in Seq(Q) /\ \A q : q \in ToSet(paths) <=> \E t \in DOMAIN lists : q \in ToSet(lists[t])
  BY <1>1, FlattenHas, FlattenPlaced
<1>4. ASSUME NEW t \in 1..m, NEW q
      PROVE  q \in ToSet(PathsFrom(g.edges, t, maxLegs)) <=>
               /\ q \in Seq(1..n) /\ Ring(g.edges, q) /\ g.edges[q[1]].from = t
               /\ Len(q) <= maxLegs /\ Losing(g.edges, q)
  BY PathsAre
<1>5. ASSUME NEW q, Found(n, g.edges, maxLegs, q) PROVE g.edges[q[1]].from \in 1..m
  <2>1. q \in Seq(1..n) /\ 1 \in 1..Len(q)
    <3>1. q \in Seq(1..n) /\ Len(q) >= 2
      BY <1>5 DEF Found, Ring
    <3> QED BY <3>1, LenProperties
  <2>2. q[1] \in 1..n
    BY <2>1, ElementOfSeq
  <2> QED BY <2>2
<1>6. ASSUME NEW q PROVE q \in ToSet(paths) <=> Found(n, g.edges, maxLegs, q)
  <2>1. q \in ToSet(paths) <=> \E t \in 1..m : q \in ToSet(PathsFrom(g.edges, t, maxLegs))
    BY <1>2, <1>3
  <2>2. ASSUME NEW t \in 1..m, q \in ToSet(PathsFrom(g.edges, t, maxLegs))
        PROVE  Found(n, g.edges, maxLegs, q)
    BY <1>4, <2>2 DEF Found
  <2>3. ASSUME Found(n, g.edges, maxLegs, q)
        PROVE  \E t \in 1..m : q \in ToSet(PathsFrom(g.edges, t, maxLegs))
    BY <1>4, <1>5, <2>3 DEF Found
  <2> QED BY <2>1, <2>2, <2>3
<1> QED BY <1>3, <1>6 DEF lists, Q

(* Of the paths with one signature the first is kept.                      *)
Again(sig, k) == \E j \in 1..(k-1) : sig[j] = sig[k]

FirstOnes(paths, sig) ==
    FlattenSeq([k \in DOMAIN paths |-> IF Again(sig, k) THEN <<>> ELSE <<paths[k]>>])

EachOnce(T, paths, sig, r) ==
    /\ r \in Seq(T)
    /\ \A k \in 1..Len(r) : \E j \in 1..Len(paths) : r[k] = paths[j]
    /\ \A j \in 1..Len(paths) : \E k \in 1..Len(r) : \E i \in 1..Len(paths) :
         r[k] = paths[i] /\ sig[i] = sig[j]
    /\ \A a, b \in 1..Len(r) :
         (\A i, j \in 1..Len(paths) :
            r[a] = paths[i] /\ r[b] = paths[j] => sig[i] = sig[j]) => a = b

LEMMA KeptOnce ==
  ASSUME NEW T, NEW paths \in Seq(T), NEW sig
  PROVE  EachOnce(T, paths, sig, FirstOnes(paths, sig))
<1> DEFINE N == Len(paths)
           r == FirstOnes(paths, sig)
           kept == [k \in DOMAIN paths |-> IF Again(sig, k) THEN <<>> ELSE <<paths[k]>>]
<1>1. N \in Nat /\ DOMAIN paths = 1..N /\ \A k \in 1..N : paths[k] \in T
  BY LenProperties, ElementOfSeq
<1>2. \A k \in 1..N : (IF Again(sig, k) THEN <<>> ELSE <<paths[k]>>) \in Seq(T)
  BY <1>1
<1>3. kept \in Seq(Seq(T))
  BY <1>1, <1>2, IsASeq
<1>4. Len(kept) = N /\ DOMAIN kept = 1..N
      /\ \A k \in 1..N : kept[k] = IF Again(sig, k) THEN <<>> ELSE <<paths[k]>>
  BY <1>1
<1>5. \A k \in 1..N : \A j \in DOMAIN kept[k] : j = 1 /\ ~Again(sig, k) /\ kept[k][j] = paths[k]
  BY <1>4
<1>6. \A k \in 1..N : ~Again(sig, k) => 1 \in DOMAIN kept[k] /\ kept[k][1] = paths[k]
  BY <1>4
<1> HIDE DEF kept
<1>7. r \in Seq(T) /\ \E b : Placed(b, r, kept, Len(kept))
  <2>1. r = FlattenSeq(kept)
    BY DEF FirstOnes, kept
  <2> HIDE DEF r
  <2> QED BY <1>3, <2>1, FlattenPlaced
<1> HIDE DEF N, r
<1>8. PICK b : Placed(b, r, kept, N)
  BY <1>4, <1>7
<1>9. /\ \A k \in 1..N : \A j \in DOMAIN kept[k] : <<k, j>> \in Places(kept, N)
      /\ \A p \in Places(kept, N) : \E k \in 1..N : \E j \in DOMAIN kept[k] : p = <<k, j>>
  BY <1>1, PlacesIs
<1>10. \A k \in 1..Len(r) : \E j \in 1..N : b[k] = <<j, 1>> /\ r[k] = paths[j] /\ ~Again(sig, j)
  <2>1. SUFFICES ASSUME NEW k \in 1..Len(r)
                 PROVE  \E j \in 1..N : b[k] = <<j, 1>> /\ r[k] = paths[j] /\ ~Again(sig, j)
    OBVIOUS
  <2>2. b[k] \in Places(kept, N) /\ r[k] = kept[b[k][1]][b[k][2]]
    BY <1>8 DEF Placed
  <2>3. PICK j \in 1..N : \E i \in DOMAIN kept[j] : b[k] = <<j, i>>
    BY <1>9, <2>2
  <2>4. PICK i \in DOMAIN kept[j] : b[k] = <<j, i>>
    BY <2>3
  <2>5. i = 1 /\ ~Again(sig, j) /\ kept[j][i] = paths[j]
    BY <1>5
  <2>6. b[k][1] = j /\ b[k][2] = i
    BY <2>4
  <2>7. b[k] = <<j, 1>> /\ r[k] = paths[j] /\ ~Again(sig, j)
    BY <2>2, <2>4, <2>5, <2>6
  <2> QED BY <2>7
<1>11. \A j \in 1..N : ~Again(sig, j) => \E k \in 1..Len(r) : r[k] = paths[j]
  <2>1. SUFFICES ASSUME NEW j \in 1..N, ~Again(sig, j) PROVE \E k \in 1..Len(r) : r[k] = paths[j]
    OBVIOUS
  <2>2. <<j, 1>> \in Places(kept, N) /\ kept[j][1] = paths[j]
    BY <1>6, <1>9, <2>1
  <2>3. PICK k \in 1..Len(r) : b[k] = <<j, 1>>
    BY <1>8, <2>2 DEF Placed
  <2>4. r[k] = kept[b[k][1]][b[k][2]]
    BY <1>8 DEF Placed
  <2>5. b[k][1] = j /\ b[k][2] = 1
    BY <2>3
  <2>6. r[k] = paths[j]
    BY <2>2, <2>4, <2>5
  <2> QED BY <2>6
<1>12. \A j \in 1..N : \E i \in 1..j : ~Again(sig, i) /\ sig[i] = sig[j]
  <2> DEFINE S == {k \in Nat : \A j \in 1..k : \E i \in 1..j : ~Again(sig, i) /\ sig[i] = sig[j]}
  <2>1. 0 \in S
    OBVIOUS
  <2>2. ASSUME NEW k \in Nat, k \in S PROVE k + 1 \in S
    <3>1. \A j \in 1..k : \E i \in 1..j : ~Again(sig, i) /\ sig[i] = sig[j]
      BY <2>2
    <3>2. \E i \in 1..k + 1 : ~Again(sig, i) /\ sig[i] = sig[k + 1]
      <4>1. CASE ~Again(sig, k + 1)
        <5>1. k + 1 \in 1..k + 1
          OBVIOUS
        <5> QED BY <4>1, <5>1
      <4>2. CASE Again(sig, k + 1)
        <5>1. PICK j \in 1..k : sig[j] = sig[k + 1]
          <6>1. (k + 1) - 1 = k
            OBVIOUS
          <6> QED BY <4>2, <6>1 DEF Again
        <5>2. PICK i \in 1..j : ~Again(sig, i) /\ sig[i] = sig[j]
          BY <3>1
        <5>3. i \in 1..k + 1
          OBVIOUS
        <5> QED BY <5>1, <5>2, <5>3
      <4> QED BY <4>1, <4>2
    <3>3. \A j \in 1..k + 1 : j \in 1..k \/ j = k + 1
      OBVIOUS
    <3> HIDE DEF S
    <3>4. \A j \in 1..k + 1 : \E i \in 1..j : ~Again(sig, i) /\ sig[i] = sig[j]
      BY <3>1, <3>2, <3>3
    <3> QED BY <3>4 DEF S
  <2>3. N \in S
    <3> HIDE DEF S
    <3> QED BY <1>1, <2>1, <2>2, Induct
  <2> QED BY <2>3
<1>13. ASSUME NEW j \in 1..N
       PROVE  \E k \in 1..Len(r) : \E i \in 1..N : r[k] = paths[i] /\ sig[i] = sig[j]
  <2>1. PICK i \in 1..j : ~Again(sig, i) /\ sig[i] = sig[j]
    BY <1>12
  <2>2. i \in 1..N
    BY <1>1
  <2> QED BY <1>11, <2>1, <2>2
<1>14. ASSUME NEW x \in 1..Len(r), NEW y \in 1..Len(r),
              \A i, j \in 1..N : r[x] = paths[i] /\ r[y] = paths[j] => sig[i] = sig[j]
       PROVE  x = y
  <2>1. PICK i \in 1..N : b[x] = <<i, 1>> /\ r[x] = paths[i] /\ ~Again(sig, i)
    BY <1>10
  <2>2. PICK j \in 1..N : b[y] = <<j, 1>> /\ r[y] = paths[j] /\ ~Again(sig, j)
    BY <1>10
  <2>3. sig[i] = sig[j]
    BY <1>14, <2>1, <2>2
  <2>4. ~(i < j) /\ ~(j < i)
    <3>1. i < j => i \in 1..(j - 1)
      BY <1>1
    <3>2. j < i => j \in 1..(i - 1)
      BY <1>1
    <3> QED BY <2>1, <2>2, <2>3, <3>1, <3>2 DEF Again
  <2>5. i = j
    BY <1>1, <2>4
  <2>6. b[x] = b[y]
    BY <2>1, <2>2, <2>5
  <2>7. \A i1, i2 \in 1..Len(r) : b[i1] = b[i2] => i1 = i2
    BY <1>8 DEF Placed
  <2> QED BY <2>6, <2>7
<1>15. \A k \in 1..Len(r) : \E j \in 1..N : r[k] = paths[j]
  BY <1>10
<1> QED BY <1>7, <1>13, <1>14, <1>15 DEF N, r, EachOnce

(* What the search needs of a graph: whole weights, edges that start at    *)
(* its tokens, and one edge for each direction of a pool.                  *)
Wired(n, m, g) ==
    /\ DOMAIN g.edges = 1..n /\ DOMAIN g.tokens = 1..m
    /\ \A i \in 1..n : g.edges[i].weight \in Int /\ g.edges[i].from \in 1..m
    /\ \A i, j \in 1..n :
         g.edges[i].pool = g.edges[j].pool /\ g.edges[i].b2q = g.edges[j].b2q => i = j

LEMMA SignatureIs ==
  ASSUME NEW n \in Nat, NEW m \in Nat, NEW g, Wired(n, m, g), NEW q \in Seq(1..n), NEW r \in Seq(1..n)
  PROVE  Signature(g.edges, q) = Signature(g.edges, r) <=> ToSet(q) = ToSet(r)
<1>1. ToSet(q) \in SUBSET (1..n) /\ ToSet(r) \in SUBSET (1..n)
  <2>1. \A s \in Seq(1..n) : ToSet(s) = {s[i] : i \in 1..Len(s)} /\ \A i \in 1..Len(s) : s[i] \in 1..n
    BY LenProperties, ElementOfSeq DEF ToSet
  <2> QED BY <2>1
<1> DEFINE key(i) == <<g.edges[i].pool, g.edges[i].b2q>>
<1>2. \A i, j \in 1..n : key(i) = key(j) => i = j
  BY DEF Wired
<1>3. /\ Signature(g.edges, q) = {key(i) : i \in ToSet(q)}
      /\ Signature(g.edges, r) = {key(i) : i \in ToSet(r)}
  BY DEF Signature
<1> HIDE DEF key
<1>4. \A Q, R \in SUBSET (1..n) : {key(i) : i \in Q} = {key(i) : i \in R} => Q \subseteq R
  <2>1. SUFFICES ASSUME NEW Q \in SUBSET (1..n), NEW R \in SUBSET (1..n),
                        {key(i) : i \in Q} = {key(i) : i \in R}, NEW x \in Q
                 PROVE  x \in R
    OBVIOUS
  <2>2. key(x) \in {key(i) : i \in R}
    BY <2>1
  <2>3. PICK y \in R : key(x) = key(y)
    BY <2>2
  <2> QED BY <1>2, <2>3
<1> QED BY <1>1, <1>3, <1>4

LEMMA WiredIsExact ==
  ASSUME NEW n \in Nat, NEW m \in Nat, NEW g, Wired(n, m, g), NEW maxLegs \in Nat
  PROVE  SearchIsExact(g, maxLegs)
<1> DEFINE found == FindNegativeCycles(g, maxLegs)
           Wanted(L) == L \in Cycles(g.edges, maxLegs) /\ Sum(g.edges, L) < 0 /\ SumsFit(g.edges, L)
<1>1. /\ DOMAIN g.edges = 1..n /\ DOMAIN g.tokens = 1..m
      /\ \A i \in 1..n : g.edges[i].weight \in Int /\ g.edges[i].from \in 1..m
  BY DEF Wired
<1>2. ASSUME NEW N \in Nat, DOMAIN found = 1..N,
             \A k \in 1..N : Wanted(ToSet(found[k])),
             \A L : Wanted(L) => \E k \in 1..N : L = ToSet(found[k]),
             \A a, b \in 1..N : ToSet(found[a]) = ToSet(found[b]) => a = b
      PROVE  SearchIsExact(g, maxLegs)
  <2> HIDE DEF found
  <2>1. IsInjective([k \in DOMAIN found |-> ToSet(found[k])])
    BY <1>2 DEF IsInjective
  <2> HIDE DEF Wanted
  <2>2. {ToSet(found[k]) : k \in DOMAIN found} = {L \in Cycles(g.edges, maxLegs) : Wanted(L)}
    <3>1. \A L : Wanted(L) => L \in Cycles(g.edges, maxLegs)
      BY DEF Wanted
    <3> QED BY <1>2, <3>1
  <2>3. {L \in Cycles(g.edges, maxLegs) : Wanted(L)} =
          {L \in Cycles(g.edges, maxLegs) : Sum(g.edges, L) < 0 /\ SumsFit(g.edges, L)}
    BY DEF Wanted
  <2> QED BY <2>1, <2>2, <2>3, Zenon DEF SearchIsExact, found
<1>3. CASE maxLegs < 2
  <2>1. found = <<>>
    BY <1>3 DEF FindNegativeCycles
  <2>2. DOMAIN found = 1..0
    BY <2>1
  <2>3. \A L : ~Wanted(L)
    <3>1. SUFFICES ASSUME NEW L, L \in Cycles(g.edges, maxLegs) PROVE FALSE
      OBVIOUS
    <3>2. L \in SUBSET (1..n) /\ Cardinality(L) >= 2 /\ Cardinality(L) <= maxLegs
      BY <1>1, <3>1, CyclesHave
    <3>3. IsFiniteSet(L)
      BY <3>2, ClosedIs
    <3>4. Cardinality(L) \in Nat
      BY <3>3, FS_CardinalityType
    <3> QED BY <1>3, <3>2, <3>4
  <2> HIDE DEF found, Wanted
  <2> QED BY <1>2, <2>2, <2>3
<1>4. CASE ~ (maxLegs < 2)
  <2> DEFINE paths == FlattenSeq([t \in DOMAIN g.tokens |-> PathsFrom(g.edges, t, maxLegs)])
             sig == [k \in DOMAIN paths |-> Signature(g.edges, paths[k])]
             N == Len(paths)
  <2>1. paths \in Seq(Seq(1..n)) /\ \A q : q \in ToSet(paths) <=> Found(n, g.edges, maxLegs, q)
    BY <1>1, PathsAll
  <2>2. found = FirstOnes(paths, sig)
    BY <1>4, Zenon DEF FindNegativeCycles, FirstOnes, Again
  <2> HIDE DEF found, paths
  <2>3. N \in Nat /\ DOMAIN paths = 1..N /\ ToSet(paths) = {paths[k] : k \in 1..N}
    BY <2>1, LenProperties DEF ToSet
  <2>4. \A k \in 1..N : sig[k] = Signature(g.edges, paths[k]) /\ paths[k] \in Seq(1..n)
    BY <2>1, <2>3, ElementOfSeq
  <2> HIDE DEF sig
  <2>5. /\ found \in Seq(Seq(1..n))
        /\ \A k \in 1..Len(found) : \E j \in 1..N : found[k] = paths[j]
        /\ \A j \in 1..N : \E k \in 1..Len(found) : \E i \in 1..N :
             found[k] = paths[i] /\ sig[i] = sig[j]
        /\ \A a, b \in 1..Len(found) :
             (\A i, j \in 1..N : found[a] = paths[i] /\ found[b] = paths[j] => sig[i] = sig[j]) => a = b
    <3>1. EachOnce(Seq(1..n), paths, sig, found)
      BY <2>1, <2>2, KeptOnce
    <3> QED BY <3>1 DEF EachOnce
  <2> HIDE DEF N
  <2>6. \A i, j \in 1..N : sig[i] = sig[j] <=> ToSet(paths[i]) = ToSet(paths[j])
    BY <2>4, SignatureIs
  <2>7. \A L : (\E j \in 1..N : L = ToSet(paths[j])) <=> Wanted(L)
    <3>1. \A L : (\E q : Found(n, g.edges, maxLegs, q) /\ L = ToSet(q)) <=> Wanted(L)
      BY <1>1, FoundAreCycles
    <3> HIDE DEF Wanted
    <3> QED BY <2>1, <2>3, <3>1
  <2> HIDE DEF Wanted
  <2>8. Len(found) \in Nat /\ DOMAIN found = 1..Len(found)
    BY <2>5, LenProperties
  <2>9. \A k \in 1..Len(found) : Wanted(ToSet(found[k]))
    BY <2>5, <2>7
  <2>10. ASSUME NEW L, Wanted(L) PROVE \E k \in 1..Len(found) : L = ToSet(found[k])
    <3>1. PICK j \in 1..N : L = ToSet(paths[j])
      BY <2>7, <2>10
    <3>2. PICK k \in 1..Len(found) : \E i \in 1..N : found[k] = paths[i] /\ sig[i] = sig[j]
      BY <2>5
    <3>3. PICK i \in 1..N : found[k] = paths[i] /\ sig[i] = sig[j]
      BY <3>2
    <3>4. ToSet(paths[i]) = ToSet(paths[j])
      BY <2>6, <3>3
    <3> QED BY <3>1, <3>3, <3>4
  <2>11. ASSUME NEW a \in 1..Len(found), NEW b \in 1..Len(found), ToSet(found[a]) = ToSet(found[b])
         PROVE  a = b
    <3>1. \A i, j \in 1..N : found[a] = paths[i] /\ found[b] = paths[j] => sig[i] = sig[j]
      BY <2>6, <2>11
    <3> QED BY <2>5, <3>1
  <2> QED BY <1>2, <2>8, <2>9, <2>10, <2>11
<1> QED BY <1>3, <1>4

-----------------------------------------------------------------------------
RateOf(p, b) == IF b THEN EffectiveRate(p.rq, p.rb, p.fee) ELSE EffectiveRate(p.rb, p.rq, p.fee)

(* An edge between tokens the graph has, at the rate of a snapshot. *)
Quoted(e, m, S) ==
    /\ e.from \in 1..m
    /\ \E p \in S : p.address = e.pool /\ e.weight = WeightFromRate(RateOf(p, e.b2q))

LEMMA InternedGrows ==
  ASSUME NEW M, NEW tokens \in Seq(M), NEW mint \in M
  PROVE  /\ Len(Interned(tokens, mint)) \in Nat
         /\ Len(tokens) <= Len(Interned(tokens, mint))
         /\ Len(Interned(tokens, mint)) <= Len(tokens) + 1
         /\ mint \notin ToSet(tokens) => Len(Interned(tokens, mint)) = Len(tokens) + 1
<1>1. Len(tokens) \in Nat
  BY LenProperties
<1>2. CASE mint \in ToSet(tokens)
  <2>1. Interned(tokens, mint) = tokens
    BY <1>2 DEF Interned
  <2> QED BY <1>1, <1>2, <2>1
<1>3. CASE mint \notin ToSet(tokens)
  <2>1. Interned(tokens, mint) = Append(tokens, mint)
    BY <1>3 DEF Interned
  <2>2. Len(Append(tokens, mint)) = Len(tokens) + 1
    BY AppendProperties
  <2> QED BY <1>1, <2>1, <2>2
<1> QED BY <1>2, <1>3

LEMMA PushQuotes ==
  ASSUME NEW g \in Graphs, NEW p \in Filled
  PROVE  LET h == PushPool(g, p)
         IN  /\ Len(h.tokens) \in Nat /\ Len(g.tokens) <= Len(h.tokens)
             /\ Len(h.tokens) <= Len(g.tokens) + 2
             /\ g.tokens = <<>> /\ p.base # p.quote => Len(h.tokens) = 2
             /\ \E e, f : /\ h.edges = g.edges \o <<e, f>> /\ e \in Edges /\ f \in Edges
                          /\ Quoted(e, Len(h.tokens), {p}) /\ Quoted(f, Len(h.tokens), {p})
<1> DEFINE once == Interned(g.tokens, p.base)
           tokens == Interned(once, p.quote)
           b == TokenId(tokens, p.base)
           q == TokenId(tokens, p.quote)
           e == BuiltEdge(b, q, EffectiveRate(p.rq, p.rb, p.fee), p.address, TRUE)
           f == BuiltEdge(q, b, EffectiveRate(p.rb, p.rq, p.fee), p.address, FALSE)
           h == PushPool(g, p)
<1>1. /\ p.address \in DOMAIN Pools /\ p.base \in Mints /\ p.quote \in Mints
      /\ p.rb \in Nat \ {0} /\ p.rq \in Nat \ {0} /\ p.fee \in Nat
  BY SnapshotIs DEF Filled
<1>2. g.tokens \in Seq(Mints) /\ Len(g.tokens) \in Nat
  BY LenProperties DEF Graphs
<1>3. h = [tokens |-> tokens, edges |-> g.edges \o <<e, f>>]
  BY DEF PushPool
<1>4. once \in Seq(Mints) /\ p.base \in ToSet(once)
  BY <1>1, <1>2, InternedIs
<1>5. /\ Len(once) \in Nat /\ Len(g.tokens) <= Len(once) /\ Len(once) <= Len(g.tokens) + 1
      /\ p.base \notin ToSet(g.tokens) => Len(once) = Len(g.tokens) + 1
  BY <1>1, <1>2, InternedGrows
<1>6. g.tokens = <<>> => once = <<p.base>>
  <2>1. ASSUME g.tokens = <<>> PROVE once = Append(<<>>, p.base)
    BY <2>1 DEF Interned, ToSet
  <2> QED BY <2>1
<1>7. g.tokens = <<>> /\ p.base # p.quote => p.quote \notin ToSet(once)
  BY <1>6 DEF ToSet
<1>8. g.tokens = <<>> => Len(g.tokens) = 0 /\ Len(once) = 1
  BY <1>6
<1> HIDE DEF once
<1>9. /\ tokens \in Seq(Mints) /\ p.quote \in ToSet(tokens)
      /\ ToSet(once) \subseteq ToSet(tokens)
  BY <1>1, <1>4, InternedIs
<1>10. /\ Len(tokens) \in Nat /\ Len(once) <= Len(tokens) /\ Len(tokens) <= Len(once) + 1
       /\ p.quote \notin ToSet(once) => Len(tokens) = Len(once) + 1
  BY <1>1, <1>4, InternedGrows
<1> HIDE DEF tokens
<1> DEFINE m == Len(tokens)
           m0 == Len(g.tokens)
           m1 == Len(once)
<1>11. /\ m \in Nat /\ m0 <= m /\ m <= m0 + 2
       /\ g.tokens = <<>> /\ p.base # p.quote => m = 2
  <2>1. m \in Nat /\ m0 \in Nat /\ m1 \in Nat /\ m0 <= m1 /\ m1 <= m0 + 1 /\ m1 <= m /\ m <= m1 + 1
    BY <1>2, <1>5, <1>10
  <2>2. g.tokens = <<>> /\ p.base # p.quote => m1 = 1 /\ m = m1 + 1
    BY <1>7, <1>8, <1>10
  <2> HIDE DEF m, m0, m1
  <2> QED BY <2>1, <2>2
<1>12. b \in 1..m /\ q \in 1..m
  <2>1. DOMAIN tokens = 1..m
    BY <1>9, LenProperties
  <2>2. (\E i \in DOMAIN tokens : tokens[i] = p.base) /\ \E i \in DOMAIN tokens : tokens[i] = p.quote
    BY <1>4, <1>9 DEF ToSet
  <2>3. b \in DOMAIN tokens /\ q \in DOMAIN tokens
    BY <2>2, Zenon DEF TokenId
  <2> QED BY <2>1, <2>3
<1> HIDE DEF b, q, m
<1>13. b \in Nat /\ q \in Nat
  BY <1>11, <1>12
<1>14. /\ WeightFromRate(EffectiveRate(p.rq, p.rb, p.fee)) \in Int
       /\ WeightFromRate(EffectiveRate(p.rb, p.rq, p.fee)) \in Int
  BY <1>1, WeightIs
<1>15. /\ e \in Edges /\ f \in Edges
       /\ e.pool = p.address /\ e.b2q = TRUE /\ f.pool = p.address /\ f.b2q = FALSE
       /\ e.from = b /\ f.from = q
       /\ e.weight = WeightFromRate(EffectiveRate(p.rq, p.rb, p.fee))
       /\ f.weight = WeightFromRate(EffectiveRate(p.rb, p.rq, p.fee))
  BY <1>1, <1>13, <1>14 DEF BuiltEdge, Edges
<1>16. h.tokens = tokens /\ h.edges = g.edges \o <<e, f>>
  BY <1>3
<1> HIDE DEF e, f, h
<1>17. Quoted(e, m, {p}) /\ Quoted(f, m, {p})
  BY <1>12, <1>15 DEF Quoted, RateOf
<1> QED BY <1>11, <1>15, <1>16, <1>17 DEF m, h

LEMMA QuotedMore ==
  ASSUME NEW e, NEW m \in Nat, NEW n \in Nat, m <= n, NEW S, NEW T, S \subseteq T, Quoted(e, m, S)
  PROVE  Quoted(e, n, T)
<1>1. e.from \in 1..n
  BY DEF Quoted
<1> QED BY <1>1 DEF Quoted

(* Every edge of a built graph is quoted by one of the snapshots. *)
LEMMA BuildQuotes ==
  ASSUME NEW s \in Seq(Filled)
  PROVE  LET g == BuildFromPools(s)
         IN  /\ \A e \in ToSet(g.edges) : Quoted(e, Len(g.tokens), ToSet(s))
             /\ Len(s) = 1 => /\ Len(g.tokens) <= 2
                              /\ s[1].base # s[1].quote => Len(g.tokens) = 2
<1> DEFINE N == Len(s)
<1>1. N \in Nat /\ ToSet(s) = {s[i] : i \in 1..N}
  BY LenProperties DEF ToSet
<1>2. PICK c : Grown(c, s)
  BY BuildGrows
<1>3. \A i \in 0..N : c[i] \in Graphs /\ Len(c[i].tokens) \in Nat
  <2>1. \A g \in Graphs : g.tokens \in Seq(Mints)
    BY DEF Graphs
  <2>2. \A i \in 0..N : c[i] \in Graphs
    BY <1>2 DEF Grown
  <2> QED BY <2>1, <2>2, LenProperties
<1>4. c[0].tokens = <<>> /\ c[0].edges = <<>> /\ Len(c[0].tokens) = 0 /\ ToSet(c[0].edges) = {}
  <2>1. c[0].tokens = <<>> /\ c[0].edges = <<>>
    BY <1>2 DEF Grown, NoGraph
  <2> QED BY <2>1 DEF ToSet
<1> DEFINE S == {i \in 0..N : \A e \in ToSet(c[i].edges) : Quoted(e, Len(c[i].tokens), ToSet(s))}
<1>5. \A i \in 0..N : i \in S
  <2>1. 0 \in S
    BY <1>1, <1>4
  <2>2. ASSUME NEW i \in 0..N, i < N, i \in S PROVE i + 1 \in S
    <3>1. i + 1 \in 0..N /\ i + 1 \in 1..N
      BY <1>1, <2>2
    <3> DEFINE g == c[i]
               h == c[i + 1]
               p == s[i + 1]
    <3>2. g \in Graphs /\ p \in Filled /\ h = PushPool(g, p) /\ p \in ToSet(s)
      BY <1>1, <1>2, <1>3, <2>2, <3>1 DEF Grown
    <3>3. \A e \in ToSet(g.edges) : Quoted(e, Len(g.tokens), ToSet(s))
      BY <2>2
    <3> HIDE DEF g, h, p
    <3>4. /\ Len(h.tokens) \in Nat /\ Len(g.tokens) <= Len(h.tokens)
          /\ \E e, f : /\ h.edges = g.edges \o <<e, f>> /\ e \in Edges /\ f \in Edges
                       /\ Quoted(e, Len(h.tokens), {p}) /\ Quoted(f, Len(h.tokens), {p})
      BY <3>2, PushQuotes
    <3>5. PICK e \in Edges, f \in Edges :
             /\ h.edges = g.edges \o <<e, f>>
             /\ Quoted(e, Len(h.tokens), {p}) /\ Quoted(f, Len(h.tokens), {p})
      BY <3>4
    <3>6. g.edges \in Seq(Edges) /\ Len(g.tokens) \in Nat
      BY <3>2, LenProperties DEF Graphs
    <3>7. ToSet(h.edges) = ToSet(g.edges) \cup {e, f}
      BY <3>5, <3>6, AppendedTwo
    <3>8. ASSUME NEW x \in ToSet(h.edges) PROVE Quoted(x, Len(h.tokens), ToSet(s))
      <4>1. CASE x \in ToSet(g.edges)
        BY <3>3, <3>4, <3>6, <4>1, QuotedMore
      <4>2. CASE x = e \/ x = f
        <5>1. {p} \subseteq ToSet(s) /\ Quoted(x, Len(h.tokens), {p})
          BY <3>2, <3>5, <4>2
        <5>2. Len(h.tokens) <= Len(h.tokens)
          BY <3>4
        <5> QED BY <3>4, <5>1, <5>2, QuotedMore
      <4> QED BY <3>7, <4>1, <4>2
    <3> QED BY <3>1, <3>8 DEF h
  <2> HIDE DEF S, N
  <2> QED BY <1>1, <2>1, <2>2, InductUpTo
<1>6. N \in 0..N /\ BuildFromPools(s) = c[N]
  BY <1>1, <1>2 DEF Grown
<1>7. ASSUME N = 1
      PROVE  Len(c[1].tokens) <= 2 /\ (s[1].base # s[1].quote => Len(c[1].tokens) = 2)
  <2>1. 0 \in 0..N /\ 0 < N /\ 0 + 1 = 1 /\ 1 \in 0..N
    BY <1>7
  <2> DEFINE g == c[0]
             h == c[1]
             p == s[1]
  <2>2. g \in Graphs /\ p \in Filled /\ h = PushPool(g, p)
    <3>1. s[0 + 1] \in Filled /\ c[0 + 1] = PushPool(c[0], s[0 + 1])
      BY <1>2, <2>1 DEF Grown
    <3> QED BY <1>3, <2>1, <3>1
  <2>3. g.tokens = <<>> /\ Len(g.tokens) = 0
    BY <1>4
  <2> HIDE DEF g, h, p
  <2>4. /\ Len(h.tokens) \in Nat /\ Len(h.tokens) <= Len(g.tokens) + 2
        /\ g.tokens = <<>> /\ p.base # p.quote => Len(h.tokens) = 2
    BY <2>2, PushQuotes
  <2> QED BY <2>3, <2>4 DEF h, p
<1> QED BY <1>5, <1>6, <1>7

(* The batch graph carries the weights of the snapshots it was built from. *)
Priced ==
    /\ batch.tokens \in Seq(Mints)
    /\ built \subseteq Filled /\ \A p, q \in built : p.address = q.address => p = q
    /\ \A e \in ToSet(batch.edges) : Quoted(e, Len(batch.tokens), built)
    /\ \A e, f \in ToSet(batch.edges) : e.pool = f.pool /\ e.b2q = f.b2q => e = f

LEMMA RebuildPriced == ASSUME Current, Rebuild PROVE Priced'
<1> DEFINE k == Listed(Known)
           s == [i \in DOMAIN k |-> pool[k[i]]]
<1>1. Buildable(s) /\ batch' = BuildFromPools(s) /\ built' = ToSet(s)
  BY DEF Rebuild
<1>2. /\ DOMAIN k = 1..Len(k) /\ Len(k) \in Nat
      /\ \A i \in 1..Len(k) : k[i] \in Known
      /\ \A i, j \in 1..Len(k) : k[i] = k[j] => i = j
  BY ListedIs, LenProperties
<1> HIDE DEF k
<1>3. s = [i \in 1..Len(k) |-> pool[k[i]]]
  BY <1>2
<1>4. \A i \in 1..Len(k) : s[i] \in Filled /\ s[i].address = k[i]
  <2> TAKE i \in 1..Len(k)
  <2>1. s[i] = pool[k[i]] /\ k[i] \in DOMAIN pool /\ i \in DOMAIN s
    BY <1>2, <1>3 DEF Known
  <2>2. s[i] \in Reported /\ s[i].address = k[i]
    BY <2>1 DEF Current, Observed
  <2>3. s[i].rb > 0 /\ s[i].rq > 0
    BY <1>1, <2>1 DEF Buildable
  <2> QED BY <2>2, <2>3 DEF Filled
<1>5. s \in Seq(Filled) /\ Len(s) = Len(k)
  <2>1. s \in [1..Len(k) -> Filled]
    BY <1>3, <1>4
  <2> QED BY <1>2, <2>1, LenProperties
<1>6. \A i, j \in 1..Len(s) : s[i].address = s[j].address => i = j
  BY <1>2, <1>4, <1>5
<1>7. ToSet(s) = {s[i] : i \in 1..Len(s)}
  BY <1>5, LenProperties DEF ToSet
<1> HIDE DEF s
<1> DEFINE g == BuildFromPools(s)
<1>8. /\ g \in Graphs /\ Laid(g, s, Len(s))
      /\ \A e \in ToSet(g.edges) : Quoted(e, Len(g.tokens), ToSet(s))
  BY <1>5, BuildIs, BuildQuotes
<1>9. batch' = g
  BY <1>1
<1> HIDE DEF g
<1>10. g.tokens \in Seq(Mints) /\ g.edges \in Seq(Edges) /\ ToSet(g.edges) = {g.edges[i] : i \in 1..Len(g.edges)}
  BY <1>8, LenProperties DEF Graphs, ToSet
<1>11. \A i, j \in 1..Len(g.edges) :
          g.edges[i].pool = g.edges[j].pool /\ g.edges[i].b2q = g.edges[j].b2q => i = j
  BY <1>5, <1>6, <1>8, LaidKeys
<1>12. \A e, f \in ToSet(g.edges) : e.pool = f.pool /\ e.b2q = f.b2q => e = f
  <2> SUFFICES ASSUME NEW e \in ToSet(g.edges), NEW f \in ToSet(g.edges), e.pool = f.pool, e.b2q = f.b2q
               PROVE  e = f
    OBVIOUS
  <2>1. PICK i \in 1..Len(g.edges) : e = g.edges[i]
    BY <1>10
  <2>2. PICK j \in 1..Len(g.edges) : f = g.edges[j]
    BY <1>10
  <2> QED BY <1>11, <2>1, <2>2
<1>13. ToSet(s) \subseteq Filled /\ \A p, q \in ToSet(s) : p.address = q.address => p = q
  <2>1. \A x \in ToSet(s) : \E i \in 1..Len(s) : x = s[i]
    BY <1>7
  <2> SUFFICES ASSUME NEW p \in ToSet(s), NEW q \in ToSet(s)
               PROVE  p \in Filled /\ (p.address = q.address => p = q)
    OBVIOUS
  <2>2. PICK i \in 1..Len(s) : p = s[i]
    BY <2>1
  <2>3. PICK j \in 1..Len(s) : q = s[j]
    BY <2>1
  <2> QED BY <1>4, <1>5, <1>6, <2>2, <2>3
<1> QED BY <1>1, <1>8, <1>9, <1>10, <1>12, <1>13, Zenon DEF Priced

LEMMA PricedStep == Current /\ Batched /\ Priced /\ [DetectionNext]_detectionVars => Priced'
<1> SUFFICES ASSUME Current, Batched, Priced, [DetectionNext]_detectionVars PROVE Priced'
  OBVIOUS
<1>1. ASSUME batch' = batch, built' = built PROVE Priced'
  BY <1>1 DEF Priced
<1>2. CASE NextSlot
  BY <1>1, <1>2 DEF NextSlot
<1>3. ASSUME NEW a, NEW r, PoolUpdate(a, r) PROVE Priced'
  BY <1>1, <1>3 DEF PoolUpdate
<1>4. CASE Rebuild
  BY <1>4, RebuildPriced
<1>5. ASSUME NEW S \in SUBSET Known, Prune(S) PROVE Priced'
  <2>1. ToSet(batch'.edges) \subseteq ToSet(batch.edges)
    <3>1. ToSet(batch'.edges) = {e \in ToSet(batch.edges) : ~TooOld(e, S)}
      BY <1>5, PruneStep
    <3> QED BY <3>1
  <2>2. batch'.tokens = batch.tokens /\ built' = built
    <3>1. batch = [tokens |-> batch.tokens, edges |-> batch.edges]
      BY DEF Batched
    <3>2. batch' = [batch EXCEPT !.edges = PruneStale(batch.edges, Dropped(S))] /\ built' = built
      BY <1>5 DEF Prune, Dropped
    <3> DEFINE x == PruneStale(batch.edges, Dropped(S))
    <3> HIDE DEF x
    <3>3. batch' = [batch EXCEPT !.edges = x]
      BY <3>2 DEF x
    <3>4. batch' = [tokens |-> batch.tokens, edges |-> x]
      BY <3>1, <3>3
    <3> QED BY <3>2, <3>4
  <2> QED BY <2>1, <2>2 DEF Priced
<1>6. CASE UNCHANGED detectionVars
  BY <1>1, <1>6 DEF detectionVars
<1> QED BY <1>2, <1>3, <1>4, <1>5, <1>6 DEF DetectionNext

LEMMA BatchWired ==
  ASSUME Batched, Priced
  PROVE  \E n, m \in Nat : Wired(n, m, batch)
<1> DEFINE e == batch.edges
           n == Len(e)
           m == Len(batch.tokens)
<1>1. /\ e \in Seq(Edges) /\ n \in Nat /\ DOMAIN e = 1..n /\ ToSet(e) = {e[i] : i \in 1..n}
      /\ m \in Nat /\ DOMAIN batch.tokens = 1..m
  BY LenProperties DEF Batched, Priced, ToSet
<1>2. ASSUME NEW i \in 1..n
      PROVE  e[i].weight \in Int /\ e[i].from \in 1..m /\ e[i] \in ToSet(e)
  <2>1. e[i] \in Edges
    BY <1>1, ElementOfSeq
  <2>2. e[i] \in ToSet(e)
    BY <1>1
  <2>3. Quoted(e[i], m, built)
    BY <2>2 DEF Priced
  <2> QED BY <2>1, <2>2, <2>3 DEF Edges, Quoted
<1>3. ASSUME NEW i \in 1..n, NEW j \in 1..n, e[i].pool = e[j].pool, e[i].b2q = e[j].b2q PROVE i = j
  <2>1. e[i] = e[j]
    BY <1>2, <1>3 DEF Priced
  <2> QED BY <2>1 DEF Batched, Distinct
<1>4. Wired(n, m, batch)
  <2>1. batch.edges = e
    OBVIOUS
  <2> HIDE DEF e, n, m
  <2> QED BY <1>1, <1>2, <1>3, <2>1 DEF Wired
<1> QED BY <1>1, <1>4

LEMMA StreamWeightIs == \A rate : StreamWeight(rate) \in Int
<1> TAKE rate
<1>1. BitWeight \in Nat /\ MaxWeight \in Nat
  BY GraphConstants
<1> DEFINE Low(b) == 2^b <= rate
           bits == {b \in 0..30 : Low(b)}
<1>2. BitLength(rate) = Cardinality(bits)
  BY DEF BitLength
<1> HIDE DEF Low
<1>3. IsFiniteSet(0..30)
  <2>1. 0 \in Int /\ 30 \in Int
    OBVIOUS
  <2> QED BY <2>1, FS_Interval, Zenon
<1>4. bits \subseteq 0..30
  OBVIOUS
<1> HIDE DEF bits
<1>5. BitLength(rate) \in Nat
  BY <1>2, <1>3, <1>4, FS_Subset, FS_CardinalityType
<1> DEFINE b == BitLength(rate)
<1> HIDE DEF b
<1>6. b * BitWeight \in Int
  BY <1>1, <1>5 DEF b
<1> DEFINE c == b * BitWeight
<1> HIDE DEF c
<1>7. StreamWeight(rate) = IF rate = 0 THEN MaxWeight ELSE -c
  BY DEF StreamWeight, b, c
<1> QED BY <1>1, <1>6, <1>7 DEF c

(* The streaming graph keeps the two tokens of the pool it was made of:    *)
(* every edge starts from one of them, whichever pool it is for.           *)
Streaming ==
    /\ DOMAIN stream.tokens = 1..2
    /\ \A i \in 1..Len(stream.edges) : stream.edges[i].weight \in Int /\ stream.edges[i].from \in 1..2

LEMMA ReweightedFrom ==
  ASSUME NEW e, Formed(e), NEW p
  PROVE  Reweighted(e, p).from = e.from /\ Reweighted(e, p).weight \in Int
<1> DEFINE w == StreamWeight(IF e.b2q THEN StreamRate(p.rb, p.rq, p.fee)
                                      ELSE StreamRate(p.rq, p.rb, p.fee))
<1>1. w \in Int
  BY StreamWeightIs
<1>2. Reweighted(e, p) = [e EXCEPT !.weight = w]
  BY DEF Reweighted
<1> HIDE DEF w
<1>3. e = [from |-> e.from, to |-> e.to, weight |-> e.weight, pool |-> e.pool, b2q |-> e.b2q]
  BY DEF Formed
<1> QED BY <1>1, <1>2, <1>3

LEMMA RewrittenFrom ==
  ASSUME NEW D, NEW edges \in Seq(D), NEW index, NEW p,
         \A i \in 1..Len(edges) : Formed(edges[i]),
         \A i \in 1..Len(edges) : edges[i].weight \in Int /\ edges[i].from \in 1..2
  PROVE  LET r == Rewritten(edges, index, p)
         IN  \A i \in 1..Len(r) : r[i].weight \in Int /\ r[i].from \in 1..2
<1> DEFINE N == Len(edges)
           r == Rewritten(edges, index, p)
<1>1. DOMAIN edges = 1..N
  BY LenProperties
<1>2. Len(r) = N
  BY RewrittenIs
<1>3. r = [i \in 1..N |-> IF i \in index[p.address] THEN Reweighted(edges[i], p) ELSE edges[i]]
  BY <1>1 DEF Rewritten
<1>4. \A i \in 1..N : r[i] = IF i \in index[p.address] THEN Reweighted(edges[i], p) ELSE edges[i]
  BY <1>3
<1>5. \A i \in 1..N : /\ Reweighted(edges[i], p).from = edges[i].from
                      /\ Reweighted(edges[i], p).weight \in Int
  BY ReweightedFrom
<1> HIDE DEF r
<1> QED BY <1>2, <1>4, <1>5 DEF r

LEMMA AdditionFrom ==
  ASSUME NEW p \in Reported, Addition(p) # <<>>
  PROVE  \A i \in 1..2 : Addition(p)[i].weight \in Int /\ Addition(p)[i].from \in 1..2
<1> DEFINE s == <<p>>
           g == BuildFromPools(s)
<1>1. Buildable(s) /\ Addition(p) = g.edges
  BY DEF Addition
<1>2. p \in Filled
  <2>1. s[1].rb > 0 /\ s[1].rq > 0
    BY <1>1 DEF Buildable
  <2> QED BY <2>1 DEF Filled
<1>3. s \in Seq(Filled) /\ Len(s) = 1 /\ s[1] = p
  BY <1>2
<1> HIDE DEF s
<1>4. /\ g \in Graphs /\ Len(g.tokens) <= 2
      /\ \A e \in ToSet(g.edges) : Quoted(e, Len(g.tokens), ToSet(s))
  BY <1>3, BuildIs, BuildQuotes
<1> HIDE DEF g
<1>5. /\ g.edges \in Seq(Edges) /\ Len(g.edges) = 2
      /\ Len(g.tokens) \in Nat /\ ToSet(g.edges) = {g.edges[i] : i \in 1..Len(g.edges)}
  <2>1. g.edges = Addition(p) /\ Len(Addition(p)) = 2
    BY <1>1, AdditionIs
  <2>2. g.edges \in Seq(Edges) /\ g.tokens \in Seq(Mints)
    BY <1>4 DEF Graphs
  <2> QED BY <2>1, <2>2, LenProperties DEF ToSet
<1>6. ASSUME NEW i \in 1..2 PROVE g.edges[i].weight \in Int /\ g.edges[i].from \in 1..2
  <2>1. g.edges[i] \in Edges /\ g.edges[i] \in ToSet(g.edges)
    BY <1>5, ElementOfSeq
  <2>2. g.edges[i].from \in 1..Len(g.tokens)
    BY <1>4, <2>1 DEF Quoted
  <2>3. g.edges[i].from \in 1..2
    <3> DEFINE m == Len(g.tokens)
               x == g.edges[i].from
    <3>1. m \in Nat /\ m <= 2 /\ x \in 1..m
      BY <1>4, <1>5, <2>2
    <3> HIDE DEF m, x
    <3> QED BY <3>1 DEF x
  <2> QED BY <2>1, <2>3 DEF Edges
<1> QED BY <1>1, <1>6

LEMMA StreamingStep == Current /\ Streaming /\ [DetectionNext]_detectionVars => Streaming'
<1> SUFFICES ASSUME Current, Streaming, [DetectionNext]_detectionVars PROVE Streaming'
  OBVIOUS
<1>1. ASSUME stream' = stream PROVE Streaming'
  BY <1>1 DEF Streaming
<1>2. CASE NextSlot
  BY <1>1, <1>2 DEF NextSlot
<1>3. ASSUME NEW a \in DOMAIN Pools \ {Seed}, NEW r \in Reserves, PoolUpdate(a, r) PROVE Streaming'
  <2> DEFINE p == Snapshot(a, r, now)
             e == stream.edges
             N == Len(e)
  <2>1. Update(p)
    BY <1>3 DEF PoolUpdate
  <2>2. p \in Reported
    <3>1. r \in Nat \X Nat /\ now \in Nat
      BY DetectionConstants DEF Current
    <3> QED BY <3>1 DEF Reported
  <2> HIDE DEF p
  <2>3. /\ Indexed(e, live) /\ stream = [tokens |-> stream.tokens, edges |-> e]
        /\ DOMAIN stream.tokens = 1..2
        /\ \A i \in 1..N : e[i].weight \in Int /\ e[i].from \in 1..2
    BY DEF Current, Streaming
  <2>4. PICK D : e \in Seq(D)
    BY <2>3 DEF Indexed
  <2>5. N \in Nat /\ \A i \in 1..N : Formed(e[i])
    BY <2>3, <2>4, LenProperties DEF Indexed
  <2>6. ASSUME NEW u, stream' = [stream EXCEPT !.edges = u],
               \A i \in 1..Len(u) : u[i].weight \in Int /\ u[i].from \in 1..2
        PROVE  Streaming'
    <3>1. stream' = [tokens |-> stream.tokens, edges |-> u]
      BY <2>3, <2>6
    <3>2. stream'.tokens = stream.tokens /\ stream'.edges = u
      BY <3>1
    <3> QED BY <2>3, <2>6, <3>2 DEF Streaming
  <2>7. CASE p.address \in DOMAIN live /\ stream' = [stream EXCEPT !.edges = Rewritten(@, live, p)]
    <3> DEFINE u == Rewritten(e, live, p)
    <3>1. stream' = [stream EXCEPT !.edges = u]
      BY <2>7
    <3>2. \A i \in 1..Len(u) : u[i].weight \in Int /\ u[i].from \in 1..2
      BY <2>3, <2>4, <2>5, RewrittenFrom
    <3> HIDE DEF u
    <3> QED BY <2>6, <3>1, <3>2
  <2>8. CASE /\ p.address \notin DOMAIN live /\ Addition(p) # <<>>
             /\ LET n == Len(stream.edges)
                    index == [b \in DOMAIN live \union {p.address} |->
                                IF b \in DOMAIN live THEN live[b] ELSE {n + 1, n + 2}]
                IN  /\ stream' = [stream EXCEPT !.edges = Rewritten(@ \o Addition(p), index, p)]
                    /\ live' = index
    <3> DEFINE index == [b \in DOMAIN live \union {p.address} |->
                           IF b \in DOMAIN live THEN live[b]
                           ELSE {Len(stream.edges) + 1, Len(stream.edges) + 2}]
               v == Addition(p)
               t == e \o v
               u == Rewritten(t, index, p)
    <3>1. stream' = [stream EXCEPT !.edges = u]
      BY <2>8
    <3>2. Indexed(t, index)
      BY <2>2, <2>3, <2>8, IndexedAdded
    <3>3. /\ v \in Seq(Edges) /\ Len(v) = 2
          /\ \A i \in 1..2 : v[i].weight \in Int /\ v[i].from \in 1..2
      BY <2>2, <2>8, AdditionIs, AdditionFrom
    <3> HIDE DEF v, index
    <3>4. /\ t \in Seq(D \cup Edges) /\ Len(t) = N + 2
          /\ \A i \in 1..N + 2 : t[i] = IF i <= N THEN e[i] ELSE v[i - N]
      <4>1. e \in Seq(D \cup Edges) /\ v \in Seq(D \cup Edges)
        BY <2>4, <3>3, SeqMonotonic
      <4>2. /\ t \in Seq(D \cup Edges) /\ Len(t) = Len(e) + Len(v)
            /\ \A i \in 1..Len(e) + Len(v) : t[i] = IF i <= Len(e) THEN e[i] ELSE v[i - Len(e)]
        BY <4>1, ConcatProperties
      <4> HIDE DEF t, e
      <4> QED BY <3>3, <4>2
    <3> HIDE DEF t
    <3>5. ASSUME NEW i \in 1..Len(t) PROVE Formed(t[i]) /\ t[i].weight \in Int /\ t[i].from \in 1..2
      <4>1. Formed(t[i])
        BY <3>2 DEF Indexed
      <4> HIDE DEF e, N
      <4>2. CASE i <= N
        <5>1. i \in 1..N /\ t[i] = e[i]
          BY <2>5, <3>4, <4>2
        <5> QED BY <2>3, <4>1, <5>1
      <4>3. CASE ~ (i <= N)
        <5>1. i - N \in 1..2 /\ t[i] = v[i - N]
          BY <2>5, <3>4, <4>3
        <5> QED BY <3>3, <4>1, <5>1
      <4> QED BY <4>2, <4>3
    <3>6. \A i \in 1..Len(u) : u[i].weight \in Int /\ u[i].from \in 1..2
      BY <3>4, <3>5, RewrittenFrom
    <3> HIDE DEF u
    <3> QED BY <2>6, <3>1, <3>6
  <2>9. CASE stream' = stream
    BY <1>1, <2>9
  <2> QED BY <2>1, <2>7, <2>8, <2>9, Zenon DEF Update
<1>4. CASE Rebuild
  BY <1>1, <1>4 DEF Rebuild
<1>5. ASSUME NEW S, Prune(S) PROVE Streaming'
  BY <1>1, <1>5 DEF Prune
<1>6. CASE UNCHANGED detectionVars
  BY <1>1, <1>6 DEF detectionVars
<1> QED BY <1>2, <1>3, <1>4, <1>5, <1>6 DEF DetectionNext

LEMMA StreamingAtFirst == DetectionInit => Streaming
<1> SUFFICES ASSUME DetectionInit PROVE Streaming
  OBVIOUS
<1> DEFINE p == Snapshot(Seed, <<One, One>>, 0)
           s == <<p>>
<1>1. stream = BuildFromPools(s)
  BY DEF DetectionInit
<1>2. p \in Filled /\ p.base # p.quote
  <2>1. One \in Nat \ {0} /\ Seed \in DOMAIN Pools /\ Pools[Seed].base # Pools[Seed].quote
    BY GraphConstants, DetectionConstants
  <2>2. <<One, One>> \in Nat \X Nat /\ <<One, One>>[1] = One /\ <<One, One>>[2] = One
    BY <2>1
  <2>3. p \in Reported
    BY <2>1, <2>2 DEF Reported
  <2>4. p.rb = One /\ p.rq = One /\ p.base = Pools[Seed].base /\ p.quote = Pools[Seed].quote
    BY <2>2 DEF Snapshot
  <2> HIDE DEF p
  <2> QED BY <2>1, <2>3, <2>4 DEF Filled
<1> HIDE DEF p
<1>3. s \in Seq(Filled) /\ Len(s) = 1 /\ s[1] = p
  BY <1>2
<1> HIDE DEF s
<1>4. /\ stream \in Graphs /\ Laid(stream, s, 1) /\ Len(stream.tokens) = 2
      /\ \A e \in ToSet(stream.edges) : Quoted(e, Len(stream.tokens), ToSet(s))
  BY <1>1, <1>2, <1>3, BuildIs, BuildQuotes
<1>5. /\ stream.edges \in Seq(Edges) /\ stream.tokens \in Seq(Mints)
      /\ DOMAIN stream.tokens = 1..2
      /\ ToSet(stream.edges) = {stream.edges[i] : i \in 1..Len(stream.edges)}
  <2>1. stream.edges \in Seq(Edges) /\ stream.tokens \in Seq(Mints)
    BY <1>4 DEF Graphs
  <2> QED BY <1>4, <2>1, LenProperties DEF ToSet
<1>6. ASSUME NEW i \in 1..Len(stream.edges)
      PROVE  stream.edges[i].weight \in Int /\ stream.edges[i].from \in 1..2
  <2>1. stream.edges[i] \in Edges /\ stream.edges[i] \in ToSet(stream.edges)
    BY <1>5, ElementOfSeq
  <2>2. Quoted(stream.edges[i], 2, ToSet(s))
    BY <1>4, <2>1
  <2> QED BY <2>1, <2>2 DEF Edges, Quoted
<1> QED BY <1>5, <1>6 DEF Streaming

LEMMA StreamWired ==
  ASSUME Current, Streaming
  PROVE  \E n, m \in Nat : Wired(n, m, stream)
<1> DEFINE e == stream.edges
           n == Len(e)
<1>1. Indexed(e, live)
  BY DEF Current
<1>2. n \in Nat /\ DOMAIN e = 1..n
  <2>1. PICK D : e \in Seq(D)
    BY <1>1 DEF Indexed
  <2> QED BY <2>1, LenProperties
<1>3. ASSUME NEW i \in 1..n, NEW j \in 1..n, e[i].pool = e[j].pool, e[i].b2q = e[j].b2q PROVE i = j
  <2> DEFINE a == e[i].pool
  <2>1. a \in DOMAIN live /\ TwoWays(e, live[a], a)
    BY <1>1 DEF Indexed
  <2>2. i \in live[a] /\ j \in live[a]
    BY <1>3, <2>1 DEF TwoWays
  <2>3. PICK x, y \in 1..n : x # y /\ live[a] = {x, y} /\ e[x].b2q = TRUE /\ e[y].b2q = FALSE
    BY <2>1 DEF TwoWays
  <2> QED BY <1>3, <2>2, <2>3
<1>4. Wired(n, 2, stream)
  <2>1. stream.edges = e /\ DOMAIN stream.tokens = 1..2
    BY DEF Streaming
  <2>2. \A i \in 1..n : e[i].weight \in Int /\ e[i].from \in 1..2
    BY DEF Streaming
  <2> HIDE DEF e, n
  <2> QED BY <1>2, <1>3, <2>1, <2>2 DEF Wired
<1> QED BY <1>2, <1>4

LEMMA SubsetsInduct ==
  ASSUME NEW L, IsFiniteSet(L), NEW S, {} \in S,
         \A T \in SUBSET L : T # {} /\ (\A x \in T : T \ {x} \in S) => T \in S
  PROVE  \A T \in SUBSET L : T \in S
<1> DEFINE Q == {k \in Nat : \A T \in SUBSET L : Cardinality(T) <= k => T \in S}
<1>1. \A T \in SUBSET L : IsFiniteSet(T) /\ Cardinality(T) \in Nat
  BY FS_Subset, FS_CardinalityType
<1>2. 0 \in Q
  <2>1. ASSUME NEW T \in SUBSET L, Cardinality(T) <= 0 PROVE T \in S
    <3>1. Cardinality(T) = 0
      BY <1>1, <2>1
    <3>2. T = {}
      BY <1>1, <3>1, FS_EmptySet
    <3> QED BY <3>2
  <2> QED BY <2>1
<1>3. ASSUME NEW k \in Nat, k \in Q PROVE k + 1 \in Q
  <2>1. ASSUME NEW T \in SUBSET L, Cardinality(T) <= k + 1 PROVE T \in S
    <3>1. CASE T = {}
      BY <3>1
    <3>2. CASE T # {}
      <4>1. ASSUME NEW x \in T PROVE T \ {x} \in S
        <5>1. T \ {x} \in SUBSET L /\ Cardinality(T \ {x}) = Cardinality(T) - 1
          BY <1>1, FS_RemoveElement
        <5>2. Cardinality(T \ {x}) <= k
          BY <1>1, <2>1, <5>1
        <5> QED BY <1>3, <5>1, <5>2
      <4> QED BY <3>2, <4>1
    <3> QED BY <3>1, <3>2
  <2> QED BY <2>1
<1>4. \A k \in Nat : k \in Q
  <2> HIDE DEF Q
  <2> QED BY <1>2, <1>3, Induct
<1>5. ASSUME NEW T \in SUBSET L PROVE T \in S
  <2>1. Cardinality(T) \in Nat /\ Cardinality(T) <= Cardinality(T)
    BY <1>1
  <2> QED BY <1>4, <2>1
<1> QED BY <1>5

LEMMA TimesIs ==
  /\ \A a, b \in Nat : a * b \in Nat /\ a * b = b * a
  /\ \A a, b, c \in Nat : a * (b * c) = b * (a * c)
  /\ \A a, b, c \in Nat : a <= b => a * c <= b * c
<1>1. \A a, b \in Nat : a * b \in Nat /\ a * b = b * a
  OBVIOUS
<1>2. \A a, b, c \in Nat : a * (b * c) = b * (a * c)
  OBVIOUS
<1>3. \A a, b, c \in Nat : a <= b => a * c <= b * c
  <2> TAKE a, b, c \in Nat
  <2> SUFFICES ASSUME a <= b PROVE a * c <= b * c
    OBVIOUS
  <2>1. PICK d \in Nat : b = a + d
    <3>1. b - a \in Nat /\ b = a + (b - a)
      OBVIOUS
    <3> QED BY <3>1
  <2>2. b * c = a * c + d * c
    BY <2>1
  <2>3. a * c \in Nat /\ d * c \in Nat
    BY <1>1
  <2> DEFINE y == a * c
             z == d * c
  <2> HIDE DEF y, z
  <2>4. b * c = y + z /\ y \in Nat /\ z \in Nat
    BY <2>2, <2>3 DEF y, z
  <2>5. y <= b * c
    BY <2>4
  <2> QED BY <2>5 DEF y
<1> QED BY <1>1, <1>2, <1>3

(* Of two factors with the same sum, the closer ones multiply to more. *)
LEMMA Smoothed ==
  ASSUME NEW o \in Nat, NEW a \in Nat, NEW r \in Nat,
         (a <= o /\ r >= o) \/ (a >= o /\ r <= o)
  PROVE  a + r - o \in Nat /\ a * r <= o * (a + r - o)
<1>1. ASSUME NEW x \in Nat, NEW y \in Nat, x <= o, y >= o
      PROVE  x + y - o \in Nat /\ x * y <= o * (x + y - o)
  <2>1. PICK d \in Nat : o = x + d
    <3>1. o - x \in Nat /\ o = x + (o - x)
      BY <1>1
    <3> QED BY <3>1
  <2>2. PICK e \in Nat : y = o + e
    <3>1. y - o \in Nat /\ y = o + (y - o)
      BY <1>1
    <3> QED BY <3>1
  <2>3. x + y - o = x + e
    BY <2>2
  <2>4. x * y = x * o + x * e
    BY <2>2
  <2>5. o * (x + e) = x * o + o * e
    OBVIOUS
  <2>6. x * e <= o * e
    BY <1>1, TimesIs
  <2> DEFINE p == x * o
             q == x * e
             s == o * e
             t == o * (x + e)
             u == x * y
  <2>7. p \in Nat /\ q \in Nat /\ s \in Nat /\ q <= s /\ u = p + q /\ t = p + s
    BY <2>4, <2>5, <2>6, TimesIs
  <2> HIDE DEF p, q, s, t, u
  <2>8. u <= t
    BY <2>7
  <2> QED BY <2>3, <2>8 DEF t, u
<1>2. CASE a <= o /\ r >= o
  BY <1>1, <1>2
<1>3. CASE a >= o /\ r <= o
  <2>1. r + a - o \in Nat /\ r * a <= o * (r + a - o)
    BY <1>1, <1>3
  <2>2. r + a - o = a + r - o /\ r * a = a * r
    BY TimesIs
  <2> QED BY <2>1, <2>2
<1> QED BY <1>2, <1>3

Times == [p \in Nat \X Nat |-> p[1] * p[2]]

LEMMA TimesOf ==
  /\ Times \in [Nat \X Nat -> Nat]
  /\ \A a, b \in Nat : Times[<<a, b>>] = a * b
  /\ \A a, b, c \in Nat : Times[<<a, Times[<<b, c>>]>>] = Times[<<b, Times[<<a, c>>]>>]
<1>1. \A a, b \in Nat : a * b \in Nat
  BY TimesIs
<1>2. Times \in [Nat \X Nat -> Nat]
  BY <1>1 DEF Times
<1>3. \A a, b \in Nat : Times[<<a, b>>] = a * b
  BY DEF Times
<1>4. \A a, b, c \in Nat : Times[<<a, Times[<<b, c>>]>>] = Times[<<b, Times[<<a, c>>]>>]
  <2> TAKE a, b, c \in Nat
  <2>1. Times[<<a, b * c>>] = a * (b * c) /\ Times[<<b, a * c>>] = b * (a * c)
    BY <1>1, <1>3
  <2>2. Times[<<b, c>>] = b * c /\ Times[<<a, c>>] = a * c
    BY <1>3
  <2>3. a * (b * c) = b * (a * c)
    BY TimesIs
  <2> QED BY <2>1, <2>2, <2>3
<1> QED BY <1>2, <1>3, <1>4

(* How a product over a set is worked out, one element after another. *)
Multiplies(g, L, v) ==
    g = [T \in SUBSET L |-> IF T = {} THEN 1 ELSE g[T \ {OneOf(T)}] * v[OneOf(T)]]

LEMMA ProductFold ==
  ASSUME NEW L, IsFiniteSet(L), NEW v \in [L -> Nat]
  PROVE  /\ \E g : Multiplies(g, L, v)
         /\ \A g : Multiplies(g, L, v) => SetFold(g, L, Nat, 1, Times, v)
<1> DEFINE Body(g, T) == IF T = {} THEN 1 ELSE g[T \ {OneOf(T)}] * v[OneOf(T)]
<1>1. \A T \in SUBSET L : T # {} => /\ OneOf(T) \in T /\ v[OneOf(T)] \in Nat
                                    /\ T \ {OneOf(T)} \in SUBSET L
  BY OneOfIs
<1>2. PICK f : SetRecurs(f, L, 1, Times, v)
  BY SetFoldExists
<1>3. \A T \in SUBSET L : f[T] = IF T = {} THEN 1 ELSE Times[<<v[OneOf(T)], f[T \ {OneOf(T)}]>>]
  BY <1>2, Zenon DEF SetRecurs
<1>4. SetFold(f, L, Nat, 1, Times, v)
  <2>1. {} \in SUBSET L /\ 1 \in Nat
    OBVIOUS
  <2>2. SetSteps(f, L, Nat, 1, Times, v)
    BY <1>3, <2>1 DEF SetSteps
  <2> QED BY <2>1, <2>2, TimesOf, SetFoldIs
<1>5. \A T \in SUBSET L : f[T] = Body(f, T)
  <2> TAKE T \in SUBSET L
  <2>1. CASE T = {}
    BY <1>3, <2>1
  <2>2. CASE T # {}
    <3> DEFINE x == v[OneOf(T)]
               y == f[T \ {OneOf(T)}]
    <3>1. x \in Nat /\ y \in Nat /\ f[T] = Times[<<x, y>>]
      BY <1>1, <1>3, <1>4, <2>2 DEF SetFold
    <3> HIDE DEF x, y
    <3>2. f[T] = y * x
      BY <3>1, TimesOf, TimesIs
    <3> QED BY <2>2, <3>2 DEF x, y
  <2> QED BY <2>1, <2>2
<1>6. Multiplies(f, L, v)
  <2>1. f = [T \in SUBSET L |-> f[T]]
    BY <1>2, Zenon DEF SetRecurs
  <2> HIDE DEF Body
  <2>2. f = [T \in SUBSET L |-> Body(f, T)]
    BY <1>5, <2>1
  <2> QED BY <2>2 DEF Multiplies, Body
<1>7. ASSUME NEW g, Multiplies(g, L, v) PROVE SetFold(g, L, Nat, 1, Times, v)
  <2>1. g = [T \in SUBSET L |-> Body(g, T)]
    BY <1>7, Zenon DEF Multiplies
  <2> HIDE DEF Body
  <2>2. \A T \in SUBSET L : g[T] = Body(g, T)
    BY <2>1, Zenon
  <2>3. {} \in SUBSET L /\ 1 \in Nat
    OBVIOUS
  <2>4. g[{}] = 1
    BY <2>2, <2>3 DEF Body
  <2>5. ASSUME NEW T \in SUBSET L, T # {}, g[T \ {OneOf(T)}] \in Nat
        PROVE  g[T] = Times[<<v[OneOf(T)], g[T \ {OneOf(T)}]>>]
    <3> DEFINE x == v[OneOf(T)]
               y == g[T \ {OneOf(T)}]
    <3>1. x \in Nat /\ y \in Nat /\ g[T] = y * x
      BY <1>1, <2>2, <2>5 DEF Body
    <3> HIDE DEF x, y
    <3>2. g[T] = Times[<<x, y>>]
      BY <3>1, TimesOf, TimesIs
    <3> QED BY <3>2 DEF x, y
  <2>6. SetSteps(g, L, Nat, 1, Times, v)
    BY <2>4, <2>5 DEF SetSteps
  <2> QED BY <2>3, <2>6, TimesOf, SetFoldIs
<1> QED BY <1>6, <1>7

(* Rates whose distances from a unit do not add up to a loss multiply to   *)
(* no more than as many units.                                             *)
LEMMA MeanBounds ==
  ASSUME NEW L, IsFiniteSet(L), NEW o \in Nat, o > 0, NEW r \in [L -> Nat], NEW w \in [L -> Int],
         NEW u \in [L -> Nat], \A i \in L : w[i] = o - r[i] /\ u[i] = o,
         NEW W, SetFold(W, L, Int, 0, Plus, w),
         NEW P, SetFold(P, L, Nat, 1, Times, r),
         NEW O, SetFold(O, L, Nat, 1, Times, u),
         W[L] >= 0
  PROVE  P[L] <= O[L]
<1>1. /\ \A T \in SUBSET L : W[T] \in Int /\ P[T] \in Nat /\ O[T] \in Nat
      /\ W[{}] = 0 /\ P[{}] = 1 /\ O[{}] = 1
  BY DEF SetFold
<1>2. ASSUME NEW T \in SUBSET L, NEW x \in T
      PROVE  /\ T \ {x} \in SUBSET L /\ r[x] \in Nat
             /\ W[T] = o - r[x] + W[T \ {x}]
             /\ P[T] = r[x] * P[T \ {x}]
             /\ O[T] = o * O[T \ {x}]
  <2>1. T \ {x} \in SUBSET L /\ x \in L
    OBVIOUS
  <2>2. /\ W[T] = Plus[<<w[x], W[T \ {x}]>>]
        /\ P[T] = Times[<<r[x], P[T \ {x}]>>]
        /\ O[T] = Times[<<u[x], O[T \ {x}]>>]
    BY DEF SetFold
  <2>3. \A a, b \in Int : Plus[<<a, b>>] = a + b
    BY DEF Plus
  <2>4. w[x] \in Int /\ r[x] \in Nat /\ u[x] = o /\ w[x] = o - r[x]
    BY <2>1
  <2>5. W[T \ {x}] \in Int /\ P[T \ {x}] \in Nat /\ O[T \ {x}] \in Nat
    BY <1>1, <2>1
  <2>6. W[T] = w[x] + W[T \ {x}]
    BY <2>2, <2>3, <2>4, <2>5
  <2>7. P[T] = r[x] * P[T \ {x}] /\ O[T] = o * O[T \ {x}]
    BY <2>2, <2>4, <2>5, TimesOf
  <2> QED BY <2>1, <2>4, <2>6, <2>7
<1> DEFINE Low == {T \in SUBSET L : (\A x \in T : r[x] <= o) => P[T] <= O[T]}
           High == {T \in SUBSET L : (\A x \in T : r[x] >= o) => W[T] <= 0}
           Fair == {T \in SUBSET L : \A a \in Nat : a - o <= W[T] => a * P[T] <= o * O[T]}
<1>3. \A T \in SUBSET L : T \in Low
  <2>1. {} \in Low
    BY <1>1
  <2>2. ASSUME NEW T \in SUBSET L, T # {}, \A x \in T : T \ {x} \in Low PROVE T \in Low
    <3>1. SUFFICES ASSUME \A x \in T : r[x] <= o PROVE P[T] <= O[T]
      OBVIOUS
    <3>2. PICK x \in T : TRUE
      BY <2>2
    <3> DEFINE p == P[T \ {x}]
               q == O[T \ {x}]
               y == r[x]
    <3>3. p <= q
      BY <2>2, <3>1
    <3>4. p \in Nat /\ q \in Nat /\ y \in Nat /\ y <= o /\ P[T] = y * p /\ O[T] = o * q
      BY <1>1, <1>2, <3>1
    <3> HIDE DEF p, q, y
    <3>5. y * p <= o * p /\ o * p = p * o /\ p * o <= q * o /\ q * o = o * q
      BY <3>3, <3>4, TimesIs
    <3>6. y * p \in Nat /\ p * o \in Nat /\ q * o \in Nat
      BY <3>4, TimesIs
    <3> QED BY <3>4, <3>5, <3>6
  <2> HIDE DEF Low
  <2> QED BY <2>1, <2>2, SubsetsInduct
<1>4. \A T \in SUBSET L : T \in High
  <2>1. {} \in High
    BY <1>1
  <2>2. ASSUME NEW T \in SUBSET L, T # {}, \A x \in T : T \ {x} \in High PROVE T \in High
    <3>1. SUFFICES ASSUME \A x \in T : r[x] >= o PROVE W[T] <= 0
      OBVIOUS
    <3>2. PICK x \in T : TRUE
      BY <2>2
    <3>3. W[T \ {x}] <= 0
      BY <2>2, <3>1
    <3>4. W[T] = o - r[x] + W[T \ {x}] /\ W[T \ {x}] \in Int /\ r[x] \in Nat /\ r[x] >= o
      BY <1>1, <1>2, <3>1
    <3> QED BY <3>3, <3>4
  <2> HIDE DEF High
  <2> QED BY <2>1, <2>2, SubsetsInduct
<1>5. \A T \in SUBSET L : T \in Fair
  <2>1. {} \in Fair
    <3>1. ASSUME NEW a \in Nat, a - o <= 0 PROVE a * 1 <= o * 1
      BY <3>1
    <3> QED BY <1>1, <3>1
  <2>2. ASSUME NEW T \in SUBSET L, T # {}, \A x \in T : T \ {x} \in Fair PROVE T \in Fair
    <3>1. SUFFICES ASSUME NEW a \in Nat, a - o <= W[T] PROVE a * P[T] <= o * O[T]
      OBVIOUS
    <3>2. ASSUME NEW x \in T, (a <= o /\ r[x] >= o) \/ (a >= o /\ r[x] <= o)
          PROVE  a * P[T] <= o * O[T]
      <4> DEFINE p == P[T \ {x}]
                 q == O[T \ {x}]
                 y == r[x]
                 z == a + y - o
      <4>1. p \in Nat /\ q \in Nat /\ y \in Nat /\ P[T] = y * p /\ O[T] = o * q
            /\ W[T \ {x}] \in Int /\ W[T] = o - y + W[T \ {x}]
        BY <1>1, <1>2
      <4>2. z \in Nat /\ a * y <= o * z
        BY <3>2, <4>1, Smoothed
      <4>3. z - o <= W[T \ {x}]
        BY <3>1, <4>1
      <4>4. z * p <= o * q
        BY <2>2, <4>2, <4>3
      <4> HIDE DEF p, q, y, z
      <4>5. a * (y * p) = (a * y) * p
        BY <4>1
      <4>6. (a * y) * p <= (o * z) * p
        BY <4>1, <4>2, TimesIs
      <4>7. (o * z) * p = o * (z * p)
        BY <4>1, <4>2
      <4>8. o * (z * p) <= o * (o * q)
        <5> DEFINE j == z * p
                   k == o * q
        <5>1. j \in Nat /\ k \in Nat /\ j <= k
          BY <4>1, <4>2, <4>4, TimesIs
        <5> HIDE DEF j, k
        <5>2. o * j <= o * k
          BY <5>1, TimesIs
        <5> QED BY <5>2 DEF j, k
      <4> DEFINE e1 == a * (y * p)
                 e2 == o * (z * p)
                 e3 == o * (o * q)
      <4>9. e1 \in Nat /\ e2 \in Nat /\ e3 \in Nat
        <5>1. y * p \in Nat /\ z * p \in Nat /\ o * q \in Nat
          BY <4>1, <4>2, TimesIs
        <5> QED BY <5>1, TimesIs
      <4>10. e1 <= e2 /\ e2 <= e3
        BY <4>5, <4>6, <4>7, <4>8
      <4> HIDE DEF e1, e2, e3
      <4>11. e1 <= e3
        BY <4>9, <4>10
      <4> QED BY <4>1, <4>11 DEF e1, e3
    <3>3. CASE a <= o /\ \E x \in T : r[x] >= o
      BY <3>2, <3>3
    <3>4. CASE a <= o /\ \A x \in T : ~ (r[x] >= o)
      <4>1. \A x \in T : r[x] <= o
        BY <1>2, <3>4
      <4>2. P[T] <= O[T]
        BY <1>3, <4>1
      <4> DEFINE p == P[T]
                 q == O[T]
      <4>3. p \in Nat /\ q \in Nat /\ p <= q
        BY <1>1, <4>2
      <4> HIDE DEF p, q
      <4>4. a * p <= o * p /\ o * p = p * o /\ p * o <= q * o /\ q * o = o * q
        BY <3>4, <4>3, TimesIs
      <4>5. a * p \in Nat /\ p * o \in Nat /\ q * o \in Nat
        BY <4>3, TimesIs
      <4>6. a * p <= o * q
        BY <4>4, <4>5
      <4> QED BY <4>6 DEF p, q
    <3>5. CASE a > o
      <4>1. \E x \in T : r[x] <= o
        <5>1. SUFFICES ASSUME \A x \in T : ~ (r[x] <= o) PROVE FALSE
          OBVIOUS
        <5>2. \A x \in T : r[x] >= o
          BY <1>2, <5>1
        <5>3. W[T] <= 0 /\ W[T] \in Int
          BY <1>1, <1>4, <5>2
        <5> QED BY <3>1, <3>5, <5>3
      <4> QED BY <3>2, <3>5, <4>1
    <3>6. a <= o \/ a > o
      OBVIOUS
    <3> QED BY <3>3, <3>4, <3>5, <3>6
  <2> HIDE DEF Fair
  <2> QED BY <2>1, <2>2, SubsetsInduct
<1>6. o * P[L] <= o * O[L]
  <2>1. o - o <= W[L] /\ L \in Fair
    BY <1>1, <1>5
  <2> QED BY <2>1
<1> DEFINE p == P[L]
           q == O[L]
<1>7. p \in Nat /\ q \in Nat
  BY <1>1
<1> HIDE DEF p, q
<1>8. p <= q
  <2>1. SUFFICES ASSUME q + 1 <= p PROVE FALSE
    BY <1>7
  <2>2. (q + 1) * o <= p * o /\ p * o = o * p /\ (q + 1) * o = o * q + o
    BY <1>7, <2>1, TimesIs
  <2>3. o * p <= o * q
    BY <1>6 DEF p, q
  <2> DEFINE j == o * p
             k == o * q
  <2>4. j \in Nat /\ k \in Nat /\ k + o <= j /\ j <= k
    BY <1>7, <2>2, <2>3, TimesIs
  <2> HIDE DEF j, k
  <2> QED BY <2>4
<1> QED BY <1>8 DEF p, q

(* Weights of at most a unit, one of them clamped, add up to a loss.       *)
LEMMA ClampedLoses ==
  ASSUME NEW L, IsFiniteSet(L), NEW w \in [L -> Int], NEW n \in Nat, Cardinality(L) <= n,
         \A i \in L : w[i] <= One, (n - 1) * One <= MaxWeight,
         NEW W, SetFold(W, L, Int, 0, Plus, w), NEW x \in L, w[x] <= MinWeight
  PROVE  W[L] < 0
<1>1. One \in Nat /\ MaxWeight \in Nat
  BY GraphConstants
<1>2. \A T \in SUBSET L : W[T] \in Int /\ \A y \in T : W[T] = w[y] + W[T \ {y}]
  <2>1. \A a, b \in Int : Plus[<<a, b>>] = a + b
    BY DEF Plus
  <2>2. \A T \in SUBSET L : W[T] \in Int /\ \A y \in T : W[T] = Plus[<<w[y], W[T \ {y}]>>]
    BY DEF SetFold
  <2>3. ASSUME NEW T \in SUBSET L, NEW y \in T PROVE W[T] = w[y] + W[T \ {y}]
    <3>1. T \ {y} \in SUBSET L /\ y \in L
      OBVIOUS
    <3>2. w[y] \in Int /\ W[T \ {y}] \in Int
      BY <2>2, <3>1
    <3> QED BY <2>1, <2>2, <3>2
  <2> QED BY <2>2, <2>3
<1>3. \A T \in SUBSET L : IsFiniteSet(T) /\ Cardinality(T) \in Nat
  BY FS_Subset, FS_CardinalityType
<1> DEFINE S == {T \in SUBSET L : W[T] <= Cardinality(T) * One}
<1>4. \A T \in SUBSET L : T \in S
  <2>1. {} \in S
    <3>1. W[{}] = 0 /\ Cardinality({}) = 0 /\ 0 * One = 0
      BY <1>1, FS_EmptySet DEF SetFold
    <3> QED BY <3>1
  <2>2. ASSUME NEW T \in SUBSET L, T # {}, \A y \in T : T \ {y} \in S PROVE T \in S
    <3>1. PICK y \in T : TRUE
      BY <2>2
    <3>2. Cardinality(T \ {y}) = Cardinality(T) - 1
      BY <1>3, FS_RemoveElement
    <3> DEFINE c == Cardinality(T)
               v == W[T \ {y}]
    <3>3. c \in Nat /\ v \in Int /\ w[y] \in Int /\ w[y] <= One /\ W[T] = w[y] + v /\ v <= (c - 1) * One
      BY <1>2, <1>3, <2>2, <3>2
    <3> HIDE DEF c, v
    <3>4. (c - 1) * One = c * One - One /\ c * One \in Int
      BY <1>1, <3>3
    <3> DEFINE d == c * One
    <3>5. d \in Int /\ v <= d - One
      BY <3>3, <3>4
    <3> HIDE DEF d
    <3>6. w[y] + v <= d
      BY <1>1, <3>3, <3>5
    <3> QED BY <3>3, <3>6 DEF c, d
  <2> HIDE DEF S
  <2> QED BY <2>1, <2>2, SubsetsInduct
<1> DEFINE c == Cardinality(L)
           v == W[L \ {x}]
<1>5. /\ c \in Nat /\ c <= n /\ c >= 1
      /\ v \in Int /\ w[x] \in Int /\ W[L] = w[x] + v /\ v <= (c - 1) * One
  <2>1. L \in SUBSET L /\ L \ {x} \in SUBSET L
    OBVIOUS
  <2>2. Cardinality(L \ {x}) = c - 1 /\ Cardinality(L \ {x}) \in Nat
    BY <1>3, <2>1, FS_RemoveElement
  <2>3. c \in Nat /\ c >= 1
    BY <1>3, <2>1, <2>2
  <2>4. L \ {x} \in S
    BY <1>4, <2>1
  <2> QED BY <1>2, <2>1, <2>2, <2>3, <2>4
<1> HIDE DEF c, v
<1>6. (c - 1) * One <= (n - 1) * One
  <2>1. c - 1 \in Nat /\ n - 1 \in Nat /\ c - 1 <= n - 1
    BY <1>5
  <2> DEFINE j == c - 1
             k == n - 1
  <2> HIDE DEF j, k
  <2>2. j \in Nat /\ k \in Nat /\ j <= k
    BY <2>1 DEF j, k
  <2>3. j * One <= k * One
    BY <1>1, <2>2, TimesIs
  <2> QED BY <2>3 DEF j, k
<1> DEFINE j == (c - 1) * One
           k == (n - 1) * One
<1>7. j \in Int /\ k \in Int /\ j <= k /\ k <= MaxWeight /\ v <= j
  BY <1>1, <1>5, <1>6
<1> HIDE DEF j, k
<1>8. w[x] <= -MaxWeight - 1
  BY DEF MinWeight
<1> QED BY <1>1, <1>5, <1>7, <1>8

LEMMA SpotProduct ==
  ASSUME NEW L, IsFiniteSet(L), \A i \in L : SpotRate(i) \in Nat
  PROVE  \E g : /\ SetFold(g, L, Nat, 1, Times, [i \in L |-> SpotRate(i)])
                /\ Product(L, SpotRate) = g[L]
<1> DEFINE v == [i \in L |-> SpotRate(i)]
           Body(g, T) == IF T = {} THEN 1 ELSE g[T \ {OneOf(T)}] * SpotRate(OneOf(T))
           Same(g, T) == IF T = {} THEN 1 ELSE g[T \ {OneOf(T)}] * v[OneOf(T)]
           c == CHOOSE g : g = [T \in SUBSET L |-> Body(g, T)]
<1>1. Product(L, SpotRate) = c[L]
  BY Zenon DEF Product, FoldSet, MapThenFoldSet, OneOf
<1>2. v \in [L -> Nat] /\ \A i \in L : v[i] = SpotRate(i)
  OBVIOUS
<1> HIDE DEF v
<1>3. \A g : \A T \in SUBSET L : Body(g, T) = Same(g, T)
  <2> TAKE g
  <2> TAKE T \in SUBSET L
  <2>1. CASE T = {}
    BY <2>1
  <2>2. CASE T # {}
    <3>1. OneOf(T) \in L
      BY <2>2, OneOfIs
    <3>2. v[OneOf(T)] = SpotRate(OneOf(T))
      BY <1>2, <3>1
    <3> QED BY <3>2
  <2> QED BY <2>1, <2>2
<1>4. PICK f : Multiplies(f, L, v)
  BY <1>2, ProductFold
<1>5. f = [T \in SUBSET L |-> Same(f, T)]
  BY <1>4, Zenon DEF Multiplies
<1> HIDE DEF Body, Same
<1>6. f = [T \in SUBSET L |-> Body(f, T)]
  BY <1>3, <1>5
<1>7. c = [T \in SUBSET L |-> Body(c, T)]
  BY <1>6, Zenon
<1> HIDE DEF c
<1>8. c = [T \in SUBSET L |-> Same(c, T)]
  BY <1>3, <1>7
<1>9. Multiplies(c, L, v)
  BY <1>8, Zenon DEF Multiplies, Same
<1>10. SetFold(c, L, Nat, 1, Times, v)
  BY <1>2, <1>9, ProductFold
<1> QED BY <1>1, <1>10 DEF v

LEMMA UnitProduct ==
  ASSUME NEW L, IsFiniteSet(L)
  PROVE  \E g : /\ SetFold(g, L, Nat, 1, Times, [i \in L |-> One])
                /\ Product(L, LAMBDA i : One) = g[L]
<1> DEFINE v == [i \in L |-> One]
           Body(g, T) == IF T = {} THEN 1 ELSE g[T \ {OneOf(T)}] * One
           Same(g, T) == IF T = {} THEN 1 ELSE g[T \ {OneOf(T)}] * v[OneOf(T)]
           c == CHOOSE g : g = [T \in SUBSET L |-> Body(g, T)]
<1>1. Product(L, LAMBDA i : One) = c[L]
  BY Zenon DEF Product, FoldSet, MapThenFoldSet, OneOf
<1>2. v \in [L -> Nat] /\ \A i \in L : v[i] = One
  BY GraphConstants
<1> HIDE DEF v
<1>3. \A g : \A T \in SUBSET L : Body(g, T) = Same(g, T)
  <2> TAKE g
  <2> TAKE T \in SUBSET L
  <2>1. CASE T = {}
    BY <2>1
  <2>2. CASE T # {}
    <3>1. OneOf(T) \in L
      BY <2>2, OneOfIs
    <3>2. v[OneOf(T)] = One
      BY <1>2, <3>1
    <3> QED BY <3>2
  <2> QED BY <2>1, <2>2
<1>4. PICK f : Multiplies(f, L, v)
  BY <1>2, ProductFold
<1>5. f = [T \in SUBSET L |-> Same(f, T)]
  BY <1>4, Zenon DEF Multiplies
<1> HIDE DEF Body, Same
<1>6. f = [T \in SUBSET L |-> Body(f, T)]
  BY <1>3, <1>5
<1>7. c = [T \in SUBSET L |-> Body(c, T)]
  BY <1>6, Zenon
<1> HIDE DEF c
<1>8. c = [T \in SUBSET L |-> Same(c, T)]
  BY <1>3, <1>7
<1>9. Multiplies(c, L, v)
  BY <1>8, Zenon DEF Multiplies, Same
<1>10. SetFold(c, L, Nat, 1, Times, v)
  BY <1>2, <1>9, ProductFold
<1> QED BY <1>1, <1>10 DEF v

LEMMA RateIs ==
  ASSUME NEW other \in Nat, NEW this \in Nat \ {0}, NEW fee \in Nat
  PROVE  EffectiveRate(other, this, fee) \in Nat
<1>1. One \in Nat \ {0}
  BY GraphConstants
<1>2. FeeMultiplier(fee) \in Nat
  BY <1>1 DEF FeeMultiplier
<1>3. \A a \in Nat, b \in Nat \ {0} : a \div b \in Nat
  OBVIOUS
<1> DEFINE m == other * One
           q == m \div this
           s == q * FeeMultiplier(fee)
<1>4. m \in Nat
  BY <1>1, TimesIs
<1> HIDE DEF m
<1>5. q \in Nat
  BY <1>3, <1>4
<1> HIDE DEF q
<1>6. s \in Nat
  BY <1>2, <1>5, TimesIs
<1> HIDE DEF s
<1>7. s \div One \in Nat
  BY <1>1, <1>3, <1>6
<1> QED BY <1>7 DEF EffectiveRate, m, q, s

(* A cycle of the batch graph that gains is a loss of its weights. *)
LEMMA GainIsLoss ==
  ASSUME Batched, Priced, NEW L \in Cycles(batch.edges, MaxLegs), Gains(L)
  PROVE  Sum(batch.edges, L) < 0
<1> DEFINE e == batch.edges
           n == Len(e)
           r == [i \in L |-> SpotRate(i)]
           w == [i \in L |-> e[i].weight]
           u == [i \in L |-> One]
<1>1. /\ e \in Seq(Edges) /\ n \in Nat /\ DOMAIN e = 1..n /\ ToSet(e) = {e[i] : i \in 1..n}
      /\ MaxLegs \in Nat /\ One \in Nat \ {0} /\ MaxWeight \in Nat /\ (MaxLegs - 1) * One <= MaxWeight
  BY LenProperties, DetectionConstants, GraphConstants DEF Batched, ToSet
<1>2. L \in SUBSET (1..n) /\ Cardinality(L) <= MaxLegs
  BY <1>1, CyclesHave
<1>3. IsFiniteSet(L)
  BY <1>1, <1>2, ClosedIs
<1>4. ASSUME NEW i \in L
      PROVE  SpotRate(i) \in Nat /\ e[i].weight \in Int /\ e[i].weight = WeightFromRate(SpotRate(i))
  <2>1. i \in 1..n /\ e[i] \in Edges /\ e[i] \in ToSet(e)
    BY <1>1, <1>2, ElementOfSeq
  <2>2. PICK p \in built : p.address = e[i].pool /\ e[i].weight = WeightFromRate(RateOf(p, e[i].b2q))
    BY <2>1 DEF Priced, Quoted
  <2> DEFINE z == CHOOSE x \in built : x.address = e[i].pool
  <2>3. p = z
    BY <2>2 DEF Priced
  <2>4. SpotRate(i) = RateOf(p, e[i].b2q)
    <3>1. SpotRate(i) = RateOf(z, e[i].b2q)
      BY DEF SpotRate, RateOf
    <3> HIDE DEF z
    <3> QED BY <2>3, <3>1
  <2>5. p.rb \in Nat \ {0} /\ p.rq \in Nat \ {0} /\ p.fee \in Nat
    <3>1. p \in Filled
      BY DEF Priced
    <3> QED BY <3>1, SnapshotIs DEF Filled
  <2>6. EffectiveRate(p.rq, p.rb, p.fee) \in Nat /\ EffectiveRate(p.rb, p.rq, p.fee) \in Nat
    BY <2>5, RateIs
  <2>7. RateOf(p, e[i].b2q) \in Nat
    BY <2>6 DEF RateOf
  <2> QED BY <2>1, <2>2, <2>4, <2>7 DEF Edges
<1>5. /\ r \in [L -> Nat] /\ w \in [L -> Int] /\ u \in [L -> Nat]
      /\ \A i \in L : r[i] = SpotRate(i) /\ w[i] = e[i].weight /\ u[i] = One
  BY <1>1, <1>4
<1>6. PICK W : SetFold(W, L, Int, 0, Plus, w) /\ Sum(e, L) = W[L]
  BY <1>3, <1>4, SumFolds
<1>7. PICK P : SetFold(P, L, Nat, 1, Times, r) /\ Product(L, SpotRate) = P[L]
  BY <1>3, <1>4, SpotProduct
<1>8. PICK Q : SetFold(Q, L, Nat, 1, Times, u) /\ Product(L, LAMBDA i : One) = Q[L]
  BY <1>3, UnitProduct
<1>9. P[L] > Q[L]
  BY <1>7, <1>8 DEF Gains
<1>10. W[L] \in Int /\ P[L] \in Nat /\ Q[L] \in Nat
  BY <1>6, <1>7, <1>8 DEF SetFold
<1> HIDE DEF r, w, u, e, n
<1>11. \A i \in L : w[i] = IF One - r[i] < MinWeight THEN MinWeight ELSE One - r[i]
  BY <1>4, <1>5 DEF WeightFromRate
<1>12. MinWeight \in Int /\ MinWeight < 0
  BY <1>1 DEF MinWeight
<1>13. CASE \E i \in L : One - r[i] < MinWeight
  <2>1. PICK x \in L : One - r[x] < MinWeight
    BY <1>13
  <2>2. w[x] <= MinWeight
    BY <1>11, <1>12, <2>1
  <2>3. \A i \in L : w[i] <= One
    <3> TAKE i \in L
    <3>1. r[i] \in Nat /\ w[i] = IF One - r[i] < MinWeight THEN MinWeight ELSE One - r[i]
      BY <1>5, <1>11
    <3> QED BY <1>1, <1>12, <3>1
  <2>4. W[L] < 0
    BY <1>1, <1>2, <1>3, <1>5, <1>6, <2>2, <2>3, ClampedLoses
  <2> QED BY <1>6, <2>4 DEF e
<1>14. CASE \A i \in L : ~ (One - r[i] < MinWeight)
  <2>1. \A i \in L : w[i] = One - r[i] /\ u[i] = One
    BY <1>5, <1>11, <1>14
  <2>2. One > 0 /\ One \in Nat
    BY <1>1
  <2>3. W[L] >= 0 => P[L] <= Q[L]
    BY <1>3, <1>5, <1>6, <1>7, <1>8, <2>1, <2>2, MeanBounds
  <2>4. W[L] < 0
    BY <1>9, <1>10, <2>3
  <2> QED BY <1>6, <2>4 DEF e
<1> QED BY <1>13, <1>14

(* For any pools, reserves and fees and any order of updates: the search   *)
(* reports of either graph exactly the cycles of at most max_legs legs     *)
(* that add up to a loss within the i64 range, each once, and a cycle of   *)
(* the batch graph that gains at the spot rates is such a loss, however    *)
(* its weights were rounded and clamped (dl-detect bellman_ford.rs dfs,    *)
(* graph.rs weight_from_rate).                                             *)
THEOREM ProfitableIsReported == DetectionSpec => []ProfitableReported
<1> DEFINE Inv == Current /\ Batched /\ Priced /\ Streaming
<1>1. DetectionInit => Inv
  <2> SUFFICES ASSUME DetectionInit PROVE Batched /\ Priced
    BY CurrentAtFirst, StreamingAtFirst
  <2>1. batch = [tokens |-> <<>>, edges |-> <<>>] /\ built = {}
    BY DEF DetectionInit, NoGraph
  <2>2. batch.edges = <<>> /\ Len(batch.edges) = 0 /\ batch.tokens \in Seq(Mints) /\ ToSet(batch.edges) = {}
    BY <2>1 DEF ToSet
  <2> QED BY <2>1, <2>2 DEF Batched, Distinct, Priced
<1>2. Inv /\ [DetectionNext]_detectionVars => Inv'
  BY CurrentStep, BatchedStep, PricedStep, StreamingStep
<1>3. Inv => ProfitableReported
  <2> SUFFICES ASSUME Inv PROVE ProfitableReported
    OBVIOUS
  <2>1. SearchIsExact(batch, MaxLegs)
    <3>1. PICK n, m \in Nat : Wired(n, m, batch)
      BY BatchWired
    <3>2. MaxLegs \in Nat
      BY DetectionConstants
    <3> QED BY <3>1, <3>2, WiredIsExact
  <2>2. SearchIsExact(stream, 4)
    <3>1. PICK n, m \in Nat : Wired(n, m, stream)
      BY StreamWired
    <3>2. 4 \in Nat
      OBVIOUS
    <3> QED BY <3>1, <3>2, WiredIsExact
  <2>3. \A L \in Cycles(batch.edges, MaxLegs) : Gains(L) => Sum(batch.edges, L) < 0
    BY GainIsLoss
  <2> QED BY <2>1, <2>2, <2>3 DEF ProfitableReported
<1> QED BY <1>1, <1>2, <1>3, PTL DEF DetectionSpec

=============================================================================
