-------------------------- MODULE WarehouseProofs ---------------------------
(***************************************************************************)
(* The partition for any rows, inputs and number of runs: no row twice, no *)
(* written row lost, a checksum that is of the lines it was made of, every *)
(* line of a run accounted for, and the row of a day backed by the reports *)
(* and the rows that were stored.                                          *)
(***************************************************************************)
EXTENDS Warehouse, SequenceTheorems, FiniteSetTheorems, FunctionTheorems,
        WellFoundedInduction, TLAPS

Rec == [id : SUBSET Rows, row : SUBSET Rows]

(* A row that parses is found by the scan. *)
Found(s) == \A k \in DOMAIN s : s[k].row \subseteq s[k].id

Once(s) == \A j, k \in DOMAIN s : s[j].row # {} /\ s[j].row = s[k].row => j = k

SealHolds == ~cut /\ compacting = "off" => \A s \in sealed : IsPrefixOf(s, lines)

(* What is appended was looked for in the lines as they are, since nothing *)
(* but ingest adds to them; a torn line is the last, and its row spoilt.   *)
Inv ==
    /\ lines \in Seq(Rec) /\ sealed \subseteq Seq(Rec)
    /\ Found(lines) /\ Once(lines)
    /\ tail => lines # <<>> /\ lines[Len(lines)].row \subseteq spoilt
    /\ input \in ExpandedInputs \cup {<<>>}
    /\ ingest = "append" => Row \in Rows \ Extracted(lines)
    /\ WrittenIsStored
    /\ SealHolds

-----------------------------------------------------------------------------
(* What any attempt to write a row makes of the partition. *)
Grown(row) ==
    IF tail THEN {[lines EXCEPT ![Len(lines)] = ln] : ln \in {x \in Rec : x.row = {}}}
    ELSE {Append(lines, ln) :
            ln \in {x \in Rec : x.row \subseteq x.id /\ x.id \subseteq {row}}}

LEMMA AppendedGrows ==
  ASSUME Inv, NEW row \in Rows
  PROVE  /\ Appended(row) \subseteq Grown(row)
         /\ TornLines(row) \subseteq Grown(row)
<1>1. Line({row}, {row}) \in Rec /\ Line({row}, {}) \in Rec /\ Line({}, {}) \in Rec
  BY DEF Line, Rec
<1>2. CASE tail
  <2>1. lines[Len(lines)] \in Rec
    <3>1. Len(lines) \in DOMAIN lines
      BY <1>2, EmptySeq, LenProperties DEF Inv
    <3> QED BY <3>1, ElementOfSeq, LenProperties DEF Inv
  <2>2. Behind(lines[Len(lines)], row) \subseteq {x \in Rec : x.row = {}}
    BY <2>1 DEF Behind, Line, Rec
  <2> QED BY <1>2, <2>2 DEF Grown, Appended, TornLines
<1>3. CASE ~tail
  BY <1>1, <1>3 DEF Grown, Appended, TornLines, Line
<1> QED BY <1>2, <1>3

(* Nothing readable is lost but a torn row, and only this row is new.      *)
LEMMA GrownKeeps ==
  ASSUME Inv, NEW row \in Rows \ Extracted(lines), NEW l \in Grown(row)
  PROVE  /\ l \in Seq(Rec) /\ l # <<>>
         /\ Found(l) /\ Once(l)
         /\ Readable(lines) \subseteq Readable(l) \cup spoilt
         /\ l[Len(l)].row \subseteq {row}
         /\ \A s \in Seq(Rec) : IsPrefixOf(s, lines) => IsPrefixOf(s, l)
<1> DEFINE n == Len(lines)
<1>1. n \in Nat /\ DOMAIN lines = 1 .. n /\ \A k \in 1 .. n : lines[k] \in Rec
  BY LenProperties, ElementOfSeq DEF Inv
<1>2. Found(lines) /\ Once(lines)
  BY DEF Inv
<1>3. CASE tail
  <2>1. PICK ln \in Rec : l = [lines EXCEPT ![n] = ln] /\ ln.row = {}
    BY <1>3 DEF Grown
  <2>2. n >= 1 /\ lines[n].row \subseteq spoilt
    BY <1>1, <1>3, EmptySeq DEF Inv
  <2>3. l \in Seq(Rec) /\ Len(l) = n /\ DOMAIN l = 1 .. n
    BY <1>1, <2>1, <2>2, ExceptSeq DEF Inv
  <2>4. l[n] = ln /\ \A k \in 1 .. n : k # n => l[k] = lines[k]
    BY <1>1, <2>1, <2>2
  <2>5. Found(l)
    BY <1>1, <1>2, <2>1, <2>3, <2>4 DEF Found
  <2>6. Once(l)
    BY <1>1, <1>2, <2>1, <2>3, <2>4 DEF Once
  <2>7. Readable(lines) \subseteq Readable(l) \cup spoilt
    BY <1>1, <2>2, <2>3, <2>4 DEF Readable
  <2>8. ASSUME NEW s \in Seq(Rec), IsPrefixOf(s, lines) PROVE IsPrefixOf(s, l)
    <3> SUFFICES ASSUME NEW k \in DOMAIN s, s[k].row \ spoilt # {} PROVE s[k] = l[k]
      BY <2>3, <2>8 DEF IsPrefixOf
    <3>1. s[k] = lines[k] /\ k \in 1 .. n
      BY <1>1, <2>8, LenProperties DEF IsPrefixOf
    <3>2. k # n
      BY <2>2, <3>1
    <3> QED BY <2>4, <3>1, <3>2
  <2>9. l # <<>> /\ l[Len(l)].row = {}
    BY <2>1, <2>2, <2>3, <2>4, EmptySeq
  <2> QED BY <2>3, <2>5, <2>6, <2>7, <2>8, <2>9
<1>4. CASE ~tail
  <2>1. PICK ln \in Rec : l = Append(lines, ln) /\ ln.row \subseteq ln.id /\ ln.id \subseteq {row}
    BY <1>4 DEF Grown
  <2>2. /\ l \in Seq(Rec) /\ l # <<>> /\ Len(l) = n + 1
        /\ \A k \in 1 .. n : l[k] = lines[k]
        /\ l[n + 1] = ln
    BY <2>1, AppendProperties DEF Inv
  <2>3. DOMAIN l = 1 .. n + 1
    BY <2>2, LenProperties
  <2>4. Found(l)
    BY <1>1, <1>2, <2>1, <2>2, <2>3 DEF Found
  <2>5. \A k \in 1 .. n : row \notin lines[k].row
    BY <1>1, <1>2 DEF Found, Extracted
  <2>6. Once(l)
    <3> SUFFICES ASSUME NEW j \in 1 .. n + 1, NEW k \in 1 .. n + 1,
                        l[j].row # {}, l[j].row = l[k].row
                 PROVE  j = k
      BY <2>3 DEF Once
    <3>1. CASE j \in 1 .. n /\ k \in 1 .. n
      BY <1>1, <1>2, <2>2, <3>1 DEF Once
    <3>2. ln.row # {} => ln.row = {row}
      BY <2>1
    <3>3. CASE j = n + 1 /\ k \in 1 .. n
      BY <2>2, <2>5, <3>2, <3>3
    <3>4. CASE k = n + 1 /\ j \in 1 .. n
      BY <2>2, <2>5, <3>2, <3>4
    <3> QED BY <1>1, <3>1, <3>3, <3>4
  <2>7. Readable(lines) \subseteq Readable(l)
    BY <1>1, <2>2, <2>3 DEF Readable
  <2>8. ASSUME NEW s \in Seq(Rec), IsPrefixOf(s, lines) PROVE IsPrefixOf(s, l)
    <3>1. Len(s) \in Nat /\ Len(s) <= n /\ DOMAIN s = 1 .. Len(s)
      BY <2>8, LenProperties DEF IsPrefixOf
    <3> QED BY <1>1, <2>2, <2>8, <3>1 DEF IsPrefixOf
  <2> QED BY <2>1, <2>2, <2>4, <2>6, <2>7, <2>8
<1> QED BY <1>3, <1>4

(* A row that is written behind no torn line can be read.                  *)
LEMMA WrittenReads ==
  ASSUME Inv, NEW row \in Rows, ~tail, NEW l \in Appended(row)
  PROVE  row \in Readable(l)
<1>1. l = Append(lines, Line({row}, {row})) /\ Line({row}, {row}) \in Rec
  BY DEF Appended, Line, Rec
<1>2. Len(lines) \in Nat /\ Len(l) = Len(lines) + 1 /\ l \in Seq(Rec)
      /\ l[Len(lines) + 1] = Line({row}, {row})
  BY <1>1, AppendProperties, LenProperties DEF Inv
<1>3. Len(lines) + 1 \in DOMAIN l /\ l[Len(lines) + 1].row = {row}
  BY <1>2, LenProperties DEF Line
<1> QED BY <1>3 DEF Readable

-----------------------------------------------------------------------------
(* The partition and its files as they are. *)
filesVars == <<lines, tail, sealed, archive, compacting, hist>>

LEMMA SameFiles ==
  ASSUME Inv, UNCHANGED filesVars, input' \in ExpandedInputs \cup {<<>>},
         ingest' # "append" \/ UNCHANGED <<ingest, input, at>>
  PROVE  Inv'
BY DEF Inv, filesVars, hist, SealHolds, IsPrefixOf, WrittenIsStored, Readable, Archived,
       Found, Once, Extracted, Row

(* A write attempt, with what it spoils. *)
LEMMA Growing ==
  ASSUME Inv, NEW row \in Rows \ Extracted(lines), lines' \in Grown(row),
         spoilt \subseteq spoilt', tail' => row \in spoilt',
         written' = written \/ (written' = written \cup {row} /\
                                   row \in Readable(lines') \cup spoilt'),
         ingest' # "append", UNCHANGED <<input, sealed, archive, compacting, cut>>
  PROVE  Inv'
<1>1. /\ lines' \in Seq(Rec) /\ lines' # <<>>
      /\ Found(lines') /\ Once(lines')
      /\ Readable(lines) \subseteq Readable(lines') \cup spoilt
      /\ lines'[Len(lines')].row \subseteq {row}
      /\ \A s \in Seq(Rec) : IsPrefixOf(s, lines) => IsPrefixOf(s, lines')
  BY GrownKeeps
<1>2. SealHolds'
  <2> SUFFICES ASSUME ~cut, compacting = "off", NEW s \in sealed
               PROVE  IsPrefixOf(s, lines)'
    BY DEF SealHolds
  <2>1. IsPrefixOf(s, lines')
    BY <1>1 DEF Inv, SealHolds
  <2> QED BY <2>1 DEF IsPrefixOf
<1>3. WrittenIsStored'
  <2>1. written \subseteq Readable(lines') \cup Archived' \cup spoilt'
    BY <1>1 DEF Inv, WrittenIsStored, Archived
  <2> QED BY <2>1 DEF WrittenIsStored
<1>4. tail' => lines'[Len(lines')].row \subseteq spoilt'
  BY <1>1
<1> QED BY <1>1, <1>2, <1>3, <1>4 DEF Inv, Found, Once

LEMMA InvStep == Inv /\ [Next]_vars => Inv'
<1> SUFFICES ASSUME Inv, [Next]_vars PROVE Inv'
  OBVIOUS
<1> USE DEF side, proc, others
<1>1. input \in ExpandedInputs \cup {<<>>}
  BY DEF Inv
<1>2. CASE UNCHANGED vars
  BY <1>1, <1>2, SameFiles DEF vars, filesVars, hist
<1>3. CASE StartRun \/ SkipBlank \/ AbortRun \/ RejectLine \/ KnownRow \/ EndRun
  BY <1>1, <1>3, SameFiles DEF StartRun, SkipBlank, AbortRun, RejectLine, KnownRow,
       EndRun, NextLine, filesVars, hist
<1>4. CASE Age \/ ReadDay \/ WriteDay \/ StopReconcile
  BY <1>1, <1>4, SameFiles DEF Age, ReadDay, WriteDay, StopReconcile, filesVars, hist
<1>5. CASE Scan
  <2>1. CASE Row \in seen'
    BY <1>1, <1>5, <2>1, SameFiles DEF Scan, NextLine, filesVars, hist
  <2>2. CASE Row \notin seen'
    <3>1. /\ ingest' = "append" /\ UNCHANGED <<filesVars, input, at>>
          /\ Row \notin Extracted(lines) /\ AtRow
      BY <1>5, <2>2 DEF Scan, GoAppend, filesVars, hist
    <3>2. Row \in Rows
      BY <1>1, <3>1, WarehouseAssumption DEF AtRow, AtLine, Row
    <3> QED BY <3>1, <3>2 DEF Inv, filesVars, hist, SealHolds, IsPrefixOf,
              WrittenIsStored, Readable, Archived, Found, Once, Extracted, Row
  <2> QED BY <2>1, <2>2
<1>6. CASE WriteRow
  <2>1. /\ Row \in Rows \ Extracted(lines) /\ lines' \in Appended(Row) /\ ~tail'
        /\ spoilt' = IF tail THEN spoilt \cup {Row} ELSE spoilt
        /\ written' = written \cup {Row} /\ ingest' = "line"
        /\ UNCHANGED <<input, sealed, archive, compacting, cut>>
    BY <1>6 DEF Inv, WriteRow, AppendRow, NextLine
  <2>2. Row \in Readable(lines') \cup spoilt'
    BY <2>1, WrittenReads
  <2>3. lines' \in Grown(Row)
    BY <2>1, AppendedGrows
  <2> QED BY <2>1, <2>2, <2>3, Growing
<1>7. ASSUME TearRow, ingest' # "append",
             UNCHANGED <<input, written, sealed, archive, compacting, cut>>
      PROVE  Inv'
  <2>1. /\ Row \in Rows \ Extracted(lines) /\ lines' \in TornLines(Row)
        /\ spoilt' = spoilt \cup {Row}
    BY <1>7 DEF Inv, TearRow
  <2>2. lines' \in Grown(Row)
    BY <2>1, AppendedGrows
  <2> QED BY <1>7, <2>1, <2>2, Growing
<1>8. CASE InsertFails \/ StopRun
  <2>1. /\ ingest' # "append"
        /\ UNCHANGED <<input, written, sealed, archive, compacting, cut>>
        /\ TearRow \/ UNCHANGED <<lines, tail, spoilt>>
    BY <1>8 DEF InsertFails, StopRun, NextLine
  <2> QED BY <1>1, <1>7, <2>1, SameFiles DEF filesVars, hist
<1>9. CASE Seal
  <2>1. sealed' = {lines} /\ UNCHANGED <<lines, tail, archive, compacting, hist, proc>>
    BY <1>9 DEF Seal
  <2>2. IsPrefixOf(lines, lines)
    <3>1. Len(lines) \in Nat
      BY LenProperties DEF Inv
    <3> QED BY <3>1 DEF IsPrefixOf
  <2> QED BY <2>1, <2>2 DEF Inv, hist, SealHolds, IsPrefixOf, WrittenIsStored, Readable,
            Archived, Found, Once, Extracted, Row
<1>10. CASE Move
  <2>1. /\ archive = {} /\ archive' = (IF lines = <<>> THEN archive ELSE {lines})
        /\ lines' = <<>> /\ ~tail' /\ compacting' = "moved"
        /\ UNCHANGED <<sealed, hist, proc>>
    BY <1>10 DEF Move, MoveFile
  <2>2. WrittenIsStored'
    <3>1. CASE lines = <<>>
      BY <2>1, <3>1 DEF Inv, WrittenIsStored, Archived, Readable, hist
    <3>2. CASE lines # <<>>
      <4>1. Archived' = Readable(lines)
        BY <2>1, <3>2 DEF Archived
      <4> QED BY <2>1, <4>1 DEF Inv, WrittenIsStored, Archived, hist
    <3> QED BY <3>1, <3>2
  <2>3. Found(<<>>) /\ Once(<<>>) /\ Extracted(<<>>) = {}
    BY DEF Found, Once, Extracted
  <2>4. ingest = "append" => Row \in Rows
    BY DEF Inv
  <2>5. SealHolds'
    BY <2>1 DEF SealHolds
  <2> QED BY <1>1, <2>1, <2>2, <2>3, <2>4, <2>5 DEF Inv, Found, Once, Extracted, Row
<1>11. CASE RemoveSidecar \/ StopCompact
  <2>1. /\ SealHolds' /\ sealed' \subseteq sealed
        /\ UNCHANGED <<lines, tail, archive, written, spoilt, proc>>
    BY <1>11 DEF RemoveSidecar, StopCompact, SealHolds, hist
  <2> QED BY <2>1 DEF Inv, WrittenIsStored, Readable, Archived, Found, Once, Extracted, Row
<1> QED BY <1>2, <1>3, <1>4, <1>5, <1>6, <1>8, <1>9, <1>10, <1>11 DEF Next

LEMMA InvHolds == Spec => []Inv
<1>1. Init => Inv
  BY DEF Init, Inv, Found, Once, WrittenIsStored, SealHolds
<1> QED BY <1>1, InvStep, PTL DEF Spec

-----------------------------------------------------------------------------
(* For any rows, inputs, number of runs and torn writes, no row is twice   *)
(* in a partition (warehouse.rs insert_cycle, "INSERT OR IGNORE").         *)
THEOREM NoRowTwice == Spec => []OncePerPartition
<1>1. Inv => OncePerPartition
  BY DEF Inv, Once, OncePerPartition
<1> QED BY <1>1, InvHolds, PTL

(* What ingest reported as written is in the partition or the archive, or  *)
(* a torn line spoilt it (warehouse.rs insert_cycle, compact).             *)
THEOREM NoRowLost == Spec => []WrittenIsStored
<1>1. Inv => WrittenIsStored
  BY DEF Inv
<1> QED BY <1>1, InvHolds, PTL

(* A seal that verification rejects is of lines to which ingest added, or  *)
(* of torn ones, never of rows that changed (warehouse.rs seal_partition,  *)
(* verify_partition, compact).                                             *)
THEOREM SealIsOfPrefix == Spec => []SealedIsPrefix
<1>1. Inv => SealedIsPrefix
  BY DEF Inv, SealHolds, SealedIsPrefix
<1> QED BY <1>1, InvHolds, PTL

-----------------------------------------------------------------------------
(* What a run has done with the lines before the one it is at. *)
Stored == Readable(lines) \cup Archived \cup spoilt

Mine == {r \in rejects : r[1] = runs}

Accounted(k) ==
    \/ Blank(input[k])
    \/ /\ Cardinality(RejectedNow(k)) = 1
       /\ Valid(input[k]) \/ \E c \in DOMAIN Checks, r \in RejectedNow(k) :
            Checks[c][1] \in input[k].defects /\ Checks[c][2] = r[3]
    \/ Valid(input[k]) /\ RejectedNow(k) = {} /\ input[k].id \in Stored

(* An id the scan finds is of a row that is stored, or of a torn line; so  *)
(* are the ids a process remembers.                                        *)
KnownStored ==
    /\ Extracted(lines) \subseteq Readable(lines) \cup spoilt
    /\ seen \subseteq Stored

RunTyped ==
    /\ runs \in Nat /\ at \in Nat /\ ingest \in {"off", "line", "append"}
    /\ stats \in [read : Nat, written : Nat, dup : Nat, rejects : Nat]
    /\ IsFiniteSet(rejects)
    /\ \A r \in rejects : r[1] \in Nat /\ r[2] \in Nat /\ r[1] <= runs
    /\ ingest = "append" => at \in DOMAIN input /\ Valid(input[at])

RunDone ==
    ingest # "off" =>
        /\ \A r \in Mine : r[2] < at
        /\ \A k \in DOMAIN input : k < at => Accounted(k)
        /\ stats.read = stats.written + stats.dup + stats.rejects
        /\ stats.rejects = Cardinality(Mine)

RunInv == KnownStored /\ RunTyped /\ RunDone

LEMMA ExtractedGrows ==
  ASSUME Inv, NEW row, NEW l \in Appended(row) \cup TornLines(row)
  PROVE  Extracted(l) \subseteq Extracted(lines) \cup {row}
<1> DEFINE n == Len(lines)
<1>1. n \in Nat /\ DOMAIN lines = 1 .. n /\ lines \in Seq(Rec)
  BY LenProperties DEF Inv
<1>2. CASE tail
  <2>1. n \in 1 .. n
    BY <1>1, <1>2, EmptySeq DEF Inv
  <2>2. PICK ln \in Behind(lines[n], row) : l = [lines EXCEPT ![n] = ln]
    BY <1>2 DEF Appended, TornLines
  <2>3. ln.id \subseteq lines[n].id \cup {row}
    BY <2>2 DEF Behind, Line
  <2>4. DOMAIN l = DOMAIN lines /\ l[n] = ln /\ \A k \in DOMAIN l : k # n => l[k] = lines[k]
    BY <1>1, <2>1, <2>2
  <2>5. \A k \in DOMAIN l : l[k].id \subseteq lines[k].id \cup {row}
    BY <2>3, <2>4
  <2> HIDE DEF n
  <2> QED BY <2>4, <2>5 DEF Extracted
<1>3. CASE ~tail
  <2>1. PICK ln \in {Line({row}, {row}), Line({row}, {}), Line({}, {})} : l = Append(lines, ln)
    BY <1>3 DEF Appended, TornLines
  <2>2. ln.id \subseteq {row}
    BY <2>1 DEF Line
  <2>3. DOMAIN l = 1 .. n + 1 /\ l[n + 1] = ln /\ \A k \in 1 .. n : l[k] = lines[k]
    BY <1>1, <2>1
  <2>4. \A k \in DOMAIN l : k \in 1 .. n \/ k = n + 1
    BY <1>1, <2>3
  <2> HIDE DEF n
  <2>5. \A k \in DOMAIN l : l[k].id \subseteq Extracted(lines) \cup {row}
    BY <1>1, <2>2, <2>3, <2>4 DEF Extracted
  <2> QED BY <2>5 DEF Extracted
<1> QED BY <1>2, <1>3

(* An attempt to write a row leaves every stored row stored, and spoils    *)
(* the row if it does not store it.                                        *)
LEMMA WritingStores ==
  ASSUME Inv, KnownStored, ingest = "append", WriteRow \/ TearRow, UNCHANGED archive
  PROVE  /\ Stored \subseteq Stored' /\ Row \in Stored'
         /\ Extracted(lines') \subseteq Readable(lines') \cup spoilt'
<1>1. /\ Row \in Rows \ Extracted(lines) /\ lines' \in Appended(Row) \cup TornLines(Row)
      /\ spoilt \subseteq spoilt'
      /\ Row \in Readable(lines') \cup spoilt'
  <2>1. Row \in Rows \ Extracted(lines)
    BY DEF Inv
  <2>2. CASE WriteRow
    <3>1. lines' \in Appended(Row) /\ spoilt' = IF tail THEN spoilt \cup {Row} ELSE spoilt
      BY <2>2 DEF WriteRow, AppendRow
    <3> QED BY <2>1, <3>1, WrittenReads
  <2>3. CASE TearRow
    BY <2>1, <2>3 DEF TearRow
  <2> QED BY <2>2, <2>3
<1>2. lines' \in Grown(Row)
  BY <1>1, AppendedGrows
<1>3. Readable(lines) \subseteq Readable(lines') \cup spoilt
  BY <1>1, <1>2, GrownKeeps
<1>4. Extracted(lines') \subseteq Extracted(lines) \cup {Row}
  BY <1>1, ExtractedGrows
<1>5. Archived' = Archived
  BY DEF Archived
<1> QED BY <1>1, <1>3, <1>4, <1>5 DEF Stored, KnownStored

LEMMA StoredStays ==
  ASSUME Inv, KnownStored, RunTyped, [Next]_vars
  PROVE  /\ Stored \subseteq Stored'
         /\ Extracted(lines') \subseteq Readable(lines') \cup spoilt'
<1> USE DEF side, proc, others, hist
<1>1. CASE UNCHANGED <<lines, archive, spoilt>>
  BY <1>1 DEF Stored, Readable, Archived, Extracted, KnownStored
<1>2. CASE WriteRow
  BY <1>2, WritingStores DEF WriteRow
<1>3. CASE TearRow /\ UNCHANGED archive
  BY <1>3, WritingStores DEF TearRow
<1>4. CASE Move
  <2>1. /\ archive = {} /\ archive' = (IF lines = <<>> THEN archive ELSE {lines})
        /\ lines' = <<>> /\ UNCHANGED spoilt
    BY <1>4 DEF Move, MoveFile
  <2>2. Extracted(<<>>) = {} /\ Readable(<<>>) = {}
    BY DEF Extracted, Readable
  <2>3. Readable(lines) \subseteq Archived' /\ Archived = {}
    BY <2>1, <2>2 DEF Archived
  <2> QED BY <2>1, <2>2, <2>3 DEF Stored
<1>5. CASE InsertFails \/ StopRun
  <2>1. (TearRow /\ UNCHANGED archive) \/ UNCHANGED <<lines, archive, spoilt>>
    BY <1>5 DEF InsertFails, StopRun
  <2> QED BY <1>1, <1>3, <2>1
<1>6. CASE \/ StartRun \/ SkipBlank \/ AbortRun \/ RejectLine \/ KnownRow \/ Scan \/ EndRun
           \/ Seal \/ Age \/ RemoveSidecar \/ StopCompact
           \/ ReadDay \/ WriteDay \/ StopReconcile \/ UNCHANGED vars
  <2>1. UNCHANGED <<lines, archive, spoilt>>
    BY <1>6 DEF StartRun, SkipBlank, AbortRun, RejectLine, KnownRow, Scan, EndRun, Seal, Age,
         RemoveSidecar, StopCompact, ReadDay, WriteDay, StopReconcile, vars
  <2> QED BY <1>1, <2>1
<1> QED BY <1>2, <1>4, <1>5, <1>6 DEF Next

(* A line that is looked at to its end: at most one reject is filed, and   *)
(* the line is accounted for.                                              *)
LEMMA LineDone ==
  ASSUME RunTyped, RunDone, ingest # "off", ingest' = "line", at' = at + 1,
         UNCHANGED <<input, runs>>, at \in DOMAIN input, DOMAIN input \subseteq Nat,
         Stored \subseteq Stored',
         NEW why, rejects' = rejects \/ rejects' = rejects \cup {<<runs, at, why>>},
         NEW j, j = at, Accounted(j)',
         stats' \in [read : Nat, written : Nat, dup : Nat, rejects : Nat],
         stats'.read = stats'.written + stats'.dup + stats'.rejects,
         stats'.rejects = IF rejects' = rejects THEN stats.rejects ELSE stats.rejects + 1
  PROVE  RunTyped' /\ RunDone'
<1> DEFINE new == <<runs, at, why>>
<1>1. /\ runs \in Nat /\ at \in Nat /\ IsFiniteSet(rejects)
      /\ \A r \in rejects : r[1] \in Nat /\ r[2] \in Nat /\ r[1] <= runs
      /\ \A r \in Mine : r[2] < at
      /\ stats.rejects = Cardinality(Mine) /\ stats.rejects \in Nat
  BY DEF RunTyped, RunDone
<1>2. new[1] = runs /\ new[2] = at /\ new \notin rejects
  <2>1. new[1] = runs /\ new[2] = at /\ ~ (at < at)
    BY <1>1
  <2> HIDE DEF new
  <2> QED BY <1>1, <2>1 DEF Mine
<1> HIDE DEF new
<1>3. rejects' = rejects \/ rejects' = rejects \cup {new}
  BY DEF new
<1>4. IsFiniteSet(rejects') /\ IsFiniteSet(Mine)
  <2>1. Mine \subseteq rejects
    BY DEF Mine
  <2> QED BY <1>1, <1>3, <2>1, FS_AddElement, FS_Subset
<1>5. /\ \A r \in rejects' : r[1] \in Nat /\ r[2] \in Nat /\ r[1] <= runs
      /\ \A r \in Mine' : r[2] < at + 1
  <2>1. \A r \in rejects' : r \in rejects \/ r = new
    BY <1>3
  <2>2. \A r \in rejects' : r[1] \in Nat /\ r[2] \in Nat /\ r[1] <= runs
    <3>1. runs <= runs
      BY <1>1
    <3> QED BY <1>1, <1>2, <2>1, <3>1
  <2>3. ASSUME NEW r \in Mine' PROVE r[2] < at + 1
    <3>1. r \in rejects' /\ r[1] = runs
      BY DEF Mine
    <3>2. r \in Mine \/ r = new
      BY <2>1, <3>1 DEF Mine
    <3>3. CASE r \in Mine
      <4>1. r[2] \in Nat /\ r[2] < at
        BY <1>1, <3>3 DEF Mine
      <4> QED BY <1>1, <4>1
    <3>4. CASE r = new
      BY <1>1, <1>2, <3>4
    <3> QED BY <3>2, <3>3, <3>4
  <2> QED BY <2>2, <2>3
<1>6. stats'.rejects = Cardinality(Mine')
  <2>1. CASE rejects' = rejects
    <3>1. Mine' = Mine
      BY <2>1 DEF Mine
    <3> QED BY <1>1, <2>1, <3>1
  <2>2. CASE rejects' # rejects
    <3>1. Mine' = Mine \cup {new} /\ new \notin Mine
      BY <1>2, <1>3, <2>2 DEF Mine
    <3>2. Cardinality(Mine \cup {new}) = Cardinality(Mine) + 1
      BY <1>4, <3>1, FS_AddElement
    <3> QED BY <1>1, <2>2, <3>1, <3>2
  <2> QED BY <2>1, <2>2
<1>7. ASSUME NEW k \in DOMAIN input, k \in Nat, k < at, Accounted(k) PROVE Accounted(k)'
  <2>1. RejectedNow(k)' = RejectedNow(k)
    <3>1. k # at
      BY <1>1, <1>7
    <3> QED BY <1>2, <1>3, <3>1 DEF RejectedNow
  <2>2. Cardinality(RejectedNow(k))' = Cardinality(RejectedNow(k))
    BY <2>1
  <2> QED BY <1>7, <2>1, <2>2 DEF Accounted
<1>8. \A k \in DOMAIN input : k < at + 1 => Accounted(k)'
  <2> SUFFICES ASSUME NEW k \in DOMAIN input, k < at + 1 PROVE Accounted(k)'
    OBVIOUS
  <2>0. k \in Nat
    OBVIOUS
  <2>1. CASE k = at
    BY <2>1
  <2>2. CASE k # at
    <3>1. k < at
      BY <1>1, <2>0, <2>2
    <3> QED BY <1>7, <2>0, <3>1 DEF RunDone
  <2> QED BY <2>1, <2>2
<1>9. RunTyped'
  BY <1>1, <1>4, <1>5 DEF RunTyped
<1>10. \A k \in DOMAIN input' : k < at' => Accounted(k)'
  BY <1>8
<1> QED BY <1>5, <1>6, <1>9, <1>10 DEF RunDone

(* A step that leaves the run where it is. *)
LEMMA LineStays ==
  ASSUME RunTyped, RunDone, UNCHANGED <<rejects, input, at, stats, runs>>,
         ingest' = ingest \/ ingest' = "off" \/
           (ingest # "off" /\ ingest' = "append" /\ at \in DOMAIN input /\ Valid(input[at])),
         Stored \subseteq Stored'
  PROVE  RunTyped' /\ RunDone'
<1>1. RunTyped'
  BY DEF RunTyped
<1>2. Mine' = Mine
  BY DEF Mine
<1>3. ASSUME NEW k, Accounted(k) PROVE Accounted(k)'
  <2>1. RejectedNow(k)' = RejectedNow(k)
    BY DEF RejectedNow
  <2>2. Cardinality(RejectedNow(k))' = Cardinality(RejectedNow(k))
    BY <2>1
  <2> QED BY <1>3, <2>1, <2>2 DEF Accounted
<1>4. RunDone'
  <2> SUFFICES ASSUME ingest' # "off" PROVE RunDone'
    BY DEF RunDone
  <2>1. ingest # "off"
    OBVIOUS
  <2> QED BY <1>2, <1>3, <2>1 DEF RunDone
<1> QED BY <1>1, <1>4

LEMMA InputIs ==
  ASSUME NEW given \in ExpandedInputs \cup {<<>>}
  PROVE  DOMAIN given \subseteq Nat /\ Len(given) \in Nat /\ DOMAIN given = 1 .. Len(given)
<1>1. CASE given = <<>>
  <2>1. Len(<<>>) = 0 /\ DOMAIN <<>> = {} /\ 1 .. 0 = {}
    BY EmptySeq
  <2> QED BY <1>1, <2>1
<1>2. CASE given \in ExpandedInputs
  <2>1. DOMAIN given = 1 .. Len(given) /\ Len(given) \in Nat
    BY <1>2, WarehouseAssumption
  <2> QED BY <2>1
<1> QED BY <1>1, <1>2

(* The statistics count a line once. *)
LEMMA CountIs ==
  ASSUME RunTyped, RunDone, ingest # "off", NEW field \in {"written", "dup", "rejects"}, Count(field)
  PROVE  /\ stats' \in [read : Nat, written : Nat, dup : Nat, rejects : Nat]
         /\ stats'.read = stats'.written + stats'.dup + stats'.rejects
         /\ stats'.rejects = IF field = "rejects" THEN stats.rejects + 1 ELSE stats.rejects
<1>1. /\ stats \in [read : Nat, written : Nat, dup : Nat, rejects : Nat]
      /\ stats.read = stats.written + stats.dup + stats.rejects
  BY DEF RunTyped, RunDone
<1>2. stats' = [stats EXCEPT !.read = stats.read + 1, ![field] = stats[field] + 1]
  BY Zenon DEF Count
<1>3. CASE field = "written"
  <2>1. stats' = [read |-> stats.read + 1, written |-> stats.written + 1, dup |-> stats.dup, rejects |-> stats.rejects]
    BY <1>1, <1>2, <1>3
  <2>2. stats.written + 1 \in Nat /\ stats.read + 1 \in Nat
    BY <1>1
  <2> QED BY <1>1, <1>3, <2>1, <2>2
<1>4. CASE field = "dup"
  <2>1. stats' = [read |-> stats.read + 1, written |-> stats.written, dup |-> stats.dup + 1, rejects |-> stats.rejects]
    BY <1>1, <1>2, <1>4
  <2>2. stats.dup + 1 \in Nat /\ stats.read + 1 \in Nat
    BY <1>1
  <2> QED BY <1>1, <1>4, <2>1, <2>2
<1>5. CASE field = "rejects"
  <2>1. stats' = [read |-> stats.read + 1, written |-> stats.written, dup |-> stats.dup, rejects |-> stats.rejects + 1]
    BY <1>1, <1>2, <1>5
  <2>2. stats.rejects + 1 \in Nat /\ stats.read + 1 \in Nat
    BY <1>1
  <2> QED BY <1>1, <1>5, <2>1, <2>2
<1> QED BY <1>3, <1>4, <1>5

LEMMA RejectAccounts ==
  ASSUME RunTyped, RunDone, ingest # "off", at \in DOMAIN input, NEW why,
         rejects' = rejects \cup {<<runs, at, why>>}, UNCHANGED <<input, runs>>, NEW j, j = at,
         Valid(input[at]) \/ \E c \in DOMAIN Checks : Checks[c][1] \in input[at].defects /\ Checks[c][2] = why
  PROVE  Accounted(j)' /\ rejects' # rejects
<1> DEFINE new == <<runs, at, why>>
<1>1. new[1] = runs /\ new[2] = at /\ new[3] = why
  OBVIOUS
<1>2. at \in Nat /\ ~ (at < at)
  BY DEF RunTyped
<1>3. \A r \in rejects : ~ (r[1] = runs /\ r[2] = at)
  BY <1>2 DEF RunDone, Mine
<1> HIDE DEF new
<1>4. RejectedNow(j)' = {new}
  <2>1. rejects' = rejects \cup {new}
    BY DEF new
  <2> QED BY <1>1, <1>3, <2>1 DEF RejectedNow
<1>5. Cardinality({new}) = 1
  <2>1. IsFiniteSet({}) /\ new \notin {} /\ Cardinality({}) = 0 /\ {} \cup {new} = {new}
    BY FS_EmptySet
  <2>2. Cardinality({} \cup {new}) = Cardinality({}) + 1
    BY <2>1, FS_AddElement
  <2> QED BY <2>1, <2>2
<1>6. Cardinality(RejectedNow(j))' = 1
  BY <1>4, <1>5
<1>7. Valid(input[j])' \/ \E c \in DOMAIN Checks, r \in RejectedNow(j)' :
         Checks[c][1] \in input'[j].defects /\ Checks[c][2] = r[3]
  BY <1>1, <1>4
<1>8. new \notin rejects
  BY <1>1, <1>3
<1> QED BY <1>6, <1>7, <1>8 DEF Accounted, new

(* The reason of a reject is that of a check the line fails.               *)
LEMMA ReasonIs ==
  ASSUME NEW line, Failed(line) # {}
  PROVE  \E c \in DOMAIN Checks : Checks[c][1] \in line.defects /\ Checks[c][2] = Reason(line)
<1> DEFINE F == Failed(line)
<1>1. F \subseteq 1 .. 22 /\ F # {} /\ \A c \in F : c \in DOMAIN Checks /\ Checks[c][1] \in line.defects
  <2>1. DOMAIN Checks = 1 .. 22
    BY DEF Checks
  <2> QED BY <2>1 DEF Failed
<1> HIDE DEF F
<1>2. \E x \in F : \A y \in F : x <= y
  <2> DEFINE Less == OpToRel(<, Nat)
  <2>1. IsWellFoundedOn(Less, Nat) /\ \A m, n \in Nat : m < n => <<m, n>> \in Less
    BY NatLessThanWellFounded DEF OpToRel
  <2> HIDE DEF Less
  <2>2. F \subseteq Nat /\ F # {}
    BY <1>1
  <2>3. PICK x \in F : \A y \in F : ~ (<<y, x>> \in Less)
    <3>1. IsWellFoundedOn(Less, Nat)
      BY <2>1
    <3> QED BY <2>2, <3>1, WFMin
  <2>4. \A y \in F : ~ (y < x)
    BY <2>1, <2>2, <2>3
  <2>5. \A y \in F : x <= y
    <3>1. x \in Nat /\ \A y \in F : y \in Nat
      BY <2>2
    <3> QED BY <2>4, <3>1
  <2> QED BY <2>5
<1>3. Min(F) \in F
  BY <1>2, Zenon DEF Min
<1> QED BY <1>1, <1>3 DEF Reason, F

LEMMA RunStep == Inv /\ RunInv /\ [Next]_vars => RunInv'
<1> SUFFICES ASSUME Inv, RunInv, [Next]_vars PROVE RunInv'
  OBVIOUS
<1> USE DEF side, proc, others, hist
<1>1. /\ Stored \subseteq Stored' /\ Extracted(lines') \subseteq Readable(lines') \cup spoilt'
      /\ KnownStored /\ RunTyped /\ RunDone /\ seen \subseteq Stored
  BY StoredStays DEF RunInv, KnownStored
<1>2. input \in ExpandedInputs \cup {<<>>} /\ DOMAIN input \subseteq Nat
  BY InputIs DEF Inv
<1>3. ASSUME seen' \subseteq Stored' PROVE KnownStored'
  BY <1>1, <1>3 DEF KnownStored
<1>4. ASSUME seen' = seen PROVE KnownStored'
  BY <1>1, <1>3, <1>4
<1>5. CASE StartRun
  <2>1. /\ ingest' = "line" /\ at' = 1 /\ seen' = {} /\ stats' = NoStats /\ runs' = runs + 1
        /\ rejects' = rejects
    BY <1>5 DEF StartRun
  <2>2. Mine' = {}
    <3>1. \A r \in rejects : r[1] # runs + 1
      BY <1>1 DEF RunTyped
    <3> QED BY <2>1, <3>1 DEF Mine
  <2>3. NoStats \in [read : Nat, written : Nat, dup : Nat, rejects : Nat]
        /\ NoStats.read = NoStats.written + NoStats.dup + NoStats.rejects /\ NoStats.rejects = 0
    BY DEF NoStats
  <2>4. RunTyped'
    <3>1. \A r \in rejects : r[1] \in Nat /\ r[2] \in Nat /\ r[1] <= runs + 1
      BY <1>1 DEF RunTyped
    <3> QED BY <1>1, <2>1, <2>3, <3>1 DEF RunTyped
  <2>5. RunDone'
    <3>1. Cardinality(Mine') = 0
      BY <2>2, FS_EmptySet
    <3>2. \A k \in DOMAIN input' : ~ (k < 1)
      <4>1. input' \in ExpandedInputs
        BY <1>5 DEF StartRun
      <4>2. DOMAIN input' = 1 .. Len(input') /\ Len(input') \in Nat
        BY <4>1, InputIs
      <4> HIDE <1>5
      <4> QED BY <4>2
    <3> QED BY <2>1, <2>2, <2>3, <3>1, <3>2 DEF RunDone
  <2>6. KnownStored'
    BY <1>3, <2>1
  <2> QED BY <2>4, <2>5, <2>6 DEF RunInv
<1>6. CASE SkipBlank
  <2>1. /\ ingest # "off" /\ ingest' = "line" /\ at' = at + 1 /\ at \in DOMAIN input /\ Blank(input[at])
        /\ UNCHANGED <<input, runs, rejects, stats, seen>>
    BY <1>6 DEF SkipBlank, AtLine, NextLine
  <2>2. ASSUME NEW j, j = at PROVE Accounted(j)'
    BY <2>1, <2>2 DEF Accounted
  <2>3. /\ stats' \in [read : Nat, written : Nat, dup : Nat, rejects : Nat]
        /\ stats'.read = stats'.written + stats'.dup + stats'.rejects
    BY <1>1, <2>1 DEF RunTyped, RunDone
  <2>4. RunTyped' /\ RunDone'
    BY <1>1, <1>2, <2>1, <2>2, <2>3, LineDone
  <2> QED BY <1>4, <2>1, <2>4 DEF RunInv
<1>7. CASE AbortRun \/ StopRun
  <2>1. /\ ingest' = "off" /\ at' = 1 /\ stats' = NoStats /\ UNCHANGED <<input, runs, rejects, seen>>
    BY <1>7 DEF AbortRun, StopRun
  <2>2. NoStats \in [read : Nat, written : Nat, dup : Nat, rejects : Nat]
    BY DEF NoStats
  <2>3. RunTyped' /\ RunDone'
    BY <1>1, <2>1, <2>2 DEF RunTyped, RunDone
  <2> QED BY <1>4, <2>1, <2>3 DEF RunInv
<1>8. CASE RejectLine
  <2>1. /\ ingest # "off" /\ ingest' = "line" /\ at' = at + 1 /\ at \in DOMAIN input
        /\ Failed(input[at]) # {} /\ rejects' = rejects \cup {<<runs, at, Reason(input[at])>>}
        /\ UNCHANGED <<input, runs, seen>> /\ Count("rejects")
    BY <1>8 DEF RejectLine, AtLine, NextLine, Reject
  <2>2. rejects' # rejects /\ \A j : j = at => Accounted(j)'
    BY <1>1, <2>1, ReasonIs, RejectAccounts
  <2>3. /\ stats' \in [read : Nat, written : Nat, dup : Nat, rejects : Nat]
        /\ stats'.read = stats'.written + stats'.dup + stats'.rejects
        /\ stats'.rejects = stats.rejects + 1
    BY <1>1, <2>1, CountIs
  <2>4. RunTyped' /\ RunDone'
    BY <1>1, <1>2, <2>1, <2>2, <2>3, LineDone
  <2> QED BY <1>4, <2>1, <2>4 DEF RunInv
<1>9. ASSUME ingest # "off", ingest' = "line", at' = at + 1, at \in DOMAIN input, Valid(input[at]),
             UNCHANGED <<input, runs, rejects>>, Row \in Stored', NEW field \in {"dup", "written"},
             Count(field)
      PROVE  RunTyped' /\ RunDone'
  <2>1. RejectedNow(at) = {}
    <3>1. at \in Nat /\ ~ (at < at)
      BY <1>1 DEF RunTyped
    <3> QED BY <1>1, <1>9, <3>1 DEF RejectedNow, RunDone, Mine
  <2>2. ASSUME NEW j, j = at PROVE Accounted(j)'
    <3>1. RejectedNow(j)' = {}
      BY <1>9, <2>1, <2>2 DEF RejectedNow
    <3> QED BY <1>9, <2>2, <3>1 DEF Accounted, Row
  <2>3. /\ stats' \in [read : Nat, written : Nat, dup : Nat, rejects : Nat]
        /\ stats'.read = stats'.written + stats'.dup + stats'.rejects
        /\ stats'.rejects = stats.rejects
    BY <1>1, <1>9, CountIs
  <2> QED BY <1>1, <1>2, <1>9, <2>2, <2>3, LineDone
<1>10. CASE KnownRow
  <2>1. /\ ingest # "off" /\ ingest' = "line" /\ at' = at + 1 /\ at \in DOMAIN input /\ Valid(input[at])
        /\ Row \in seen /\ UNCHANGED <<input, runs, rejects, seen>> /\ Count("dup")
    BY <1>10 DEF KnownRow, AtRow, AtLine, NextLine
  <2>2. RunTyped' /\ RunDone'
    BY <1>1, <1>9, <2>1
  <2> QED BY <1>4, <2>1, <2>2 DEF RunInv
<1>11. CASE Scan
  <2>1. /\ ingest # "off" /\ at \in DOMAIN input /\ Valid(input[at])
        /\ seen' = seen \cup Extracted(lines) /\ rejects' = rejects
        /\ IF Row \in seen' THEN Count("dup") /\ NextLine ELSE GoAppend
    BY <1>11 DEF Scan, AtRow, AtLine
  <2>2. seen' \subseteq Stored /\ seen' \subseteq Stored'
    BY <1>1, <2>1 DEF KnownStored, Stored
  <2>3. CASE Row \in seen'
    <3>1. ingest' = "line" /\ at' = at + 1 /\ UNCHANGED <<input, runs>> /\ Count("dup")
      BY <2>1, <2>3 DEF NextLine
    <3>2. RunTyped' /\ RunDone'
      BY <1>1, <1>9, <2>1, <2>2, <2>3, <3>1
    <3> QED BY <1>3, <2>2, <3>2 DEF RunInv
  <2>4. CASE Row \notin seen'
    <3>1. ingest' = "append" /\ UNCHANGED <<input, at, stats, runs>>
      BY <2>1, <2>4 DEF GoAppend
    <3>2. RunTyped' /\ RunDone'
      BY <1>1, <2>1, <3>1, LineStays
    <3> QED BY <1>3, <2>2, <3>2 DEF RunInv
  <2> QED BY <2>3, <2>4
<1>12. CASE WriteRow
  <2>1. /\ ingest = "append" /\ ingest' = "line" /\ at' = at + 1
        /\ seen' = seen \cup {Row} /\ UNCHANGED <<input, runs, rejects, archive>> /\ Count("written")
    BY <1>12 DEF WriteRow, NextLine
  <2>2. at \in DOMAIN input /\ Valid(input[at])
    BY <1>1, <2>1 DEF RunTyped
  <2>3. Row \in Stored'
    BY <1>1, <1>12, <2>1, WritingStores
  <2>4. seen' \subseteq Stored'
    BY <1>1, <2>1, <2>3
  <2>5. RunTyped' /\ RunDone'
    BY <1>9, <2>1, <2>2, <2>3
  <2> QED BY <1>3, <2>4, <2>5 DEF RunInv
<1>13. CASE InsertFails
  <2>1. /\ ingest = "append" /\ ingest' = "line" /\ at' = at + 1
        /\ rejects' = rejects \cup {<<runs, at, "FieldTypeWrong">>}
        /\ UNCHANGED <<input, runs, seen>> /\ Count("rejects")
    BY <1>13 DEF InsertFails, NextLine, Reject
  <2>2. at \in DOMAIN input /\ Valid(input[at])
    BY <1>1, <2>1 DEF RunTyped
  <2>3. rejects' # rejects /\ \A j : j = at => Accounted(j)'
    BY <1>1, <2>1, <2>2, RejectAccounts
  <2>4. /\ stats' \in [read : Nat, written : Nat, dup : Nat, rejects : Nat]
        /\ stats'.read = stats'.written + stats'.dup + stats'.rejects
        /\ stats'.rejects = stats.rejects + 1
    BY <1>1, <2>1, CountIs
  <2>5. RunTyped' /\ RunDone'
    BY <1>1, <1>2, <2>1, <2>2, <2>3, <2>4, LineDone
  <2> QED BY <1>4, <2>1, <2>5 DEF RunInv
<1>14. CASE \/ EndRun \/ Seal \/ Age \/ Move \/ RemoveSidecar \/ StopCompact
            \/ ReadDay \/ WriteDay \/ StopReconcile \/ UNCHANGED vars
  <2>1. /\ UNCHANGED <<rejects, input, at, stats, runs, seen>>
        /\ ingest' = ingest \/ ingest' = "off"
    BY <1>14 DEF EndRun, Seal, Age, Move, MoveFile, RemoveSidecar, StopCompact, ReadDay, WriteDay,
         StopReconcile, vars
  <2>2. RunTyped' /\ RunDone'
    BY <1>1, <2>1, LineStays
  <2> QED BY <1>4, <2>1, <2>2 DEF RunInv
<1> QED BY <1>5, <1>6, <1>7, <1>8, <1>10, <1>11, <1>12, <1>13, <1>14 DEF Next

(* At the end of a run, however the runs before it ended and for any       *)
(* inputs and number of runs, every line of its input is blank, rejected   *)
(* once for a defect it has or for a failed write, or a row that is stored *)
(* or was spoilt by a torn line, and the statistics count each line once   *)
(* (ingest/mod.rs ingest_cycle_v1_file, warehouse.rs insert_cycle).        *)
THEOREM EveryRunStores == Spec => []RunStoresAll
<1>1. Init => RunInv
  <2> SUFFICES ASSUME Init PROVE RunInv
    OBVIOUS
  <2>1. /\ lines = <<>> /\ rejects = {} /\ ingest = "off" /\ at = 1 /\ seen = {} /\ runs = 0
        /\ stats = NoStats
    BY DEF Init
  <2>2. Extracted(<<>>) = {}
    BY DEF Extracted
  <2>3. KnownStored
    BY <2>1, <2>2 DEF KnownStored
  <2>4. RunTyped
    <3>1. IsFiniteSet({})
      BY FS_EmptySet
    <3> QED BY <2>1, <3>1 DEF RunTyped, NoStats
  <2>5. RunDone
    BY <2>1 DEF RunDone
  <2> QED BY <2>3, <2>4, <2>5 DEF RunInv
<1>2. Inv /\ RunInv => RunStoresAll
  <2> SUFFICES ASSUME Inv, RunInv, ingest = "line", at > Len(input) PROVE RunStoresAll
    BY DEF RunStoresAll, Finished
  <2>1. DOMAIN input = 1 .. Len(input) /\ Len(input) \in Nat /\ at \in Nat
    BY InputIs DEF Inv, RunInv, RunTyped
  <2>2. \A k \in DOMAIN input : k < at
    BY <2>1
  <2>3. /\ \A k \in DOMAIN input : Accounted(k)
        /\ stats.read = stats.written + stats.dup + stats.rejects
        /\ stats.rejects = Cardinality(Mine)
    BY <2>2 DEF RunInv, RunDone
  <2> QED BY <2>3 DEF RunStoresAll, Accounted, Mine, Stored
<1> QED BY <1>1, <1>2, RunStep, InvHolds, PTL DEF Spec

-----------------------------------------------------------------------------
(* Induction over the natural numbers, for a set. *)
LEMMA Induct ==
  ASSUME NEW S, 0 \in S, \A n \in Nat : n \in S => n + 1 \in S
  PROVE  Nat \subseteq S
<1> DEFINE Less == OpToRel(<, Nat)
           T == Nat \ S
<1>1. IsWellFoundedOn(Less, Nat)
  BY NatLessThanWellFounded
<1>2. \A m, n \in Nat : m < n => <<m, n>> \in Less
  BY DEF OpToRel
<1> HIDE DEF Less
<1> SUFFICES ASSUME T # {} PROVE FALSE
  OBVIOUS
<1>3. PICK m \in T : \A k \in T : ~ (<<k, m>> \in Less)
  <2>1. T \subseteq Nat
    OBVIOUS
  <2> HIDE DEF T
  <2> QED BY <1>1, <2>1, WFMin
<1>4. m # 0 /\ m \in Nat
  BY <1>3
<1>5. m - 1 \in Nat /\ m - 1 < m /\ (m - 1) + 1 = m
  BY <1>4
<1>6. m - 1 \in S
  BY <1>2, <1>3, <1>4, <1>5
<1> QED BY <1>3, <1>5, <1>6

(* What holds of 0 and of each successor up to a bound holds of the bound. *)
LEMMA InductUpTo ==
  ASSUME NEW N \in Nat, NEW S, 0 \in S,
         \A n \in 0 .. N : n < N /\ n \in S => n + 1 \in S
  PROVE  \A n \in 0 .. N : n \in S
<1> DEFINE T == {n \in Nat : n <= N => n \in S}
<1>1. 0 \in T
  OBVIOUS
<1>2. ASSUME NEW n \in Nat, n \in T PROVE n + 1 \in T
  BY <1>2
<1>3. Nat \subseteq T
  <2> HIDE DEF T
  <2> QED BY <1>1, <1>2, Induct
<1> QED BY <1>3

(* What a function defined along a sequence is, for every stage of it:     *)
(* flatten[i] is the first i sequences, one behind the other.              *)
Flatten(seqs) ==
    CHOOSE g : g = [i \in 1 .. Len(seqs) |->
                      IF i = 1 THEN seqs[i] ELSE g[i - 1] \o seqs[i]]

LEMMA FlattenSteps ==
  ASSUME NEW T, NEW s \in Seq(Seq(T))
  PROVE  /\ \A i \in 1 .. Len(s) :
              Flatten(s)[i] = IF i = 1 THEN s[i] ELSE Flatten(s)[i - 1] \o s[i]
         /\ Len(s) # 0 => FlattenSeq(s) = Flatten(s)[Len(s)]
<1> DEFINE N == Len(s)
           Def(g, n) == g = [i \in 1 .. n |-> IF i = 1 THEN s[i] ELSE g[i - 1] \o s[i]]
           S == {n \in Nat : \E g : Def(g, n)}
<1>0. N \in Nat
  BY LenProperties
<1>1. 0 \in S
  <2> DEFINE g == [i \in 1 .. 0 |-> <<>>]
  <2>1. Def(g, 0)
    OBVIOUS
  <2> QED BY <2>1
<1>2. ASSUME NEW n \in Nat, n \in S PROVE n + 1 \in S
  <2>1. PICK g : Def(g, n)
    BY <1>2
  <2> DEFINE h == [i \in 1 .. n + 1 |->
                     IF i \in 1 .. n THEN g[i] ELSE IF i = 1 THEN s[i] ELSE g[n] \o s[i]]
  <2>2. \A i \in 1 .. n : g[i] = IF i = 1 THEN s[i] ELSE g[i - 1] \o s[i]
    BY <2>1, Zenon
  <2>3. ASSUME NEW i \in 1 .. n + 1
        PROVE  h[i] = IF i = 1 THEN s[i] ELSE h[i - 1] \o s[i]
    <3>1. CASE i = n + 1
      <4>1. h[i] = IF i = 1 THEN s[i] ELSE g[n] \o s[i]
        BY <3>1
      <4>2. i # 1 => h[i - 1] = g[n]
        BY <3>1
      <4> HIDE DEF h
      <4> QED BY <4>1, <4>2
    <3>2. CASE i \in 1 .. n
      <4>1. h[i] = g[i] /\ (i # 1 => h[i - 1] = g[i - 1])
        BY <3>2
      <4> HIDE DEF h
      <4> QED BY <2>2, <3>2, <4>1
    <3> QED BY <3>1, <3>2
  <2>4. DOMAIN h = 1 .. n + 1 /\ h = [i \in 1 .. n + 1 |-> h[i]]
    OBVIOUS
  <2>5. Def(h, n + 1)
    <3> HIDE DEF h
    <3> QED BY <2>3, <2>4, Zenon
  <2> HIDE DEF h, Def
  <2> QED BY <2>5
<1>3. N \in S
  <2> HIDE DEF S
  <2> QED BY <1>0, <1>1, <1>2, Induct
<1>4. Def(Flatten(s), N)
  <2>1. \E g : Def(g, N)
    BY <1>3
  <2>2. Flatten(s) = CHOOSE g : Def(g, N)
    BY Zenon DEF Flatten
  <2> HIDE DEF Def
  <2> QED BY <2>1, <2>2, Zenon
<1>5. N # 0 => FlattenSeq(s) = Flatten(s)[N]
  BY Zenon DEF FlattenSeq, Flatten
<1>6. \A i \in 1 .. N : Flatten(s)[i] = IF i = 1 THEN s[i] ELSE Flatten(s)[i - 1] \o s[i]
  BY <1>4, Zenon
<1> QED BY <1>5, <1>6

(* Every element of the joined sequence stands at one place of the         *)
(* sequences it was made from, and every place has one.                    *)
Places(s, n) == UNION {{<<r, j>> : j \in DOMAIN s[r]} : r \in 1 .. n}

Placed(b, u, s, n) ==
    /\ b \in [1 .. Len(u) -> Places(s, n)]
    /\ \A k \in 1 .. Len(u) : u[k] = s[b[k][1]][b[k][2]]
    /\ \A i, k \in 1 .. Len(u) : b[i] = b[k] => i = k
    /\ \A p \in Places(s, n) : \E k \in 1 .. Len(u) : b[k] = p

LEMMA PlacesIs ==
  ASSUME NEW s, NEW n \in Nat
  PROVE  /\ \A r \in 1 .. n : \A j \in DOMAIN s[r] : <<r, j>> \in Places(s, n)
         /\ \A p \in Places(s, n) :
              \E r \in 1 .. n : \E j \in DOMAIN s[r] : p = <<r, j>>
BY DEF Places

LEMMA PlacedMore ==
  ASSUME NEW T, NEW s, NEW n \in Nat, NEW u \in Seq(T), NEW v \in Seq(T),
         s[n + 1] = v, NEW b, Placed(b, u, s, n)
  PROVE  \E c : Placed(c, u \o v, s, n + 1)
<1> DEFINE L == Len(u)
           M == Len(v)
           c == [k \in 1 .. L + M |-> IF k <= L THEN b[k] ELSE <<n + 1, k - L>>]
           w == u \o v
<1>1. /\ w \in Seq(T) /\ Len(w) = L + M /\ L \in Nat /\ M \in Nat
      /\ DOMAIN u = 1 .. L /\ DOMAIN v = 1 .. M
      /\ \A k \in 1 .. L + M : w[k] = IF k <= L THEN u[k] ELSE v[k - L]
  BY ConcatProperties, LenProperties
<1>2. /\ b \in [1 .. L -> Places(s, n)]
      /\ \A k \in 1 .. L : u[k] = s[b[k][1]][b[k][2]]
      /\ \A i, k \in 1 .. L : b[i] = b[k] => i = k
      /\ \A p \in Places(s, n) : \E k \in 1 .. L : b[k] = p
  BY DEF Placed
<1> HIDE DEF L, M, w
<1>3. \A k \in 1 .. L + M : k <= L => c[k] = b[k] /\ k \in 1 .. L
  BY <1>1
<1>4. \A k \in 1 .. L + M : ~ (k <= L) => c[k] = <<n + 1, k - L>> /\ k - L \in 1 .. M
  BY <1>1
<1>5. DOMAIN c = 1 .. L + M
  OBVIOUS
<1>6. c = [k \in 1 .. L + M |-> c[k]]
  OBVIOUS
<1> HIDE DEF c
<1>7. Places(s, n) \subseteq Places(s, n + 1)
  <2>1. 1 .. n \subseteq 1 .. n + 1
    OBVIOUS
  <2> QED BY <2>1 DEF Places
<1>8. n + 1 \in Nat /\ n + 1 \in 1 .. n + 1 /\ DOMAIN s[n + 1] = 1 .. M
  BY <1>1
<1>9. ASSUME NEW k \in 1 .. L + M
      PROVE  c[k] \in Places(s, n + 1) /\ w[k] = s[c[k][1]][c[k][2]]
  <2>1. CASE k <= L
    BY <1>1, <1>2, <1>3, <1>7, <2>1
  <2>2. CASE ~ (k <= L)
    <3>1. c[k] = <<n + 1, k - L>> /\ k - L \in DOMAIN s[n + 1]
      BY <1>4, <1>8, <2>2
    <3>2. <<n + 1, k - L>> \in Places(s, n + 1)
      BY <1>8, <3>1, PlacesIs
    <3>3. w[k] = v[k - L]
      BY <1>1, <2>2
    <3> QED BY <3>1, <3>2, <3>3
  <2> QED BY <2>1, <2>2
<1>10. ASSUME NEW k \in 1 .. L, NEW j PROVE b[k] # <<n + 1, j>>
  <2>1. PICK r \in 1 .. n : \E i \in DOMAIN s[r] : b[k] = <<r, i>>
    BY <1>2, PlacesIs
  <2>2. r # n + 1
    OBVIOUS
  <2> QED BY <2>1, <2>2
<1>11. ASSUME NEW i \in 1 .. L + M, NEW k \in 1 .. L + M, c[i] = c[k] PROVE i = k
  <2>1. CASE i <= L /\ k <= L
    BY <1>2, <1>3, <1>11, <2>1
  <2>2. CASE ~ (i <= L) /\ ~ (k <= L)
    <3>1. i - L = k - L
      BY <1>4, <1>11, <2>2
    <3> QED BY <1>1, <3>1
  <2>3. CASE i <= L /\ ~ (k <= L)
    BY <1>3, <1>4, <1>10, <1>11, <2>3
  <2>4. CASE ~ (i <= L) /\ k <= L
    BY <1>3, <1>4, <1>10, <1>11, <2>4
  <2> QED BY <2>1, <2>2, <2>3, <2>4
<1>12. ASSUME NEW p \in Places(s, n + 1) PROVE \E k \in 1 .. L + M : c[k] = p
  <2>0. PICK r \in 1 .. n + 1 : \E j \in DOMAIN s[r] : p = <<r, j>>
    BY <1>8, PlacesIs
  <2>1. PICK j \in DOMAIN s[r] : p = <<r, j>>
    BY <2>0
  <2>2. CASE r = n + 1
    <3>1. j \in 1 .. M
      BY <1>8, <2>1, <2>2
    <3>2. j + L \in 1 .. L + M /\ ~ (j + L <= L) /\ (j + L) - L = j
      BY <1>1, <3>1
    <3> QED BY <1>4, <2>1, <2>2, <3>2
  <2>3. CASE r \in 1 .. n
    <3>1. p \in Places(s, n)
      BY <2>1, <2>3, PlacesIs
    <3>2. PICK k \in 1 .. L : b[k] = p
      BY <1>2, <3>1
    <3>3. k \in 1 .. L + M /\ k <= L
      BY <1>1
    <3> QED BY <1>3, <3>2, <3>3
  <2> QED BY <2>2, <2>3
<1>13. c \in [1 .. L + M -> Places(s, n + 1)]
  BY <1>6, <1>9
<1>14. Placed(c, w, s, n + 1)
  BY <1>1, <1>9, <1>11, <1>12, <1>13 DEF Placed
<1> QED BY <1>14 DEF w

LEMMA FlattenPlaced ==
  ASSUME NEW T, NEW s \in Seq(Seq(T))
  PROVE  /\ FlattenSeq(s) \in Seq(T)
         /\ \E b : Placed(b, FlattenSeq(s), s, Len(s))
<1> DEFINE N == Len(s)
           flat == Flatten(s)
           P == {n \in Nat : n > 0 => flat[n] \in Seq(T) /\ \E b : Placed(b, flat[n], s, n)}
<1>0. N \in Nat /\ DOMAIN s = 1 .. N /\ \A i \in 1 .. N : s[i] \in Seq(T)
  BY LenProperties, ElementOfSeq
<1>1. \A i \in 1 .. N : flat[i] = IF i = 1 THEN s[i] ELSE flat[i - 1] \o s[i]
  BY FlattenSteps
<1>2. N # 0 => FlattenSeq(s) = flat[N]
  BY FlattenSteps
<1> HIDE DEF flat
<1>3. \E b : Placed(b, <<>>, s, 0)
  <2> DEFINE b == [k \in 1 .. 0 |-> k]
  <2>1. Places(s, 0) = {} /\ Len(<<>>) = 0 /\ 1 .. 0 = {}
    BY DEF Places
  <2>2. Placed(b, <<>>, s, 0)
    BY <2>1 DEF Placed
  <2> QED BY <2>2
<1>4. 0 \in P
  OBVIOUS
<1>5. ASSUME NEW n \in 0 .. N, n < N, n \in P PROVE n + 1 \in P
  <2>1. n \in Nat /\ n + 1 \in Nat /\ n + 1 \in 1 .. N /\ (n + 1) - 1 = n /\ s[n + 1] \in Seq(T)
    BY <1>0, <1>5
  <2> SUFFICES flat[n + 1] \in Seq(T) /\ \E b : Placed(b, flat[n + 1], s, n + 1)
    BY <2>1
  <2>2. \E u \in Seq(T) : flat[n + 1] = u \o s[n + 1] /\ \E b : Placed(b, u, s, n)
    <3>1. CASE n = 0
      <4>1. flat[n + 1] = s[n + 1]
        BY <1>1, <2>1, <3>1
      <4>2. s[n + 1] = <<>> \o s[n + 1] /\ <<>> \in Seq(T)
        BY <2>1, ConcatEmptySeq, EmptySeq
      <4> QED BY <1>3, <3>1, <4>1, <4>2
    <3>2. CASE n # 0
      <4>1. flat[n + 1] = flat[n] \o s[n + 1]
        <5>1. n + 1 # 1
          BY <2>1, <3>2
        <5> QED BY <1>1, <2>1, <5>1
      <4>2. flat[n] \in Seq(T) /\ \E b : Placed(b, flat[n], s, n)
        BY <1>5, <2>1, <3>2
      <4> QED BY <4>1, <4>2
    <3> QED BY <3>1, <3>2
  <2>3. PICK u \in Seq(T) : flat[n + 1] = u \o s[n + 1] /\ \E b : Placed(b, u, s, n)
    BY <2>2
  <2>4. PICK b : Placed(b, u, s, n)
    BY <2>3
  <2>5. \E c : Placed(c, u \o s[n + 1], s, n + 1)
    BY <2>1, <2>4, PlacedMore
  <2>6. u \o s[n + 1] \in Seq(T)
    BY <2>1, ConcatProperties
  <2> QED BY <2>3, <2>5, <2>6
<1>6. N \in P
  <2>1. \A n \in 0 .. N : n \in P
    <3> HIDE DEF P
    <3> QED BY <1>0, <1>4, <1>5, InductUpTo
  <2> QED BY SMTT(30), <1>0, <2>1
<1>7. CASE N = 0
  <2>1. s = <<>> /\ FlattenSeq(s) = s
    BY <1>7, EmptySeq DEF FlattenSeq
  <2> QED BY <1>3, <1>7, <2>1, EmptySeq
<1>8. CASE N # 0
  <2>1. flat[N] \in Seq(T) /\ \E b : Placed(b, flat[N], s, N)
    BY <1>0, <1>6, <1>8
  <2> QED BY <1>2, <1>8, <2>1
<1> QED BY <1>7, <1>8

-----------------------------------------------------------------------------
(* Counting. *)
LEMMA Least ==
  ASSUME NEW T \in SUBSET Nat, T # {}
  PROVE  \E m \in T : \A k \in T : m <= k
<1> DEFINE Less == OpToRel(<, Nat)
<1>1. IsWellFoundedOn(Less, Nat)
  BY NatLessThanWellFounded
<1>2. \A m, n \in Nat : m < n => <<m, n>> \in Less
  BY DEF OpToRel
<1> HIDE DEF Less
<1>3. PICK m \in T : \A k \in T : ~ (<<k, m>> \in Less)
  BY <1>1, WFMin
<1>4. ASSUME NEW k \in T PROVE m <= k
  <2>1. k \in Nat /\ m \in Nat /\ ~ (k < m)
    BY <1>2, <1>3
  <2> QED BY <2>1
<1> QED BY <1>4

LEMMA SameCount ==
  ASSUME NEW A, NEW B, NEW b, IsFiniteSet(A),
         \A k \in A : b[k] \in B,
         \A i, k \in A : b[i] = b[k] => i = k,
         \A p \in B : \E k \in A : b[k] = p
  PROVE  IsFiniteSet(B) /\ Cardinality(B) = Cardinality(A)
<1> DEFINE c == [k \in A |-> b[k]]
<1>1. c \in Bijection(A, B)
  BY Fun_IsBij
<1>2. ExistsBijection(A, B)
  BY <1>1, Fun_ExistsBij
<1> QED BY <1>2, FS_Bijection

LEMMA Largest ==
  ASSUME NEW J, IsFiniteSet(J), J # {}, NEW f \in [J -> Int]
  PROVE  \E k \in J : \A j \in J : f[j] <= f[k]
<1> DEFINE Above(k) == {j \in J : f[j] >= f[k]}
           C == {Cardinality(Above(k)) : k \in J}
<1>1. \A k \in J : IsFiniteSet(Above(k)) /\ Cardinality(Above(k)) \in Nat
  BY FS_Subset, FS_CardinalityType
<1>2. C \in SUBSET Nat /\ C # {}
  BY <1>1
<1>3. PICK m \in C : \A c \in C : m <= c
  <2> HIDE DEF C
  <2> QED BY <1>2, Least
<1>4. PICK k \in J : m = Cardinality(Above(k))
  OBVIOUS
<1>5. ASSUME NEW j \in J PROVE f[j] <= f[k]
  <2> SUFFICES ASSUME ~ (f[j] <= f[k]) PROVE FALSE
    OBVIOUS
  <2>1. f[j] \in Int /\ f[k] \in Int /\ f[j] > f[k]
    OBVIOUS
  <2>2. Above(j) \subseteq Above(k)
    <3> SUFFICES ASSUME NEW i \in J, f[i] >= f[j] PROVE f[i] >= f[k]
      OBVIOUS
    <3>1. f[i] \in Int
      OBVIOUS
    <3> QED BY <2>1, <3>1
  <2>3. k \in Above(k) /\ k \notin Above(j)
    BY <2>1
  <2>4. Cardinality(Above(j)) \in C
    OBVIOUS
  <2> HIDE DEF Above, C
  <2>5. Cardinality(Above(j)) < Cardinality(Above(k))
    <3>1. Above(j) # Above(k)
      BY <2>3
    <3>2. Cardinality(Above(j)) <= Cardinality(Above(k)) /\ Cardinality(Above(j)) # Cardinality(Above(k))
      BY <1>1, <2>2, <3>1, FS_Subset
    <3> QED BY <1>1, <3>2
  <2>6. m <= Cardinality(Above(j))
    BY <1>3, <2>4
  <2> QED BY <1>1, <1>4, <2>5, <2>6
<1> QED BY <1>5

(* Each rank of finitely many numbers is that of one of them. *)
Below(J, f, d) == {k \in J : f[k] < d}
UpTo(J, f, d) == {k \in J : f[k] <= d}

LEMMA BelowCount ==
  ASSUME NEW J, IsFiniteSet(J), NEW f, NEW d
  PROVE  /\ IsFiniteSet(Below(J, f, d)) /\ Cardinality(Below(J, f, d)) \in Nat
         /\ Cardinality(Below(J, f, d)) <= Cardinality(J)
         /\ IsFiniteSet(UpTo(J, f, d)) /\ Cardinality(UpTo(J, f, d)) \in Nat
         /\ Cardinality(UpTo(J, f, d)) <= Cardinality(J)
<1>1. Below(J, f, d) \in SUBSET J /\ UpTo(J, f, d) \in SUBSET J
  BY DEF Below, UpTo
<1> QED BY <1>1, FS_Subset, FS_CardinalityType

LEMMA HasRank ==
  ASSUME NEW J, IsFiniteSet(J), NEW f \in [J -> Int], NEW n \in 1 .. Cardinality(J)
  PROVE  \E d \in {f[k] : k \in J} :
            Cardinality(Below(J, f, d)) < n /\ n <= Cardinality(UpTo(J, f, d))
<1> DEFINE N == Cardinality(J)
           c(k) == Cardinality(UpTo(J, f, f[k]))
           K == {k \in J : n <= c(k)}
           C == {c(k) : k \in K}
<1>1. N \in Nat /\ n \in Nat /\ 1 <= n /\ n <= N
  <2>1. N \in Nat
    BY FS_CardinalityType
  <2> HIDE DEF N
  <2> QED BY <2>1 DEF N
<1>2. J # {}
  BY <1>1, FS_EmptySet
<1>3. \A k \in J : c(k) \in Nat
  BY BelowCount
<1>4. PICK top \in J : \A j \in J : f[j] <= f[top]
  BY <1>2, Largest
<1>5. top \in K
  <2>1. UpTo(J, f, f[top]) = J
    BY <1>4 DEF UpTo
  <2> QED BY <1>1, <2>1
<1>6. C \in SUBSET Nat /\ C # {}
  BY <1>3, <1>5
<1>7. PICK m \in C : \A x \in C : m <= x
  <2> HIDE DEF C
  <2> QED BY <1>6, Least
<1>8. PICK k \in K : m = c(k)
  OBVIOUS
<1>9. Cardinality(Below(J, f, f[k])) < n
  <2> DEFINE V == Below(J, f, f[k])
  <2> SUFFICES ASSUME ~ (Cardinality(V) < n) PROVE FALSE
    OBVIOUS
  <2>1. IsFiniteSet(V) /\ Cardinality(V) \in Nat /\ V \subseteq J
    BY BelowCount DEF Below
  <2>2. Cardinality(V) >= n
    BY <1>1, <2>1
  <2>3. V # {}
    BY <1>1, <2>2, FS_EmptySet
  <2> DEFINE g == [j \in V |-> f[j]]
  <2>4. g \in [V -> Int]
    BY <2>1
  <2>5. PICK e \in V : \A j \in V : g[j] <= g[e]
    <3> HIDE DEF V, g
    <3> QED BY <2>1, <2>3, <2>4, Largest
  <2>6. e \in J /\ f[e] < f[k] /\ \A j \in V : f[j] <= f[e]
    BY <2>5 DEF Below
  <2>7. V \subseteq UpTo(J, f, f[e])
    BY <2>1, <2>6 DEF UpTo
  <2>8. c(e) >= n
    <3>1. Cardinality(V) <= c(e)
      BY <2>7, BelowCount, FS_Subset
    <3> HIDE DEF V, c
    <3> QED BY <1>1, <1>3, <2>1, <2>2, <2>6, <3>1
  <2>9. UpTo(J, f, f[e]) \subseteq UpTo(J, f, f[k]) /\ k \in UpTo(J, f, f[k]) /\ k \notin UpTo(J, f, f[e])
    <3>1. f[e] \in Int /\ f[k] \in Int /\ k \in J
      BY <2>6
    <3>2. \A i \in J : f[i] \in Int
      OBVIOUS
    <3> QED BY <2>6, <3>1, <3>2 DEF UpTo
  <2>10. c(e) < c(k)
    <3>1. UpTo(J, f, f[e]) # UpTo(J, f, f[k])
      BY <2>9
    <3>2. c(e) <= c(k) /\ c(e) # c(k)
      BY <2>9, <3>1, BelowCount, FS_Subset
    <3>3. c(e) \in Nat /\ c(k) \in Nat
      BY <1>3, <2>6
    <3> HIDE DEF c
    <3> QED BY <3>2, <3>3
  <2>11. e \in K /\ c(e) \in C
    BY <2>6, <2>8
  <2>12. c(e) \in Nat /\ c(k) \in Nat
    BY <1>3, <2>6
  <2> HIDE DEF c, C, K
  <2> QED BY <1>7, <1>8, <2>10, <2>11, <2>12
<1>10. k \in J /\ n <= c(k)
  OBVIOUS
<1> QED BY <1>9, <1>10

LEMMA RankIs ==
  ASSUME NEW n \in Nat \ {0}
  PROVE  /\ Rank(n, 50) \in 1 .. n /\ Rank(n, 99) \in 1 .. n
         /\ Rank(n, 50) <= Rank(n, 99) /\ 2 * Rank(n, 50) >= n
<1>1. ASSUME NEW x \in Nat, 1 <= x PROVE Max({1, x}) = x
  BY <1>1 DEF Max
<1> DEFINE a == (50 * n + 99) \div 100
           c == (99 * n + 99) \div 100
<1>2. a \in Nat /\ 1 <= a /\ a <= n /\ 2 * a >= n
  OBVIOUS
<1>3. c \in Nat /\ 1 <= c /\ c <= n /\ a <= c
  OBVIOUS
<1>4. Rank(n, 50) = a /\ Rank(n, 99) = c
  <2>1. Rank(n, 50) = Max({1, a}) /\ Rank(n, 99) = Max({1, c})
    BY DEF Rank
  <2> HIDE DEF a, c
  <2> QED BY <1>1, <1>2, <1>3, <2>1
<1> HIDE DEF a, c
<1> QED BY <1>2, <1>3, <1>4

-----------------------------------------------------------------------------
(* The row of a day.  An entry that counts stands at one place among the   *)
(* joined reports and at one place in one report.                          *)
All == Entries(Reports)

EntriesIn(S, Q) == {p \in Places(Reports, Len(Reports)) :
                      Reports[p[1]][p[2]].id \in S /\ Reports[p[1]][p[2]] \in Q}

LEMMA ReportsAre ==
  /\ Len(Reports) \in Nat /\ DOMAIN Reports = 1 .. Len(Reports)
  /\ \A r \in 1 .. Len(Reports) : \A k \in DOMAIN Reports[r] : Reports[r][k] \in ReportEntry
<1>1. Reports \in Seq(Seq(ReportEntry))
  BY WarehouseAssumption
<1>2. \A r \in 1 .. Len(Reports) : Reports[r] \in Seq(ReportEntry)
  BY <1>1, ElementOfSeq, LenProperties
<1> QED BY <1>1, <1>2, ElementOfSeq, LenProperties

LEMMA AllIs ==
  /\ Len(All) \in Nat /\ DOMAIN All = 1 .. Len(All)
  /\ \A k \in DOMAIN All : All[k] \in ReportEntry
  /\ \E b : Placed(b, All, Reports, Len(Reports))
<1>1. All \in Seq(ReportEntry) /\ \E b : Placed(b, All, Reports, Len(Reports))
  BY WarehouseAssumption, FlattenPlaced DEF All, Entries
<1> QED BY <1>1, ElementOfSeq, LenProperties

LEMMA JoinIs ==
  ASSUME NEW S
  PROVE  IsFiniteSet(Join(Reports, S)) /\ Join(Reports, S) \subseteq DOMAIN All
<1>1. IsFiniteSet(1 .. Len(All))
  BY AllIs, FS_Interval
<1>2. Join(Reports, S) \subseteq DOMAIN All
  BY DEF Join, All
<1> QED BY <1>1, <1>2, AllIs, FS_Subset

LEMMA JoinCounts ==
  ASSUME NEW S, NEW Q
  PROVE  LET A == {k \in Join(Reports, S) : All[k] \in Q}
         IN  Cardinality(EntriesIn(S, Q)) = Cardinality(A)
<1> DEFINE A == {k \in Join(Reports, S) : All[k] \in Q}
<1>1. PICK b : Placed(b, All, Reports, Len(Reports))
  BY AllIs
<1>2. /\ b \in [1 .. Len(All) -> Places(Reports, Len(Reports))]
      /\ \A k \in 1 .. Len(All) : All[k] = Reports[b[k][1]][b[k][2]]
      /\ \A i, k \in 1 .. Len(All) : b[i] = b[k] => i = k
      /\ \A p \in Places(Reports, Len(Reports)) : \E k \in 1 .. Len(All) : b[k] = p
  BY <1>1 DEF Placed
<1>3. A = {k \in 1 .. Len(All) : All[k].id \in S /\ All[k] \in Q}
  BY AllIs DEF Join, All
<1>4. IsFiniteSet(A)
  BY JoinIs, FS_Subset
<1> HIDE DEF A
<1>5. \A k \in A : b[k] \in EntriesIn(S, Q)
  BY <1>2, <1>3 DEF EntriesIn
<1>6. \A i, k \in A : b[i] = b[k] => i = k
  BY <1>2, <1>3
<1>7. \A p \in EntriesIn(S, Q) : \E k \in A : b[k] = p
  <2> SUFFICES ASSUME NEW p \in EntriesIn(S, Q) PROVE \E k \in A : b[k] = p
    OBVIOUS
  <2>1. p \in Places(Reports, Len(Reports)) /\ Reports[p[1]][p[2]].id \in S /\ Reports[p[1]][p[2]] \in Q
    BY DEF EntriesIn
  <2>2. PICK k \in 1 .. Len(All) : b[k] = p
    BY <1>2, <2>1
  <2>3. All[k] = Reports[p[1]][p[2]]
    BY <1>2, <2>2
  <2> QED BY <1>3, <2>1, <2>2, <2>3
<1>8. Cardinality(EntriesIn(S, Q)) = Cardinality(A)
  BY <1>4, <1>5, <1>6, <1>7, SameCount
<1> QED BY <1>8 DEF A

LEMMA EntriesInIs ==
  ASSUME NEW S, NEW Q, NEW E,
         \A p \in E : \E r \in 1 .. Len(Reports) : \E k \in DOMAIN Reports[r] :
            p = <<r, k>> /\ Reports[r][k].id \in S /\ Reports[r][k] \in Q,
         \A r \in 1 .. Len(Reports) : \A k \in DOMAIN Reports[r] :
            Reports[r][k].id \in S /\ Reports[r][k] \in Q => <<r, k>> \in E
  PROVE  E = EntriesIn(S, Q)
<1> DEFINE N == Len(Reports)
<1>1. ASSUME NEW p \in E PROVE p \in EntriesIn(S, Q)
  <2>1. PICK r \in 1 .. N : \E k \in DOMAIN Reports[r] :
            p = <<r, k>> /\ Reports[r][k].id \in S /\ Reports[r][k] \in Q
    OBVIOUS
  <2>2. PICK k \in DOMAIN Reports[r] :
            p = <<r, k>> /\ Reports[r][k].id \in S /\ Reports[r][k] \in Q
    BY <2>1
  <2>3. p \in Places(Reports, N) /\ p[1] = r /\ p[2] = k
    BY <2>2, ReportsAre, PlacesIs
  <2> QED BY <2>2, <2>3 DEF EntriesIn
<1>2. ASSUME NEW p \in EntriesIn(S, Q) PROVE p \in E
  <2>1. p \in Places(Reports, N) /\ Reports[p[1]][p[2]].id \in S /\ Reports[p[1]][p[2]] \in Q
    BY DEF EntriesIn
  <2>2. PICK r \in 1 .. N : \E k \in DOMAIN Reports[r] : p = <<r, k>>
    BY <2>1, ReportsAre, PlacesIs
  <2>3. PICK k \in DOMAIN Reports[r] : p = <<r, k>>
    BY <2>2
  <2>4. p[1] = r /\ p[2] = k
    BY <2>3
  <2> QED BY <2>1, <2>3, <2>4
<1> QED BY <1>1, <1>2

(* What a property of an entry selects, as a set. *)
LEMMA EntriesOfIs ==
  ASSUME NEW S, NEW x
  PROVE  /\ EntriesOf(S, LAMBDA e : TRUE) = EntriesIn(S, ReportEntry)
         /\ EntriesOf(S, LAMBDA e : e.matched) = EntriesIn(S, {e \in ReportEntry : e.matched})
         /\ EntriesOf(S, LAMBDA e : e.drift <= x) = EntriesIn(S, {e \in ReportEntry : e.drift <= x})
<1> DEFINE N == Len(Reports)
<1>1. \A r \in 1 .. N : \A k \in DOMAIN Reports[r] : Reports[r][k] \in ReportEntry
  BY ReportsAre
<1>2. EntriesOf(S, LAMBDA e : TRUE) = EntriesIn(S, ReportEntry)
  <2> DEFINE E == EntriesOf(S, LAMBDA e : TRUE)
  <2>1. \A p \in E : \E r \in 1 .. N : \E k \in DOMAIN Reports[r] :
           p = <<r, k>> /\ Reports[r][k].id \in S /\ Reports[r][k] \in ReportEntry
    BY ReportsAre DEF EntriesOf
  <2>2. \A r \in 1 .. N : \A k \in DOMAIN Reports[r] :
           Reports[r][k].id \in S /\ Reports[r][k] \in ReportEntry => <<r, k>> \in E
    BY ReportsAre DEF EntriesOf
  <2> HIDE DEF E
  <2>3. E = EntriesIn(S, ReportEntry)
    BY <2>1, <2>2, EntriesInIs
  <2> QED BY <2>3 DEF E
<1>3. EntriesOf(S, LAMBDA e : e.matched) = EntriesIn(S, {e \in ReportEntry : e.matched})
  <2> DEFINE E == EntriesOf(S, LAMBDA e : e.matched)
             Q == {e \in ReportEntry : e.matched}
  <2>1. \A p \in E : \E r \in 1 .. N : \E k \in DOMAIN Reports[r] :
           p = <<r, k>> /\ Reports[r][k].id \in S /\ Reports[r][k] \in Q
    BY ReportsAre DEF EntriesOf
  <2>2. \A r \in 1 .. N : \A k \in DOMAIN Reports[r] :
           Reports[r][k].id \in S /\ Reports[r][k] \in Q => <<r, k>> \in E
    BY ReportsAre DEF EntriesOf
  <2> HIDE DEF E, Q
  <2>3. E = EntriesIn(S, Q)
    BY <2>1, <2>2, EntriesInIs
  <2> QED BY <2>3 DEF E, Q
<1>4. EntriesOf(S, LAMBDA e : e.drift <= x) = EntriesIn(S, {e \in ReportEntry : e.drift <= x})
  <2> DEFINE E == EntriesOf(S, LAMBDA e : e.drift <= x)
             Q == {e \in ReportEntry : e.drift <= x}
  <2>1. \A p \in E : \E r \in 1 .. N : \E k \in DOMAIN Reports[r] :
           p = <<r, k>> /\ Reports[r][k].id \in S /\ Reports[r][k] \in Q
    BY ReportsAre DEF EntriesOf
  <2>2. \A r \in 1 .. N : \A k \in DOMAIN Reports[r] :
           Reports[r][k].id \in S /\ Reports[r][k] \in Q => <<r, k>> \in E
    BY ReportsAre DEF EntriesOf
  <2> HIDE DEF E, Q
  <2>3. E = EntriesIn(S, Q)
    BY <2>1, <2>2, EntriesInIs
  <2> QED BY <2>3 DEF E, Q
<1> QED BY <1>2, <1>3, <1>4

(* The row of a day is backed by the rows it was read from. *)
Backs(d, S) ==
    LET n == Cardinality(EntriesOf(S, LAMBDA e : TRUE))
    IN  /\ d.emitted = Cardinality(S)
        /\ d.matched = Cardinality(EntriesOf(S, LAMBDA e : e.matched))
        /\ d.matched + d.unmatched = n
        /\ d.differs <= n
        /\ 2 * Cardinality(EntriesOf(S, LAMBDA e : e.drift <= d.p50)) >= n
        /\ n > 0 => d.p50 <= d.p99

LEMMA RowBacked ==
  ASSUME NEW S, NEW n, n = Cardinality(S)
  PROVE  Backs(DailyRow(n, Join(Reports, S), Reports), S)
<1> DEFINE J == Join(Reports, S)
           d == DailyRow(n, J, Reports)
           f == [k \in J |-> All[k].drift]
           M == {k \in J : All[k].matched}
           U == {k \in J : ~All[k].matched}
           D == {k \in J : All[k].differs}
           N == Cardinality(J)
<1>1. /\ d.emitted = n /\ d.matched = Cardinality(M) /\ d.unmatched = Cardinality(U)
      /\ d.differs = Cardinality(D)
      /\ d.p50 = Percentile(J, f, 50) /\ d.p99 = Percentile(J, f, 99)
  BY DEF DailyRow, All
<1>2. IsFiniteSet(J) /\ N \in Nat /\ J \subseteq DOMAIN All
  BY JoinIs, FS_CardinalityType
<1>3. \A k \in J : All[k] \in ReportEntry /\ All[k].matched \in BOOLEAN /\ All[k].drift \in Int
  BY <1>2, AllIs DEF ReportEntry
<1>4. f \in [J -> Int]
  BY <1>3
<1>5. Cardinality(EntriesOf(S, LAMBDA e : TRUE)) = N
  <2>1. {k \in J : All[k] \in ReportEntry} = J
    BY <1>3
  <2>2. Cardinality(EntriesIn(S, ReportEntry)) = Cardinality({k \in J : All[k] \in ReportEntry})
    BY JoinCounts
  <2> QED BY <2>1, <2>2, EntriesOfIs
<1>6. Cardinality(EntriesOf(S, LAMBDA e : e.matched)) = Cardinality(M)
  <2> DEFINE Q == {e \in ReportEntry : e.matched}
  <2>1. {k \in J : All[k] \in Q} = M
    BY <1>3
  <2>2. Cardinality(EntriesIn(S, Q)) = Cardinality({k \in J : All[k] \in Q})
    BY JoinCounts
  <2> QED BY <2>1, <2>2, EntriesOfIs
<1>7. ASSUME NEW x
      PROVE  Cardinality(EntriesOf(S, LAMBDA e : e.drift <= x)) = Cardinality(UpTo(J, f, x))
  <2> DEFINE Q == {e \in ReportEntry : e.drift <= x}
  <2>1. {k \in J : All[k] \in Q} = UpTo(J, f, x)
    BY <1>3 DEF UpTo
  <2>2. Cardinality(EntriesIn(S, Q)) = Cardinality({k \in J : All[k] \in Q})
    BY JoinCounts
  <2>3. EntriesOf(S, LAMBDA e : e.drift <= x) = EntriesIn(S, Q)
    BY EntriesOfIs
  <2> QED BY <2>1, <2>2, <2>3
<1>8. Cardinality(M) + Cardinality(U) = N /\ Cardinality(D) <= N
  <2>1. M \cup U = J /\ M \cap U = {} /\ D \subseteq J
    BY <1>3
  <2>2. IsFiniteSet(M) /\ IsFiniteSet(U)
    BY <1>2, FS_Subset
  <2>3. Cardinality(M \cup U) = Cardinality(M) + Cardinality(U) - Cardinality(M \cap U)
    BY <2>2, FS_Union
  <2>4. Cardinality(D) <= N
    BY <1>2, <2>1, FS_Subset
  <2>5. Cardinality(M) \in Nat /\ Cardinality(U) \in Nat /\ Cardinality(M \cap U) = 0
    BY <2>1, <2>2, FS_CardinalityType, FS_EmptySet
  <2>6. Cardinality(M \cup U) = N
    BY <2>1
  <2> HIDE DEF M, U, D, N
  <2> QED BY <2>3, <2>4, <2>5, <2>6
<1> HIDE DEF f, M, U, D, d, J
<1>9. /\ 2 * Cardinality(UpTo(J, f, d.p50)) >= N
      /\ N > 0 => d.p50 <= d.p99
  <2>1. CASE J = {}
    <3>1. N = 0
      BY <2>1, FS_EmptySet
    <3>2. Cardinality(UpTo(J, f, d.p50)) \in Nat
      BY <1>2, BelowCount
    <3> QED BY <3>1, <3>2
  <2>2. CASE J # {}
    <3>1. N \in Nat \ {0}
      BY <1>2, <2>2, FS_EmptySet
    <3> DEFINE V == {f[k] : k \in J}
               Has(x, r) == Cardinality(Below(J, f, x)) < r /\ r <= Cardinality(UpTo(J, f, x))
    <3>2. \A r \in 1 .. N : \E x \in V : Has(x, r)
      BY <1>2, <1>4, HasRank
    <3>3. \A pct : Percentile(J, f, pct) = CHOOSE x \in V : Has(x, Rank(N, pct))
      BY <2>2, Zenon DEF Percentile, Below, UpTo
    <3> DEFINE a == Rank(N, 50)
               c == Rank(N, 99)
    <3>4. a \in 1 .. N /\ c \in 1 .. N /\ a <= c /\ 2 * a >= N
      BY <3>1, RankIs
    <3> HIDE DEF Has, V
    <3>5. d.p50 \in V /\ Has(d.p50, a) /\ d.p99 \in V /\ Has(d.p99, c)
      BY <1>1, <3>2, <3>3, <3>4
    <3>6. d.p50 \in Int /\ d.p99 \in Int
      BY <1>4, <3>5 DEF V
    <3> HIDE DEF a, c
    <3>7. /\ Cardinality(Below(J, f, d.p50)) \in Nat /\ Cardinality(UpTo(J, f, d.p50)) \in Nat
          /\ Cardinality(UpTo(J, f, d.p99)) \in Nat
      BY <1>2, BelowCount
    <3>8. 2 * Cardinality(UpTo(J, f, d.p50)) >= N
      BY <1>2, <3>4, <3>5, <3>7 DEF Has
    <3>9. ASSUME ~ (d.p50 <= d.p99) PROVE FALSE
      <4>1. UpTo(J, f, d.p99) \subseteq Below(J, f, d.p50)
        <5> SUFFICES ASSUME NEW k \in J, f[k] <= d.p99 PROVE f[k] < d.p50
          BY DEF UpTo, Below
        <5>1. f[k] \in Int
          BY <1>4
        <5> QED BY <3>6, <3>9, <5>1
      <4>2. Cardinality(UpTo(J, f, d.p99)) <= Cardinality(Below(J, f, d.p50))
        BY <1>2, <4>1, BelowCount, FS_Subset
      <4> QED BY <3>4, <3>5, <3>7, <4>2 DEF Has
    <3> QED BY <3>8, <3>9
  <2> QED BY <2>1, <2>2
<1>10. Backs(d, S)
  BY <1>1, <1>5, <1>6, <1>7, <1>8, <1>9 DEF Backs
<1> QED BY <1>10 DEF d, J

(* What reconcile has read are rows that were stored, one to a line. *)
ReadOnce(s, stored) ==
    /\ IsFiniteSet(DOMAIN s)
    /\ \A k \in DOMAIN s : \E r : s[k].row = {r}
    /\ \A j, k \in DOMAIN s : s[j].row = s[k].row => j = k
    /\ Readable(s) \subseteq stored

LEMMA ReadCounts ==
  ASSUME NEW s, NEW stored, ReadOnce(s, stored)
  PROVE  Cardinality(DOMAIN s) = Cardinality(Readable(s))
<1> DEFINE b == [k \in DOMAIN s |-> CHOOSE r : s[k].row = {r}]
<1>1. \A k \in DOMAIN s : s[k].row = {b[k]}
  BY DEF ReadOnce
<1> HIDE DEF b
<1>2. \A k \in DOMAIN s : b[k] \in Readable(s)
  BY <1>1 DEF Readable
<1>3. \A p \in Readable(s) : \E k \in DOMAIN s : b[k] = p
  BY <1>1 DEF Readable
<1>4. \A j, k \in DOMAIN s : b[j] = b[k] => j = k
  BY <1>1 DEF ReadOnce
<1> QED BY <1>2, <1>3, <1>4, SameCount DEF ReadOnce

(* A line holds one row at most, every row that is read was stored, and so *)
(* was what reconcile has in hand.                                         *)
Single(s) == \A k \in DOMAIN s : \A x, y \in s[k].row : x = y

DayInv ==
    /\ Single(lines)
    /\ Readable(lines) \subseteq written \cup spoilt
    /\ \A s \in reading : ReadOnce(s, written \cup spoilt)
    /\ \A d \in daily : \E S \in SUBSET (written \cup spoilt) : Backs(d, S)

LEMMA DayKept ==
  ASSUME DayInv, written \subseteq written', spoilt \subseteq spoilt',
         Single(lines)', (Readable(lines) \subseteq written \cup spoilt)',
         reading' \subseteq reading, daily' = daily
  PROVE  DayInv'
<1>1. \A s \in reading' : ReadOnce(s, written' \cup spoilt')
  BY DEF DayInv, ReadOnce
<1>2. \A d \in daily' : \E S \in SUBSET (written' \cup spoilt') : Backs(d, S)
  BY DEF DayInv
<1> QED BY <1>1, <1>2 DEF DayInv

LEMMA DayGrown ==
  ASSUME Inv, DayInv, NEW row \in Rows \ Extracted(lines), lines' \in Grown(row)
  PROVE  Single(lines)' /\ Readable(lines') \subseteq Readable(lines) \cup {row}
<1> DEFINE n == Len(lines)
<1>1. n \in Nat /\ DOMAIN lines = 1 .. n /\ \A k \in 1 .. n : lines[k] \in Rec
  BY LenProperties, ElementOfSeq DEF Inv
<1>2. \A k \in 1 .. n : \A x, y \in lines[k].row : x = y
  BY <1>1 DEF DayInv, Single
<1>3. CASE tail
  <2>1. PICK ln \in Rec : lines' = [lines EXCEPT ![n] = ln] /\ ln.row = {}
    BY <1>3 DEF Grown
  <2>2. n >= 1
    BY <1>1, <1>3, EmptySeq DEF Inv
  <2>3. DOMAIN lines' = 1 .. n /\ lines'[n] = ln /\ \A k \in 1 .. n : k # n => lines'[k] = lines[k]
    BY <1>1, <2>1, <2>2
  <2>4. \A k \in DOMAIN lines' : lines'[k].row \subseteq lines[k].row /\ k \in 1 .. n
    BY <2>1, <2>3
  <2> QED BY <1>1, <1>2, <2>4 DEF Single, Readable
<1>4. CASE ~tail
  <2>1. PICK ln \in Rec : lines' = Append(lines, ln) /\ ln.row \subseteq ln.id /\ ln.id \subseteq {row}
    BY <1>4 DEF Grown
  <2>2. /\ lines' \in Seq(Rec) /\ Len(lines') = n + 1
        /\ \A k \in 1 .. n : lines'[k] = lines[k]
        /\ lines'[n + 1] = ln
    BY <2>1, AppendProperties DEF Inv
  <2>3. DOMAIN lines' = 1 .. n + 1
    BY <2>2, LenProperties
  <2>4. \A k \in DOMAIN lines' : \/ k \in 1 .. n /\ lines'[k] = lines[k]
                              \/ lines'[k].row \subseteq {row}
    BY <1>1, <2>1, <2>2, <2>3
  <2> QED BY <1>1, <1>2, <2>4 DEF Single, Readable
<1> QED BY <1>3, <1>4

LEMMA DayStep == Inv /\ DayInv /\ [Next]_vars => DayInv'
<1> SUFFICES ASSUME Inv, DayInv, [Next]_vars PROVE DayInv'
  OBVIOUS
<1> USE DEF side, proc, others, hist
<1>0. Single(lines) /\ Readable(lines) \subseteq written \cup spoilt
  BY DEF DayInv
<1>1. ASSUME UNCHANGED <<lines, written, spoilt, reading, daily>> PROVE DayInv'
  BY <1>0, <1>1, DayKept DEF Single, Readable
<1>2. CASE \/ UNCHANGED vars
           \/ StartRun \/ SkipBlank \/ AbortRun \/ RejectLine \/ KnownRow \/ Scan \/ EndRun
           \/ Seal \/ Age \/ RemoveSidecar \/ StopCompact
  BY <1>1, <1>2 DEF vars, StartRun, SkipBlank, AbortRun, RejectLine, KnownRow, Scan, EndRun,
       Seal, Age, RemoveSidecar, StopCompact
<1>3. CASE WriteRow
  <2>1. /\ Row \in Rows \ Extracted(lines) /\ lines' \in Appended(Row)
        /\ spoilt \subseteq spoilt' /\ written' = written \cup {Row}
        /\ reading' = reading /\ daily' = daily
    BY <1>3 DEF Inv, WriteRow, AppendRow
  <2>2. Single(lines)' /\ Readable(lines') \subseteq Readable(lines) \cup {Row}
    BY <2>1, AppendedGrows, DayGrown
  <2> QED BY <1>0, <2>1, <2>2, DayKept DEF Readable
<1>4. ASSUME ingest = "append", TearRow, UNCHANGED <<written, reading, daily>> PROVE DayInv'
  <2>1. /\ Row \in Rows \ Extracted(lines) /\ lines' \in TornLines(Row)
        /\ spoilt' = spoilt \cup {Row}
    BY <1>4 DEF Inv, TearRow
  <2>2. Single(lines)' /\ Readable(lines') \subseteq Readable(lines) \cup {Row}
    BY <2>1, AppendedGrows, DayGrown
  <2> QED BY <1>0, <1>4, <2>1, <2>2, DayKept DEF Readable
<1>5. CASE InsertFails \/ StopRun
  <2>1. UNCHANGED <<written, reading, daily>>
    BY <1>5 DEF InsertFails, StopRun
  <2>2. (TearRow /\ ingest = "append") \/ UNCHANGED <<lines, spoilt>>
    BY <1>5 DEF InsertFails, StopRun, TearRow
  <2> QED BY <1>1, <1>4, <2>1, <2>2
<1>6. CASE Move
  <2>1. lines' = <<>> /\ UNCHANGED <<written, spoilt, reading, daily>>
    BY <1>6 DEF Move, MoveFile
  <2>2. Single(<<>>) /\ Readable(<<>>) = {}
    BY DEF Single, Readable
  <2>3. Single(lines)' /\ (Readable(lines) \subseteq written \cup spoilt)'
    BY <2>1, <2>2 DEF Single, Readable
  <2> QED BY <2>1, <2>3, DayKept
<1>7. CASE ReadDay
  <2>1. reading' = {Parsed(lines)} /\ UNCHANGED <<lines, written, spoilt, daily>>
    BY <1>7 DEF ReadDay
  <2> DEFINE s == Parsed(lines)
  <2>2. /\ DOMAIN s = {k \in DOMAIN lines : lines[k].row # {}}
        /\ \A k \in DOMAIN s : s[k] = lines[k]
    BY DEF Parsed, Restrict
  <2> HIDE DEF s
  <2>3. IsFiniteSet(DOMAIN s)
    <3>1. DOMAIN lines = 1 .. Len(lines) /\ Len(lines) \in Nat
      BY LenProperties DEF Inv
    <3>2. IsFiniteSet(DOMAIN lines) /\ DOMAIN s \subseteq DOMAIN lines
      BY <2>2, <3>1, FS_Interval
    <3> QED BY <3>2, FS_Subset
  <2>4. \A k \in DOMAIN s : \E r : s[k].row = {r}
    <3> SUFFICES ASSUME NEW k \in DOMAIN s PROVE \E r : lines[k].row = {r}
      BY <2>2
    <3>1. PICK r : r \in lines[k].row
      BY <2>2
    <3>2. lines[k].row = {r}
      BY <1>0, <2>2, <3>1 DEF Single
    <3> QED BY <3>2
  <2>5. \A j, k \in DOMAIN s : s[j].row = s[k].row => j = k
    BY <2>2 DEF Inv, Once
  <2>6. Readable(s) \subseteq Readable(lines)
    BY <2>2 DEF Readable
  <2>7. ReadOnce(s, written' \cup spoilt')
    BY <1>0, <2>1, <2>3, <2>4, <2>5, <2>6 DEF ReadOnce
  <2>8. \A t \in reading' : ReadOnce(t, written' \cup spoilt')
    BY <2>1, <2>7 DEF s
  <2> QED BY <1>0, <2>1, <2>8 DEF DayInv, Single, Readable
<1>8. CASE WriteDay
  <2>1. PICK s \in reading :
          daily' = {DailyRow(Cardinality(DOMAIN s), Join(Reports, Readable(s)), Reports)}
    BY <1>8 DEF WriteDay
  <2>2. reading' = {} /\ UNCHANGED <<lines, written, spoilt>>
    BY <1>8 DEF WriteDay
  <2>3. ReadOnce(s, written \cup spoilt)
    BY DEF DayInv
  <2>4. Readable(s) \in SUBSET (written' \cup spoilt')
    BY <2>2, <2>3 DEF ReadOnce
  <2>5. Cardinality(DOMAIN s) = Cardinality(Readable(s))
    BY <2>3, ReadCounts
  <2>6. Backs(DailyRow(Cardinality(DOMAIN s), Join(Reports, Readable(s)), Reports), Readable(s))
    BY <2>5, RowBacked
  <2>7. \A d \in daily' : \E S \in SUBSET (written' \cup spoilt') : Backs(d, S)
    BY <2>1, <2>4, <2>6
  <2> QED BY <1>0, <2>2, <2>7 DEF DayInv, Single, Readable
<1>9. CASE StopReconcile
  <2>1. reading' = {} /\ UNCHANGED <<lines, written, spoilt, daily>>
    BY <1>9 DEF StopReconcile
  <2> QED BY <1>0, <2>1, DayKept DEF Single, Readable
<1> QED BY <1>2, <1>3, <1>5, <1>6, <1>7, <1>8, <1>9 DEF Next

(* For any rows, inputs and reports: the row of the day is the join of the *)
(* reports with rows that were stored, each counted once, and its          *)
(* percentiles are of the drifts it joined, whatever ingest and compaction *)
(* did while reconcile ran (recon.rs reconcile, percentile).               *)
THEOREM DayIsBacked == Spec => []DailyBacked
<1>1. Init => DayInv
  BY DEF Init, DayInv, Single, Readable
<1>2. DayInv => DailyBacked
  BY DEF DayInv, DailyBacked, Backs
<1> QED BY <1>1, <1>2, DayStep, InvHolds, PTL DEF Spec

=============================================================================
