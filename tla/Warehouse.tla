----------------------------- MODULE Warehouse -----------------------------
(***************************************************************************)
(* The cycle warehouse of dl-pipeline (warehouse.rs, ingest/mod.rs): one   *)
(* date partition, an append-only file of JSON lines, with the checksum    *)
(* sidecar beside it and the archive that compaction moves it to.          *)
(*                                                                         *)
(* Ingest is a process that reads an input file line by line and inserts   *)
(* each row unless it is known; it may be run again on the same input, and *)
(* may stop, or fail to write a whole line, at any time.  Compaction,      *)
(* sealing and the daily reconciliation are other processes; nothing locks *)
(* the partition.                                                          *)
(*                                                                         *)
(* A line of the file is what two readers make of it: "id" is the          *)
(* cycle_id the duplicate scan extracts, "row" the row that parses.        *)
(***************************************************************************)
EXTENDS CycleLines

CONSTANTS
    Rows,       \* the cycle_ids of one date
    Inputs,     \* what ingest is given: files in order, of lines (CycleLines)
    Reports,    \* the reports dl-recon has left: sequences of entries
    ReportIds,  \* the cycle_ids they speak of
    MaxRuns,    \* bound: ingest runs
    MaxLines    \* bound: lines of the partition

(* expand_input_paths: the files, in order; none is an error. *)
ExpandedInputs == {FlattenSeq(files) : files \in Inputs \ {<<>>}}

ReportEntry ==
    [id : ReportIds, matched : BOOLEAN, drift : Int, differs : BOOLEAN]

ASSUME WarehouseAssumption ==
    /\ MaxRuns \in Nat /\ MaxLines \in Nat
    /\ Reports \in Seq(Seq(ReportEntry))
    /\ \A given \in ExpandedInputs :
         /\ DOMAIN given = 1 .. Len(given) /\ Len(given) \in Nat
         /\ \A k \in DOMAIN given : Valid(given[k]) => given[k].id \in Rows

VARIABLES
    \* the disk
    lines,      \* cycle_v1.jsonl of the date
    tail,       \* does it end without a newline?
    sealed,     \* cycle_v1.checksum: the lines it was computed over, or {}
    archive,    \* the archived file: its lines, or {}
    rejects,    \* dl_pipeline_rejects: run, input line and reason
    old,        \* is the date older than older_than_days?
    daily,      \* daily_recon_v1 of the date: its row, or {}
    \* the ingest process
    ingest,     \* "off", "line" or "append"
    input,      \* the lines of its input files
    at,         \* the input line it is at
    seen,       \* seen_cycle_ids
    stats,      \* IngestStats
    runs,       \* history: runs started
    \* the other processes
    compacting, \* "off" or "moved"
    reading,    \* reconcile: the rows it has read, by their lines, or {}
    \* history
    written,    \* rows reported as written
    spoilt,     \* rows whose line was torn or went behind a torn one
    cut         \* has a compaction stopped halfway?

side == <<sealed, archive, old, daily>>
proc == <<ingest, input, at, seen, stats, runs>>
others == <<compacting, reading>>
hist == <<written, spoilt, cut>>
vars == <<lines, tail, rejects, side, proc, others, hist>>

NoStats == [read |-> 0, written |-> 0, dup |-> 0, rejects |-> 0]

Init ==
    /\ lines = <<>> /\ tail = FALSE /\ sealed = {} /\ archive = {}
    /\ rejects = {} /\ old = FALSE /\ daily = {}
    /\ ingest = "off" /\ input = <<>> /\ at = 1 /\ seen = {}
    /\ stats = NoStats /\ runs = 0
    /\ compacting = "off" /\ reading = {}
    /\ written = {} /\ spoilt = {} /\ cut = FALSE

Line(id, row) == [id |-> id, row |-> row]
Readable(s) == UNION {s[k].row : k \in DOMAIN s}
Extracted(s) == UNION {s[k].id : k \in DOMAIN s}
Archived == UNION {Readable(s) : s \in archive}

-----------------------------------------------------------------------------
(* ingest_cycle_v1_file, a process of its own for every run. *)

StartRun ==
    /\ ingest = "off" /\ runs < MaxRuns
    /\ input' \in ExpandedInputs
    /\ ingest' = "line" /\ at' = 1 /\ seen' = {} /\ stats' = NoStats
    /\ runs' = runs + 1
    /\ UNCHANGED <<lines, tail, rejects, side, others, hist>>

Count(field) ==
    stats' = [stats EXCEPT !.read = @ + 1, ![field] = @ + 1]

NextLine == at' = at + 1 /\ ingest' = "line" /\ UNCHANGED <<input, runs>>

AtLine == ingest = "line" /\ at \in DOMAIN input
AtRow == AtLine /\ Valid(input[at])
Row == input[at].id

SkipBlank ==
    /\ AtLine /\ Blank(input[at])
    /\ NextLine
    /\ UNCHANGED <<lines, tail, rejects, side, seen, stats, others, hist>>

(* A line that cannot be decoded ends the run, its statistics lost. *)
AbortRun ==
    /\ AtLine /\ Unreadable(input[at])
    /\ ingest' = "off" /\ at' = 1 /\ stats' = NoStats
    /\ UNCHANGED <<lines, tail, rejects, side, input, seen, runs, others, hist>>

Reject(reason) ==
    rejects' = rejects \cup {<<runs, at, reason>>}

(* A line that does not parse or validate. *)
RejectLine ==
    /\ AtLine /\ Failed(input[at]) # {}
    /\ Reject(Reason(input[at]))
    /\ Count("rejects") /\ NextLine
    /\ UNCHANGED <<lines, tail, side, seen, others, hist>>

(* insert_cycle of a row known in this process. *)
KnownRow ==
    /\ AtRow /\ Row \in seen
    /\ Count("dup") /\ NextLine
    /\ UNCHANGED <<lines, tail, rejects, side, seen, others, hist>>

GoAppend == ingest' = "append" /\ UNCHANGED <<input, at, stats, runs>>

(* Mutant: the partition is not read, only what this process inserted. *)
ScanNothing ==
    /\ AtRow /\ Row \notin seen
    /\ GoAppend
    /\ UNCHANGED <<lines, tail, rejects, side, seen, others, hist>>

(* Mutant: the row is remembered before it is written. *)
ScanRemembers ==
    /\ AtRow /\ Row \notin seen
    /\ seen' = seen \cup Extracted(lines) \cup {Row}
    /\ IF Row \in Extracted(lines) THEN Count("dup") /\ NextLine ELSE GoAppend
    /\ UNCHANGED <<lines, tail, rejects, side, others, hist>>

(* insert_cycle reads the partition for the ids it holds. *)
Scan ==
    /\ AtRow /\ Row \notin seen
    /\ seen' = seen \cup Extracted(lines)
    /\ IF Row \in seen' THEN Count("dup") /\ NextLine ELSE GoAppend
    /\ UNCHANGED <<lines, tail, rejects, side, others, hist>>

(* Bytes written behind a torn line share its line, which then parses as   *)
(* nothing.  The scan finds the torn row's id if it was written, else this *)
(* one's or, where the id itself was cut, none.                            *)
Behind(torn, row) ==
    IF torn.id # {} THEN {Line(torn.id, {})}
                    ELSE {Line({row}, {}), Line({}, {})}

Appended(row) ==
    IF tail THEN {[lines EXCEPT ![Len(lines)] = ln] :
                    ln \in Behind(lines[Len(lines)], row)}
            ELSE {Append(lines, Line({row}, {row}))}

AppendRow(row) ==
    /\ lines' \in Appended(row) /\ tail' = FALSE
    /\ spoilt' = IF tail THEN spoilt \cup {row} ELSE spoilt

WriteRow ==
    /\ ingest = "append" /\ Len(lines) < MaxLines
    /\ AppendRow(Row) /\ NextLine /\ Count("written")
    /\ seen' = seen \cup {Row} /\ written' = written \cup {Row}
    /\ UNCHANGED <<rejects, side, others, cut>>

(* A line torn by a full disk or a stop: its id may have been written, or  *)
(* the whole row without the newline.                                      *)
TornLines(row) ==
    IF tail THEN Appended(row)
            ELSE {Append(lines, ln) :
                    ln \in {Line({row}, {row}), Line({row}, {}), Line({}, {})}}

TearRow ==
    /\ ingest = "append" /\ Len(lines) < MaxLines
    /\ lines' \in TornLines(Row) /\ tail' = TRUE
    /\ spoilt' = spoilt \cup {Row}

(* The insert fails before or in the middle of its write: the line goes to *)
(* the rejects and the run continues.                                      *)
InsertFails ==
    /\ ingest = "append" /\ Len(lines) < MaxLines
    /\ TearRow \/ UNCHANGED <<lines, tail, spoilt>>
    /\ Reject("FieldTypeWrong")
    /\ Count("rejects") /\ NextLine
    /\ UNCHANGED <<side, seen, others, written, cut>>

Finished == ingest = "line" /\ at > Len(input)

EndRun ==
    /\ Finished /\ ingest' = "off"
    /\ UNCHANGED <<lines, tail, rejects, side, input, at, seen, stats, runs,
                   others, hist>>

(* The process is stopped, perhaps in the middle of a line, or a reject    *)
(* cannot be filed.                                                        *)
StopRun ==
    /\ ingest # "off" /\ ingest' = "off" /\ at' = 1 /\ stats' = NoStats
    /\ TearRow \/ UNCHANGED <<lines, tail, spoilt>>
    /\ UNCHANGED <<rejects, side, input, seen, runs, others, written, cut>>

-----------------------------------------------------------------------------
(* The other commands. *)

Seal ==
    /\ sealed' = {lines}
    /\ UNCHANGED <<lines, tail, rejects, archive, old, daily, proc, others,
                   hist>>

(* verify: the checksum of the lines that are there against the sidecar's. *)
Verdict ==
    IF sealed = {} THEN "unsealed"
    ELSE IF sealed = {lines} THEN "ok" ELSE "mismatch"

Age ==
    /\ ~old /\ old' = TRUE
    /\ UNCHANGED <<lines, tail, rejects, sealed, archive, daily, proc, others,
                   hist>>

(* The file is renamed into the archive, if there is one. *)
MoveFile ==
    /\ compacting = "off" /\ old /\ (lines # <<>> \/ sealed # {})
    /\ archive' = IF lines = <<>> THEN archive ELSE {lines}
    /\ lines' = <<>> /\ tail' = FALSE /\ compacting' = "moved"
    /\ UNCHANGED <<rejects, sealed, old, daily, proc, reading, hist>>

(* Mutant: an archive that exists is replaced. *)
MoveOverArchive == MoveFile

(* compact: a date already archived is skipped. *)
Move == archive = {} /\ MoveFile

(* Mutant: the sidecar stays behind. *)
KeepSidecar ==
    /\ compacting = "moved" /\ compacting' = "off"
    /\ UNCHANGED <<lines, tail, rejects, side, proc, reading, hist>>

(* compact: then the sidecar is removed. *)
RemoveSidecar ==
    /\ compacting = "moved" /\ compacting' = "off"
    /\ sealed' = {}
    /\ UNCHANGED <<lines, tail, rejects, archive, old, daily, proc, reading,
                   hist>>

(* The compaction stops between the two, or the removal fails.             *)
StopCompact ==
    /\ compacting = "moved" /\ compacting' = "off" /\ cut' = TRUE
    /\ UNCHANGED <<lines, tail, rejects, side, proc, reading, written, spoilt>>

(* The lines that parse; the others are skipped. *)
Parsed(s) == Restrict(s, {k \in DOMAIN s : s[k].row # {}})

(* reconcile: the partition is read ... *)
ReadDay ==
    /\ reading = {} /\ reading' = {Parsed(lines)}
    /\ UNCHANGED <<lines, tail, rejects, side, proc, compacting, hist>>

(* ... joined with the reports, and the day's row is replaced.             *)
WriteDay ==
    /\ \E s \in reading :
         daily' = {DailyRow(Cardinality(DOMAIN s), Join(Reports, Readable(s)), Reports)}
    /\ reading' = {}
    /\ UNCHANGED <<lines, tail, rejects, sealed, archive, old, proc,
                   compacting, hist>>

StopReconcile ==
    /\ reading # {} /\ reading' = {}
    /\ UNCHANGED <<lines, tail, rejects, side, proc, compacting, hist>>

Next ==
    \/ StartRun \/ SkipBlank \/ AbortRun \/ RejectLine \/ KnownRow \/ Scan
    \/ WriteRow \/ InsertFails \/ EndRun \/ StopRun
    \/ Seal \/ Age \/ Move \/ RemoveSidecar \/ StopCompact
    \/ ReadDay \/ WriteDay \/ StopReconcile

Spec == Init /\ [][Next]_vars

-----------------------------------------------------------------------------
(* Properties. *)

(* A row is in a partition at most once, over any number of runs, failed   *)
(* writes and restarts (insert_cycle, "INSERT OR IGNORE").                 *)
OncePerPartition ==
    \A j, k \in DOMAIN lines : lines[j].row # {} /\ lines[j].row = lines[k].row
                                 => j = k

(* A row reported as written can be read back, from the partition or the   *)
(* archive, unless a torn line spoilt it: compaction loses nothing.        *)
WrittenIsStored == written \subseteq Readable(lines) \cup Archived \cup spoilt

RejectedNow(k) == {r \in rejects : r[1] = runs /\ r[2] = k}

(* At the end of a run every line of its input is accounted for, however   *)
(* the runs before it ended.  A line that has a defect has one reject, and *)
(* its reason is that of a defect it has; a row is stored unless this run  *)
(* rejected it: "known" is never said of a row that is not there, and only *)
(* torn lines cost rows.  The statistics count each line once              *)
(* (ingest_cycle_v1_file, insert_cycle's Ok(false)).                       *)
RunStoresAll ==
    Finished =>
        /\ \A k \in DOMAIN input :
             \/ Blank(input[k])
             \/ /\ Cardinality(RejectedNow(k)) = 1
                /\ Valid(input[k]) \/ \E c \in DOMAIN Checks, r \in RejectedNow(k) :
                     Checks[c][1] \in input[k].defects /\ Checks[c][2] = r[3]
             \/ /\ Valid(input[k]) /\ RejectedNow(k) = {}
                /\ input[k].id \in Readable(lines) \cup Archived \cup spoilt
        /\ stats.read = stats.written + stats.dup + stats.rejects
        /\ stats.rejects = Cardinality({r \in rejects : r[1] = runs})

IsPrefixOf(s, t) ==
    Len(s) <= Len(t) /\ \A k \in DOMAIN s : s[k].row \ spoilt # {} => s[k] = t[k]

(* verify calls a sealed partition changed only because rows came later or *)
(* were torn: the checksum is of a prefix of the lines it lies beside, the *)
(* readable ones as they were, unless a compaction stopped before it took  *)
(* the sidecar away (seal_partition, compact, verify_partition).           *)
SealedIsPrefix ==
    Verdict = "mismatch" /\ ~cut /\ compacting = "off"
        => \A s \in sealed : IsPrefixOf(s, lines)

EntriesOf(S, P(_)) ==
    UNION {{<<r, k>> : k \in {j \in DOMAIN Reports[r] :
                                Reports[r][j].id \in S /\ P(Reports[r][j])}}
             : r \in DOMAIN Reports}

(* The day's row speaks of rows that were stored once each: it is the join *)
(* of the reports with as many rows as it calls emitted, all of them       *)
(* written at some time, at least half of their drifts lie at or below its *)
(* p50, and p99 is no less; whatever ingest and compaction did meanwhile   *)
(* (recon.rs reconcile, percentile).                                       *)
DailyBacked ==
    \A d \in daily : \E S \in SUBSET (written \cup spoilt) :
        LET n == Cardinality(EntriesOf(S, LAMBDA e : TRUE))
        IN  /\ d.emitted = Cardinality(S)
            /\ d.matched = Cardinality(EntriesOf(S, LAMBDA e : e.matched))
            /\ d.matched + d.unmatched = n
            /\ d.differs <= n
            /\ 2 * Cardinality(EntriesOf(S, LAMBDA e : e.drift <= d.p50)) >= n
            /\ n > 0 => d.p50 <= d.p99
=============================================================================
