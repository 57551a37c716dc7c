------------------------------- MODULE Books -------------------------------
(* The reconciliation commands over the files of a paper run: dl-app       *)
(* reconcile (paper against replay, replay against anchors), dl-app recon  *)
(* (replay against anchors, with --calibrate) and the on-chain sweep of    *)
(* dl-recon.  The paper trader appends lines while a command reads.        *)
EXTENDS Anchors

CONSTANTS Cycles,        \* the cycles a feed can show
          Evaluations,   \* [ev, tip]: what a replay may derive for one
          Lines,         \* the lines a cycles file may hold
          Datasets,      \* anchor files: << >> none given, or <<lines>>
          Answers, Missing,  \* what the chain may say of a bundle
          WinPpm,        \* base_win_ppm before a fit
          TipQuantum,    \* TIP_DRIFT_TOLERANCE_LAMPORTS
          MaxRecords, MaxLines   \* bounds

(* The numbers of a line and of an evaluation are integers.                *)
ASSUME BooksAssumption ==
    /\ \A l \in Lines \ {Malformed} : l.bps \in Int /\ l.input \in Nat
    /\ \A e \in Evaluations : e.ev.optimistic \in Int
    /\ MaxRecords \in Nat

VARIABLES
    lines,     \* wallet.cycles.jsonl
    report,    \* the file recon --report-json wrote: << >> or <<report>>
    run,       \* the reconcile command: its stage and what it has read
    out,       \* its --out file: << >> or <<ReconcileOutput>>
    verdict,   \* exit code of the last command, NoVerdict before it
    fit,       \* << >>, or <<CalibrationFit>> of the last command
    swept      \* << >>, or <<OnchainSweepReport>> of the last command

vars == <<lines, report, run, out, verdict, fit, swept>>

NoVerdict == -1
Idle == [stage |-> "idle", report |-> <<>>, paper |-> <<>>, before |-> <<>>, output |-> <<>>]

Init ==
    /\ lines = <<>> /\ report = <<>> /\ run = Idle
    /\ out = <<>> /\ verdict = NoVerdict /\ fit = <<>> /\ swept = <<>>

(***************************************************************************)
(* The files.                                                              *)
(***************************************************************************)
AppendLine(line) ==
    /\ Len(lines) < MaxLines
    /\ lines' = Append(lines, line)
    /\ UNCHANGED <<report, run, out, verdict, fit, swept>>

Entry(seq, cycle, e) ==
    [seq |-> seq, cycle |-> cycle, ev |-> e.ev, tip |-> e.tip,
     decision |-> IF e.ev.conservative > 0 THEN "WouldTrade" ELSE "WouldNotTrade"]

(* feed_events_consumed is the number of pools.  The reader derives the    *)
(* summary again from the records.                                         *)
ReportOf(records, pools) ==
    [records |-> records, events |-> pools, summary |-> FromEntries(records),
     tips |-> Total(records, LAMBDA r : r.tip)]

ReplayTo(cycles, found, pools) ==
    /\ report = <<>>
    /\ report' = << ReportOf([n \in DOMAIN cycles |-> Entry(n - 1, cycles[n], found[n])], pools) >>
    /\ UNCHANGED <<lines, run, out, verdict, fit, swept>>

(***************************************************************************)
(* dl-app reconcile.                                                       *)
(***************************************************************************)
(* The join key of a line is cycle_id, else pool_address: its kind says    *)
(* what the writer put there.  The key of a record is the 16 digits of its *)
(* LedgerHash.                                                             *)
ProjectPaperRow(line) ==
    [key |-> <<line.writes, line.cycle>>, bps |-> line.bps,
     decision |-> line.decision, input |-> line.input]

CycleHashToHex(record) == <<"ledger_hash", record.cycle>>

LoadCyclesJsonl(file) ==
    LET bad == \E i \in DOMAIN file : file[i] = Malformed
    IN  [ok |-> ~bad, rows |-> IF bad THEN <<>> ELSE [i \in DOMAIN file |-> ProjectPaperRow(file[i])]]

(* Mutant: rows without a decision are not indexed. *)
PaperOfDecided(rows, key) ==
    LET same == {i \in DOMAIN rows : rows[i].key = key /\ rows[i].decision # "none"}
    IN  IF same = {} THEN <<>> ELSE << rows[CHOOSE i \in same : \A j \in same : i <= j] >>

PaperOf(rows, key) ==
    LET same == {i \in DOMAIN rows : rows[i].key = key}
    IN  IF same = {} THEN <<>> ELSE << rows[CHOOSE i \in same : \A j \in same : i <= j] >>

JoinByCycleHash(records, rows) ==
    [n \in DOMAIN records |-> [re |-> records[n], paper |-> PaperOf(rows, CycleHashToHex(records[n]))]]

GrossBpsTolerance == 5

ReGrossBps(j) ==
    IF j.paper[1].input = 0 \/ j.re.ev.optimistic <= 0 THEN 0
    ELSE (j.re.ev.optimistic * 10000) \div j.paper[1].input

(* Mutant: a row without a decision is not compared at all. *)
DivergencesOfDecided(j) ==
    LET div(kind) == [seq |-> j.re.seq, kind |-> kind, re |-> j.re.decision,
                      paper |-> IF j.paper = <<>> THEN "none" ELSE j.paper[1].decision]
    IN  IF j.paper = <<>> THEN << div("cycle_hash_missing") >>
        ELSE IF j.paper[1].decision = "none" THEN <<>>
        ELSE IF j.paper[1].decision # j.re.decision THEN << div("decision") >> ELSE <<>>

DivergencesOf(j) ==
    LET div(kind) == [seq |-> j.re.seq, kind |-> kind, re |-> j.re.decision,
                      paper |-> IF j.paper = <<>> THEN "none" ELSE j.paper[1].decision]
        decided == j.paper[1].decision \notin {"none", j.re.decision}
        apart == Magnitude(j.paper[1].bps - ReGrossBps(j)) > GrossBpsTolerance
    IN  IF j.paper = <<>> THEN << div("cycle_hash_missing") >>
        ELSE (IF decided THEN << div("decision") >> ELSE <<>>)
             \o (IF apart THEN << div("e_pnl") >> ELSE <<>>)

PaperVsPaper(joins) == FlattenSeq([n \in DOMAIN joins |-> DivergencesOf(joins[n])])

Lies(divs, paper, re) ==
    Len(SelectSeq(divs, LAMBDA d : d.kind = "decision" /\ d.paper = paper /\ d.re = re))

ReconcileOutput(rep, rows, dataset) ==
    LET joins == JoinByCycleHash(rep.records, rows)
        divs == PaperVsPaper(joins)
    IN  [cycles_seen |-> Len(joins), paper |-> divs,
         would_trade_paper |-> Len(SelectSeq(rows, LAMBDA r : r.decision = "WouldTrade")),
         would_trade_re |-> rep.summary.would_trade,
         anchors |-> Compare(dataset, rep),
         lied_yes |-> Lies(divs, "WouldTrade", "WouldNotTrade"),
         lied_no |-> Lies(divs, "WouldNotTrade", "WouldTrade")]

Exceeding(divs) == SelectSeq(divs, LAMBDA d : d.exceeds)

Classify(o) ==
    IF Exceeding(o.anchors) # <<>> THEN 2 ELSE IF o.paper # <<>> THEN 1 ELSE 0

(* run() of the command: each file is read in its turn; the first that     *)
(* cannot be read ends it with code 3.                                     *)
ReadReport ==
    /\ run.stage \in {"idle", "done"}
    /\ out' = out
    /\ IF report = <<>> THEN run' = Idle /\ verdict' = 3
       ELSE /\ run' = [Idle EXCEPT !.stage = "report", !.report = report, !.before = lines]
            /\ verdict' = NoVerdict
    /\ fit' = <<>> /\ swept' = <<>>
    /\ UNCHANGED <<lines, report>>

ReadPaper ==
    /\ run.stage = "report"
    /\ LET paper == LoadCyclesJsonl(lines)
       IN  IF paper.ok THEN run' = [run EXCEPT !.stage = "paper", !.paper = paper.rows] /\ verdict' = NoVerdict
           ELSE run' = Idle /\ verdict' = 3
    /\ UNCHANGED <<lines, report, out, fit, swept>>

Judge(anchors) ==
    /\ run.stage = "paper"
    /\ LET loaded == IF anchors = <<>> THEN [ok |-> TRUE, entries |-> <<>>]
                     ELSE LoadAnchors(anchors[1])
       IN  IF loaded.ok
           THEN /\ run' = [run EXCEPT !.stage = "judged",
                            !.output = << ReconcileOutput(run.report[1], run.paper, loaded.entries) >>]
                /\ verdict' = verdict
           ELSE run' = Idle /\ verdict' = 3
    /\ UNCHANGED <<lines, report, out, fit, swept>>

WriteOutput(ok) ==
    /\ run.stage = "judged"
    /\ out' = IF ok THEN run.output ELSE out
    /\ verdict' = IF ok THEN Classify(run.output[1]) ELSE 3
    /\ run' = IF ok THEN [run EXCEPT !.stage = "done"] ELSE Idle
    /\ UNCHANGED <<lines, report, fit, swept>>

(***************************************************************************)
(* dl-app recon --anchors, with --calibrate.                               *)
(***************************************************************************)
Recon(anchors, calibrate) ==
    /\ report # <<>> /\ run.stage \in {"idle", "done"}
    /\ LET loaded == LoadAnchors(anchors)
           divs == Compare(loaded.entries, report[1])
           fitted == Calibrate(divs, WinPpm)
           bad == Exceeding(IF calibrate THEN fitted.remaining ELSE divs)
       IN  /\ verdict' = IF ~loaded.ok THEN 2 ELSE IF bad # <<>> THEN 1 ELSE 0
           /\ fit' = IF loaded.ok /\ calibrate THEN << [ppm |-> fitted.ppm, divs |-> divs, remaining |-> fitted.remaining] >> ELSE <<>>
    /\ run' = Idle /\ swept' = <<>>
    /\ UNCHANGED <<lines, report, out>>

(***************************************************************************)
(* onchain_sweep.rs.  An answer is "missing" or a BundleFetch.             *)
(***************************************************************************)
RealizedPnl(f) == f.post - f.pre - f.funded

Kinds(paper, f) ==
    IF f = Missing THEN {"missing_signature"}
    ELSE (IF Magnitude(f.tip - paper.tip) > TipQuantum THEN {"tip_drift"} ELSE {})
         \union (IF RealizedPnl(f) < 0 /\ paper.ev.conservative > 0 THEN {"simulation_lied_yes"} ELSE {})
         \union (IF RealizedPnl(f) > 0 /\ paper.ev.conservative <= 0 THEN {"simulation_lied_no"} ELSE {})
         \union (IF f.reverted /\ paper.ev.conservative > 0 THEN {"reverted_after_ok"} ELSE {})

SweepRow(paper, f) ==
    LET seen == paper.decision = "WouldTrade" /\ f # Missing
    IN  [seq |-> paper.seq, submitted |-> paper.decision = "WouldTrade",
         pnl |-> IF seen THEN RealizedPnl(f) ELSE 0, tip |-> IF seen THEN f.tip ELSE 0,
         landed |-> seen /\ f.landed, reverted |-> seen /\ f.reverted,
         kinds |-> IF paper.decision = "WouldTrade" THEN Kinds(paper, f) ELSE {}]

(* The loss of a reverted bundle is in gross and again in revert.          *)
SweepReport(records, answer) ==
    LET rows == [n \in DOMAIN records |-> SweepRow(records[n], answer[n])]
        landed == SelectSeq(rows, LAMBDA r : r.landed)
        gross == Total(landed, LAMBDA r : r.pnl)
        tips == Total(landed, LAMBDA r : r.tip)
        revert == Total(landed, LAMBDA r : IF r.reverted THEN Magnitude(r.pnl) ELSE 0)
    IN  [rows |-> rows, submitted |-> Len(SelectSeq(rows, LAMBDA r : r.submitted)),
         landed |-> Len(landed), gross |-> gross, tips |-> tips, revert |-> revert,
         net |-> gross - tips - revert]

Sweep(answer) ==
    /\ report # <<>> /\ run.stage \in {"idle", "done"}
    /\ swept' = << SweepReport(report[1].records, answer) >>
    /\ run' = Idle /\ verdict' = NoVerdict /\ fit' = <<>>
    /\ UNCHANGED <<lines, report, out>>

Next ==
    \/ \E l \in Lines : AppendLine(l)
    \/ \E n \in 0..MaxRecords :
          \E cycles \in [1..n -> Cycles], found \in [1..n -> Evaluations], more \in 1..2 :
             /\ \A i, j \in 1..n : cycles[i] = cycles[j] => i = j
             /\ ReplayTo(cycles, found, n + more)
    \/ ReadReport \/ ReadPaper
    \/ \E d \in Datasets : Judge(d)
    \/ \E ok \in BOOLEAN : WriteOutput(ok)
    \/ \E d \in Datasets \ {<<>>}, calibrate \in BOOLEAN : Recon(d[1], calibrate)
    \/ /\ report # <<>>
       /\ \E answer \in [DOMAIN report[1].records -> Answers] : Sweep(answer)

Spec == Init /\ [][Next]_vars

(***************************************************************************)
(* Properties.                                                             *)
(***************************************************************************)
(* The lines with the hash of a record, and what the first of them and the *)
(* record agree on.                                                        *)
WithHash(r) ==
    {i \in DOMAIN lines : /\ lines[i] # Malformed /\ lines[i].writes = "ledger_hash"
                          /\ lines[i].cycle = r.cycle}

FirstWith(r) == lines[CHOOSE i \in WithHash(r) : \A j \in WithHash(r) : i <= j]

GainBps(r, input) ==
    IF input = 0 \/ r.ev.optimistic <= 0 THEN 0 ELSE (r.ev.optimistic * 10000) \div input

AgreesWith(r) ==
    /\ WithHash(r) # {}
    /\ FirstWith(r).decision \in {"none", r.decision}
    /\ FirstWith(r).bps - GainBps(r, FirstWith(r).input) \in -5..5

(* A run that exits 0 has compared every record of the report: the first   *)
(* line of the file with its hash, whenever it was appended, has the same  *)
(* decision or none and a gain within the tolerance; no anchor is off.     *)
CleanMeansAgree ==
    run.stage = "done" /\ verdict = 0 =>
        /\ Exceeding(out[1].anchors) = <<>>
        /\ \A n \in DOMAIN run.report[1].records : AgreesWith(run.report[1].records[n])

(* A cycle is reported missing only if no line with its hash stood in the  *)
(* file when the command began.                                            *)
MissingWasMissing ==
    run.stage \in {"judged", "done"} =>
        \A i \in DOMAIN run.output[1].paper :
            LET d == run.output[1].paper[i]
            IN  d.kind = "cycle_hash_missing" =>
                  \A j \in DOMAIN run.before : run.before[j] # Malformed =>
                      \/ run.before[j].writes # "ledger_hash"
                      \/ run.before[j].cycle # run.report[1].records[d.seq + 1].cycle

=============================================================================
