------------------------------ MODULE Learning ------------------------------
(* What the live trader learns from: the captures it appends when a bundle *)
(* landed, the daily report and the niches made from them, the fit of      *)
(* dl-calibrate, and the files a trader loads when it starts.              *)
EXTENDS Integers, Sequences, SequencesExt, FiniteSets

CONSTANTS Dexes, Sizes, Hours, \* what the input mint, amount and time of a cycle say
          Outs,                \* sets of quotes, relative to the input
          Ledgers,             \* ledgers: sequences of [predicted, realized]
          MinSamples,          \* MIN_SAMPLES_FOR_FIT
          Folds,               \* folds of the walk-forward validation
          ProbOne,                 \* one, in the unit of Prob
          YoungSlots, MatureSlots,  \* 3_600 and 216_000 slots
          FirstSeens,          \* first_seen_slot an operator may put in a report
          Tips,                \* what tip_lamports returns; 0 where min_lamports is 0
          Newline,             \* the end of a line
          Torn,                \* part of a line, or of a file
          MaxCaptures, MaxFaults, MaxReports   \* bounds

(* The record of a landed bundle: its realized gain is the tip.            *)
Capture(ts, seq, dex, size, hour, outs, tip) ==
    [ts |-> ts, seq |-> seq, slot |-> MatureSlots + ts, dex |-> dex, size |-> size, hour |-> hour,
     input |-> 1, outs |-> outs, realized |-> tip, won |-> TRUE]

Written == {Capture(ts, seq, dex, size, hour, outs, tip) :
                ts \in 0..MaxCaptures, seq \in 0..MaxCaptures, dex \in Dexes, size \in Sizes,
                hour \in Hours, outs \in Outs, tip \in Tips}

(* A record never reads as the end of a line, nor as a part of one.        *)
ASSUME LearningAssumption ==
    /\ ProbOne \in Nat \ {0, 1} /\ MinSamples \in Nat \ {0} /\ Tips \subseteq Nat
    /\ MaxCaptures \in Nat
    /\ Newline # Torn /\ {Newline, Torn} \cap Written = {}
    /\ \A rows \in Ledgers : rows \in Seq([predicted : Int, realized : Int])

VARIABLES
    file,     \* captures.jsonl: captures, Newline and Torn in their order
    trader,   \* the live process: is it up, its seq, the record it writes, its niches
    done,     \* captures whose record call returned Ok
    faults,   \* stops and failed writes in the middle of a record
    reports,  \* the recon-*.json files, in name order
    ledger,   \* recon.json of emit-reconciliation: << >> or <<rows>>
    niches,   \* niches.json: << >>, Torn or a NicheConfig
    fitted    \* calibration.json: << >>, Torn or a CalibrationReport

learningVars == <<file, trader, done, faults, reports, ledger, niches, fitted>>

NoNiches == [loaded |-> FALSE, enabled |-> {}, scores |-> {}]
Down == [up |-> FALSE, seq |-> 0, writing |-> <<>>, niches |-> NoNiches]

LearningInit ==
    /\ file = <<>> /\ trader = Down /\ done = 0 /\ faults = 0
    /\ reports = <<>> /\ ledger = <<>> /\ niches = <<>> /\ fitted = <<>>

SumOf(seq, f(_)) == FoldLeft(LAMBDA s, x : s + f(x), 0, seq)

(* The members of a set of numbers in ascending order.                     *)
Ranked(S) ==
    [n \in 1..Cardinality(S) |-> CHOOSE x \in S : Cardinality({y \in S : y <= x}) = n]

(***************************************************************************)
(* read_jsonl: what stands between two newlines is a capture, or skipped.  *)
(***************************************************************************)
ReadJsonl(f) ==
    LET ends == {0} \union {i \in DOMAIN f : f[i] = Newline}
        alone(i) == /\ f[i] \notin {Newline, Torn}
                    /\ i - 1 \in ends
                    /\ i = Len(f) \/ i + 1 \in ends
        kept == Ranked({i \in DOMAIN f : alone(i)})
    IN  [n \in DOMAIN kept |-> f[kept[n]]]

Captures == ReadJsonl(file)

(***************************************************************************)
(* fit and the overfit guard.                                              *)
(***************************************************************************)
RatioToProb(num, den) ==
    LET scaled == (num * ProbOne) \div den IN IF scaled > ProbOne THEN ProbOne ELSE scaled

Fit(captures) ==
    LET n == Len(captures)
        realized == Cardinality({i \in DOMAIN captures : captures[i].realized # 0})
        won == Cardinality({i \in DOMAIN captures : captures[i].won})
    IN  [detect |-> RatioToProb(realized + 1, n + 2), win |-> RatioToProb(won + 1, realized + 2),
         land |-> RatioToProb(realized + 1, n + 2), n |-> n]

(* A series without variance has no Sharpe ratio.  Its ratio otherwise has *)
(* the sign of its mean; high says that it is above the maximum expected   *)
(* of no edge, regular that the moments leave the denominator positive.    *)
DeflatedSharpe(returns, high, regular) ==
    LET spread == \E i, j \in DOMAIN returns : returns[i] # returns[j]
        mean == SumOf(returns, LAMBDA r : r)
    IN  IF Len(returns) < MinSamples \/ ~spread THEN <<>>
        ELSE << [above |-> high /\ mean > 0, dsr |-> regular /\ high /\ mean > 0] >>

(* The folds whose training window, cut by the embargo of 5%, is not empty;*)
(* none when a window has no variance.                                     *)
PurgedFolds(returns) ==
    LET size == Len(returns) \div Folds
        embargo == Len(returns) \div 20
        train(k) == SubSeq(returns, 1, IF k * size > embargo THEN k * size - embargo ELSE 0)
        counted == {k \in 0..(Folds - 1) : train(k) # <<>>}
        flat(s) == \A i, j \in DOMAIN s : s[i] = s[j]
    IN  IF Len(returns) < Folds * MinSamples \/ \E k \in counted : flat(train(k))
        THEN 0 ELSE Cardinality(counted)

FromReturns(returns, high, regular) ==
    LET dsr == DeflatedSharpe(returns, high, regular)
    IN  IF Len(returns) < MinSamples THEN [risk |-> TRUE, folds |-> 0]
        ELSE [risk |-> dsr = <<>> \/ ~dsr[1].dsr \/ ~dsr[1].above, folds |-> PurgedFolds(returns)]

FitWithOverfit(captures, high, regular) ==
    [result |-> Fit(captures),
     overfit |-> FromReturns([i \in DOMAIN captures |-> captures[i].realized], high, regular)]

(* eval_params_from_calibration: the two probabilities of EvalParams.      *)
EvalParams(report) == [detect |-> report.result.detect, win |-> report.result.win]

(***************************************************************************)
(* reconcile: one row per cycle_seq, from its latest capture.              *)
(***************************************************************************)
Latest(captures, seq) ==
    LET same == {i \in DOMAIN captures : captures[i].seq = seq}
    IN  captures[CHOOSE i \in same :
            \A j \in same : \/ captures[j].ts < captures[i].ts
                            \/ captures[j].ts = captures[i].ts /\ j <= i]

Row(c) ==
    LET predicted == SumOf(c.outs, LAMBDA o : o - c.input)
    IN  [seq |-> c.seq, slot |-> c.slot, dex |-> c.dex, size |-> c.size, hour |-> c.hour,
         predicted |-> predicted, realized |-> c.realized, delta |-> c.realized - predicted,
         tip |-> IF c.realized > 0 THEN c.realized ELSE 0]

Reconcile(captures) ==
    LET order == Ranked({captures[i].seq : i \in DOMAIN captures})
    IN  [n \in DOMAIN order |-> Row(Latest(captures, order[n]))]

(***************************************************************************)
(* Niches.                                                                 *)
(***************************************************************************)
PoolAge(slot, first) ==
    LET age == IF slot > first THEN slot - first ELSE 0
    IN  IF age < YoungSlots THEN "New" ELSE IF age < MatureSlots THEN "Young" ELSE "Mature"

Class(row, first) ==
    [dex |-> row.dex, age |-> PoolAge(row.slot, first), hour |-> row.hour, size |-> row.size]

(* Mutant: the sample size of a class is that of all the reports. *)
NicheScoreAnySize(files) ==
    LET readable == {r \in DOMAIN files : files[r] # Torn}
        places == UNION {{<<r, i>> : i \in DOMAIN files[r].rows} : r \in readable}
        classOf(p) == Class(files[p[1]].rows[p[2]], files[p[1]].first_seen)
        rank(c) == LET mine == {p \in places : classOf(p) = c}
                       rows == SetToSeq(mine)
                       pnl == SumOf(rows, LAMBDA p : files[p[1]].rows[p[2]].realized)
                   IN  [class |-> c, pnl |-> pnl, n |-> Cardinality(mine),
                        enabled |-> Cardinality(places) >= MinSamples /\ pnl > 0]
    IN  {rank(c) : c \in {classOf(p) : p \in places}}

(* Every row of every report counts.  A tip below one lamport counts one.  *)
NicheScore(files) ==
    LET readable == {r \in DOMAIN files : files[r] # Torn}
        places == UNION {{<<r, i>> : i \in DOMAIN files[r].rows} : r \in readable}
        classOf(p) == Class(files[p[1]].rows[p[2]], files[p[1]].first_seen)
        rank(c) == LET mine == {p \in places : classOf(p) = c}
                       rows == SetToSeq(mine)
                       pnl == SumOf(rows, LAMBDA p : files[p[1]].rows[p[2]].realized)
                   IN  [class |-> c, pnl |-> pnl, n |-> Cardinality(mine),
                        enabled |-> Cardinality(mine) >= MinSamples /\ pnl > 0]
    IN  {rank(c) : c \in {classOf(p) : p \in places}}

NicheConfig(scores) ==
    [loaded |-> TRUE, enabled |-> {s.class : s \in {t \in scores : t.enabled}}, scores |-> scores]

(***************************************************************************)
(* dam64: rows of the ledger reconciliation as captures.                   *)
(***************************************************************************)
RowToCapture(row, ts) ==
    LET abs == IF row.predicted < 0 THEN -row.predicted ELSE row.predicted
        input == IF abs < 1 THEN 1 ELSE abs
        out == IF input + row.predicted < 0 THEN 0 ELSE input + row.predicted
    IN  [ts |-> ts, seq |-> row.seq, slot |-> row.seq, dex |-> "Meteora", size |-> "Small",
         hour |-> "Normal", input |-> input, outs |-> <<out>>, realized |-> row.realized,
         won |-> row.decision = "WouldTrade"]

CapturesFromReport(rows) ==
    [i \in DOMAIN rows |-> RowToCapture(rows[i], (IF rows = <<>> THEN 0 ELSE rows[1].seq) + i - 1)]

(***************************************************************************)
(* The live trader.                                                        *)
(***************************************************************************)
(* A file that is missing or does not parse leaves every niche open.  The  *)
(* parameters made from calibration.json are used by nothing.              *)
Start ==
    /\ ~trader.up
    /\ trader' = [up |-> TRUE, seq |-> 0, writing |-> <<>>,
                  niches |-> IF niches \in {<<>>, <<Torn>>} THEN NoNiches ELSE niches[1]]
    /\ UNCHANGED <<file, done, faults, reports, ledger, niches, fitted>>

(* The age and the hour of a live cycle are constants of the gate.         *)
Gate(dex, size) ==
    trader.niches.loaded =>
        [dex |-> dex, age |-> "Mature", hour |-> "Normal", size |-> size] \in trader.niches.enabled

Refuse(dex, size) ==
    /\ trader.up /\ trader.writing = <<>> /\ ~Gate(dex, size)
    /\ trader.seq < MaxCaptures
    /\ trader' = [trader EXCEPT !.seq = @ + 1]
    /\ UNCHANGED <<file, done, faults, reports, ledger, niches, fitted>>

(* The bundle lost: counted, and never recorded. *)
Lose(dex, size) ==
    /\ trader.up /\ trader.writing = <<>> /\ Gate(dex, size)
    /\ trader.seq < MaxCaptures
    /\ trader' = [trader EXCEPT !.seq = @ + 1]
    /\ UNCHANGED <<file, done, faults, reports, ledger, niches, fitted>>

Ticks == Cardinality({i \in DOMAIN file : file[i] \notin {Newline, Torn}})

(* writeln writes the line and then its end.                               *)
Land(dex, size, hour, outs, tip) ==
    /\ trader.up /\ trader.writing = <<>> /\ Gate(dex, size)
    /\ Ticks < MaxCaptures /\ trader.seq < MaxCaptures
    /\ LET c == Capture(Ticks, trader.seq + 1, dex, size, hour, outs, tip)
       IN  /\ trader' = [trader EXCEPT !.seq = @ + 1, !.writing = <<c>>]
           /\ file' = Append(file, c)
    /\ UNCHANGED <<done, faults, reports, ledger, niches, fitted>>

(* Mutant: write! in the place of writeln!. *)
EndLineNever ==
    /\ trader.writing # <<>>
    /\ file' = file /\ done' = done + 1
    /\ trader' = [trader EXCEPT !.writing = <<>>]
    /\ UNCHANGED <<faults, reports, ledger, niches, fitted>>

EndLine ==
    /\ trader.writing # <<>>
    /\ file' = Append(file, Newline) /\ done' = done + 1
    /\ trader' = [trader EXCEPT !.writing = <<>>]
    /\ UNCHANGED <<faults, reports, ledger, niches, fitted>>

(* A write that fails is ignored; the line is whole or torn.               *)
FailWrite(torn) ==
    /\ trader.writing # <<>> /\ faults < MaxFaults
    /\ file' = IF torn THEN [file EXCEPT ![Len(file)] = Torn] ELSE file
    /\ trader' = [trader EXCEPT !.writing = <<>>]
    /\ faults' = faults + 1
    /\ UNCHANGED <<done, reports, ledger, niches, fitted>>

Stop(torn) ==
    /\ trader.up
    /\ trader.writing # <<>> => faults < MaxFaults
    /\ file' = IF torn /\ trader.writing # <<>> THEN [file EXCEPT ![Len(file)] = Torn] ELSE file
    /\ faults' = IF trader.writing # <<>> THEN faults + 1 ELSE faults
    /\ trader' = Down
    /\ UNCHANGED <<done, reports, ledger, niches, fitted>>

(***************************************************************************)
(* The commands.  A file that is being written is seen torn; a command     *)
(* that stops leaves it so.                                                *)
(***************************************************************************)
DailyReport(first, whole) ==
    /\ Len(reports) < MaxReports
    /\ reports' = Append(reports, IF whole THEN [rows |-> Reconcile(Captures), first_seen |-> first] ELSE Torn)
    /\ UNCHANGED <<file, trader, done, faults, ledger, niches, fitted>>

Niches(whole) ==
    /\ reports # <<>>
    /\ niches' = << IF whole THEN NicheConfig(NicheScore(reports)) ELSE Torn >>
    /\ UNCHANGED <<file, trader, done, faults, reports, ledger, fitted>>

CalibrateCaptures(whole, high, regular) ==
    /\ fitted' = << IF whole THEN FitWithOverfit(Captures, high, regular) ELSE Torn >>
    /\ UNCHANGED <<file, trader, done, faults, reports, ledger, niches>>

RowOf(n, r) == [seq |-> n, predicted |-> r.predicted, realized |-> r.realized,
                decision |-> IF r.realized > 0 THEN "WouldTrade" ELSE "WouldNotTrade"]

EmitReconciliation(rows) ==
    /\ ledger = <<>>
    /\ ledger' = << [n \in DOMAIN rows |-> RowOf(n - 1, rows[n])] >>
    /\ UNCHANGED <<file, trader, done, faults, reports, niches, fitted>>

CalibrateFrom(high, regular) ==
    /\ ledger # <<>>
    /\ fitted' = << FitWithOverfit(CapturesFromReport(ledger[1]), high, regular) >>
    /\ UNCHANGED <<file, trader, done, faults, reports, ledger, niches>>

LearningNext ==
    \/ Start \/ EndLine
    \/ \E d \in Dexes, s \in Sizes :
          \/ Refuse(d, s) \/ Lose(d, s)
          \/ \E h \in Hours, o \in Outs, t \in Tips : Land(d, s, h, o, t)
    \/ \E b \in BOOLEAN :
          FailWrite(b) \/ Stop(b) \/ Niches(b) \/ \E f \in FirstSeens : DailyReport(f, b)
    \/ \E w, h, r \in BOOLEAN : CalibrateCaptures(w, h, r)
    \/ \E l \in Ledgers : EmitReconciliation(l)
    \/ \E h, r \in BOOLEAN : CalibrateFrom(h, r)

LearningSpec == LearningInit /\ [][LearningNext]_learningVars

(***************************************************************************)
(* Properties.                                                             *)
(***************************************************************************)
(* JsonlCaptures: stops and failed writes lose at most one finished        *)
(* capture each, however they fall: the reader returns the others.         *)
CapturesSurvive == Len(Captures) + faults >= done

(* The rows of a class in the reports on disk. *)
Samples(c) ==
    {p \in UNION {{<<r, i>> : i \in DOMAIN reports[r].rows} :
                      r \in {q \in DOMAIN reports : reports[q] # Torn}} :
        Class(reports[p[1]].rows[p[2]], reports[p[1]].first_seen) = c}

(* What is concluded from captures stays within the evidence: a niche the  *)
(* running trader takes as open stood in enough rows of the reports on     *)
(* disk, and some of them gained, however many bundles landed without a    *)
(* tip; and no fit is certain that a cycle is detected (niche_score,       *)
(* niches_from_scores, fit, eval_params_from_calibration).  Of the chance  *)
(* to win nothing like it holds: one won capture that realized nothing is  *)
(* fitted to (1 + 1) / (0 + 2), which is one.                              *)
ConclusionsEarned ==
    /\ \A c \in trader.niches.enabled :
         /\ Cardinality(Samples(c)) >= MinSamples
         /\ \E p \in Samples(c) : reports[p[1]].rows[p[2]].realized > 0
    /\ fitted \notin {<<>>, <<Torn>>} => EvalParams(fitted[1]).detect < ProbOne
=============================================================================
