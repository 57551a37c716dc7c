----------------------------- MODULE CycleLines -----------------------------
(***************************************************************************)
(* What the pipeline reads of a line of cycle.v1 JSONL (ingest/mod.rs      *)
(* parse_cycle_v1_line, validate.rs), and the daily join of the            *)
(* reconciliation reports with the day's rows (recon.rs).                  *)
(*                                                                         *)
(* A line is the id it carries and its defects, each the name of the check *)
(* it fails; a line without defects parses as a row.                       *)
(***************************************************************************)
EXTENDS Integers, Sequences, FiniteSets, FiniteSetsExt, SequencesExt

(* The checks in the order they are made, and the reason each gives.  The  *)
(* legs are looked at one after the other: "leg" defects are those of the  *)
(* first leg that has one.                                                 *)
Checks ==
    << <<"secret", "SigningMaterial">>, <<"not json", "NotJson">>,
       <<"no schema", "SchemaMissing">>, <<"other schema", "SchemaUnknown">>,
       <<"id", "CycleIdInvalid">>, <<"time", "FieldTypeWrong">>,
       <<"legs", "FieldTypeWrong">>, <<"no legs", "LegsEmpty">>,
       <<"leg pool", "FieldTypeWrong">>, <<"leg dex", "DexInvalid">>,
       <<"leg direction", "DirectionInvalid">>,
       <<"leg weight", "FieldTypeWrong">>,
       <<"dexes", "FieldTypeWrong">>, <<"dex", "DexInvalid">>,
       <<"number", "FieldTypeWrong">>, <<"decision", "DecisionInvalid">>,
       <<"evaluator", "EvaluatorInvalid">>,
       <<"source feed", "SourceFeedInvalid">>,
       <<"bot run id", "FieldTypeWrong">>, <<"private", "PrivateField">>,
       <<"re-parse", "FieldTypeWrong">>, <<"date", "FieldTypeWrong">> >>

Valid(line) == line.defects = {}

Failed(line) == {k \in DOMAIN Checks : Checks[k][1] \in line.defects}

Reason(line) == Checks[Min(Failed(line))][2]

(* "blank" lines are passed over; one that is no UTF-8 ends the run.       *)
Blank(line)    == "blank" \in line.defects
Unreadable(line) == "not utf-8" \in line.defects

-----------------------------------------------------------------------------
(* reconcile: a report is a sequence of entries [id, matched, drift,       *)
(* differs]; only those of the day's rows count.  The join is the set of   *)
(* their places among all entries.                                         *)

Entries(reports) == FlattenSeq(reports)

(* Mutant: an entry of another day counts. *)
JoinAll(reports, ids) == DOMAIN Entries(reports)

Join(reports, ids) ==
    {k \in DOMAIN Entries(reports) : Entries(reports)[k].id \in ids}

(* percentile: of the drifts, that of the nearest rank, rounded up. *)
Rank(n, pct) == Max({1, (pct * n + 99) \div 100})

Percentile(joined, drift, pct) ==
    IF joined = {} THEN 0
    ELSE CHOOSE d \in {drift[k] : k \in joined} :
           LET rank == Rank(Cardinality(joined), pct)
           IN  /\ Cardinality({k \in joined : drift[k] < d}) < rank
               /\ rank <= Cardinality({k \in joined : drift[k] <= d})

(* The row of daily_recon_v1, of the rows read from the partition. *)
DailyRow(emitted, joined, reports) ==
    LET entries == Entries(reports)
        drifts  == [k \in joined |-> entries[k].drift]
    IN  [emitted   |-> emitted,
         matched   |-> Cardinality({k \in joined : entries[k].matched}),
         unmatched |-> Cardinality({k \in joined : ~entries[k].matched}),
         differs   |-> Cardinality({k \in joined : entries[k].differs}),
         p50       |-> Percentile(joined, drifts, 50),
         p99       |-> Percentile(joined, drifts, 99),
         reports   |-> Len(reports)]
=============================================================================
