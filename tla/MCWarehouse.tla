---------------------------- MODULE MCWarehouse ----------------------------
(* Two inputs: two files with a row that comes back, a row that does not   *)
(* validate, for two reasons, and a blank line; and one file that brings   *)
(* that row again, as it should be, before a line that is no UTF-8.  The   *)
(* reports have entries of a day's rows and of a row of another day.       *)
EXTENDS Warehouse

MCRows  == {"a", "b"}

In(id, defects) == [id |-> id, defects |-> defects]

MCInputs ==
    { << << In("a", {}), In("b", {"decision", "no legs"}) >>,
         << In("-", {"blank"}), In("a", {}) >> >>,
      << << In("b", {}), In("a", {}), In("-", {"not utf-8"}) >> >> }

Entry(id, matched, drift) ==
    [id |-> id, matched |-> matched, drift |-> drift, differs |-> drift > 3]

MCReportIds == {"a", "b", "z"}

MCReports ==
    << << Entry("a", TRUE, 5), Entry("z", TRUE, 9), Entry("b", FALSE, -2) >>,
       << Entry("a", FALSE, 1) >> >>
=============================================================================
