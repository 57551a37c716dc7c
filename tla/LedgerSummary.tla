--------------------------- MODULE LedgerSummary ---------------------------
(* What dl-ledger summary.rs computes over the entries of a ledger, and    *)
(* the totals the reports repeat.  An entry holds ev, the two bounds of    *)
(* the expected value, and decision.                                       *)
EXTENDS Integers, Sequences, FiniteSets, SequencesExt

Total(entries, f(_)) == FoldLeft(LAMBDA s, e : s + f(e), 0, entries)
Count(entries, d) == Cardinality({n \in DOMAIN entries : entries[n].decision = d})

(* The element of floor rank of the sorted values; 0 of none.              *)
Percentile(values, hundredths) ==
    LET n == Len(values)
        rank == IF (n * hundredths) \div 100 > n - 1 THEN n - 1 ELSE (n * hundredths) \div 100
    IN  IF n = 0 THEN 0 ELSE SortSeq(values, <)[rank + 1]

FromEntries(entries) ==
    LET con == [n \in DOMAIN entries |-> entries[n].ev.conservative]
    IN  [total |-> Len(entries), would_trade |-> Count(entries, "WouldTrade"),
         would_not_trade |-> Len(entries) - Count(entries, "WouldTrade"),
         optimistic |-> Total(entries, LAMBDA e : e.ev.optimistic),
         conservative |-> Total(entries, LAMBDA e : e.ev.conservative),
         median |-> Percentile(con, 50), p95 |-> Percentile(con, 95)]
=============================================================================
