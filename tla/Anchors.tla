------------------------------ MODULE Anchors ------------------------------
(* The macro anchors of dl-recon onchain.rs: aggregates of a replay report *)
(* against numbers observed on chain, and the fit of base_win_ppm to them. *)
(* A report holds records (entries with ev, decision, tip), events and     *)
(* summary; a dataset is a sequence of anchors [name, value].              *)
EXTENDS LedgerSummary

CONSTANTS Ppm, PpmPerBp,    \* 1_000_000 and 1_000
          Malformed         \* a line serde refuses

ASSUME PpmPositive == Ppm \in Nat \ {0} /\ PpmPerBp \in Nat

AnchorNames == {"AttemptCount", "LandedArbCount", "MeanTipLamports",
                "MedianWinnerPnlSol", "P95WinnerPnlSol", "TipAsPctOfMev"}

ToleranceBps == [name \in AnchorNames |->
    CASE name \in {"AttemptCount", "LandedArbCount"} -> 500
      [] name \in {"MeanTipLamports", "MedianWinnerPnlSol"} -> 1000
      [] name = "TipAsPctOfMev" -> 1500
      [] OTHER -> 2000]

Magnitude(x) == IF x < 0 THEN -x ELSE x

(* Rust's / on signed integers rounds towards zero.                        *)
Quotient(x, y) == IF x < 0 THEN -((-x) \div y) ELSE x \div y

Gain(x) == IF x > 0 THEN x ELSE 0

(* A duplicate name, an unreadable line or no anchor at all is refused.    *)
LoadAnchors(lines) ==
    LET refused == \/ lines = <<>>
                   \/ \E i \in DOMAIN lines : lines[i] = Malformed
                   \/ \E i, j \in DOMAIN lines : i # j /\ lines[i].name = lines[j].name
    IN  [ok |-> ~refused, entries |-> IF refused THEN <<>> ELSE lines]

(* MeanTip is the total of the tips, and the winners' PnL a magnitude.     *)
EngineAggregate(report, name) ==
    LET mev == Total(report.records, LAMBDA r : Gain(r.ev.conservative))
    IN  CASE name = "AttemptCount" -> report.events
          [] name = "LandedArbCount" -> report.summary.would_trade
          [] name = "MeanTipLamports" -> report.tips
          [] name = "MedianWinnerPnlSol" -> Magnitude(report.summary.median)
          [] name = "P95WinnerPnlSol" -> Magnitude(report.summary.p95)
          [] OTHER -> IF mev = 0 THEN 0 ELSE (report.tips * 10000) \div mev

Bps(engine, anchor) == Quotient((engine - anchor) * 10000, anchor)

Divergence(name, engine, anchor) ==
    LET bps == IF anchor = 0 THEN 0 ELSE Bps(engine, anchor)
    IN  [name |-> name, engine |-> engine, anchor |-> anchor, bps |-> bps,
         exceeds |-> IF anchor = 0 THEN engine # 0 ELSE Magnitude(bps) > ToleranceBps[name]]

Compare(dataset, report) ==
    [i \in DOMAIN dataset |->
        Divergence(dataset[i].name, EngineAggregate(report, dataset[i].name), dataset[i].value)]

(* One bp of average divergence moves base_win_ppm by PpmPerBp.               *)
Shifted(divs, winPpm) ==
    LET avg == IF divs = <<>> THEN 0 ELSE Quotient(Total(divs, LAMBDA d : d.bps), Len(divs))
        moved == winPpm - avg * PpmPerBp
    IN  [bps |-> avg, ppm |-> IF moved < 0 THEN 0 ELSE IF moved > Ppm THEN Ppm ELSE moved]

(* The engine value is scaled by new * Ppm / old, which is never divided   *)
(* by Ppm again.                                                           *)
Remains(d, old, new) ==
    LET adjusted == (d.engine * new * Ppm) \div (IF old > 1 THEN old ELSE 1)
    IN  d.anchor # 0 /\ Magnitude(Bps(adjusted, d.anchor)) > ToleranceBps[d.name]

Calibrate(divs, winPpm) ==
    LET new == Shifted(divs, winPpm)
    IN  [adjustment |-> new.bps, ppm |-> new.ppm,
         remaining |-> SelectSeq(divs, LAMBDA d : Remains(d, winPpm, new.ppm))]
=============================================================================
