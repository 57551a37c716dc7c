------------------------------ MODULE MCBooks ------------------------------
(* Two cycles, one that trades and one that does not, with the lines every *)
(* writer of the cycles file leaves, and four kinds of answer of a chain.  *)
(* One trader, a few captures of one leg.  Books and Learning share no     *)
(* state, so a behaviour is about one of them, the one that "work" names.  *)
EXTENDS Books, Learning, TLC

VARIABLE work

Ev(opt, con, tip) == [ev |-> [optimistic |-> opt, conservative |-> con], tip |-> tip]
MCEvaluations == {Ev(30, 20, 10), Ev(3, -4, 0)}

Line(kind, cycle, decision, bps, input) ==
    [writes |-> kind, cycle |-> cycle, decision |-> decision, bps |-> bps, input |-> input]

MCLines ==
    {Malformed, Line("debug_text", "c1", "none", 300, 0),
     Line("ledger_hash", "c1", "none", 300, 0)}
    \union {Line("ledger_hash", c, "none", 0, 0) : c \in Cycles}
    \union {Line("ledger_hash", c, "WouldTrade", 300, 1000) : c \in Cycles}
    \union {Line("ledger_hash", "c1", "WouldNotTrade", 30, 1000),
            Line("blake3", "c1", "WouldTrade", 300, 1000)}

Anchor(name, value) == [name |-> name, value |-> value]
MCDatasets ==
    { <<>>, << <<>> >>, << <<Anchor("AttemptCount", 2), Anchor("AttemptCount", 2)>> >>,
      << <<Anchor("AttemptCount", 2), Anchor("LandedArbCount", 1)>> >>,
      << <<Anchor("MedianWinnerPnlSol", 4), Anchor("P95WinnerPnlSol", 20),
           Anchor("MeanTipLamports", 10), Anchor("TipAsPctOfMev", 5000)>> >>,
      << <<Anchor("LandedArbCount", 0), Malformed>> >> }

Fetch(pre, post, tip, landed, reverted) ==
    [pre |-> pre, post |-> post, funded |-> 5, tip |-> tip, landed |-> landed, reverted |-> reverted]
MCAnswers ==
    {Missing, Fetch(100, 120, 10, TRUE, FALSE), Fetch(100, 95, 13, TRUE, TRUE),
     Fetch(100, 105, 10, TRUE, TRUE), Fetch(100, 105, 10, FALSE, FALSE)}

MCOuts == {<<1, 2>>}
R(p, r) == [predicted |-> p, realized |-> r]
MCLedgers == {<<R(3, 3), R(-2, 0)>>, <<R(-2, -2), R(0, 3)>>}

MCInit == Init /\ LearningInit /\ work \in {"books", "learning"}

MCNext ==
    \/ work = "books" /\ Next /\ UNCHANGED <<learningVars, work>>
    \/ work = "learning" /\ LearningNext /\ UNCHANGED <<vars, work>>

MCSpec == MCInit /\ [][MCNext]_<<vars, learningVars, work>>
=============================================================================
