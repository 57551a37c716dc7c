------------------------------ MODULE MCReplay ------------------------------
(* Five snapshots of four pools of every kind over three mints: a pair     *)
(* whose prices differ, a triangle, a whirlpool above price 1.             *)
EXTENDS Replay, TLC

Snap(a, kind, base, quote, rb, rq, fee) ==
    [address |-> a, kind |-> kind, base |-> base, quote |-> quote, rb |-> rb, rq |-> rq,
     fee |-> fee, slot |-> 0, sqrt |-> 360, x |-> rb, y |-> rq]

(* Two pools of one pair that a synthetic universe would hold, and others. *)
MCSynthetic ==
    SynthesizePools(<< [address |-> "p1", base_reserve |-> 600, quote_reserve |-> 600, fee_bps |-> 1],
                       [address |-> "p2", base_reserve |-> 600, quote_reserve |-> 650, fee_bps |-> 1] >>,
                    <<"a", "b">>)

MCSnapshots ==
    { MCSynthetic[1], MCSynthetic[2], Snap("p1", "raydium", "a", "b", 400, 900, 1),
      Snap("p3", "dlmm", "b", "c", 700, 700, 2),
      Snap("p4", "raydium", "c", "a", 300, 900, 0), Snap("p5", "whirlpool", "a", "b", 30, 30, 1) }

MCByAddress == <<"p1", "p2", "p3", "p4", "p5">>
MCCost == [signatures |-> 1, cu |-> 10, price |-> 1, tip |-> 1]

(* The conservative preset with a win rate that is higher and does not     *)
(* fall: gains on small reserves are whole percents of the input, at which *)
(* the preset itself never wins.                                           *)
MCConservative ==
    [ConservativeDefault(1) EXCEPT !.competition.threshold = 1000, !.competition.decay = 0,
                                   !.competition.base = Percent(80)]
=============================================================================
