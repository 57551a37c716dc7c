------------------------------ MODULE TipBudget ------------------------------
(***************************************************************************)
(* What the daily tip cap promises, without saying how it is kept: tips    *)
(* are reserved before a bundle is built, and a reservation ends as money  *)
(* the day is charged for or is given back.  LiveSubmit implements it.     *)
(*                                                                         *)
(* A restart forgets the day.  That makes it weaker than the promise of    *)
(* dl-signer/src/cap.rs:17-26, and it is all the program keeps.            *)
(***************************************************************************)
EXTENDS Naturals

CONSTANTS
    DailyCap,       \* CapConfig::daily_lamports
    PerBundleCap    \* CapConfig::per_bundle_lamports

VARIABLES
    committed,  \* lamports the current day is charged for, for good
    reserved,   \* lamports held for the bundle being prepared (0: none)
    day,        \* the day `committed` is counted for
    up          \* is a process running?

vars == <<committed, reserved, day, up>>

Init == committed = 0 /\ reserved = 0 /\ up = FALSE

(* What is already charged when the books are open on day d. *)
Carried(d) == IF d = day THEN committed ELSE 0

Reserve(t) ==
    /\ up /\ reserved = 0
    /\ t <= PerBundleCap
    /\ day' >= day
    /\ Carried(day') + t <= DailyCap
    /\ committed' = Carried(day')
    /\ reserved' = t
    /\ UNCHANGED up

(* The books are opened on a later day and nothing is reserved. *)
OpenDay ==
    /\ up /\ reserved = 0
    /\ day' > day
    /\ committed' = 0
    /\ UNCHANGED <<reserved, up>>

Release == up /\ reserved' = 0 /\ UNCHANGED <<committed, day, up>>

Commit ==
    /\ up
    /\ committed' = committed + reserved
    /\ reserved' = 0
    /\ UNCHANGED <<day, up>>

Die == up /\ up' = FALSE /\ UNCHANGED <<committed, reserved, day>>

(* A restart without a record of the day, which may take up an older one. *)
Restart == ~up /\ up' = TRUE /\ committed' = 0 /\ reserved' = 0

Next ==
    \/ \E t \in 0 .. PerBundleCap : Reserve(t)
    \/ OpenDay \/ Release \/ Commit \/ Die \/ Restart

Spec == Init /\ [][Next]_vars
=============================================================================
