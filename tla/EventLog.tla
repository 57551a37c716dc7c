------------------------------ MODULE EventLog ------------------------------
(* What a capture or a ledger promises: a log of events and a reader that  *)
(* returns them from the first on.  A write that fails half way tears the  *)
(* log; what is appended after that may be lost or be read as anything.    *)
EXTENDS Naturals, Sequences

CONSTANT Events

VARIABLES log,      \* the events written whole, up to the first torn frame
          torn,     \* a frame was torn
          read,     \* what the reader returned
          ended     \* the reader returned its last answer

logVars == <<log, torn, read, ended>>

Init == log = <<>> /\ torn = FALSE /\ read = <<>> /\ ended = FALSE

Append1 == /\ ~torn
           /\ \E e \in Events : log' = Append(log, e)
           /\ UNCHANGED <<torn, read, ended>>

Tear == /\ torn' = TRUE
        /\ UNCHANGED <<log, read, ended>>

(* Every event of the log is returned, in its place, before anything else. *)
Read1 == /\ ~ended
         /\ Len(read') = Len(read) + 1
         /\ read' = Append(read, read'[Len(read')])
         /\ IF Len(read) < Len(log) THEN read'[Len(read')] = log[Len(read')] ELSE torn
         /\ UNCHANGED <<log, torn, ended>>

End == /\ Len(read) >= Len(log)
       /\ ended' = TRUE
       /\ UNCHANGED <<log, torn, read>>

Next == Append1 \/ Tear \/ Read1 \/ End

Spec == Init /\ [][Next]_logVars
=============================================================================
