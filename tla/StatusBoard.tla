----------------------------- MODULE StatusBoard -----------------------------
(***************************************************************************)
(* What the operator is shown: live_status.json, written once a second     *)
(* from the shared cap and kill switch (dl-app/src/live_status.rs).  It is *)
(* copied one field at a time while the trader, the operator with the STOP *)
(* file, and the end of the process change them.                           *)
(***************************************************************************)
EXTENDS Naturals

CONSTANTS
    MaxLosses,      \* KillSwitchConfig::max_consecutive_losses
    MaxTicks        \* bound: writer ticks

ASSUME BoardAssumption ==
    {MaxLosses, MaxTicks} \subseteq Nat

NoStatus == [spent |-> 0, open |-> FALSE, stop |-> FALSE, losses |-> 0,
             whole |-> FALSE]

VARIABLES
    losses,     \* KillSwitch::consecutive_losses
    stopFile,   \* is the STOP file there?
    ksHeld,     \* does the writer hold the kill switch?
    wpc,        \* where the writer stands in its tick
    ticks,      \* ticks begun
    draft,      \* what the tick has read
    statusTmp,  \* live_status.json.tmp
    status      \* live_status.json

switchVars == <<losses, stopFile>>
tickVars   == <<ksHeld, wpc, ticks, draft, statusTmp, status>>
boardVars  == <<switchVars, tickVars>>

BoardInit ==
    /\ losses = 0 /\ stopFile = FALSE
    /\ ksHeld = FALSE /\ wpc = "wait" /\ ticks = 0 /\ draft = NoStatus
    /\ statusTmp = NoStatus /\ status = NoStatus

-----------------------------------------------------------------------------
(* What the writer reads from.  The kill switch is changed under its lock; *)
(* the STOP file is anybody's.                                             *)

RecordLost ==
    /\ ~ksHeld /\ losses < MaxLosses /\ losses' = losses + 1
    /\ UNCHANGED <<stopFile, tickVars>>

RecordLanded ==
    /\ ~ksHeld /\ losses' = 0
    /\ UNCHANGED <<stopFile, tickVars>>

TouchStop ==
    /\ stopFile' = ~stopFile
    /\ UNCHANGED <<losses, tickVars>>

-----------------------------------------------------------------------------
(* tick_once, step by step. *)

Tick(from, to, field, value) ==
    /\ wpc = from /\ wpc' = to
    /\ draft' = [draft EXCEPT ![field] = value]
    /\ UNCHANGED <<switchVars, ticks, statusTmp, status>>

(* The cap is copied under its lock. *)
TickCap(spent) ==
    /\ ticks < MaxTicks /\ ticks' = ticks + 1
    /\ wpc = "wait" /\ wpc' = "check" /\ ksHeld' = TRUE
    /\ draft' = [NoStatus EXCEPT !.spent = spent]
    /\ UNCHANGED <<switchVars, statusTmp, status>>

(* Mutant: the lock is given back between the check and the fields. *)
TickCheckUnlocks ==
    /\ Tick("check", "stop", "open", stopFile \/ losses >= MaxLosses)
    /\ ksHeld' = FALSE

(* KillSwitch::check, with the switch locked. *)
TickCheck ==
    /\ Tick("check", "stop", "open", stopFile \/ losses >= MaxLosses)
    /\ UNCHANGED ksHeld

(* stop_file_present asks the file system again. *)
TickStop == Tick("stop", "losses", "stop", stopFile) /\ UNCHANGED ksHeld

(* The losses are read, the lock given back and the inputs cloned. *)
TickLosses == Tick("losses", "write", "losses", losses) /\ ksHeld' = FALSE

Written == [draft EXCEPT !.whole = TRUE]

(* The reason that goes with an open switch, from what was read. *)
ReasonOf(s) ==
    IF ~s.open THEN {}
    ELSE IF s.stop /\ s.losses >= MaxLosses THEN {"stop file", "losses"}
    ELSE IF s.stop THEN {"stop file"} ELSE {"losses"}

(* write_atomic: part of the record is in the temporary file ... *)
WritePart ==
    /\ wpc = "write" /\ wpc' = "sync" /\ statusTmp' = draft
    /\ UNCHANGED <<switchVars, ksHeld, ticks, draft, status>>

(* ... then all of it, on disk, ...                                        *)
WriteSync ==
    /\ wpc = "sync" /\ wpc' = "rename" /\ statusTmp' = Written
    /\ UNCHANGED <<switchVars, ksHeld, ticks, draft, status>>

(* ... then it takes its place, or is removed when it cannot.              *)
Rename ==
    /\ wpc = "rename" /\ wpc' = "wait" /\ draft' = NoStatus
    /\ status' \in {status, statusTmp} /\ statusTmp' = NoStatus
    /\ UNCHANGED <<switchVars, ksHeld, ticks>>

(* Creating, writing or syncing fails: the tick is given up, what was      *)
(* written stays.                                                          *)
WriteFails ==
    /\ wpc \in {"write", "sync"} /\ wpc' = "wait" /\ draft' = NoStatus
    /\ UNCHANGED <<switchVars, ksHeld, ticks, statusTmp, status>>

-----------------------------------------------------------------------------
BoardStep(spent) ==
    \/ RecordLost \/ RecordLanded \/ TouchStop
    \/ TickCap(spent) \/ TickCheck \/ TickStop \/ TickLosses
    \/ WritePart \/ WriteSync \/ Rename \/ WriteFails

(* The process is gone; the files stay. *)
BoardEnds ==
    /\ losses' = 0 /\ ksHeld' = FALSE /\ wpc' = "wait" /\ draft' = NoStatus
    /\ UNCHANGED <<stopFile, ticks, statusTmp, status>>

-----------------------------------------------------------------------------
(* The record on disk is always a whole one, and it never shows a breaker  *)
(* at its limit next to a closed switch, or for another reason: the losses *)
(* are read under the lock of the check (live_status.rs:194-227, 274-309). *)
StatusTruthful ==
    status # NoStatus =>
        /\ status.whole
        /\ status.losses >= MaxLosses =>
              status.open /\ "losses" \in ReasonOf(status)
=============================================================================
