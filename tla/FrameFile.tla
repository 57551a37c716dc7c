----------------------------- MODULE FrameFile ------------------------------
(* The two framed files: the capture of dl-feed (capture.rs, capturing.rs) *)
(* and the ledger of dl-ledger (writer.rs, reader.rs).  A frame is a length *)
(* and a payload, written one after the other, so a failing write or a     *)
(* stop of the process can leave any prefix of a frame behind.  A byte is  *)
(* abstracted to a cell that says which piece of which event it holds.     *)
EXTENDS Naturals, Sequences, SequencesExt, FiniteSets

CONSTANTS Event,      \* what is written
          Size,       \* Event -> cells of its payload
          LenCells,   \* cells of a length prefix (four bytes)
          MaxFrames,  \* bound: writes
          MaxFailures,\* bound: failing writes
          Garbage,    \* an event decoded from the wrong cells
          DecodeError \* the answer of bincode to cells that are no event

ASSUME FrameConstants ==
    /\ LenCells \in Nat \ {0} /\ {MaxFrames, MaxFailures} \subseteq Nat
    /\ \A e \in Event : Size[e] \in Nat \ {0}
    /\ {Garbage, DecodeError} \intersect Event = {}

VARIABLES
    kind,      \* "capture" or "ledger"
    file,      \* the cells behind the file header
    frames,    \* frames_written
    failures,  \* write_failures
    passed,    \* what the caller of the writer got or wrote
    writing,   \* the writing process runs
    pos,       \* cells the reader consumed
    out,       \* what the reader returned
    answer     \* "more", or how reading ended: "eof", "truncated", "decode"

fileVars == <<file, frames, failures, passed, writing>>
readVars == <<pos, out, answer>>
vars == <<kind, file, frames, failures, passed, writing, pos, out, answer>>

Cell(e, part, k) == [event |-> e, part |-> part, at |-> k]

Frame(e) == [k \in 1..LenCells |-> Cell(e, "len", k)]
            \o [k \in 1..Size[e] |-> Cell(e, "payload", k)]

Init ==
    /\ kind \in {"capture", "ledger"}
    /\ file = <<>> /\ frames = 0 /\ failures = 0 /\ passed = <<>>
    /\ writing = TRUE
    /\ pos = 0 /\ out = <<>> /\ answer = "more"

(***************************************************************************)
(* Writing                                                                 *)
(***************************************************************************)
(* write_event, write_entry: the counter grows only after both writes.     *)
WriteFrame(e) ==
    /\ writing /\ Len(passed) < MaxFrames
    /\ file' = file \o Frame(e)
    /\ frames' = frames + 1
    /\ passed' = Append(passed, e)
    /\ UNCHANGED <<kind, failures, writing, readVars>>

(* A write fails after n cells.  The tee counts it, passes the event on    *)
(* and keeps writing behind the torn frame; a ledger run returns the error. *)
WriteFails(e, n) ==
    /\ writing /\ Len(passed) < MaxFrames
    /\ failures < MaxFailures
    /\ file' = file \o SubSeq(Frame(e), 1, n)
    /\ failures' = failures + 1
    /\ passed' = Append(passed, e)
    /\ writing' = (kind = "capture")
    /\ UNCHANGED <<kind, frames, readVars>>

(* The process ends, possibly in the middle of a frame.                    *)
Stop ==
    /\ writing
    /\ writing' = FALSE
    /\ UNCHANGED <<kind, file, frames, failures, passed, readVars>>

StopInFrame(e, n) ==
    /\ writing /\ Len(passed) < MaxFrames
    /\ file' = file \o SubSeq(Frame(e), 1, n)
    /\ writing' = FALSE
    /\ UNCHANGED <<kind, frames, failures, passed, readVars>>

(***************************************************************************)
(* Reading                                                                 *)
(***************************************************************************)
Rest == SubSeq(file, pos + 1, Len(file))

(* The length read from LenCells cells: known if they are one prefix,      *)
(* anything if the reader is out of step.                                  *)
LengthsRead ==
    LET prefix == SubSeq(Rest, 1, LenCells)
    IN  IF \E e \in Event : prefix = SubSeq(Frame(e), 1, LenCells)
        THEN {Size[prefix[1].event]} ELSE 0..Len(Rest)

(* The payload decodes to its event; other cells decode to an error or to  *)
(* some event.                                                             *)
Decoded(n) ==
    LET payload == SubSeq(Rest, LenCells + 1, LenCells + n)
        whole   == {e \in Event : payload = SubSeq(Frame(e), LenCells + 1, LenCells + Size[e])}
    IN  IF whole # {} THEN whole ELSE {Garbage, DecodeError}

(* Mutant: the length of a frame is not drained with its payload. *)
ReturnsPayload(e, n) ==
    /\ out' = Append(out, e)
    /\ pos' = pos + n
    /\ answer' = answer

Returns(e, n) ==
    /\ out' = Append(out, e)
    /\ pos' = pos + LenCells + n
    /\ answer' = answer

Ends(how) == answer' = how /\ UNCHANGED <<pos, out>>

(* CapturedFeed::next_event: whatever stops it, the answer is None.        *)
NextEvent ==
    /\ kind = "capture" /\ ~writing /\ answer = "more"
    /\ \/ Len(Rest) < LenCells /\ Ends("eof")
       \/ /\ Len(Rest) >= LenCells
          /\ \E n \in LengthsRead :
                \/ Len(Rest) < LenCells + n /\ Ends("eof")
                \/ /\ Len(Rest) >= LenCells + n
                   /\ \E e \in Decoded(n) :
                         \/ e # DecodeError /\ Returns(e, n)
                         \/ e = DecodeError /\ Ends("eof")
    /\ UNCHANGED <<kind, fileVars>>

(* Mutant: a short length is the end of the ledger. *)
ReadEntryLenient ==
    /\ kind = "ledger" /\ ~writing /\ answer = "more"
    /\ \/ Len(Rest) < LenCells /\ Ends("eof")
       \/ /\ Len(Rest) >= LenCells
          /\ \E n \in LengthsRead :
                \/ Len(Rest) < LenCells + n /\ Ends("truncated")
                \/ /\ Len(Rest) >= LenCells + n
                   /\ \E e \in Decoded(n) \ {DecodeError} : Returns(e, n)
    /\ UNCHANGED <<kind, fileVars>>

(* LedgerReader::read_entry *)
ReadEntry ==
    /\ kind = "ledger" /\ ~writing /\ answer = "more"
    /\ \/ Rest = <<>> /\ Ends("eof")
       \/ Len(Rest) \in 1..(LenCells - 1) /\ Ends("truncated")
       \/ /\ Len(Rest) >= LenCells
          /\ \E n \in LengthsRead :
                \/ Len(Rest) < LenCells + n /\ Ends("truncated")
                \/ /\ Len(Rest) >= LenCells + n
                   /\ \E e \in Decoded(n) :
                         \/ e # DecodeError /\ Returns(e, n)
                         \/ e = DecodeError /\ Ends("decode")
    /\ UNCHANGED <<kind, fileVars>>

Torn(e) == 0..(LenCells + Size[e] - 1)

FileNext ==
    \/ \E e \in Event : WriteFrame(e)
    \/ \E e \in Event : \E n \in Torn(e) : WriteFails(e, n) \/ StopInFrame(e, n)
    \/ Stop
    \/ NextEvent
    \/ ReadEntry

(***************************************************************************)
(* What the file promises                                                  *)
(***************************************************************************)
(* The events whose frames stand whole from the start of a file.           *)
IntactOf(f) ==
    LET whole[n \in 0..Len(f)] ==
          IF n = Len(f) THEN <<>>
          ELSE LET e == f[n + 1].event
                   frame == Frame(e)
               IN  IF n + Len(frame) <= Len(f) /\ SubSeq(f, n + 1, n + Len(frame)) = frame
                   THEN <<e>> \o whole[n + Len(frame)] ELSE <<>>
    IN  whole[0]

CellsOf(s) == FoldLeft(LAMBDA n, e : n + LenCells + Size[e], 0, s)

Intact == IntactOf(file)
IntactCells == CellsOf(Intact)

Log == INSTANCE EventLog WITH
          Events <- Event,
          log    <- Intact,
          torn   <- IntactCells < Len(file),
          read   <- out,
          ended  <- answer # "more"

LogSpec == Log!Spec
=============================================================================
