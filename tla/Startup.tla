------------------------------- MODULE Startup -------------------------------
(***************************************************************************)
(* The life of the processes: which command a start runs (dl-app main.rs   *)
(* 51-146), the mode gate (dl-signer livemode.rs), the stages of           *)
(* `run --submit-live` in their order (main.rs 252-567), the key file that *)
(* dl-signer writes and the trader decrypts (keystore.rs, bin/dl-signer),  *)
(* and the cap with its snapshot on disk (cap.rs).  A process may die      *)
(* between any two steps, and inside a write.                              *)
(*                                                                         *)
(* Nothing in the program persists the cap after a charge: Charge, Refund  *)
(* and Persist are the operations of CapState, in the hands of what the    *)
(* operator wires to the cycle stream.  Of the calendar only this matters: *)
(* is the last_reset of a cap, or of its snapshot, today?                  *)
(***************************************************************************)
EXTENDS Naturals

CONSTANTS
    DailyCap, PerBundle,    \* CapConfig::default
    MaxKeys, MaxStarts      \* bounds: keys generated, processes started

ASSUME StartupAssumption ==
    /\ {DailyCap, PerBundle} \subseteq Nat /\ PerBundle <= DailyCap
    /\ {MaxKeys, MaxStarts} \subseteq Nat

Settings == {"unset", "empty", "wrong", "devnet", "mainnet-paper", "mainnet"}
Passphrases == {0, 1, 2}    \* 0 when the variable is not set
Arguments == {"none", "recon", "reconcile", "config", "run", "metrics"}

NoFile == [key |-> 0, pass |-> 0, part |-> "none"]

VARIABLES
    stage,      \* where the process stands, "down" without one
    pass,       \* its passphrase
    key,        \* the key it decrypted or drew, 0 before
    keyfile,    \* the key file on disk
    drawn,      \* keys drawn so far
    cap,        \* CapState::spent_today
    past,       \* is its last_reset a day before today?
    snap,       \* the snapshot file: its form, what it says is spent, of today?
    tmp,        \* the temporary file next to it
    starts      \* processes started

keyVars  == <<pass, key, keyfile, drawn>>
capVars  == <<cap, past, snap, tmp>>
startVars == <<stage, keyVars, capVars, starts>>

Snap(form, spent, old) == [form |-> form, spent |-> spent, past |-> old]
NoSnap == Snap("none", 0, FALSE)

StartupInit ==
    /\ stage = "down" /\ starts = 0
    /\ pass = 0 /\ key = 0 /\ keyfile = NoFile /\ drawn = 0
    /\ cap = 0 /\ past = FALSE /\ snap = NoSnap /\ tmp = NoSnap

-----------------------------------------------------------------------------
(* The process ends and its memory is gone.  A temporary file has its      *)
(* process id in its name: no later process reads or renames it.           *)
End ==
    /\ stage' = "down" /\ pass' = 0 /\ key' = 0
    /\ cap' = 0 /\ past' = FALSE /\ tmp' = NoSnap

Exit ==
    /\ End
    /\ UNCHANGED <<keyfile, drawn, snap, starts>>

Crash == stage # "down" /\ Exit

(* Before anything else main looks at DL_DRY_RUN, then at the first        *)
(* argument, and without one at the variables of the capture.              *)
Command(dry, arg, capture) ==
    IF dry THEN "dry" ELSE IF arg # "none" THEN arg
    ELSE IF capture THEN "capture" ELSE "idle"

(* LiveMode::from_str of the variable. *)
Opted(setting) == setting \in {"devnet", "mainnet-paper", "mainnet"}

(* The stage a start gets to; "down" when it is refused: at the mode gate  *)
(* with code 0 for an unset and 2 for a wrong variable, or for want of an  *)
(* argument, before anything is touched.                                   *)
Reaches(command, setting, submit, arguments) ==
    CASE command = "run" /\ ~Opted(setting) -> "down"
      [] command = "run" /\ Opted(setting) /\ submit ->
            IF arguments THEN "key" ELSE "down"
      [] OTHER -> "other"

StartAs(reached, phrase) ==
    /\ stage = "down" /\ starts < MaxStarts
    /\ IF reached = "down" THEN UNCHANGED <<stage, starts, pass>>
       ELSE stage' = reached /\ starts' = starts + 1 /\ pass' = phrase
    /\ UNCHANGED <<key, keyfile, drawn, capVars>>

(* What the variables and arguments of a start may lead to. *)
Reached ==
    {Reaches(Command(dry, arg, capture), setting, submit, arguments) :
        dry \in BOOLEAN, arg \in Arguments, capture \in BOOLEAN,
        setting \in Settings, submit \in BOOLEAN, arguments \in BOOLEAN}

SignerReaches(command, setting, phrase) ==
    IF Opted(setting) /\ phrase # 0 THEN command ELSE "down"

SignerReached(phrase) ==
    {SignerReaches(command, setting, phrase) :
        command \in {"generate", "verify"}, setting \in Settings}

Start ==
    \E phrase \in Passphrases :
        \E reached \in Reached \cup SignerReached(phrase) :
            StartAs(reached, phrase)

(* dry run, recon, reconcile, config, metrics, capture and paper trading:  *)
(* whatever they do is none of this module's state.                        *)
OtherEnds == stage = "other" /\ Exit

-----------------------------------------------------------------------------
(* dl-signer. *)

(* KeyFile::save is fs::write: it truncates, then writes.                  *)
SavePart(part) ==
    /\ stage = "generate" /\ drawn < MaxKeys
    /\ \/ keyfile.part \in {"none", "whole"} /\ part = "short"
       \/ keyfile.part = "short" /\ part \in {"short", "cut"}
       \/ keyfile.part = "cut" /\ part = "short"
    /\ keyfile' = [key |-> drawn + 1, pass |-> pass, part |-> part]
    /\ UNCHANGED <<stage, pass, key, drawn, capVars, starts>>

(* The rest is written and the file decrypted from memory; the public key  *)
(* is printed.                                                             *)
Saved ==
    /\ stage = "generate" /\ drawn < MaxKeys
    /\ keyfile' = [key |-> drawn + 1, pass |-> pass, part |-> "whole"]
    /\ drawn' = drawn + 1
    /\ End
    /\ UNCHANGED <<snap, starts>>

SaveFails == stage = "generate" /\ Exit

(* KeyFile::from_bytes and decrypt: a file that was not written to its end *)
(* is refused by its length, another passphrase by the cipher's tag.       *)
Decrypts == keyfile.part = "whole" /\ pass = keyfile.pass

(* verify and drain-to. *)
Verify == stage = "verify" /\ Exit

-----------------------------------------------------------------------------
(* run_live_submit. *)

LoadKey ==
    /\ stage = "key"
    /\ IF Decrypts
       THEN /\ stage' = "tips" /\ key' = keyfile.key
            /\ UNCHANGED <<pass, keyfile, drawn, capVars,
                           starts>>
       ELSE Exit

(* populate_tip_accounts stores whatever list the engine answers with, and *)
(* next_tip_account takes from it, unless it is empty.                     *)
Populated(answer) == answer # "failed"
NextTipAccount(answer) == IF answer = "empty" THEN {} ELSE {answer}

(* The account on the command line is used in place of the engine's, but   *)
(* the engine is asked all the same; either must be a public key.          *)
TipAccounts(answer, argument) ==
    /\ stage = "tips"
    /\ IF /\ Populated(answer)
          /\ "key" \in IF argument # "none" THEN {argument} ELSE NextTipAccount(answer)
       THEN stage' = "prefund" /\ UNCHANGED <<keyVars, capVars, starts>>
       ELSE Exit

(* The vault is funded or not: either way the start goes on. *)
Prefunded ==
    /\ stage = "prefund" /\ stage' = "cap"
    /\ UNCHANGED <<keyVars, capVars, starts>>

(* CapState::load_or_init: what exists is loaded as it is, whatever its    *)
(* day, or refused; what is missing, or cannot be looked at, makes a fresh *)
(* state, which is stored as well as it can be.                            *)
LoadSnapshot ==
    IF snap.form = "good"
    THEN /\ stage' = "ready" /\ cap' = snap.spent /\ past' = snap.past
         /\ UNCHANGED <<keyVars, snap, tmp, starts>>
    ELSE Exit

FreshCap ==
    /\ stage' = "ready" /\ cap' = 0 /\ past' = FALSE
    /\ snap' \in {snap, Snap("good", 0, FALSE)}
    /\ UNCHANGED <<keyVars, tmp, starts>>

LoadOrInit(seen) ==
    /\ stage = "cap"
    /\ IF seen /\ snap # NoSnap THEN LoadSnapshot ELSE FreshCap

-----------------------------------------------------------------------------
(* The cap of a process that is ready. *)

(* UTC midnight: what was of today is of a day before.                     *)
Midnight ==
    /\ past' = (stage = "ready")
    /\ snap' = [snap EXCEPT !.past = snap # NoSnap]
    /\ tmp' = [tmp EXCEPT !.past = tmp # NoSnap]
    /\ UNCHANGED <<stage, keyVars, cap, starts>>

(* try_charge: the cap of a day before counts nothing, and stays at that   *)
(* when the tip is refused.                                                *)
SpentToday == IF past THEN 0 ELSE cap

Charge(t) ==
    /\ stage = "ready" /\ tmp = NoSnap
    /\ past' = FALSE
    /\ cap' = IF t <= PerBundle /\ SpentToday + t <= DailyCap
              THEN SpentToday + t ELSE SpentToday
    /\ UNCHANGED <<stage, keyVars, snap, tmp, starts>>

(* What a submission charged and did not send; no day turns here.          *)
Refund(t) ==
    /\ stage = "ready" /\ tmp = NoSnap
    /\ cap' = IF t > cap THEN 0 ELSE cap - t
    /\ UNCHANGED <<stage, keyVars, past, snap, tmp, starts>>

(* Mutant: the snapshot is written in its place. *)
PersistInPlace(form) ==
    /\ stage = "ready" /\ tmp = NoSnap
    /\ snap' = Snap(form, cap, past)
    /\ UNCHANGED <<stage, keyVars, cap, past, tmp, starts>>

(* CapState::persist: the temporary file is created and written ... *)
PersistWrite(form) ==
    /\ stage = "ready" /\ tmp = NoSnap
    /\ tmp' = Snap(form, cap, past)
    /\ UNCHANGED <<stage, keyVars, cap, past, snap, starts>>

(* ... and renamed once all of it is there, or left where it is.           *)
PersistRename ==
    /\ stage = "ready" /\ tmp.form = "good"
    /\ snap' = tmp /\ tmp' = NoSnap
    /\ UNCHANGED <<stage, keyVars, cap, past, starts>>

PersistFails ==
    /\ stage = "ready" /\ tmp # NoSnap /\ tmp' = NoSnap
    /\ UNCHANGED <<stage, keyVars, cap, past, snap, starts>>

(* The disk loses what the file holds. *)
Damage ==
    /\ stage = "down" /\ snap.form = "good"
    /\ snap' = [snap EXCEPT !.form = "bad"]
    /\ UNCHANGED <<stage, keyVars, cap, past, tmp, starts>>

(* Ctrl-C. *)
Interrupted == stage = "ready" /\ Exit

StartupStep ==
    \/ Start
    \/ \E part \in {"short", "cut"} : SavePart(part)
    \/ OtherEnds \/ Saved \/ SaveFails \/ Verify \/ LoadKey
    \/ \E answer \in {"failed", "empty", "junk", "key"}, argument \in {"none", "junk", "key"} :
          TipAccounts(answer, argument)
    \/ \E seen \in BOOLEAN : LoadOrInit(seen)
    \/ Midnight \/ PersistRename \/ PersistFails \/ Damage \/ Interrupted
    \/ \E t \in 1 .. PerBundle + 1 : Charge(t) \/ Refund(t)
    \/ \E form \in {"bad", "good"} : PersistWrite(form)

-----------------------------------------------------------------------------
(* A stop inside a write never leaves a snapshot that the next start must  *)
(* refuse: only a damaged disk does (cap.rs:246-276).                      *)
SnapshotWhole == [][snap'.form = "bad" => snap.form = "bad" \/ stage = "down"]_snap
=============================================================================
