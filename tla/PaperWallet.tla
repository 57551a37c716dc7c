---------------------------- MODULE PaperWallet ----------------------------
(***************************************************************************)
(* The paper wallet of the live trader: dl-paper/src/lib.rs and the part   *)
(* of dl-app/src/main.rs that fills it (evaluate_and_write_cycles,         *)
(* append_cycle_jsonl, the loading at the top of run_live_paper).          *)
(*                                                                         *)
(* A trade goes to memory, then to wallet.json (a temporary file and a     *)
(* rename), then as a line to cycles.jsonl.  The process may die between   *)
(* any two of these, each write may fail, and a restart loads the file.    *)
(* Nothing is synced, so a power loss may take back what was written since *)
(* the operating system last wrote the files back.                         *)
(*                                                                         *)
(* A trade is its profit in units of the tip; its id is its position.      *)
(***************************************************************************)
EXTENDS Integers, SequencesExt

CONSTANTS
    Start,      \* the balance of a new wallet
    Profits,    \* what a trade may bring, negative for a lost tip
    MaxBatch,   \* bound: cycles one pool update detects
    MaxTrades,  \* bound: trades of the wallet
    MaxBoots    \* bound: starts of the process

ASSUME WalletAssumption ==
    Start \in Nat /\ Profits \subseteq Int
    /\ MaxBatch \in Nat \ {0} /\ MaxTrades \in Nat /\ MaxBoots \in Nat

Fresh == [balance |-> Start, trades |-> <<>>]

VARIABLES
    pc,         \* "down", "loop", "cycles", "write", "rename", "append"
    left,       \* cycles of the batch still to be looked at
    wallet,     \* PaperWallet in memory
    file,       \* what loading wallet.json gives: one wallet, or {}
    durable,    \* what of it is known to be on disk
    lines,      \* cycles.jsonl: trade ids, and 0 for an unreadable line
    torn,       \* does cycles.jsonl end without a newline?
    flushed,    \* how many of the lines are known to be on disk
    unread,     \* did the process start without the file that was there?
    boots,      \* history: starts of the process
    lost,       \* history: has a wallet on disk been given up?
    excused     \* history: the lines a failure or a crash may have cost

disk == <<file, durable, lines, torn, flushed>>
vars == <<pc, left, wallet, disk, unread, boots, lost, excused>>

Init ==
    /\ pc = "down" /\ left = 0 /\ wallet = Fresh
    /\ file = {} /\ durable = {} /\ lines = <<>> /\ torn = FALSE /\ flushed = 0
    /\ unread = FALSE /\ boots = 0 /\ lost = FALSE /\ excused = 0

(* run_live_paper: no file, or one that does not parse, means a new wallet. *)
Loaded == IF file = {} THEN {Fresh} ELSE file

(* Mutant: the file is not looked at. *)
BootAfresh ==
    /\ pc = "down" /\ boots < MaxBoots
    /\ wallet' = Fresh
    /\ pc' = "loop" /\ left' = 0 /\ boots' = boots + 1 /\ unread' = FALSE
    /\ UNCHANGED <<disk, lost, excused>>

Boot ==
    /\ pc = "down" /\ boots < MaxBoots
    /\ wallet' \in Loaded
    /\ pc' = "loop" /\ left' = 0 /\ boots' = boots + 1 /\ unread' = FALSE
    /\ UNCHANGED <<disk, lost, excused>>

(* The file is there, but asking for it or reading it fails: any error     *)
(* means a new wallet.                                                     *)
BootUnread ==
    /\ pc = "down" /\ boots < MaxBoots /\ file # {}
    /\ wallet' = Fresh
    /\ pc' = "loop" /\ left' = 0 /\ boots' = boots + 1 /\ unread' = TRUE
    /\ lost' = TRUE
    /\ UNCHANGED <<disk, excused>>

(* The event loop hands a batch of cycles to evaluate_and_write_cycles. *)
Detect(n) ==
    /\ pc = "loop"
    /\ left' = n /\ pc' = "cycles"
    /\ UNCHANGED <<wallet, disk, unread, boots, lost, excused>>

(* The next cycle of the batch, or the end of it. *)
Advance ==
    /\ left' = left - 1
    /\ pc' = IF left = 1 THEN "loop" ELSE "cycles"

Break == left' = 0 /\ pc' = "loop"

(* A sizer, simulation or net-profit error, or a decision not to trade. *)
Skip ==
    /\ pc = "cycles" /\ Advance
    /\ UNCHANGED <<wallet, disk, unread, boots, lost, excused>>

(* Mutant: the magnitude of a loss is not compared. *)
AffordableAnyLoss(p) == p >= 0 \/ wallet.balance > 0

Affordable(p) == p >= 0 \/ -p <= wallet.balance

(* saturating_add and saturating_sub on the balance *)
Credit(b, p) == IF b + p < 0 THEN 0 ELSE b + p

(* PaperWallet::execute *)
Execute(p) ==
    /\ pc = "cycles" /\ Affordable(p) /\ Len(wallet.trades) < MaxTrades
    /\ wallet' = [balance |-> Credit(wallet.balance, p),
                  trades |-> Append(wallet.trades, p)]
    /\ pc' = "write"
    /\ UNCHANGED <<left, disk, unread, boots, lost, excused>>

InsufficientFunds(p) ==
    /\ pc = "cycles" /\ ~Affordable(p) /\ Break
    /\ UNCHANGED <<wallet, disk, unread, boots, lost, excused>>

(* PaperWallet::save: the temporary file *)
WriteTmp ==
    /\ pc = "write" /\ pc' = "rename"
    /\ UNCHANGED <<left, wallet, disk, unread, boots, lost, excused>>

(* Mutant: only the last trade of a batch gets a line. *)
RenameOneLinePerBatch ==
    /\ pc = "rename"
    /\ IF left = 1 THEN pc' = "append" /\ UNCHANGED left ELSE Advance
    /\ file' = {wallet} /\ unread' = FALSE
    /\ UNCHANGED <<wallet, durable, lines, torn, flushed, boots, lost, excused>>

(* PaperWallet::save: the rename, which nothing has synced *)
Rename ==
    /\ pc = "rename" /\ pc' = "append"
    /\ file' = {wallet} /\ unread' = FALSE
    /\ UNCHANGED <<left, wallet, durable, lines, torn, flushed, boots, lost,
                   excused>>

(* Either step of the save fails: the trade stays in memory, the rest of   *)
(* the batch is dropped.                                                   *)
SaveFails ==
    /\ pc \in {"write", "rename"} /\ Break
    /\ excused' = excused + 1
    /\ UNCHANGED <<wallet, disk, unread, boots, lost>>

(* append_cycle_jsonl: a line after a torn one is part of the same line.   *)
AppendLine ==
    /\ pc = "append" /\ Advance
    /\ lines' = Append(lines, IF torn THEN 0 ELSE Len(wallet.trades))
    /\ torn' = FALSE
    /\ UNCHANGED <<wallet, file, durable, flushed, unread, boots, lost, excused>>

(* The line that is due is not written, and when part of it is (tearing),  *)
(* the line after it is lost as well, once.                                *)
LineLost(tearing) ==
    /\ torn' = (torn \/ tearing)
    /\ excused' = excused + 1 + (IF tearing /\ ~torn THEN 1 ELSE 0)

(* append_cycle_jsonl cannot open the file, or write_all fails, with part  *)
(* of the line written or none of it: reported, and the loop goes on.      *)
AppendFails(tearing) ==
    /\ pc = "append" /\ Advance
    /\ LineLost(tearing)
    /\ UNCHANGED <<wallet, file, durable, lines, flushed, unread, boots, lost>>

Down == pc' = "down" /\ left' = 0 /\ wallet' = Fresh /\ unread' = FALSE

(* The process is stopped or reaches its deadline, between any two steps,  *)
(* or in the middle of writing a line.                                     *)
Stop ==
    /\ pc # "down" /\ pc # "append" /\ Down
    /\ UNCHANGED <<disk, boots, lost, excused>>

StopAtLine(tearing) ==
    /\ pc = "append" /\ Down
    /\ LineLost(tearing)
    /\ UNCHANGED <<file, durable, lines, flushed, boots, lost>>

(* The machine goes down.  A renamed file that was not written back may be *)
(* the old one again or an empty one; of cycles.jsonl what was not written *)
(* back may be missing, from any byte on.                                  *)
LosePower(kept, tearing) ==
    /\ pc # "down" /\ Down
    /\ file' \in {file, durable, {}}
    /\ file = durable => file' = file
    /\ lost' = (lost \/ file' # file)
    /\ durable' = file'
    /\ lines' = SubSeq(lines, 1, kept) /\ flushed' = kept
    /\ torn' = tearing
    /\ tearing => torn \/ pc = "append" \/ kept < Len(lines)
    /\ excused' = excused + (Len(lines) - kept)
                     + (IF pc = "append" THEN 1 ELSE 0)
                     + (IF tearing /\ ~torn THEN 1 ELSE 0)
    /\ UNCHANGED boots

(* The operating system writes a file back. *)
WriteBack ==
    /\ durable # file
    /\ durable' = file
    /\ UNCHANGED <<pc, left, wallet, file, lines, torn, flushed, unread, boots,
                   lost, excused>>

WriteBackLines ==
    /\ flushed # Len(lines)
    /\ flushed' = Len(lines)
    /\ UNCHANGED <<pc, left, wallet, file, durable, lines, torn, unread, boots,
                   lost, excused>>

Next ==
    \/ Boot \/ BootUnread \/ Skip \/ WriteTmp \/ Rename \/ SaveFails
    \/ AppendLine \/ Stop \/ WriteBack \/ WriteBackLines
    \/ \E tearing \in BOOLEAN : AppendFails(tearing) \/ StopAtLine(tearing)
    \/ \E kept \in flushed .. Len(lines), tearing \in BOOLEAN :
          LosePower(kept, tearing)
    \/ \E n \in 1 .. MaxBatch : Detect(n)
    \/ \E p \in Profits : Execute(p) \/ InsufficientFunds(p)

Spec == Init /\ [][Next]_vars

-----------------------------------------------------------------------------
(* PaperWallet::stats: one pass over the trades. *)

Counted(s, p) ==
    [s EXCEPT !.wins = IF p > 0 THEN @ + 1 ELSE @,
              !.losses = IF p < 0 THEN @ + 1 ELSE @,
              !.total_pnl = @ + p]

StatsStep(s, p) ==
    LET running == Credit(s.running, p)
        peak == IF running > s.peak THEN running ELSE s.peak
    IN  [Counted(s, p) EXCEPT !.running = running, !.peak = peak,
            !.max_drawdown = IF peak - running > @ THEN peak - running ELSE @]

Stats(w) ==
    FoldLeft(StatsStep,
             [running |-> Start, peak |-> Start, max_drawdown |-> 0,
              wins |-> 0, losses |-> 0, total_pnl |-> 0],
             w.trades)

-----------------------------------------------------------------------------
(* Properties. *)

SumOf(s) == FoldLeft(LAMBDA n, p : n + p, 0, s)
Lines == {k \in DOMAIN lines : lines[k] # 0}

(* What any wallet says, in memory or in a file a restart may load, is of  *)
(* its history, to the lamport: the balance and the total profit are the   *)
(* sum of the trades (saturation never hides a loss), the peak is the      *)
(* highest balance it had, and the drawdown the largest fall between any   *)
(* balance and a later one (execute's insufficient-funds check, stats).    *)
BalanceExact ==
    \A w \in file \cup {wallet} :
        LET s == Stats(w)
            Had(i) == Start + SumOf(SubSeq(w.trades, 1, i))
            moments == 0 .. Len(w.trades)
            falls == {Had(p[1]) - Had(p[2]) : p \in {q \in moments \X moments : q[1] <= q[2]}}
        IN  /\ w.balance = Had(Len(w.trades)) /\ w.balance = Start + s.total_pnl
            /\ s.wins + s.losses <= Len(w.trades)
            /\ s.peak = Max({Had(i) : i \in moments})
            /\ s.max_drawdown = Max(falls)

(* No line without its trade: a readable line of cycles.jsonl is a trade   *)
(* of wallet.json, and no trade has two, the line being appended last      *)
(* (unless a wallet on disk was given up).                                 *)
LineHasTrade ==
    ~lost =>
        /\ \A k \in Lines : \E w \in file : lines[k] <= Len(w.trades)
        /\ \A j, k \in Lines : j < k => lines[j] < lines[k]

(* Trades without a line: each failed save or append, each stop in the     *)
(* append and each line a power loss took back costs one, a torn line also *)
(* the one written behind it, whether the process died in the write or it  *)
(* went on after a write that failed half-way, and nothing else does       *)
(* (evaluate_and_write_cycles, append_cycle_jsonl).  A line of a history   *)
(* that was given up counts for the new trade of its number.               *)
MissingLinesExcused ==
    \A w \in file :
        LET missing == {i \in 1 .. Len(w.trades) :
                          ~\E k \in Lines : lines[k] = i}
        IN  Cardinality(missing) <= excused + (IF pc = "append" THEN 1 ELSE 0)

Extends(long, short) ==
    Len(short) <= Len(long) /\ \A i \in DOMAIN short : long[i] = short[i]

(* The history in wallet.json is only ever continued, by every process     *)
(* that trades on it, with two exceptions and no third: a process that     *)
(* could not read the file when it started replaces it by its first save,  *)
(* and a power loss between a rename and its write-back leaves what was    *)
(* written back before, whole, or an empty file (lib.rs:72-88,             *)
(* main.rs:866-884; neither is what lib.rs:73 promises).                   *)
HistoryContinued ==
    [][\A w \in file :
          \/ \E u \in file' : Extends(u.trades, w.trades)
          \/ pc = "rename" /\ unread
          \/ pc' = "down" /\ durable # file /\ file' \in {durable, {}}]_vars

=============================================================================
