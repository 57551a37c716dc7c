# Verification of damascus_laundry

TLA+ models of the `damascus_laundry` workspace (`src/crates/`), a Solana
arbitrage engine that trades on paper and has a live submit path. The models
are translated from the source; each definition's lines are in `PROJECT.json`
under `map`. TLC checks small instances, and TLAPS proves the main theorems for
every value of the constants.

## 1. The system

Data flows from an RPC node to the trader, its files, and in the live path to
the Jito block engine and the chain:

    RPC node -> dl-feed (WsFeed, guards) -> dl-app run_live_paper -> dl-stream detector
      (dl-state decoders, dl-detect graph and cycle search) -> dl-sim (fills, sizing, EV)
      -> dl-paper wallet, cycles.jsonl -> dl-pipeline warehouse and daily reconciliation
    dl-app run --submit-live -> dl-signer (mode, key, cap) -> submit_opportunity
      -> dl-executor (kill switch, Jupiter, bundle, simulate, Jito) -> assert program
    captures -> dl-recon (faults, pool assembly, replay) -> dl-ledger
      -> dl-app recon, reconcile, on-chain sweep
    landed bundles -> dl-calibration captures -> reports, niches, fit -> next start

Components, what they keep, what is hard about them, and what makes them correct:

| Component | State | Hard behaviour | Correct when |
|---|---|---|---|
| live submit path (`dl-app/live.rs`, `dl-signer`, `dl-executor`) | cap, rate tokens, loss streak, STOP file, counters, captures | ambiguous network answers, midnight and STOP inside a call, restart | what the engine takes stays in the cap or is accounted for; no bundle passes a gate unvetted |
| start and files (`main.rs`, `livemode.rs`, `keystore.rs`, `cap.rs`) | key file, cap snapshot, stage of the start | a stop inside a write; a second command on the same file | no file is left that the next start must refuse |
| a bundle on chain (`opportunity.rs`, `jupiter.rs`, `bundle.rs`, `simulate.rs`, assert program, `landing.rs`) | transactions of the bundle, balances, vault, poll | a bundle that lands after its process died; a transfer under way | a landed bundle leaves the asked minimum |
| WebSocket feed (`ws_feed.rs`) | event and command channels, reply table, subscriptions | two threads and a socket; a blocking send; the end with requests open | events in order and once; each reply to its asker; calls return |
| feed guards (`staleness.rs`, `registry.rs`, `reconnect.rs`) | last-seen slots, registry, backoff, storm window | late and silent accounts, saturation | trading does not go on over a silent account; attempts are paced |
| live paper loop (`main.rs`) | tracked pools, followed vaults, detector, wallet | detection and simulation read different copies of a pool | a trade is priced on what was detected |
| detector, graph, search (`dl-stream`, `dl-detect`) | token ids, edges, weights | clamping, overflow, `swap_remove` under stored indices | weights are of the newest reserves; losing weights are found once |
| paper wallet (`dl-paper`) | balance, trades, wallet.json, cycles.jsonl | a stop between execute, save, rename and append; power loss | the balance is that of the trades; the saved history is only continued, but for two named losses |
| warehouse (`dl-pipeline`) | partition, rejects, checksum, archive, daily row | stops inside a line, ingest beside compaction and reconciliation | a row is stored once and none is lost |
| replay and ledger (`dl-recon`, `dl-ledger`, `capture.rs`) | framed files, fault layers, report | torn frames, faults, three accounts in any order | a file is a log of its whole frames; the ledger agrees with the report |
| pricing (`dl-sim`) | none | rounding, search for the size | a trade gains at the size it names |
| reconciliation commands (`reconcile.rs`, `recon.rs`, `onchain*.rs`) | files read while they grow | early exits, duplicated rows, failed writes | an exit code is true of the files |
| learning (`dl-calibration`, `dl-niches`, `dl-recon-overfit`) | captures, reports, niches, fit | torn lines, files of several runs | conclusions stay within the evidence |
| status and metrics (`live_status.rs`, `metrics*.rs`, `live_metrics.rs`) | shared counters, histogram, ring, live_status.json | readers that take several locks in turn | what is shown is never ahead of what happened |
| streaming pipeline (`dl-stream/pipeline.rs`, `latency.rs`) | latency histogram | deadline, signal and end of the feed | the log tells of every measurement |

`components` in `PROJECT.json` lists all parts with their status and `hazards`
what is hard to test in them, at its line, with the properties that watch it.

## 2. Modules

| Module | Models | Relation |
|---|---|---|
| `TipBudget` | what the spending cap promises: reserve, commit or release, per day | abstract |
| `LiveSubmit` | `submit_opportunity` with cap, rate limit, kill switch, simulation gate, engine | implements `TipBudget` (`ImplementsBudget`) |
| `WsFeed` | caller, task, channels, reply table, socket and node of `ws_feed.rs` | |
| `Decoders` | account layouts, and what each decoder reads of which size | used by `PoolTracking`, `CaptureReplay` |
| `PoolTracking` | from an account update to detection and simulation in `run_live_paper` | extends `Decoders` |
| `PaperWallet` | wallet, its file and `cycles.jsonl`, over failures, stops and power losses | |
| `CycleLines` | checks of a cycle line, the daily join and its percentiles | used by `Warehouse` |
| `Warehouse` | ingest, rejects, sealing, compaction, daily reconciliation | extends `CycleLines` |
| `PriceGraph` | weights, `build_from_pools`, depth-first search, `prune_stale_edges` | used by `Detection`, `Replay` |
| `Detection` | the streaming graph beside batch graphs of the same pools | extends `PriceGraph` |
| `EventLog` | what a capture or a ledger promises: a log and its reader | abstract |
| `FrameFile` | framed capture and ledger files, cell by cell | implements `EventLog` (`ImplementsLog`) |
| `CaptureReplay` | fault layers and `pools_from_feed` behind a `FrameFile` | extends `FrameFile`, `Decoders` |
| `Pricing` | fills, costs, sizing, two bounds of expected value | operators |
| `LedgerSummary` | summary of a ledger | used by `Replay`, `Anchors` |
| `Replay` | pools to report, ledger and reconciliation | extends `PriceGraph`, `Pricing`, `LedgerSummary` |
| `Anchors` | macro anchors, tolerances, fit of the win rate | used by `Books` |
| `Books` | reconcile, recon and sweep commands over growing files | extends `Anchors` |
| `Learning` | captures, daily report, niches, fits, start of a trader | |
| `Startup` | commands, mode gate, stages of a start, key file, cap snapshot | part of `Operations` |
| `StatusBoard` | the tick of the status writer | part of `Operations` |
| `Meters` | histogram, ring, adapter and scrape, by thread | part of `Operations` |
| `AssertedTrade` | legs, quotes, bundle, simulation, execution with assert, vault, landing poll | part of `Operations` |
| `StreamRun` | driver loop and latency histogram | part of `Operations` |
| `FeedGuards` | staleness guard, registry, backoff, storms | part of `Operations` |
| `Operations` | one host: the parts above, started, refused, run and killed | extends the six above |

`MCx` gives TLC the values of module `x`, and `xProofs` holds its theorems.
`MCPaperTrading` (`PaperWallet`, `Detection`) and `MCBooks` (`Books`, `Learning`) hold
two modules that share no state: a variable `work` names the one a behaviour is
about. `PaperTradingProofs` holds the theorems of `PaperWallet`, `Detection` and
`Replay`, `BooksProofs` those of `Books` and `Learning`. An operator called a mutant in its comment is a plausible mistake in the definition
that follows it; each property is known to fail under one of them.

How state and actions correspond to the code:

* **LiveSubmit.** `pc`, `tip`, `charge`, `verdict`, `fate` are the cycle in hand;
  `spent`, `lastReset` the cap; `snap` its file; `losses`, `tokens` the breaker and
  the rate limit; `captures`, `stop`, `today` the world; the rest is history. An action is one step of `submit_opportunity` that
  another actor can fall between, with its success and its early return:
  gates (live.rs:120-208), charge (213), token (219), switch (226), build (231),
  simulate (256), sign (287), submit (310), poll (319). The engine answers and
  decides about a bundle independently.
* **WsFeed.** The caller and the task share `cmds`, `events` (capacity
  `Capacity`) and the reply `table`; the socket is a queue each way. A blocked
  `events.send` is `held` by a task that is `"blocked"`. The node may refuse,
  answer in any order, notify before it answers, and be lost.
* **PoolTracking.** `queue` holds updates of accounts as they are on the chain
  or when closed; `Step` handles one as the loop does: `ReadAs` chooses the decoder
  by size, `PoolUpdate` puts the stub with empty reserves, `VaultUpdate` sets a
  side. Edge weights are represented by the reserves they were computed from.
  For the 653-byte Whirlpool the source has offsets but no layout of its own;
  its layout is the one these offsets imply.
* **PaperWallet.** `wallet` in memory, `file` (what loading gives), `durable` (what
  of it is written back), `lines` of `cycles.jsonl`, `torn` (its end has no newline),
  `flushed` (how many lines are written back), `unread` (the process could not
  read the file it starts on). `AppendFails(tearing)` leaves part of a line while the
  loop goes on, `StopAtLine` when it dies there; a power loss undoes or empties what was
  not written back.
* **Warehouse.** One date: a line is the id the duplicate scan finds and the row
  that parses. Dates share nothing but the reject file.
* **Detection.** `stream` is the live graph with its pool index, `batch` the last
  graph built. A weight is the source's integer function of a rate, at a smaller
  scale: `MaxWeight` is 9.22 times `One`, as i64::MAX is of 1e18, so clamping and
  overflow happen as in the code.
* **FrameFile, CaptureReplay.** A byte is a cell that says which piece of which
  event it holds; a writer stops or fails after any cell. Random numbers of the
  fault layers are free choices.
* **Pricing, Replay.** The source's integer arithmetic with floor division, at
  smaller scales; the order of the pools given is any.
* **Books.** A command is read, judge, write; the trader appends lines between.
  A line is what its writer puts as hash, decision and gain.
* **Learning.** A capture line is written in one `writeln!` whose newline may be
  missing; reports, niches and fits are the code's functions of the files. A
  tip, which is what a capture records as gained, may be zero.
* **Startup.** `cap` is `spent_today`, and of the calendar `past` says whether its
  `last_reset` is before today, in memory (`past`) and in the files (a field).
  `Charge` resets first, as `try_charge` does, `Refund` saturates and turns no day, and
  `LoadOrInit` makes a fresh cap of a file that is missing or cannot be looked at.
* **AssertedTrade.** `engine` is the fate of the bundle in hand, `late` the number of
  those given up undecided: each lands or is dropped on its own, at any later time.
* **Operations.** Files are their content or a torn form of it. Bundles, status,
  recorders, adapter, pipeline and guards share no state with each other, only
  with the start and the end of the process, so `work` names the one a behaviour
  is about: interleaving them would multiply the states and add no step that
  reads what another wrote. In the program a ready process writes its status and
  waits for Ctrl-C; what calls `submit_opportunity`, the recorders, the adapter and
  the landing poll is what an operator wires to it, and is modelled by the
  operations' own interface.

## 3. Runs

| Run | Question | Bounds |
|---|---|---|
| `live_submit` | do gates, cap and STOP hold under every interleaving, do charges settle, does the cap implement `TipBudget`? | 2 days, 3 cycles, 2 processes, bids 2 and 3 with caps 2 and 3, 2 losses trip, bucket 1 |
| `live_submit_refund` | does a refunded bundle never pay? (it may) | as above |
| `live_submit_breaker` | does a rejected bundle count as a loss? (it does not) | as above |
| `ws_feed` | are events delivered in order and once, and who can hang? | an account and a program, channel 2, 3 requests, 4 notifications |
| `ws_feed_shared` | does a reply reach its asker when two feeds share the table? (not always) | 2 feeds, 1 request and 1 notification each, channel 1 |
| `paper_trading` | do wallet, file and lines agree over failures? are edges current, cycles found, prunes exact? | 3 trades, 2 starts, batches of 2, profits 1 and -2 on a start of 3; a triangle beside the placeholder pool, 4 pairs of reserves, 3 updates, 3 slots, 3 legs |
| `pool_tracking` | do the copies of the reserves agree? | 2 pools of four layouts, vaults of three sizes, amounts 0..2, queue 3, 6 changes |
| `warehouse` | is every row stored once and none lost, and is the daily row backed? | 2 rows, two inputs with a repetition, a blank, an invalid and an undecodable line, 2 runs, 4 lines |
| `capture_replay` | is a file a log of its whole frames, and a replay no worse than its faults? | 3 frames, 1 failing write, 7 fault layers of all kinds |
| `replay` | do trades gain, does the ledger agree with the replay? | up to 3 of 6 snapshots of every pool kind, input up to 400 |
| `books` | what does an exit code say of the files? what survives a stop, and what is concluded from it? | 2 records, 2 lines of 10, 6 anchor files, 5 answers of the chain; 2 captures, tips 0 and 4, 1 fault, 2 reports, 1 class, 2 ledgers, fit from 2 samples |
| `operations` | what does a host leave on disk, show, earn and log? | 2 keys, 3 starts, cap 1 with tips 1 and 2, 2 bundles, 3 observations by 2 threads, 1 tick, 5 events, 2 accounts over 3 slots, 3 attempts |

Why the bounds suffice for the interesting cases. A day cap of 3 and bids of 2
make the second bundle of a day exceed the cap unless the first was refunded, and
a bid of 3 exceed the per-bundle cap; two days put midnight inside any call; three
cycles reach the loss limit of 2 and are refused afterwards. Two feeds with one
request each already use the same id. A channel of 2 with 4
notifications fills and drains twice while the third request is in flight. A
start of 3 bears one loss of 2 and refuses the next. Six changes empty a vault,
refill it and touch the pool in between. The second ingest run meets every state
the first can leave, sealed and archived ones included. The triangle's reserves
give rates beyond the clamp on both sides and cycles that gain, lose and overflow.
Frames of two lengths let a reader behind a torn frame start in the middle of the
next. The replayed pools hold a pair with two prices and a triangle, and sizes at
which rounding decides. The cycles file has a line of every writer the code has.
`MinSamples` of 2 (30 in the code) makes both sides of it reachable with two
captures, and percentages are scaled the same way; a tip of 0 beside one of 4 makes
classes that gain and classes that do not. In `operations` two bundles let
the second find what the first left in the vault and land before or after it, and three attempts pass the
storm threshold of 2. Scaled constants keep the order relations of the originals;
widths of u64 and u128 are reached only where the scale says so (`U64`,
`MaxWeight`).

`CHECK_DEADLOCK FALSE` is set since counts used up, a finished input or a process
that is down for good really stop the system within the bounds.

### What the runs show

* `live_submit`: overspend has two causes only, an ambiguous submit that was
  refunded and a restart (`OverspendExplained`); after STOP at most one bundle
  reaches the engine (`StopLetsOneThrough`); what reaches it was charged, within
  the caps, and vetted (`OnlyVettedReachEngine`); each charge settles
  (`ChargeSettles`); the cap implements the abstract budget. `live_submit_refund`
  shows that cap.rs:221-224 is not kept: a bundle whose answer was lost is
  refunded and may land. `live_submit_breaker` shows that killswitch.rs:10-12 and 53-55
  are not kept: a cycle the simulation rejects returns without telling the breaker,
  so the streak that `OnlyVettedReachEngine` speaks of is that of the engine's answers.
* `ws_feed`: `InOrderOnce`, `NothingLost` while both ends live, and `CallsReturn`: a
  subscriber hangs only when the connection ended with its
  sender left in the table, or when the task is blocked on the channel that this
  very thread drains. Both are findings. With one feed a reply cannot miss its asker,
  since one request is outstanding; `ws_feed_shared` shows that with two it can
  (`ReplyIsForAsker`), because ids count from zero in each and the table is one.
* `paper_trading`: of the wallet, `BalanceExact` (balance, total, peak and drawdown are
  those of the trades), `HistoryContinued` (a later file continues the earlier one; it
  does not when the starting process could not read it, or when a power loss finds the
  rename not written back: both contradict lib.rs:73 and are findings), and
  `MissingLinesExcused` (a line written in part costs itself and the one joined to it).
  Of the detector, `StreamCurrent`; `ProfitableReported` against a reference definition of
  all cycles; `PruneExact`.
* `pool_tracking`: `DetectorKnows`, `ReservesWereReported`, and where detection and
  simulation may see different reserves (`MismatchExplained`).
* `warehouse`: `OncePerPartition`, `WrittenIsStored` (but for torn lines),
  `RunStoresAll`, `SealedIsPrefix`, `DailyBacked`.
* `capture_replay`: `ImplementsLog`, `EndIsTold`, `NothingSkipped`. A pool is
  assembled only when a mint's key is its vault's key (a finding), so the instance
  has such mints.
* `replay`: `TradesPay`, `ReconcileAgrees`.
* `books`: `CleanMeansAgree`, `MissingWasMissing`, `CapturesSurvive`, and
  `ConclusionsEarned`: an open niche has its samples and one of them gained, and no fit
  is certain of detection. Nothing like it holds of the chance to win, which one
  landed bundle without a tip fits to one: a finding.
* `operations`: `SnapshotWhole`, `GainKept`, `StatusTruthful`,
  `MetersBehind`, `LatencyLogged`, `HaltTimely`, `ReconnectsPaced`.

`findings` lists where the code differs from what its docs and comments say; those
without a run were met while translating and are backed by the quoted lines.

### Fairness

`LiveSubmit`: weak fairness of `Pipeline`, a sequential function whose calls all
return or time out. `WsFeed`: weak fairness of the caller's polls (the live loop
calls `next_event` until its deadline), of the task, and of the node, since RPC
nodes answer. Crashes, midnight, disconnects and refusals are never required. The
other modules state no liveness and assume no fairness.

## 4. What is proved

Every theorem holds for all constants that satisfy the named assumption of its
module. Each follows from an inductive invariant, with a lemma per action.

* **LiveSubmitProofs** (`LiveAssumption`). `Inv == TypeOK /\ ChargeInv /\
  CalendarInv`: a charge is held exactly between `try_charge` and `submit`, a held
  tip is part of `spent`, no date of the cap lies in the future; without them
  neither a refund nor a reset at midnight keeps `spent` related to the charge.
  From it `TypeCorrect`; `OverspendBounded` by `LedgerInv` (what the engine took
  plus what is held never exceeds what is counted plus what is excused);
  `StopHonoured` and `Vetted` by `GateInv` (what a cycle past the switch check has
  passed); `CountsInOrder` and `CapturesInOrder` by `CountInv`; and
  `BudgetImplemented`, step by step.
* **WsFeedProofs.** `EventsInOrder` and `NothingIsLost`, for any
  number of feeds and any capacity of the channel: `Flow` says that what was passed on and what is on
  the socket are one ascending sequence of numbers the node has used and, while both
  ends live, all of them but those thrown away; that an event is held only while the
  task is blocked. `Waits` (a queued command or a filed sender belongs to a caller who
  waits) is needed because an answer may go to another feed's caller: it shows that
  the answer never brings back one who left.
* **PaperTradingProofs.** For `PaperWallet`: `HistoryIsContinued`: unless it started
  without it, the wallet in memory continues the one a restart would load. It needs
  that `file` and `durable` hold one wallet at most, as a boot may load any member.
  `LinesHaveTrades`: until a wallet on disk is given up, no line precedes its trade.
  `MissingAreExcused`: `Paid` charges the open torn line, left by a stop, a power loss or
  a failed append, and every trade without a line of each wallet that a restart may
  load, the one being saved excepted. `WalletIsExact`:
  every wallet that is in memory, on disk or to be loaded was made by executing its
  trades one after the other, no balance on the way below zero, so its balance,
  total, peak and drawdown are the folds of its trades.
  For `Detection` (`DetectionConstants`): `StreamIsCurrent`, by `Current`: edges are
  appended and rewritten but never taken out, so each index names the two directions
  of its pool for good, and a pool of `streamed` has the reserves of its last report.
  `PruneIsExact`, by `Batched`: the edges of a batch graph all differ, since the listing
  has no address twice and a pool gives one edge each way. `Cut` says what is left after
  some removals in descending order: all edges but those removed, and everything
  before the place removed last is where it was, so the edge moved into a hole is one
  that stays. The folds of the builder, of the selection and of the removals are each
  shown to exist and to do this step by step.
  `ProfitableIsReported`, by `Priced` and `Streaming` besides. The search: a path it
  returns is a ring of edges that meets no token twice, whose partial sums fit, and every
  such ring from a start is reached leg by leg (`RingsAreReached`); rings as sets are the
  minimal closed sets of edges (`RingIsLoop`, `WalkIsRing`); and two paths have one signature
  exactly when they have the same edges, since no two edges share pool and direction
  (`Wired`), so dropping repeated signatures keeps each cycle once. The gain: each
  weight is `One` less the spot rate of the snapshot the graph was built from (`Priced`).
  If no weight is clamped and they do not add up to a loss, the rates multiply to no more
  than as many units (`MeanBounds`: of two factors on either side of `One`, bringing
  one to `One` raises the product). If one is clamped, the sum is a loss whatever the
  others are, provided all legs but one, each at `One`, stay within `MaxWeight`
  (`ClampedLoses`). That is the assumption on `MaxLegs`: it holds up to 10 legs of 1e18,
  and every caller passes 4. `Streaming` needs that the placeholder pool's two mints
  differ (main.rs makes them so): its graph then has two tokens, from which every later
  edge starts.
  For `Replay` (`ReplayConstants`): `LedgerReconciles` and `ReplayTradesPay`, by
  `Replayed`: the report is that of the pools observed, the ledger a beginning of its
  entries, and the reconciliation that of the ledger as it is. The report's entries are
  those of paths the search found, which is shown to exist by stages of the length left
  to a path; rows and entries that agree place by place have the same totals and counts.
  The size of a trade stays between 0 and the largest input at each turn of the golden
  section, and what floor quotients say of products is kept in lemmas of their own.
* **PoolTrackingProofs.** `DetectorIsTold` and `MismatchIsExplained`, for any pools,
  layouts and vault sizes, by an invariant that what the loop tracks is an account
  whose size a decoder takes, so the last resort never finds it again and empties
  its edges, and that the detector has no pool the loop does not track.
  `ReservesAreReported` adds where each side of a cached pool comes from: the
  update of its vault that was decoded last. It rests on the layouts as joined parts:
  no two vaults of a pool are at one place, and no other account gives it reserves.
* **WarehouseProofs.** `NoRowTwice`, `NoRowLost`, `SealIsOfPrefix`. The invariant
  adds that a row that parses is found by the scan, that a torn tail holds only a
  row counted as spoilt, and that a run about to append has a row the scan did
  not find. `EveryRunStores` accounts for each line of the input before the run's
  place in it: stored in some partition, set aside, or excused by a torn line; what is
  stored stays stored when partitions are sealed and archived. `DayIsBacked`, by
  `DayInv`: a line holds one row at most, what a reconciliation has read was stored, and
  every daily row is backed by some set of stored rows. The places of the flattened
  reports are shown to correspond one to one to the rows of the single reports, and an
  entry of each rank to exist, so that a percentile is a drift of the day and the lower
  percentile is not above the higher one.
* **CaptureReplayProofs.** `FileHolds`: a file is the cells of whole frames in the
  order they were appended and a torn tail that is a proper part of one frame, and
  a reader stands at the end of a frame. From it `EndIsToldAlways` (a reader that
  says the file ended has read every whole frame, one that says it is torn stands
  before the tail) and `FileImplementsLog`: every step of a file is a step of
  `EventLog`, or none. `NothingIsSkipped` (`ReplayConstants`), by `Layered` and
  `Cached`: what the captured feed still returns is the rest of what was read, and
  what was given is the part before it as the one layer bends it; for a reordering
  layer `Shuffled` has a one-to-one rearrangement of the places taken that keeps each
  in its window, which takes whole windows until the feed ends, so at the end it is
  onto and every event was given as often as it was captured. What the caches and
  the pools hold came with an account that was given.
* **BooksProofs** (`LearningAssumption`, `BooksAssumption`). For `Learning`:
  `CapturesAreKept`, where `Captured` counts the records that stand between two line
  ends and says which unended line spoils the record after it, so that each stop or
  failed write pays for the one capture it costs; `ConclusionsAreEarned`, where
  `Concluded` says that every class `niches.json` or the trader holds open has its rows
  in the reports, which are only added to, and that a sum of gains above zero has a
  row above zero; of `n` captures at most `n` realized something, so the smoothed ratio of
  detection stays below one for any number of them. For
  `Books`: `MissingIsTrue` and `CleanIsAgreement`, by `Judged`: the lines only grow,
  what a command read is a beginning of the file at least as long as when it began,
  and its report is the comparison of what it read.
* **OperationsProofs.** An invariant for each part, and `Frames`, which says what a
  step of another part leaves alone: `SnapshotsAreWhole` (what is renamed is a whole
  snapshot), `StatusIsTruthful` (what each stage of a tick has read is coherent),
  `GuardHalts`, and `GainIsKept` (which transactions a bundle has at each stage, and the
  same five of each one that lands late). `ReconnectsArePaced`: the clock never
  falls, so the attempts kept rise, dropping the old ones leaves exactly those of the
  window, and each delay is between the base and the cap. `LatencyIsLogged`: below each
  bound the histogram counts the measurements that do not exceed it, so a percentile
  it gives bounds its share of them. `MetersAreBehind`, by `MetersInv`, for any number of
  threads between any two of their steps: the sum of the buckets up to each one counts
  exactly the observations that fall there, and a recorder that has read the sum, then
  the count, then the buckets has the sum of no more observations than it counts. A
  value falls in a bucket exactly when it lies between two powers of two; the ring holds
  the latest samples in order; a quantile lies between two order statistics of the ring.

Induction. The library's induction rules take an operator as a parameter, which no
installed prover instantiates. The proofs use its `WFMin` instead, a set of numbers
without a least member is empty, and from it a rule in the form of sets (`Induct`):
a set that holds 0 and, with each number, the next one holds all numbers. With it
recursive functions, folds, `FlattenSeq` and the ranking of a set are shown to exist
and to compute what the invariants say of them.

Only model-checked: liveness (`ChargeSettles`, `CallsReturn`), which is out of the
prover's reach. Every invariant and every action property of a passing run is proved.

## 5. Not modelled

* Cryptography, signatures and hashes: a passphrase is right or wrong, a hash
  equal or not.
* Instruction and account bytes, JSON, Markdown and HTTP: what is kept of a
  message is what a step reads.
* Jupiter, the Jito engine, the RPC node and the Solana runtime are external: they
  answer anything the code distinguishes.
* The tip formula (any bid of a set), the Sharpe statistics in floating point
  (whether they pass), and `toml` parsing of the configuration.
* Counters of the feed that are only added to and printed; probes, dry run,
  dashboard and scripts, which present what other parts wrote.
* More than one `WsFeed` in the passing run: the program makes one. The module has
  `Feeds` as a set because the reply table is shared, and `ws_feed_shared` takes two.
* The loss of an unsynced key file in a power loss, and a second `generate` over a key
  in use: nothing in the code guards against either (see `hazards`).
* A rename between the open and the write of one append, and two traders on the
  same files.
* Overflow of u128 amounts in `Pricing`: instances are too small to reach it, and
  the code's checked operations answer with an error there (`SimErr`).
