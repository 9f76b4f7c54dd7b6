# Flare C-chain indexer: TLA+ models, checks and proofs

The indexer reads blocks, transactions and event logs of the Flare C-chain from
an RPC node and stores the ones its configuration selects in a MySQL database.
Other services read the tables and trust four rows of the `states` table to say
which blocks are covered. This directory models how the tables and those rows
move under the indexing goroutine, the deletion goroutine, errors, retries and
restarts, down to the single row of a batch and the single RPC call; checks what
the rows may claim with TLC; and proves every safety property so checked, for
every chain, batch size and number of faults with TLAPS.

All source paths below are relative to `src/`.

## 1. The system

| Part | State | Operations | Talks to |
|---|---|---|---|
| **states table** (`internal/database/states.go`, `entities.go`) | rows `ChainTip`, `LastIndexed`, `BlockFloor`, `LogFloor`, each a block number and its timestamp; a missing row reads as the zero row | upsert, create-if-missing, lower a floor, the atomic pair of coverage writes, the two resume rules | engine, deletion loop, FSP start, external readers |
| **indexing engine** (`internal/core`) | loop variable, range end, stop index, batch size | `IndexHistory` (batches up to the tip, range extended once), `IndexContinuous` (block by block, poll, overrun the known end), `saveData` (data transaction, then states transaction) | RPC client, data tables, states table |
| **batch pipeline** (`internal/core`: `obtainBlocksBatch`, `processBlocks`, `processTransactions`, `requestLogs`, `processLogs`) | one batch: blocks, transactions, receipts, logs; the transaction id counter | fetch in parallel, select by policy, dedup logs, assign transaction ids, insert-ignore | RPC client, engine |
| **history drop** (`internal/database/history_drop.go`) | boundary, pass, first surviving row | resolve boundary, delete table by table in chunks, raise the floor | data tables, states table |
| **full mode start and supervision** (`cmd/indexer/main.go`, `internal/boff`) | start block, `historyLastIndex`, `ready.synced` | `getStartIndex`, retried history run, start of the deletion loop, retried continuous run, exit | everything above |
| **block search** (`internal/chain/block_search.go`) | window, bounds | narrow from the end of the range, bisect | RPC client; full mode start, FSP start |
| **FSP mode** (`internal/fsp`) | start plan: event start, full start | epoch anchors, lookback, event backfill, catch-up, retention boundary | contracts over RPC, engine, deletion loop |
| **RPC client** (`internal/chain/chain.go`) | slots of a semaphore | acquire, call, release | node |
| **configuration, collector merge, contract resolution** (`internal/config`, `internal/contracts`) | values fixed at start; an address cache | defaults, validation, merge, registry lookup | start-up only |
| health, diagnostics, generated bindings, tests | | | |

How they interact. One goroutine runs `IndexHistory` under a retry loop and
then `IndexContinuous` under another. In between it starts the deletion
goroutine, which works on the same tables and rows for the rest of the
process. There is no lock between the two: they meet only in single MySQL
statements and transactions. A process can end anywhere; the next one resumes
from what the database says, by a rule (`getStartIndex`: the block row with
the highest id) that is not the row the writers maintain (`LastIndexed`).

What is hard, and what makes each part correct:

- *Coverage* (states, engine, deletion together): a block between `BlockFloor`
  and `LastIndexed` is in all tables unless it is past retention, although
  data and states are written in two transactions, runs are repeated from
  where they first started, inserts ignore rows that are there, and rows vanish
  meanwhile. → `CoverageSound`, `LogFloorSound`, `DropWritesTruth`, `ClaimsHeal`.
- *No gaps*: history run, range extension, hand-over to the continuous run,
  retries and restarts tile the chain. → `NoGaps`, `ReadyMeansCaughtUp`,
  `EveryBlockIndexed`.
- *Direction*: `LastIndexed` goes back only when a history run is repeated, and
  only over blocks that are there.
  → `LastIndexedAdvances`.
- *Deletion*: it never takes what is inside retention (unsigned arithmetic on
  the boundary), and its floor writes do not race with the indexer's.
- *Block search*: a block in the range that meets the bound, on short chains,
  with repeated timestamps, and it ends. → `FindsBound`,
  `FirstUnlessRepeated`, `Terminates`.
- *FSP mode*: the plan made at a start must fit what an earlier run, an outage or
  another `history_epochs` left; the log floor may claim a region only when all of
  it was scanned; retention slides along with the epochs and must not take what a
  plan backfilled. → `CoverageSound` and `LogFloorSound` of `FspMode`,
  `ReadyMeansPlanDone`, `RetentionKeepsBackfill`, `EventsServed`, `CatchesUp`.
- *Batch pipeline*: whatever order blocks, receipts and logs arrive in, and
  whatever rows earlier batches, failures and deletions left, everything that was
  asked for is saved, with its own status and the id of its own transaction's row.
  → `SaveIsWhole`, `StatusIsOwn`, `LogsReferToOwn`.
- *Collectors*: merging the configuration with the built-in entries never takes
  away from these. → `BuiltinsKept`.
- *RPC client*: no slot is lost, and only a call without a timeout can block others.
  → `SlotsMatchCalls`, `TimedOperationsEnd`, `OperationsEnd`.
- *The promise to consumers*: what all of this adds up to for someone who reads the
  coverage rows is one small specification, `CoverageLedger`, which both modes
  implement, and what such a reader may rely on between reading the rows and reading
  the tables is a property of that specification. → `ImplementsLedger`, `ReadersServed`.

The hazards, each at its line and with the properties that watch it, are listed
in `PROJECT.json`.

## 2. The modules

```
States            the states table, as operators on a record of rows
  Engine          chain, tables, IndexHistory, IndexContinuous, faults
    HistoryDrop   the deletion loop over the same tables
      EngineInv         the parts of the invariants that both modes share
        EngineProofs    lemmas about the engine and the loop, for both modes
      FullMode    start rules, row ids, composition, Spec, properties
        FullModeInv     (also EngineInv) the inductive invariants, in named parts
          MCFullMode    a short chain for TLC
          FullModeProofs  (also EngineProofs) theorems
            FullModeLedger  full mode implements the coverage ledger, and what readers have of it
      FspEpochs   what a plan and retention take from the contract
        FspMode   start plan, event backfill, composition, Spec, properties
          FspModeInv    (also EngineInv) the inductive invariants, in named parts
            MCFspMode   a short chain with short epochs for TLC
            FspModeProofs  (also EngineProofs) theorems, the ledger among them
CoverageLedger    what the coverage rows promise: abstract specification
Collectors        collector merge, name resolution, policies, as operators
  Batch           one batch: fan-out, receipts, log tiles, ids, INSERT IGNORE
    MCBatch       a chain of three blocks and four configurations for TLC
    BatchProofs   theorems, and induction over the sequences of Collectors
RpcPool           slots, attempts, timeouts, cancellation, retries
  MCRpcPool       five callers for TLC
  RpcPoolProofs   theorems
BlockSearch       nearestBlockByTimestamp, one action per lookup
  MCBlockSearch   a short range of timestamps for TLC
  BlockSearchProofs   theorems
```

### Engine, HistoryDrop, FullMode

An action is one interaction with the database or the node: the code between
two of them touches only goroutine-local variables. `pc` and `dpc` name the
next interaction of the indexing and of the deletion goroutine.

| Model | Code |
|---|---|
| `rows[t]` | the blocks whose rows table `t` holds; a block's rows enter together, because a batch is one transaction (`core/database.go:24-61`) |
| `states` | the states table; a row has `exists`, `index`, `time` |
| `HistoryRange`, `HistoryExtend`, `ContinuousRange`, `ContinuousPoll` | reads of the tip, each followed by the upsert of `ChainTip` |
| `IndexBatch` / `HistoryStates`, `IndexBlock` / `ContinuousStates` | the two commits of `saveData`; everything can happen in between |
| `HistoryReturns`, `GoContinuous` | end of the history run: `historyLastIndex`, readiness, start of the deletion goroutine |
| `ContinuousStart` | `ContinuousStartIndex`, re-evaluated by every retry |
| `DropResolves` | one iteration's boundary, `TipAgeBoundary` with its guard against wrapping |
| `DropDeletes` | one `DELETE ... LIMIT`: any non-empty part of the expired rows, with some of their logs when transactions go (foreign key cascade) |
| `DropTableDone`, `DropChecksFloor`, `DropFindsFirst`, `DropRaisesFloor` | the rest of `dropAndRaiseFloor`, statement by statement |
| `blockId`, `nextId`, `AssignIds` | AUTO_INCREMENT ids, burnt by ignored inserts: `getStartIndex` resumes after the row with the highest id, not the highest number |
| `HistoryFails`, `ContinuousFails`, `DropFails` | an error that ends a run or an iteration; the retry loops start it over |
| `ProcessEnds`, `ProcessStarts` | crash, signal or fatal error anywhere; goroutine-local state is lost, MySQL is not |
| `StartAfterLastRow`, `StartAsConfigured`, `StartInsideInterval` | `getStartIndex` and `GetStartBlock`; the search for the first block inside the interval appears as what `BlockSearch` says it may answer |

`horizon` is a history variable, no code reads it: the highest boundary any
iteration or start rule has applied. "Past retention" below means a timestamp
under it. Without it, coverage could only be stated for runs that never delete.

Data is abstracted to what these properties tell apart: a block is its number
and timestamp, a transaction or log is "this block has some". What one batch
does inside is `Batch`'s subject: here a batch is fetched whole or its run fails.
One thing shows through: the logs of a receipt are ignored with their
transaction when that has a row already (`Ignored`, `ReceiptLogBlocks`).

### CoverageLedger

Four variables: the blocks `covered` in full, the blocks `excused` (openly given up:
past retention, or passed over by a plan), and the blocks of the two coverage
rows, `floor` and `top`. Five actions: rows are indexed, blocks are excused, rows of
excused blocks are forgotten, both coverage rows are published in one step, and
the floor follows a deletion. `Publish` and `MoveFloor` may only write rows whose
interval is accounted for; there is no process, no retry and no crash in it. `FullMode` and
`FspMode` instantiate it with `CoveredBlocks`, `PastRetention` (with `passedBlocks` in FSP
mode) and their two rows; `ImplementsLedger` says that every step of theirs is a
step of the ledger or leaves it alone. It is more than `CoverageSound`: it also
forbids giving a block up by deleting it first, splitting the two coverage rows, and
raising the floor outside a deletion.

`ReadersServed` is what a consumer draws from it. It reads the coverage rows and then, in queries of
its own, the tables, and nothing stops the indexer in between: a block the rows have once
claimed is in all tables from then on, or has been excused. Each mode has it as a
theorem, and `full_mode_live` checks it of full mode. In FSP mode it is proved and not run: one
temporal formula per block over that many states takes TLC too long.

### Collectors, Batch

| Model | Code |
|---|---|
| `MergeCollectors`, `DedupKey`, `MergeInfo` | `mergeFspCollectors` and its keys (`config/merge.go`) |
| `Resolve`, `ResolveAllByName` | names to addresses, both deployments of an upgraded contract |
| `Policies`, `Matching`, `PolicyOf` | `buildTransactionPolicies` (of two entries for one target the later stands) and the four lookups of `processBlockBatch` |
| `Passes` | what a node answers for a log entry: "" and "undefined" pass everything |
| `BatchStarts`, `BlockArrives`, `BlocksProcessed`, `ReceiptArrives` | the block stream of `indexBatch`; `InFlight` is `errgroup.SetLimit` |
| `LogsArrive`, `RequestEnd`, `NextRequest` | the log stream, one filter after the other in steps of `log_range` |
| `RowsBuilt` | `processTransactions` and `processLogs`: ids from the counter, logs of receipts, then the logs that did not come that way |
| `Saved`, `NewTransactions`, `NewLogs` | the data transaction: INSERT IGNORE against the unique keys and the foreign key |
| `BatchFails`, `Restarts`, `StoreTransactionId` | an error in either stream or in the commit; a restart, with any configuration, and the counter after the highest id in the table |
| `LogsDropped`, `TransactionsDropped` | a pass of the deletion loop, with its cascade |

A receipt needs `status` or `collect_events`; a batch is any run of at most `BatchSize`
blocks, over whatever is in the tables, which includes every repetition the engine
can ask for. `indexContinuousIteration` does the same for one block, one step after
the other; its order is one of the orders allowed here.

`BatchAssumption` and `CollectorsAssumption` say what the model takes for granted: a chain
of at least one block with unique transaction hashes, entries that can be resolved (a
name nobody registered ends the start, so such a process has no batches), and built-in
entries that are named, without an address, none twice. `NamesApart`, that different
contracts stand at different addresses, is a hypothesis of one theorem only, and
`MCBatch` checks that its registry has it.

Names, addresses, signatures and topics are
what is left of them after trimming and lower-casing. Three simplifications: when a row cannot be
built (`buildDBTx` fails midway) the ids taken so far are not burnt, which
differs from the code only in the size of a gap; a pass of the deletion loop has an arbitrary
boundary and deletes each table in one step (the partial deletes are in
`HistoryDrop`); and the errgroup slot that a transaction without need of a
receipt takes for a moment is left out.

### RpcPool

A caller is a goroutine that performs one operation after the other; an operation is a
call under `boff`. `Timed` callers put `RPCTimeout` on each attempt, from before they ask for a
slot, and try again until `BackoffMaxElapsedTime` (`MaxAttempts`) is over; the others are
contract calls and the lookups of the block search. `Group` is the errgroup of a batch:
an operation of it that fails for good cancels the rest (`cancelled`) until all
have returned (`GroupReturns`). `Acquire`, `AcquireCancelled` and `Release` are the
channel operations of `chain.go`; `Answers`, `CallFails` and `Hangs` are what the
node may do.

### FspEpochs, FspMode

FSP mode runs the same engine and the same deletion loop with another start and
another boundary. `FspEpochs` has `epochs.go` and the two start rules of
`startup.go` as operators on three constants: which epochs have start data, at which
block each begins, and at which block its first event was recorded. The
contract is read at the newest block `h`, which may be above the confirmed tip.

| Model | Code |
|---|---|
| `PlanTip`, `PlanEpochs`, `PlanStates` | `IndexStartup` up to its log line: the tip, the contract reads, the read of the three rows; the chain may move on between them |
| `Resumes`, `BackfillsEvents` | the two decisions of the plan (`startup.go:70`, `:80`) |
| `BackfillChunk` | one `eth_getLogs` request and one insert of `backfillFspEventLogs`; events of `EventBlocks` only, the blocks with logs of `FspRewardEpochLogs` |
| `WriteLogFloor` | the `LogFloor` upsert after the last chunk |
| `NothingToCatchUp`, `HistoryRange` ... `GoContinuous` | the catch-up, or its omission, and readiness |
| `StartupFails` | an error anywhere in it: `boff` calls `IndexStartup` again, which plans anew |
| `StartProcess` | a restart, with any `history_epochs` of `EpochChoices` |
| `Dropping` | the deletion loop with `fspRetentionBoundary` |

`passedBlocks` and `passedLogs` are history variables: the blocks a plan passed over,
above the top an earlier run reached and below the plan's own start. A floor may
claim them although nobody indexed them (section 4), and the safety properties
hold of all other blocks. `passedLogs` also has the blocks that the log floor takes in
before the catch-up has been there (`TakenIn`). A block leaves these sets when it is
indexed, or when a backfill that includes it is complete.

### BlockSearch

`nearestBlockByTimestamp` with one action per block it asks for: `BeginGiven`
and `BeginOpen` (is there a start block), `StepBack`, `StepToGenesis`
(the guard on the unsigned subtraction), `Narrowed`, `Halve`, `Return`, and
`LookupFails` at every lookup. `Init` ranges over every non-decreasing chain
and every range and target.

## 3. The runs

| Run | Question | Result |
|---|---|---|
| `full_mode` (`FullMode.cfg`) | all safety properties of full mode, and the inductive invariants, under every interleaving of the two goroutines with two faults | holds |
| `full_mode_live` (`FullModeLive.cfg`) | is every planned block indexed in the end, do the rows stop claiming deleted blocks; is full mode a coverage ledger, and does a reader of the rows find what they claimed whenever it looks | holds |
| `full_mode_crash_states` (`FullModeSelfCorrects.cfg`) | does the next batch make good a crash between the two commits, as `core/database.go:65` says | violated |
| `fsp_mode` (`FspMode.cfg`) | FSP mode's safety properties and its inductive invariant under epoch switches, restarts with another `history_epochs`, deletion and two faults; is FSP mode a coverage ledger | holds |
| `fsp_mode_live` (`FspModeLive.cfg`) | are the events of the served epochs kept, with the invariant behind it, and does every start end in a continuous run that reaches the tip | holds |
| `fsp_mode_outage` (`FspModeOutage.cfg`) | does `BlockFloor` claim only indexed blocks after an outage, as `states.go:22` says | violated |
| `fsp_mode_skip` (`FspModeSkip.cfg`) | is the backfill left out only where the region is covered, as `startup.go:76` says | violated |
| `block_search` (`BlockSearch.cfg`) | what the block search answers, that it stays in its range, that it ends | holds |
| `fsp_mode_orphans` (`FspModeOrphans.cfg`) | are the states written only over data that is there, as `core/database.go:63` says | violated |
| `batch` (`Batch.cfg`) | is a batch that is saved saved whole, row by row, over whatever was there before | holds |
| `rpc_pool` (`RpcPool.cfg`) | is every slot accounted for, and does every operation end that no hanging untimed call prevents | holds |
| `rpc_pool_untimed` (`RpcPoolUntimed.cfg`) | does every attempt end, contract calls included, as `config.go:38` says | violated |

Each property of a passing run is falsified by a small change of the code
(the definitions marked "Mutant" stand beside the ones they change), so the
bounds are large enough for each property to be at stake.

**Bounds.** `MaxBlock` stops the chain (5, or 4 where the run is about liveness
or a single trace); `MaxFaults` counts errors and process ends together (2, or
1). Batch size 2 over up to five confirmed blocks gives an empty history run, one
batch, two batches, a short last batch, and the second-to-last turn in which the
range is extended. `Interval` 2 on timestamps 0, 1, 1, 3, 4, 6 lets the
boundary fall before the chain's start (where the subtraction would wrap), on a timestamp, between two, and inside a pair of equal ones, and
pass several blocks in one iteration. `StopIndex` 3 in `full_mode` makes the
continuous run end inside the chain (5 in `fsp_mode`); the other runs have it out of
reach. Two faults
cover a fault during the recovery from another. `BlockSearch.cfg` has chains of
eight blocks, a window of three: no, one or two steps back, the genesis guard,
and windows cut at the end; four timestamps give every pattern of repetition.
The proofs remove all these bounds for the properties they cover.

In `FspMode.cfg` epochs are one or two blocks long and the chain has seven, so five
epoch switches fall into every phase of a start; `history_epochs` 0 and 5 give the
plain lookback and a window that reaches back to the first epoch with data, and every
restart may change from one to the other. The genesis block has timestamp 0,
far below the others. The first epoch has no recorded first event, so the nominal lead and its
saturating subtraction are used; the lookback and the margin are one second,
the lead one second and two blocks, which makes the plan's start fall below, on and above `LastIndexed`.
`LogRange` 2 gives backfills of one and of two chunks, with a short last one.
`FspModeLive.cfg` has one configuration, a window of one epoch (whose events begin two epochs
before) that moves with the chain, one fault and no margin, so that retention deletes right up to the served events; its nominal
lead is one block and two seconds, so that the anchor's block and its time differ. `FspModeOrphans.cfg` has one fault, which
is what the trace needs.

`Batch.cfg`: three blocks with five transactions, among them two that need a receipt, a failed
one and a contract creation; one log that comes both ways, one by receipt only, two by filter
only, one of them from a replaced deployment. Batches of one to three blocks against log requests of two give whole,
short and single tiles; two goroutines at a time against three blocks let a block overtake
another and make the third wait. `MaxId` 4 lets the counter run past the ids that
survive; one fault at any point is enough for the mutants of both faults, and for
restarts between a failed batch, or a half-done deletion pass, and the next
batch. Four configurations: built-in entries alone; merged with
others by name and with wildcards; a built-in contract by address; full mode
with two entries for one target.

`RpcPool.cfg`: two slots, three timed callers and two untimed ones, so that the untimed
can hold every slot and timed ones compete for what is left; a group of two; two attempts,
so that a last and a not-last one both happen.

**Fairness.** `full_mode_live` assumes weak fairness of three things: the
indexing goroutine's next step, including the start of a process after one has
ended; the deletion goroutine's next step; and the chain's growth. The first is
the retry loops of `runIndexer` (`main.go:180`, `main.go:204`) together with a supervisor
that restarts the container. The second is the `for` loop of `DropHistory`.
The model bounds the faults, so it asks for progress only after errors stop:
`boff` gives up after its maximal elapsed time and the process then ends, which
the model treats as one more fault. `fsp_mode_live` assumes the same three of
FSP mode, where the retry loops are those of `RunIndexer` (`fsp/runtime.go:41`,
`:86`). `block_search` assumes that the search's own next step is taken.
`rpc_pool` assumes weak fairness of everything the clock, a closed context or a
node that has not hung brings about, and strong fairness of `Acquire`: Go serves
the goroutines that wait on a channel in their order, so a slot that is free again
and again does not pass one by. Nobody has to begin an operation, and nothing is
assumed of a call that has hung. `batch` is about safety only and states no fairness.

**Deadlock** is checked in every run. A finished process (past `stop_index`), and
a search that is over, are explicit stuttering steps.

## 4. Where the code and its comments differ

1. `core/database.go:65` says a crash between the data and the states commit is
   corrected by the next batch. The restart begins after the stored rows
   (`main.go:134-136`), so that batch is not processed again; when it was the
   first one, `BlockFloor` is created above it and stored blocks stay outside
   the claim. The floor errs on the safe side: `CoverageSound` holds.
2. A start whose `fullStartBlock` lies above `LastIndexed` (an outage longer than the
   lookback with `history_epochs = 0`; the served epoch's start having moved past
   `LastIndexed` otherwise) catches up from `fullStartBlock`, and `BlockFloor`
   stays below the gap for good, or until retention passes it: `LowerStateFloor` never
   raises. `fsp_mode_outage` shows the shortest such run; `CoverageSound` of `FspMode`
   shows that the blocks passed over that way (`passedBlocks`) are the only ones
   claimed and missing. The comment on `WriteCoverageStates` (`states.go:120`) is
   about this very reading of the rows by the resume guard.
3. The backfill is left out whenever the `LogFloor` row is at or below `eventStartBlock`
   (`startup.go:80`), whether or not the earlier run got as far as the region's end.
   `fsp_mode_skip` shows a start that leaves out events nobody scanned.
4. `core/database.go:63` says the states "understate rather than overstate coverage". A
   crash between the two passes of a deletion, followed by a start that goes further
   back, indexes blocks again whose transaction rows are still there and
   whose logs are not. `INSERT IGNORE` leaves the transactions as they are; the logs of
   their receipts carry the new ids, which no row has, and the foreign key
   (`entities.go:30`) makes MySQL ignore them too. The states then take the batch in.
   `fsp_mode_orphans` shows it; `SaveIsWhole` of `Batch` shows that these logs are the
   only thing a saved batch can lack. `CoverageSound` and the ledger hold because
   the block was past retention when its logs went.
5. `config.go:38` says `RPCTimeout` bounds contract calls. Contract calls and the
   block search's lookups run on the context of the process; a node
   that does not answer one holds it, and its slot, for good. `rpc_pool_untimed` shows it, and
   `OperationsEnd` and `TimedOperationsEnd` say who is affected: with every slot gone, timed
   operations end with an error, untimed ones wait.

Seen while modelling, and not the subject of a run:

- `states.go:22` calls `BlockFloor` "the full-coverage floor". While an
  iteration of the deletion loop is under way, and after a crash inside it
  until the next iteration, rows at and above it are gone
  (`history_drop.go:114` deletes, `:136` writes). `ClaimsHeal` shows the window
  closes, `ImplementsLedger` that what is missing in it is past retention, and
  `DropWritesTruth` that the floor is exact when it has been written.
- `block_search.go:19` promises the first block that is not older than the
  timestamp. Without a given start, the narrowing can stop on a block with
  exactly that timestamp although earlier ones carry it too. `FindsBound` and
  `FirstUnlessRepeated` say what remains true.
- An entry of the configuration that gives a built-in contract by its address has
  another key than the built-in entry, which has its name (`config/merge.go:60`); both come out as
  policies for the same target and the later one replaces the first
  (`core/engine.go:121`), so `status` and `collect_events` of the built-in entry are lost. An
  entry that gives name and address moves the built-in one to that address
  (`merge.go:73`). `README.md:37` says that they "are merged and deduplicated";
  `BuiltinsKept` holds for all other entries.
- `LogFloor` is described as the floor of "all collected logs" (`states.go:25`); the
  backfill requests the reward-epoch events only, not the round logs or the
  user's filters. The models claim only the former (`EventBlocks`).
- Without recorded first events the anchor's block and its timestamp coincide only at
  one block per second (`epochs.go:86`, `:151`). With slower blocks the
  anchor block is older than the anchor timestamp minus the margin, and
  `RetentionKeepsBackfill` fails. The theorem has the opposite as its hypothesis
  (`MarginCoversLead`), and the chains of the runs satisfy it.
- The log floor is written between the backfill and the catch-up (`startup.go:103`).
  Where `LastIndexed` of an earlier run lies above the new start and its floors do
  not reach down to it, the log floor then claims blocks which the catch-up has yet to
  index, and goes on claiming them when the process ends there and the next one has
  a later start. `LogFloorSound` holds of all other blocks.
- A crash between the deletion of logs and the write of the log floor
  (`history_drop.go:114-136`), followed by a start with a larger `history_epochs`, makes
  that start take the deleted region as covered. `EventsServed` is therefore
  checked with one configuration.
- `start_index` above the confirmed tip: the run starts one past the tip and stores
  blocks below `start_index`.
- The repository's `README.md:37` speaks of a start about 15 minutes back for
  `history_epochs = 0`; `fspTxLookbackSeconds` is one hour.

## 5. The proofs

Every safety property and action property of a passing run is the conclusion of a
theorem, for every value of the constants that the assumptions below allow.
The assumptions named `...Assumption` are checked by TLC for the instances of the runs; a
hypothesis is named by the theorem that needs it and by no other.

| Module | Theorem | States |
|---|---|---|
| `FullModeProofs` | `Inductive` | `Spec => []IInv` |
| | `TypeCorrect` | `Spec => []TypeOK`; no subtraction of the code goes below zero |
| | `CoverageHolds`, `NoGapsLeft` | `[]CoverageSound`, `[]NoGaps` |
| | `LastIndexedOnlyAdvances`, `ReadyIsCaughtUp` | `LastIndexedAdvances`, `ReadyMeansCaughtUp` |
| | `LogsInductive`, `LogFloorHolds` | `[]LogsInv`, and from it `[]LogFloorSound` |
| | `TruthInductive`, `FloorIsTrueWhenWritten` | `[]TruthInv`, and from it `DropWritesTruth` |
| `FullModeLedger` | `FullModeIsLedger` | `ImplementsLedger` |
| | `FullModeServesReaders` | `ReadersServed` |
| `FspModeProofs` | `Inductive`, `TypeCorrect` | `[]IInv`, `[]TypeOK` |
| | `CoverageHolds`, `LogFloorHolds` | `[]CoverageSound`, `[]LogFloorSound` |
| | `FspModeIsLedger` | `ImplementsLedger` |
| | `FspModeServesReaders` | `Ledger!ReadersServed` |
| | `ReadyMeansPlan` | `ReadyMeansPlanDone` |
| | `RetentionBelowBackfill` | `RetentionKeepsBackfill` |
| | `ServedInductive`, `EventsStayServed` | `[]ServedInv`, and from it `[]EventsServed` |
| `BatchProofs` | `TypeCorrect` | `[]TypeOK` |
| | `LogsRefer`, `StatusOwn` | `[]LogsReferToOwn`, `[]StatusIsOwn` |
| | `BatchSavedWhole` | `SaveIsWhole` |
| | `BuiltinsStayOn` | `[]BuiltinsKept` |
| `RpcPoolProofs` | `TypeCorrect`, `SlotsConserved` | `[]TypeOK`, `[]SlotsMatchCalls` |
| `BlockSearchProofs` | `SearchTyped`, `SearchFindsBound`, `SearchFindsFirst` | `[]TypeOK`, `[]FindsBound`, `[]FirstUnlessRepeated` |

**Hypotheses.** Each theorem of full mode has `StartIndexAsDocumented`: `start_index` is
set only without history drop, as `config.example.toml:3` asks. With both set, a
process that finds every row deleted starts at `start_index` even where an earlier one,
whose start lay at a tip below it, had begun lower; the argument that nothing is missing
between the floor and the new start breaks there.
The two results about retention in FSP mode have `AnchorsInOrder` and `MarginCoversLead`, which are
what the comments of `epochs.go` take for granted (a later epoch's first event is
not recorded before an earlier one's; the nominal lead is as long in seconds as in
blocks, up to the margin). `EventsStayServed` has
`OneWindow` besides: the events of an epoch that a larger `history_epochs` serves may be gone
already. `BuiltinsStayOn` has `NamesApart`: two contracts at one address share a policy, and the
later entry decides it. TLC checks that each of these holds of the instances in the runs
concerned, `StartIndexAsDocumented` and `OneWindow` by the constants given.

### Full mode

`CoverageSound` and `NoGaps` speak of what is stored and claimed now;
neither says that the block about to be claimed continues what is there, or where the
next process will resume. `IInv` (module `FullModeInv`) says it at every point
the code resumes from, through one notion, `Filled(x)`: below `x`, nothing inside
retention is missing above the floor or above any stored block.

- `FilledBelowStored`: filled below every stored block; with `RowsStored` (the
  coverage rows carry blocks that are stored or past retention) this gives
  `CoverageSound`, and alone it gives `NoGaps`.
- `HistoryFilled`: filled up to `startIndex`, hence every repetition of the
  run may insert from there; up to the cursor; and nothing missing at or above
  `startIndex` below a stored block, since no deletion runs yet.
- `ContinuousFilled`: filled up to `historyLastIndex + 1` and up to the cursor,
  whichever of the two resume rules chose it.
- `IdOrder`: ids grow with block numbers, so the row with the highest id is the
  newest block, which makes `StartAfterLastRow` a place where the database is filled.
- `Ranges`, `MissingRows`, `DropInside`, `Whole`: the bounds of the loops, that
  a missing row reads as zero, that the deletion loop runs only beside the
  continuous run and finds its first row still there, and that a block row
  comes with its transactions and logs.

There is one lemma per action, one step per part of `IInv` that the action can
disturb, and lemmas on `FilledIn` (lower bound, higher horizon, insertion,
deletion, new floor) that every such step rests on.

*The log floor.* An iteration deletes logs before transactions and blocks. When a block
already past its boundary is indexed between these passes, the later one takes the block's row and
leaves its logs: a log row may outlive its block, and the next iteration may
raise the log floor to it. So `LogsInv` does not speak of stored blocks but of
`LogAnchors`, the blocks the log floor is at or may be raised to, and says that from each
of them up to each of `Points`, the numbers the code resumes from, nothing inside retention is missing.

*The floor is exact when written.* `DropWritesTruth` has no allowance for the horizon:
at the moment the block floor is written, everything the rows claim is there. During an
iteration this is false, and `IInv` is of no help, since its horizon may be above what this
iteration deleted. `TruthInv` follows the iteration itself: outside it the stored blocks are complete
down to the boundary the tip calls for (`Cut`); once the block pass is over, they are
complete with no allowance at all (`TruthCut` is 0), because everything below the boundary is gone
and what was inserted since continues what was there. `StoredOrCut` says
the same of the blocks that the coverage rows and the continuous run are about to claim.

*The ledger.* `IInv` again does the work: a step that leaves rows, coverage
rows and horizon alone is a stutter (`LedgerUntouched`); an insertion, a higher
horizon and a deletion are `Index`, `Excuse` and `Forget`; and for a step that
writes a coverage row, `IInv` after the step says that the interval it claims is accounted for, which is
all `Publish` and `MoveFloor` ask.

*Readers.* No step of the ledger takes a block out of what is covered or excused
(`AccountedStays`): rows leave only when they are excused, and a block stops being excused only as
its rows come in. With `IInv` every claimed block is one of these when the rows are read (`ClaimAccounted`),
so it is one for good (`FullModeServesReaders`).

*Direction.* A history run repeats from `startIndex`, below the old top; while it is at its
states write nothing else moves `LastIndexed` (`OnlyHistoryMoves`), and nothing is missing from `startIndex` up
to a stored block (`HistoryFilled`), so the old top has everything below it (`GoesBackOverStored`).

### FSP mode

Here a start may go below or above what is stored, lower a floor or create it, so the
stored rows are no chain of their own and full mode's invariant does not hold.
`IInv` (module `FspModeInv`) quantifies over two sets instead. The *points* (`RunPoints`)
are the values `LastIndexed` may take plus one: what it is, where the run began, its
cursor. The *anchors* (`BlockAnchors`, `LogAnchors`) are the blocks a floor is at or may
be moved to: the floor's own, every stored block while there is no floor, and
the rows `Held` by a deletion that has yet to write its floor. Between any anchor and any
point nothing inside retention is missing (`BlocksFilled`, `LogsFilled`), but
for the blocks a plan has passed over. While a backfill is under way, the events of
its range count as taken care of (`EventsPending`), and `Backfilling` says
that what is below its cursor is in; `EventsPlanned` carries the plan's promise
from there to the end of the catch-up. The log floor may be written before the blocks above it are
indexed (section 4), which is what `passedLogs` and its `TakenIn` are there for: the
invariant was not inductive without them, and the code gives no more.

The ledger follows as in full mode, with the passed-over blocks among the
excused ones. `ReadyMeansPlanDone` is read off `RunStored` and `EventsPlanned` in the step to
readiness. A plan that resumes above its own start (`Resumes`) relies on an earlier run for the blocks
between; for these the proof has an invariant of its own, `PlanClaimed`: as long as such a plan stands,
the block floor is at or below its start, as the decision read it. `BlocksFilled`, from
that floor up to the point the catch-up begins at, gives the blocks between (`ResumedOverRows`).

*Retention.* `RetentionKeepsBackfill` needs no invariant of the tables. The window's start
and the epoch anchors never move back as the head moves on, the boundary is the timestamp of an anchor of the
window itself less the margin, and the backfill's own anchor is that of
an epoch at or after it; `AnchorsInOrder` and `MarginCoversLead` carry this
from epochs to timestamps.
`EventsServed` joins both: `PlanServed` keeps what readiness promised as the chain
goes on (a deletion takes only what the horizon is above of), and `DroppedForWindow` says
that the horizon is no higher than the boundary of some head up to now, whose anchor is
not above that of the window served now.

### One batch

For `LogsReferToOwn`, the invariant has to say where ids are between the counter and
the table: every id in the table is below the counter, and the ids of a batch that waits
to be saved lie between the two, each once (`RowsNumbered`, `DataNumbered`); a log of the
batch carries the id of a row of the same batch and hash (`DataRefersToOwn`). So a row is
ignored only for its hash, its id is then nobody's, and a log that survives the foreign
key has found its own transaction.

For `StatusIsOwn`: each place of the receipts is empty or holds the receipt of the
transaction at the same place of the batch (`ReceiptsOwn`), and every transaction of the
batch is one of the chain (`TransactionsOfChain`). A row built from both has
the status of its own transaction, and the tables receive no other rows.

For `SaveIsWhole` the direction is the other one, that nothing asked for is left out
anywhere on the way:

- `CollectedIn`: a processed block has every transaction that a policy asks for in
  the batch. The model takes the i-th of the collected ones, by counting those before
  each; `IthOnto` is that this numbering misses none.
- `Scanned`: the log requests done so far tile the blocks up to the cursor, whatever
  `log_range` and the batch's length, so that with the last filter done every log asked for is in.
- `DataWhole`: the rows built from the two streams have all of them, each log under its
  transaction's new id where it has one.
- At the commit, a row is new (`RowIsNew`) or ignored for a key that is in
  the table: by hash the same transaction, whose status is the right one by `StatusIsOwn`; so
  a log can be lost only with a transaction that was there before, and this is what
  `SaveIsWhole` says.

For `BuiltinsKept`, `Stands` says of an intermediate merge that the built-in entry, or what it was merged
into, still has its key and at least its flags, and that an address in it came from an entry of the user's. Each `Collect` keeps it, unless the user's
entry gives name and address (the exception in the property). From the merged list it goes
on through resolution (`InResolved`) to the policies, where the last entry for a target
decides (`PolicyLast`) and `NamesApart` says that it is the same contract's.

This is an induction over the entries, and the library's induction theorems cannot
be instantiated by the provers at hand. `Inducted` states induction for *sets* of numbers, by a
smallest number outside, and `Iterated` defines a recursive function on top of it; both are
ordinary lemmas of `BatchProofs`, and `Merged` and `Flattened` use them to compute
`MergeCollectors` and `FlattenSeq` on sequences of any length. `MergeCollectors` is a recursive
function and no operator for this reason.

### RPC client and block search

For `SlotsMatchCalls`: `sem` is the number of callers at the node. Each
action that moves a caller to or from the node moves `sem` by one, and `Release` never blocks, as a caller
that releases is one of those counted.

The three theorems of `BlockSearchProofs` come from `SearchInv`: everything above the
candidate's window is later than the timestamp (`Narrowing`), what is cut off
below is earlier and what is cut off above is not (`Bisecting`), except that
the narrowing may have stopped inside a run of equal timestamps
(`StoppedInside`).

**Only model-checked:** the liveness properties (`EveryBlockIndexed`,
`ClaimsHeal`, `CatchesUp`, `Terminates`, `TimedOperationsEnd`, `OperationsEnd`); reasoning
about fairness is beyond the prover. The runs that expect a violation are
counterexamples and have nothing to prove.

## 6. What is not modelled

- `drop_table_at_start`: it is `Init`.
- A `history_drop` that changes between two starts: `Interval` is a constant of full mode.
- The case of contract names: the keys of the merge are lower-cased (`merge.go:60`), the registry
  takes a name as it is written. In the models a name is the same in both; a built-in entry repeated
  in another case is merged and keeps the built-in spelling.
- Ids burnt part-way through a batch that cannot be built, and the single chunks
  of a deletion inside `Batch` (section 2).
- A reorganisation deeper than `confirmations`: the code takes confirmed blocks as
  final, the models do too.
- Nodes behind one URL that disagree: a lagging node answers `eth_getLogs` for
  a block it has not seen with no logs and no error. The code has no way to
  tell; the models assume the node answers for the blocks it announced.
- Wall-clock time: timeouts and back-off appear as "may fail now", sleeps as "later".
- The MySQL server, beyond: transactions are atomic, committed data survives,
  a `DELETE ... LIMIT` without `ORDER BY` may take any matching rows.
- Two indexer processes on one database.
- Configuration parsing and validation, diagnostics, generated bindings.
- `resolveFspContractAddresses`: which contracts and topics make an FSP event.
- The resolver's cache (`contracts/resolver.go`): it saves calls, and a registry
  that changes needs a restart by design.
- A collision of hash and index in `LogHashIndexCheck`: its key is the hash, of fixed length,
  followed by the index, so different logs have different keys.

## 7. Plan

Done, in this order: the states table; the engine; the deletion loop; full mode
with its runs; the block search; FSP mode with its runs; the coverage ledger; the
collectors and the batch; the RPC pool; then the proofs: type correctness, coverage and the
ledger of full mode, its log floor and its exact floor; the inductive invariant of FSP mode with
coverage, ledger, readers, readiness and retention; the batch with ids, statuses,
completeness and built-in entries; the pool and the block search.

Next, most important first:

1. An abstract batch (everything asked for enters at once, or nothing does) that `Batch`
   implements, which is what `Engine` takes a commit to be.
2. A bound on the number of lookups of the block search, as a safety property with a
   variant, which would leave only fairness to `Terminates`.
3. The safety half of `ClaimsHeal`: once the block floor has been written, only a deletion
   or a fault makes it claim too much again.
4. Lemmas on `FspEpochs` stated for their own sake: the plan's order (event start ≤ full
   start ≤ tip, where it holds) and the window's advance.
