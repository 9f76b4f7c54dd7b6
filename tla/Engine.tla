------------------------------- MODULE Engine -------------------------------
(***************************************************************************)
(* The indexing engine (internal/core) as both run modes drive it:         *)
(* IndexHistory, the batched catch-up, and IndexContinuous, the block by   *)
(* block loop at the chain tip, writing to a database that two kinds of    *)
(* fault can hit between any two of their calls - an error, which the      *)
(* retry loop around the run answers by running it again, and the end of   *)
(* the process.  FullMode and FspMode extend this module with the start-up *)
(* planning of the two modes; HistoryDrop adds the deletion loop.          *)
(*                                                                         *)
(* What a batch fetches is abstracted to which blocks have rows in which   *)
(* table: a batch is fetched whole or the run fails, so only the order of  *)
(* the commits is left to see here.                                        *)
(***************************************************************************)
EXTENDS States

CONSTANTS
    MaxBlock,       \* the chain never grows past this block (bound)
    BlockTime(_),   \* the timestamp of a block
    TxBlocks,       \* the blocks that hold a transaction the policies collect
    LogBlocks,      \* the blocks that hold a collected log
    ReceiptLogBlocks, \* those of them whose logs are collected through the receipt
                    \* of a transaction, and refer to its row
    Confirmations,  \* indexer.confirmations
    BatchSize,      \* indexer.batch_size, after applyIndexerDefaults
    StopIndex,      \* indexer.stop_index, after applyIndexerDefaults
    MaxFaults       \* errors and process ends in a behaviour (bound)

Block == 0 .. MaxBlock

\* Block timestamps never decrease, but may repeat: the C-chain accepts a
\* block with its parent's timestamp.
ASSUME EngineAssumption ==
    /\ MaxBlock \in Nat
    /\ \A b \in Block : BlockTime(b) \in Nat
    /\ \A b, c \in Block : b <= c => BlockTime(b) <= BlockTime(c)
    /\ TxBlocks \subseteq Block
    /\ LogBlocks \subseteq Block
    /\ ReceiptLogBlocks \subseteq TxBlocks \cap LogBlocks
    /\ Confirmations \in Nat
    /\ BatchSize \in Nat \ {0}
    /\ StopIndex \in Nat
    /\ MaxFaults \in Nat

Table == {"blocks", "transactions", "logs"}

\* The blocks that have rows in a table once they are indexed.
Content(t) == IF t = "blocks" THEN Block
              ELSE IF t = "transactions" THEN TxBlocks ELSE LogBlocks

VARIABLES
    head,       \* the newest block of the chain
    rows,       \* for each table, the blocks whose rows it holds
    states,     \* the states table
    pc,         \* the next call of the indexing goroutine
    cursor,     \* i of IndexHistory, blockNum of IndexContinuous
    ixEnd,      \* ixRange.end
    startIndex, \* the block the retry loop hands to IndexHistory
    histLast,   \* historyLastIndex, what IndexHistory returned
    synced,     \* ready.synced, what GET /health reports
    faults      \* faults so far

engineVars == <<head, rows, states, pc, cursor, ixEnd, startIndex, histLast,
                synced, faults>>

\* What a block fetch or a log fetch leaves alone: the process's own plan.
plan == <<startIndex, histLast>>

HistoryPc == {"hist_range", "hist", "hist_states", "hist_extend"}
ContinuousPc == {"cont_start", "cont_range", "cont", "cont_states"}
EnginePc == HistoryPc \cup ContinuousPc \cup {"down", "start", "finished"}

\* The block rows.
stored == rows["blocks"]

Lesser(a, b) == IF a <= b THEN a ELSE b

-----------------------------------------------------------------------------
(***************************************************************************)
(* The chain                                                               *)
(***************************************************************************)

\* A block is appended.
ChainGrows ==
    /\ head < MaxBlock
    /\ head' = head + 1
    /\ UNCHANGED <<rows, states, pc, cursor, ixEnd, plan, synced, faults>>

\* fetchLastBlockIndex fails on a chain shorter than the confirmations.
Confirmed == head >= Confirmations
Tip == head - Confirmations

\* Every read of the tip is followed by the upsert of the ChainTip row.
ObserveTip ==
    /\ Confirmed
    /\ states' = UpdateState(states, "ChainTip", Tip, BlockTime(Tip))

\* The search for a block that is not older than a timestamp answers the first
\* one of the range, or, narrowing it from its end because no start was given,
\* some block that is exactly as old (see BlockSearch).
Nearest(timestamp, first, last) ==
    {b \in first .. last :
        /\ BlockTime(b) >= timestamp
        /\ \/ \A c \in first .. last : c < b => BlockTime(c) < timestamp
           \/ first = 0 /\ BlockTime(b) = timestamp}

-----------------------------------------------------------------------------
(***************************************************************************)
(* saveData                                                                *)
(***************************************************************************)

LastInRound == Lesser(cursor + BatchSize - 1, ixEnd)

\* Mutant: the log requests of a batch stop one block short.
InsertShortOfLogs(lo, hi) ==
    rows' = [t \in Table |-> rows[t] \cup (Content(t) \cap
                (lo .. (IF t = "logs" /\ lo < hi THEN hi - 1 ELSE hi)))]

\* A transaction row that is there keeps its id, and the logs of its receipt
\* come with the new one that was ignored: their foreign key finds no row, so
\* they are ignored too.
Ignored(t) == IF t = "logs" THEN ReceiptLogBlocks \cap rows["transactions"] ELSE {}

\* The data transaction: INSERT IGNORE of the rows of blocks lo .. hi.
Insert(lo, hi) ==
    rows' = [t \in Table |-> rows[t] \cup ((Content(t) \cap (lo .. hi)) \ Ignored(t))]

\* The states transaction that follows the data transaction.
PublishCoverage(lo, hi) ==
    states' = WriteCoverageStates(states, hi, BlockTime(hi), lo, BlockTime(lo))

-----------------------------------------------------------------------------
(***************************************************************************)
(* IndexHistory                                                            *)
(***************************************************************************)

HistoryRange ==
    /\ pc = "hist_range"
    /\ ObserveTip
    /\ ixEnd' = Lesser(Tip, StopIndex)
    /\ cursor' = startIndex
    /\ pc' = "hist"
    /\ UNCHANGED <<head, rows, plan, synced, faults>>

\* indexBatch up to the commit of the data transaction.
HistoryBatch ==
    /\ pc = "hist"
    /\ cursor <= ixEnd
    /\ Insert(cursor, LastInRound)
    /\ pc' = "hist_states"
    /\ UNCHANGED <<head, states, cursor, ixEnd, plan, synced, faults>>

\* Only in the second to last turn of the loop.
ShouldUpdateLastIndex ==
    /\ cursor + BatchSize <= ixEnd
    /\ cursor + 2 * BatchSize > ixEnd

HistoryStates ==
    /\ pc = "hist_states"
    /\ PublishCoverage(cursor, LastInRound)
    /\ pc' = IF ShouldUpdateLastIndex THEN "hist_extend" ELSE "hist"
    /\ cursor' = cursor + BatchSize
    /\ UNCHANGED <<head, rows, ixEnd, plan, synced, faults>>

\* updateLastIndexHistory.
HistoryExtend ==
    /\ pc = "hist_extend"
    /\ ObserveTip
    /\ ixEnd' = IF Tip > ixEnd /\ StopIndex > ixEnd
                THEN Lesser(Tip, StopIndex) ELSE ixEnd
    /\ pc' = "hist"
    /\ UNCHANGED <<head, rows, cursor, plan, synced, faults>>

\* Mutant: the loop leaves its last block out.
HistoryReturnsEarly ==
    /\ pc = "hist"
    /\ cursor >= ixEnd
    /\ histLast' = ixEnd
    /\ synced' = TRUE
    /\ pc' = "cont_start"
    /\ UNCHANGED <<head, rows, states, cursor, ixEnd, startIndex, faults>>

\* The loop ends: the caller keeps the last index and reports ready.
HistoryReturns ==
    /\ pc = "hist"
    /\ cursor > ixEnd
    /\ histLast' = ixEnd
    /\ synced' = TRUE
    /\ pc' = "cont_start"
    /\ UNCHANGED <<head, rows, states, cursor, ixEnd, startIndex, faults>>

-----------------------------------------------------------------------------
(***************************************************************************)
(* IndexContinuous                                                         *)
(***************************************************************************)

\* Each attempt of the retry loop resolves its start again.
ContinuousStart ==
    /\ pc = "cont_start"
    /\ cursor' = ResumeIndex(histLast, states["LastIndexed"])
    /\ pc' = "cont_range"
    /\ UNCHANGED <<head, rows, states, ixEnd, plan, synced, faults>>

ContinuousRange ==
    /\ pc = "cont_range"
    /\ ObserveTip
    /\ ixEnd' = Lesser(Tip, StopIndex)
    /\ pc' = "cont"
    /\ UNCHANGED <<head, rows, cursor, plan, synced, faults>>

\* Mutant: the new tip is published but the range keeps its end.
ContinuousPollStale ==
    /\ pc = "cont"
    /\ cursor <= StopIndex
    /\ cursor > ixEnd
    /\ ObserveTip
    /\ UNCHANGED <<head, rows, pc, cursor, ixEnd, plan, synced, faults>>

\* Past the known end: sleep, then look for new blocks.
ContinuousPoll ==
    /\ pc = "cont"
    /\ cursor <= StopIndex
    /\ cursor > ixEnd
    /\ ObserveTip
    /\ ixEnd' = Tip
    /\ UNCHANGED <<head, rows, pc, cursor, plan, synced, faults>>

\* indexContinuousIteration up to the commit of the data transaction.
ContinuousBlock ==
    /\ pc = "cont"
    /\ cursor <= StopIndex
    /\ cursor <= ixEnd
    /\ Insert(cursor, cursor)
    /\ pc' = "cont_states"
    /\ UNCHANGED <<head, states, cursor, ixEnd, plan, synced, faults>>

ContinuousStates ==
    /\ pc = "cont_states"
    /\ PublishCoverage(cursor, cursor)
    /\ cursor' = cursor + 1
    /\ pc' = "cont"
    /\ UNCHANGED <<head, rows, ixEnd, plan, synced, faults>>

\* Past the stop index the run is over and the process exits.
ContinuousReturns ==
    /\ pc = "cont"
    /\ cursor > StopIndex
    /\ synced' = FALSE
    /\ pc' = "finished"
    /\ UNCHANGED <<head, rows, states, cursor, ixEnd, plan, faults>>

-----------------------------------------------------------------------------
(***************************************************************************)
(* Faults                                                                  *)
(***************************************************************************)

\* A call of the continuous run fails for good: boff runs it again.
ContinuousFails ==
    /\ pc \in ContinuousPc
    /\ faults < MaxFaults
    /\ faults' = faults + 1
    /\ pc' = "cont_start"
    /\ UNCHANGED <<head, rows, states, cursor, ixEnd, plan, synced>>

\* The process ends wherever it is: a signal, a crash, a fatal error.  Its
\* variables go with it, so they take their initial values.
ProcessEnds ==
    /\ pc # "down"
    /\ faults < MaxFaults
    /\ faults' = faults + 1
    /\ pc' = "down"
    /\ synced' = FALSE
    /\ cursor' = 0
    /\ ixEnd' = 0
    /\ startIndex' = 0
    /\ histLast' = 0
    /\ UNCHANGED <<head, rows, states>>

\* A process starts, with /health reporting that it is not ready.
ProcessStarts ==
    /\ pc = "down"
    /\ pc' = "start"
    /\ UNCHANGED <<head, rows, states, cursor, ixEnd, plan, synced, faults>>

EngineInit ==
    /\ head \in Block
    /\ rows = [t \in Table |-> {}]
    /\ states = NoStates
    /\ pc = "down"
    /\ cursor = 0
    /\ ixEnd = 0
    /\ startIndex = 0
    /\ histLast = 0
    /\ synced = FALSE
    /\ faults = 0

-----------------------------------------------------------------------------
(***************************************************************************)
(* What the properties speak of                                            *)
(***************************************************************************)

\* Everything the indexer collects of a block is in the database.
Covered(b) == \A t \in Table : b \in Content(t) => b \in rows[t]

CoveredBlocks == {b \in Block : Covered(b)}

\* The coverage rows as a consumer reads them.
ClaimedFrom == RowIndex(states["BlockFloor"])
ClaimedTo == RowIndex(states["LastIndexed"])

\* What the two coverage rows claim: full coverage between them.
Claimed(b) ==
    /\ states["BlockFloor"].exists /\ states["LastIndexed"].exists
    /\ states["BlockFloor"].index <= b /\ b <= states["LastIndexed"].index
=============================================================================
