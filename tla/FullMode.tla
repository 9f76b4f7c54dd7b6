------------------------------ MODULE FullMode ------------------------------
(***************************************************************************)
(* Full mode (cmd/indexer/main.go): where a process starts, the history    *)
(* run under its retry loop, then the deletion loop beside the continuous  *)
(* run.  A process resumes after the block row with the highest id, so the *)
(* ids MySQL gives out are part of the state.                              *)
(***************************************************************************)
EXTENDS HistoryDrop

CONSTANTS
    StartIndex,   \* indexer.start_index
    Interval      \* the history drop interval in seconds, 0 to keep everything

ASSUME FullModeAssumption == StartIndex \in Nat /\ Interval \in Nat

VARIABLES
    blockId,      \* the id of each block's row, 0 for a block without one
    nextId        \* AUTO_INCREMENT of the blocks table

fullVars == <<engineVars, dropVars, blockId, nextId>>

\* Mutant: the subtraction is not guarded.
TipAgeBoundaryUnguarded == BlockTime(head) - Interval

\* safeDeleteBoundary, from the newest block, confirmed or not.
TipAgeBoundary ==
    IF Interval >= BlockTime(head) THEN 0 ELSE BlockTime(head) - Interval

-----------------------------------------------------------------------------
(***************************************************************************)
(* Where a process starts: getStartIndex                                   *)
(***************************************************************************)

\* Mutant: a restart goes on from the newest block.
StartAtHead ==
    /\ stored # {}
    /\ startIndex' = head
    /\ UNCHANGED horizon

\* After the block row with the highest id.
StartAfterLastRow ==
    /\ \E b \in stored :
          /\ \A c \in stored : blockId[c] <= blockId[b]
          /\ startIndex' = b + 1
    /\ UNCHANGED horizon

\* Nothing stored and nothing ever dropped: the configured block.
StartAsConfigured ==
    /\ stored = {}
    /\ Interval = 0
    /\ startIndex' = StartIndex
    /\ UNCHANGED horizon

\* What the start rule gives up: the blocks before its start, which may be as
\* old as the boundary.
GivenUp(b) ==
    IF \E c \in StartIndex .. head : c < b /\ BlockTime(c) >= TipAgeBoundary
    THEN TipAgeBoundary + 1 ELSE TipAgeBoundary

\* Nothing stored: a block, from the configured one on, that the deletion loop
\* would keep.  Above the head the search is empty and returns its lower end.
StartInsideInterval ==
    /\ stored = {}
    /\ Interval > 0
    /\ \/ StartIndex >= head /\ startIndex' = StartIndex
       \/ /\ StartIndex < head
          /\ startIndex' \in Nearest(TipAgeBoundary, StartIndex, head)
    /\ horizon' = Higher(horizon, GivenUp(startIndex'))

Start ==
    /\ pc = "start"
    /\ StartAfterLastRow \/ StartAsConfigured \/ StartInsideInterval
    /\ pc' = "hist_range"
    /\ UNCHANGED <<head, rows, states, cursor, ixEnd, histLast, synced, faults>>
    /\ UNCHANGED <<dpc, dtable, boundary, dfirst, blockId, nextId>>

-----------------------------------------------------------------------------
(***************************************************************************)
(* The runs                                                                *)
(***************************************************************************)

\* Mutant: the block rows go in in the reverse order.
AssignIdsReversed(lo, hi) ==
    /\ blockId' = [b \in Block |-> IF b \in (lo .. hi) \ stored
                                   THEN nextId + (hi - b) ELSE blockId[b]]
    /\ nextId' = nextId + (hi - lo + 1)

\* INSERT IGNORE of the block rows lo .. hi, in order: one id each, used or
\* burnt.
AssignIds(lo, hi) ==
    /\ blockId' = [b \in Block |-> IF b \in (lo .. hi) \ stored
                                   THEN nextId + (b - lo) ELSE blockId[b]]
    /\ nextId' = nextId + (hi - lo + 1)

IndexBatch ==
    /\ HistoryBatch
    /\ AssignIds(cursor, LastInRound)
    /\ UNCHANGED dropVars

IndexBlock ==
    /\ ContinuousBlock
    /\ AssignIds(cursor, cursor)
    /\ UNCHANGED dropVars

\* The history run is over: the deletion loop starts, unless it is disabled.
GoContinuous ==
    /\ HistoryReturns
    /\ IF Interval > 0 THEN DropStarts ELSE UNCHANGED dropVars
    /\ UNCHANGED <<blockId, nextId>>

\* The continuous run is over: the process exits, its deletion loop with it.
Finish ==
    /\ ContinuousReturns
    /\ DropEnds
    /\ UNCHANGED <<blockId, nextId>>

\* The history run fails: boff runs it again from the same block.
HistoryFails ==
    /\ pc \in HistoryPc
    /\ faults < MaxFaults
    /\ faults' = faults + 1
    /\ pc' = "hist_range"
    /\ UNCHANGED <<head, rows, states, cursor, ixEnd, plan, synced>>
    /\ UNCHANGED <<dropVars, blockId, nextId>>

\* The steps that leave the deletion loop and the ids alone.
IndexingStep ==
    /\ \/ HistoryRange
       \/ HistoryStates
       \/ HistoryExtend
       \/ ContinuousStart
       \/ ContinuousRange
       \/ ContinuousPoll
       \/ ContinuousStates
       \/ ProcessStarts
    /\ UNCHANGED <<dropVars, blockId, nextId>>

Fault ==
    \/ HistoryFails
    \/ ContinuousFails /\ UNCHANGED <<dropVars, blockId, nextId>>
    \/ DropFails /\ UNCHANGED <<blockId, nextId>>
    \/ ProcessEnds /\ DropEnds /\ UNCHANGED <<blockId, nextId>>

\* Deleting a block row takes its id along.
DeleteRows ==
    /\ DropDeletes
    /\ blockId' = [b \in Block |-> IF b \in rows'["blocks"] THEN blockId[b] ELSE 0]
    /\ UNCHANGED nextId

Dropping ==
    \/ DeleteRows
    \/ DropResolves(TipAgeBoundary) /\ UNCHANGED <<blockId, nextId>>
    \/ DropStep /\ UNCHANGED <<blockId, nextId>>

Chain == ChainGrows /\ UNCHANGED <<dropVars, blockId, nextId>>

Process == Start \/ IndexBatch \/ IndexBlock \/ GoContinuous \/ Finish \/ IndexingStep

\* A finished process is not started again.
Done == pc = "finished" /\ UNCHANGED fullVars

Next == Chain \/ Process \/ Dropping \/ Fault \/ Done

Init ==
    /\ EngineInit
    /\ DropInit
    /\ blockId = [b \in Block |-> 0]
    /\ nextId = 1

Spec == Init /\ [][Next]_fullVars

\* The process takes its next step, and once it has ended it is started
\* again; the deletion loop is scheduled; blocks keep coming.
FairSpec ==
    /\ Spec
    /\ WF_fullVars(Process)
    /\ WF_fullVars(Dropping)
    /\ WF_fullVars(Chain)

-----------------------------------------------------------------------------
(***************************************************************************)
(* Properties                                                              *)
(***************************************************************************)

TypeOK ==
    /\ head \in Block
    /\ rows \in [Table -> SUBSET Block]
    /\ \A t \in Table : rows[t] \subseteq Content(t)
    /\ states \in [StateName -> RowType]
    /\ pc \in EnginePc
    /\ cursor \in Nat /\ ixEnd \in Nat /\ startIndex \in Nat /\ histLast \in Nat
    /\ synced \in BOOLEAN
    /\ faults \in 0 .. MaxFaults
    /\ dpc \in DropPc
    /\ dtable \in Table
    /\ boundary \in Nat /\ horizon \in Nat /\ dfirst \in Block
    /\ blockId \in [Block -> Nat]
    /\ nextId \in Nat

\* Whatever crashes, errors and deletions interleave, a block between the two
\* coverage rows is in all three tables, unless the deletion loop or the start
\* rule has already given it up (states.go:22-24, saveData's order of writes).
CoverageSound == \A b \in Block : Claimed(b) /\ BlockTime(b) >= horizon => Covered(b)

\* The rows a consumer may read have no gap: a missing block between two
\* stored ones is past retention (getStartIndex, ContinuousStartIndex and the
\* retry of IndexHistory together never skip a block).
NoGaps == \A a, c \in stored : \A b \in a .. c : b \in stored \/ BlockTime(b) < horizon

\* The log floor the deletion loop writes in full mode claims only logs that
\* are there (states.go:25-27).
LogFloorSound ==
    states["LogFloor"].exists =>
        \A b \in LogBlocks : /\ states["LogFloor"].index <= b
                             /\ b <= states["LastIndexed"].index
                             /\ BlockTime(b) >= horizon
                             => b \in rows["logs"]

Ledger == INSTANCE CoverageLedger WITH
    Blocks <- Block,
    covered <- CoveredBlocks,
    excused <- PastRetention,
    floor <- ClaimedFrom,
    top <- ClaimedTo

\* Full mode is a coverage ledger: rows are claimed only once they are in,
\* deleted only once they are past retention, and between the two coverage rows
\* nothing else is ever missing (states.go:14-36, saveData, dropAndRaiseFloor).
ImplementsLedger == Ledger!Spec

\* A consumer reads the coverage rows and then, in queries of its own, the
\* tables, while the indexer deletes, fails, runs again and restarts: a block the
\* rows have claimed is in all tables whenever it comes to look, or is past
\* retention (states.go:14-36).
ReadersServed == Ledger!ReadersServed

\* What the coverage rows claim with no allowance for retention.
FloorGuarantee == \A b \in Block : Claimed(b) => Covered(b)

\* The deletion loop reads the floor, looks for the first survivor and writes
\* it in three statements, with the indexer inserting between them, after
\* deleting table by table: once it has written the block floor the claim holds
\* with no allowance.
DropWritesTruth ==
    [][DropRaisesFloor /\ dtable = "blocks" => FloorGuarantee']_fullVars

\* LastIndexed goes back only when a failed history run is run again, over blocks
\* that are there already.
LastIndexedAdvances ==
    [][states'["LastIndexed"].index < states["LastIndexed"].index
         => /\ pc = "hist_states"
            /\ \A b \in states'["LastIndexed"].index + 1 .. states["LastIndexed"].index :
                  b \in stored \/ BlockTime(b) < horizon]_fullVars

\* GET /health turns ready only over a database that holds every block from
\* where the process started to the end of its history run, and all of each
\* that an earlier deletion had not begun with.
ReadyMeansCaughtUp ==
    [][~synced /\ synced' =>
        \A b \in startIndex .. ixEnd :
            b \in stored /\ (Covered(b) \/ BlockTime(b) < horizon)]_fullVars

\* Every block the process set out to index, once confirmed, is indexed in the
\* end or past retention, whatever faults come in between.
EveryBlockIndexed ==
    \A b \in Block :
        (pc \in HistoryPc \cup ContinuousPc /\ startIndex <= b /\ b <= Tip /\ b <= StopIndex)
            ~> (b \in stored \/ BlockTime(b) < horizon)

\* A deletion outruns the floor only for a while: in the end the coverage rows
\* claim nothing that is gone.
ClaimsHeal == <>[]FloorGuarantee

\* Whatever crashed before, once the continuous run has indexed a block the
\* coverage rows take in everything stored (the comment in saveData,
\* database.go:63-66).
SelfCorrects ==
    [][ContinuousStates => \A b \in stored' : Claimed(b)']_fullVars
=============================================================================
