----------------------------- MODULE FspModeInv -----------------------------
(***************************************************************************)
(* The inductive invariant behind CoverageSound and LogFloorSound of FSP   *)
(* mode, and what EventsServed needs beside it.  The two are not           *)
(* inductive: a floor may come to be lowered or created at a block the     *)
(* loops hold, and LastIndexed follows the cursor.  The invariant says of  *)
(* every block number LastIndexed may take (the points) that nothing is    *)
(* missing below it, from any block a floor may take (the anchors) on.     *)
(***************************************************************************)
EXTENDS FspMode, EngineInv

LogsFrom == states["LogFloor"]

\* A row carries a block of the chain with its timestamp.
RowTimes ==
    /\ \A n \in StateName : states[n].exists =>
          states[n].index \in Block /\ states[n].time = BlockTime(states[n].index)
    /\ Last.exists => First.exists

-----------------------------------------------------------------------------
(***************************************************************************)
(* Where the goroutines are                                                *)
(***************************************************************************)

\* From the plan on, the run has a start.
PlannedPc == {"backfill", "log_floor", "caught_up"} \cup HistoryPc

Ranges ==
    /\ pc \in {"hist", "hist_states", "hist_extend", "cont", "cont_states"} => ixEnd <= head
    /\ pc \in HistoryPc \ {"hist_range"} => startIndex <= cursor
    /\ pc \in {"hist_states", "hist_extend", "cont_states"} => cursor <= ixEnd
    /\ pc = "caught_up" => planTip < startIndex

\* The backfill is at its cursor, and what it has scanned is in.
Backfilling ==
    pc \in {"backfill", "log_floor"} =>
        /\ eventStart < fullStart /\ fullStart <= startIndex
        /\ fullStart < startIndex => First.exists /\ First.index <= fullStart
        /\ ixEnd = fullStart - 1
        /\ eventStart <= cursor
        /\ pc = "log_floor" => ixEnd < cursor
        /\ \A b \in EventBlocks : eventStart <= b /\ b < cursor /\ b <= ixEnd
              => b \in rows["logs"]

\* The deletion loop runs beside the continuous run only, and only deletes
\* below the horizon.
DropInside ==
    /\ boundary <= horizon
    /\ pc \notin ContinuousPc => dpc = "off"
    /\ dpc \in {"check", "first", "write"} => dtable # "transactions"

\* What the runs have stored since they began.
RunStored ==
    /\ pc \in HistoryPc \ {"hist_range"} =>
          \A b \in Block : startIndex <= b /\ b < cursor /\ b <= ixEnd => b \in stored
    /\ pc = "hist_states" => \A b \in cursor .. LastInRound : b \in stored
    /\ pc \in ContinuousPc \ {"cont_start"} =>
          /\ histLast < cursor
          /\ Last.exists => Last.index < cursor
    /\ pc = "cont_states" => cursor \in stored \/ BlockTime(cursor) < horizon

-----------------------------------------------------------------------------
(***************************************************************************)
(* Nothing is missing                                                      *)
(***************************************************************************)

\* Of the blocks in G: from an anchor up to x nothing inside retention is
\* missing.
FilledIn(G, A, h, x) ==
    \A b \in Block : b < x /\ BlockTime(b) >= h /\ (\E a \in A : a <= b) => b \in G

\* The rows of a table that the deletion loop may be about to write as a floor.
Held(t) ==
    IF dtable # t THEN {}
    ELSE IF dpc = "check" THEN Expired(t)
    ELSE IF dpc = "first" THEN rows[t]
    ELSE IF dpc = "write" THEN {dfirst}
    ELSE {}

BlockAnchors == (IF First.exists THEN {First.index} ELSE stored) \cup Held("blocks")

\* Without a log floor, every block is one.
LogAnchors ==
    BlockAnchors \cup Held("logs") \cup
        (IF LogsFrom.exists THEN {LogsFrom.index} ELSE Block)

BlocksHere == stored \cup passedBlocks

\* Blocks without an event have nothing to miss.
EventsHere == rows["logs"] \cup passedLogs \cup (Block \ EventBlocks)

\* While the backfill runs, its blocks are taken care of.
EventsPending ==
    EventsHere \cup (IF pc \in {"backfill", "log_floor"} THEN eventStart .. fullStart - 1 ELSE {})

\* One past the top, now or after what the process has planned.
RunPoints ==
    (IF Last.exists THEN {Last.index + 1} ELSE {})
    \cup (IF pc \in HistoryPc \cup {"caught_up"} THEN {startIndex} ELSE {})
    \cup (IF pc \in HistoryPc \ {"hist_range"} THEN {Lesser(cursor, ixEnd + 1)} ELSE {})
    \cup (IF pc \in ContinuousPc THEN {histLast + 1} ELSE {})
    \cup (IF pc \in ContinuousPc \ {"cont_start"} THEN {cursor} ELSE {})

BlocksFilled ==
    /\ \A x \in RunPoints : FilledIn(BlocksHere, BlockAnchors, horizon, x)
    /\ pc \in PlannedPc => FilledIn(BlocksHere, BlockAnchors, horizon, startIndex)

LogsFilled ==
    /\ \A x \in RunPoints : FilledIn(EventsHere, LogAnchors, horizon, x)
    /\ pc \in PlannedPc => FilledIn(EventsPending, BlockAnchors, horizon, startIndex)

\* The events the plan promises are claimed, or are those of blocks the run is
\* to index.
EventsPlanned ==
    pc \in HistoryPc \cup {"caught_up"} /\ anchored =>
        \/ LogsFrom.exists /\ LogsFrom.index <= eventStart
        \/ First.exists /\ First.index <= eventStart
        \/ startIndex <= eventStart

\* The whole: what FSP mode keeps true of its tables and its plan between any
\* two statements (IndexStartup, saveData, dropAndRaiseFloor).
IInv ==
    /\ TypeOK
    /\ MissingRows
    /\ RowTimes
    /\ Ranges
    /\ Backfilling
    /\ DropInside
    /\ RunStored
    /\ Whole
    /\ BlocksFilled
    /\ LogsFilled
    /\ EventsPlanned

-----------------------------------------------------------------------------
(***************************************************************************)
(* Why retention keeps what a plan backfilled.  Both go by the anchors of  *)
(* epochs, and the comments of epochs.go take three things for granted.    *)
(***************************************************************************)

\* Every process is configured with the same history_epochs.
OneWindow == \A m, n \in EpochChoices : m = n

\* The first event of a later epoch is not recorded, or assumed, before that
\* of an earlier one.
AnchorsInOrder ==
    \A d, e \in StartedEpochs : d <= e => EpochAnchor(d).block <= EpochAnchor(e).block

\* A nominal lead is as many blocks as seconds: where blocks are slower than
\* that, the margin makes up for the difference.
MarginCoversLead ==
    \A e \in StartedEpochs :
        SaturatingSub(EpochAnchor(e).timestamp, RetentionMargin)
            <= BlockTime(EpochAnchor(e).block)

\* While the process is ready, the events its plan promised up to where the
\* catch-up ended are in, but for those past retention.
PlanServed ==
    synced =>
        /\ pc \in ContinuousPc
        /\ anchored => FilledIn(EventsHere, {eventStart}, horizon, histLast + 1)

\* Nothing was deleted above what the window called for at some moment.
DroppedForWindow ==
    OneWindow =>
        \E h \in Block : h <= head /\ horizon <= RetentionBoundary(historyEpochs, h)

\* What EventsServed rests on beside IInv (runtime.go, fspRetentionBoundary).
ServedInv == PlanServed /\ DroppedForWindow
=============================================================================
