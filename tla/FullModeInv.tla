---------------------------- MODULE FullModeInv -----------------------------
(***************************************************************************)
(* The inductive invariant behind CoverageSound and NoGaps, in named parts.*)
(* CoverageSound is not inductive as it stands: it says nothing of the     *)
(* blocks the process is about to claim, nor of where the next process     *)
(* will resume.  The parts say it of every point the code resumes from.    *)
(***************************************************************************)
EXTENDS FullMode, EngineInv

\* start_index is to be set only without history drop (config.example.toml:3).
\* Set with it, a process that finds every row deleted starts at StartIndex
\* even where an earlier one started at a tip below it.
StartIndexAsDocumented == Interval = 0 \/ StartIndex = 0

\* With stored blocks S, floor row F and horizon h: below x nothing is missing
\* that is inside retention and at or above something held or claimed.
FilledIn(S, F, h, x) ==
    \A b \in Block :
        /\ b < x
        /\ BlockTime(b) >= h
        /\ (F.exists /\ F.index <= b) \/ \E a \in S : a <= b
        => b \in S

Filled(x) == FilledIn(stored, First, horizon, x)

\* Ranges.  What the loops are about to index is below the confirmed tip.
Ranges ==
    /\ ixEnd <= head
    /\ pc \in HistoryPc \ {"hist_range"} => startIndex <= cursor
    /\ pc \in {"hist", "hist_states", "hist_extend", "cont", "cont_states"} =>
          ixEnd <= head - Confirmations
    /\ pc \in {"hist", "hist_states", "hist_extend"} => ixEnd <= StopIndex
    /\ pc \in {"hist_states", "hist_extend", "cont_states"} => cursor <= ixEnd
    /\ pc = "cont_states" => cursor <= StopIndex
    /\ \A b \in stored : b <= head - Confirmations /\ b <= StopIndex

\* The deletion loop runs beside the continuous run only, and only deletes
\* below the horizon; what it is about to write as a floor is still there.
DropInside ==
    /\ boundary <= horizon
    /\ Interval = 0 => horizon = 0
    /\ pc \notin ContinuousPc => dpc = "off"
    /\ Interval = 0 => dpc = "off"
    /\ dpc \in {"check", "first", "write"} => dtable # "transactions"
    /\ dpc = "write" /\ dtable = "blocks" => dfirst \in stored

\* The coverage rows carry blocks that are stored or past retention.
RowsStored ==
    /\ First.exists =>
          /\ First.index \in Block
          /\ First.index \in stored \/ BlockTime(First.index) < horizon
    /\ Last.exists =>
          /\ Last.index \in Block
          /\ Last.index \in stored \/ BlockTime(Last.index) < horizon

\* Ids grow with block numbers, so the row with the highest id is the newest.
IdOrder ==
    /\ 0 < nextId
    /\ \A b \in stored : 0 < blockId[b] /\ blockId[b] < nextId
    /\ \A b, c \in stored : b < c => blockId[b] < blockId[c]

\* Below any stored block nothing is missing.
FilledBelowStored == \A c \in stored : Filled(c + 1)

\* The history run, and any repetition of it, starts and goes on where the
\* database is filled, and leaves no gap behind.
HistoryFilled ==
    pc \in HistoryPc =>
        /\ Filled(startIndex)
        /\ \A c \in stored : \A b \in startIndex .. c : b \in stored
        /\ pc # "hist_range" =>
              /\ \A c \in stored : c <= ixEnd
              /\ Filled(Lesser(cursor, ixEnd + 1))
              /\ \A b \in Block : startIndex <= b /\ b < cursor /\ b <= ixEnd => b \in stored
        /\ pc = "hist_states" => \A b \in cursor .. LastInRound : b \in stored

\* So does the continuous run.
ContinuousFilled ==
    pc \in ContinuousPc =>
        /\ Filled(histLast + 1)
        /\ \A c \in stored : c <= histLast + 1 \/ c <= Last.index + 1
        /\ pc # "cont_start" =>
              /\ \A c \in stored : c <= cursor
              /\ Last.index < cursor
              /\ histLast < cursor
              /\ cursor <= histLast + 1 \/ cursor <= Last.index + 1
              /\ Filled(cursor)
        /\ pc = "cont_states" =>
              cursor \in stored \/ BlockTime(cursor) < horizon

\* The whole: what full mode keeps true of its tables between any two
\* statements of its goroutines (saveData, getStartIndex, dropAndRaiseFloor).
IInv ==
    /\ TypeOK
    /\ Ranges
    /\ MissingRows
    /\ DropInside
    /\ Whole
    /\ RowsStored
    /\ IdOrder
    /\ FilledBelowStored
    /\ HistoryFilled
    /\ ContinuousFilled

-----------------------------------------------------------------------------
(***************************************************************************)
(* What LogFloorSound needs beside it.  A log row may outlive its block's  *)
(* row, when the block went in while an iteration was between its passes;  *)
(* the log floor may come to lie on such a block.                          *)
(***************************************************************************)

LogsFrom == states["LogFloor"]

\* The blocks the log floor is at or may be raised to.
LogAnchors == rows["logs"] \cup (IF LogsFrom.exists THEN {LogsFrom.index} ELSE {})

\* The block numbers the code resumes from, and one past any stored block.
Points ==
    {c + 1 : c \in stored}
    \cup (IF pc \in HistoryPc THEN {startIndex} ELSE {})
    \cup (IF pc \in HistoryPc \ {"hist_range"} THEN {Lesser(cursor, ixEnd + 1)} ELSE {})
    \cup (IF pc \in ContinuousPc THEN {histLast + 1} ELSE {})
    \cup (IF pc \in ContinuousPc \ {"cont_start"} THEN {cursor} ELSE {})

\* With stored blocks S and horizon h: from the anchors A up to x nothing is
\* missing that is inside retention.
FilledFrom(A, S, h, x) ==
    \A b \in Block : b < x /\ BlockTime(b) >= h /\ (\E a \in A : a <= b) => b \in S

\* What full mode keeps true of the logs and their floor beside IInv: nothing
\* is missing from there on either (dropAndRaiseFloor, saveData).
LogsInv ==
    /\ LogAnchors \subseteq Block
    /\ dpc = "write" /\ dtable = "logs" => dfirst \in rows["logs"]
    /\ Interval = 0 => LogAnchors \subseteq stored
    /\ \A a \in LogAnchors : a \in stored \/ BlockTime(a) < horizon
    /\ \A x \in Points : FilledFrom(LogAnchors, stored, horizon, x)

-----------------------------------------------------------------------------
(***************************************************************************)
(* What DropWritesTruth needs beside it: the same with no allowance for    *)
(* what an earlier start gave up, and, once an iteration has deleted its   *)
(* blocks, with none at all.                                               *)
(***************************************************************************)

\* No deletion reached further than this: boundaries only rise.
Cut == IF dpc \in {"off", "idle"} THEN TipAgeBoundary ELSE boundary

\* Deletion is done with the blocks, and their floor is about to be written.
BlocksGone == dtable = "blocks" /\ dpc \in {"check", "first", "write"}

\* From where on the stored blocks are complete.
TruthCut == IF BlocksGone THEN 0 ELSE Cut

\* A block the coverage rows speak of is stored or deleted; one deleted in this
\* iteration has no stored block below it.
StoredOrCut(b) ==
    \/ b \in stored
    \/ BlockTime(b) < Cut /\ (BlocksGone => \A a \in stored : b < a)

\* What full mode keeps true of its blocks across an iteration of the deletion
\* loop, so that the floor it ends with is exact (dropAndRaiseFloor).
TruthInv ==
    /\ boundary <= TipAgeBoundary
    /\ \A b \in stored : BlockTime(b) >= TruthCut => Covered(b)
    /\ \A b \in rows["transactions"] \cap ReceiptLogBlocks :
          BlockTime(b) >= Cut \/ (dtable = "blocks" /\ dpc \notin {"off", "idle"})
             => b \in rows["logs"]
    /\ \A x \in Points : FilledFrom(stored, stored, TruthCut, x)
    /\ Last.exists => StoredOrCut(Last.index)
    /\ pc = "cont_states" => StoredOrCut(cursor)
=============================================================================
