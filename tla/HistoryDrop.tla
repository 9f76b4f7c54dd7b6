---------------------------- MODULE HistoryDrop -----------------------------
(***************************************************************************)
(* The deletion loop (internal/database/history_drop.go), which runs beside *)
(* the continuous run on the same tables.  One iteration resolves a        *)
(* timestamp boundary, deletes older rows table by table in small commits, *)
(* and after the logs, then after the blocks, raises that pass's floor to  *)
(* its first surviving row.  Every statement commits on its own, so the    *)
(* indexing goroutine, an error or the end of the process can fall between *)
(* any two of them.                                                        *)
(***************************************************************************)
EXTENDS Engine

VARIABLES
    dpc,        \* the next statement of the loop; "off" before it is started
    dtable,     \* the table the pass is deleting from
    boundary,   \* deleteStartTime
    dfirst,     \* the first surviving row's block, between finding and writing it
    horizon     \* history variable: the highest boundary ever applied

dropVars == <<dpc, dtable, boundary, dfirst, horizon>>

DropPc == {"off", "idle", "delete", "check", "first", "write"}

\* The floor a pass maintains.
Floor(t) == IF t = "logs" THEN "LogFloor" ELSE "BlockFloor"

\* Mutant: the rows of the boundary itself go too.
ExpiredAtBoundary(t) == {b \in rows[t] : BlockTime(b) <= boundary}

Expired(t) == {b \in rows[t] : BlockTime(b) < boundary}

\* The blocks some boundary has passed.
PastRetention == {b \in Block : BlockTime(b) < horizon}

Higher(a, b) == IF a <= b THEN b ELSE a

\* An iteration starts with the boundary its caller's function returns.
DropResolves(value) ==
    /\ dpc = "idle"
    /\ boundary' = value
    /\ horizon' = Higher(horizon, value)
    /\ dtable' = "logs"
    /\ dpc' = "delete"
    /\ UNCHANGED <<engineVars, dfirst>>

\* A deleted transaction takes the logs that refer to its row along.  A log
\* that a backfill had stored before the transaction refers to none.
Cascade(gone) ==
    IF dtable = "transactions" THEN SUBSET (gone \cap ReceiptLogBlocks) ELSE {{}}

\* DELETE ... WHERE timestamp < boundary LIMIT 1000, with no ORDER BY: which
\* part of the expired rows goes is the server's choice.
DropDeletes ==
    /\ dpc = "delete"
    /\ \E gone \in (SUBSET Expired(dtable)) \ {{}} :
          \E cascade \in Cascade(gone) :
             rows' = [t \in Table |-> IF t = dtable THEN rows[t] \ gone
                                     ELSE IF t = "logs" THEN rows[t] \ cascade
                                     ELSE rows[t]]
    /\ UNCHANGED <<head, states, pc, cursor, ixEnd, plan, synced, faults>>
    /\ UNCHANGED dropVars

\* Mutant: the pass goes to the floor without having deleted blocks.
DropTableDoneEarly ==
    /\ dpc = "delete"
    /\ Expired(dtable) = {}
    /\ dtable' = (IF dtable = "transactions" THEN "blocks" ELSE dtable)
    /\ dpc' = "check"
    /\ UNCHANGED <<engineVars, boundary, dfirst, horizon>>

\* A DELETE that affects no row ends the loop over the table.
DropTableDone ==
    /\ dpc = "delete"
    /\ Expired(dtable) = {}
    /\ \/ /\ dtable = "transactions"
          /\ dtable' = "blocks"
          /\ dpc' = "delete"
       \/ /\ dtable # "transactions"
          /\ dtable' = dtable
          /\ dpc' = "check"
    /\ UNCHANGED <<engineVars, boundary, dfirst, horizon>>

\* What follows a pass: the second pass, or the sleep.
NextPass ==
    IF dtable = "logs" THEN dtable' = "transactions" /\ dpc' = "delete"
                       ELSE dtable' = dtable /\ dpc' = "idle"

\* Mutant: a floor that reads as unset is left alone.
DropChecksFloorSet ==
    /\ dpc = "check"
    /\ LET floor == states[Floor(dtable)]
       IN  IF IsSet(floor) /\ boundary > floor.time
           THEN dtable' = dtable /\ dpc' = "first"
           ELSE NextPass
    /\ UNCHANGED <<engineVars, boundary, dfirst, horizon>>

\* The floor is read; a boundary that has not passed it leaves it alone.
DropChecksFloor ==
    /\ dpc = "check"
    /\ LET floor == states[Floor(dtable)]
       IN  IF IsSet(floor) /\ boundary <= floor.time
           THEN NextPass
           ELSE dtable' = dtable /\ dpc' = "first"
    /\ UNCHANGED <<engineVars, boundary, dfirst, horizon>>

\* The surviving row with the lowest block number, or none.
DropFindsFirst ==
    /\ dpc = "first"
    /\ IF rows[dtable] = {}
       THEN NextPass /\ dfirst' = dfirst
       ELSE /\ \E b \in rows[dtable] :
                  /\ \A c \in rows[dtable] : b <= c
                  /\ dfirst' = b
            /\ dtable' = dtable
            /\ dpc' = "write"
    /\ UNCHANGED <<engineVars, boundary, horizon>>

DropRaisesFloor ==
    /\ dpc = "write"
    /\ states' = UpdateState(states, Floor(dtable), dfirst, BlockTime(dfirst))
    /\ NextPass
    /\ dfirst' = 0
    /\ UNCHANGED <<head, rows, pc, cursor, ixEnd, plan, synced, faults>>
    /\ UNCHANGED <<boundary, horizon>>

\* A statement fails: the iteration ends, the next one starts over.
DropFails ==
    /\ dpc \in {"delete", "check", "first", "write"}
    /\ faults < MaxFaults
    /\ faults' = faults + 1
    /\ dpc' = "idle"
    /\ dfirst' = 0
    /\ UNCHANGED <<head, rows, states, pc, cursor, ixEnd, plan, synced>>
    /\ UNCHANGED <<dtable, boundary, horizon>>

\* The statements of the loop that delete nothing, apart from where it gets
\* its boundary.
DropStep ==
    \/ DropTableDone
    \/ DropChecksFloor
    \/ DropFindsFirst
    \/ DropRaisesFloor

\* The goroutine is started once, by the caller of the history run.
DropStarts == dpc' = "idle" /\ UNCHANGED <<dtable, boundary, dfirst, horizon>>

\* It ends with its process, and so do its variables.
DropEnds ==
    /\ dpc' = "off"
    /\ dtable' = "logs"
    /\ boundary' = 0
    /\ dfirst' = 0
    /\ UNCHANGED horizon

DropInit ==
    /\ dpc = "off"
    /\ dtable = "logs"
    /\ boundary = 0
    /\ dfirst = 0
    /\ horizon = 0
=============================================================================
