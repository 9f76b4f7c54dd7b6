------------------------------- MODULE States -------------------------------
(***************************************************************************)
(* The states table (internal/database/states.go, entities.go): one row    *)
(* per name, the only record of what the indexer claims to have indexed.   *)
(* The operators are the statements the code runs on the table, each from  *)
(* the table before it to the table after it.                              *)
(***************************************************************************)
EXTENDS Integers

\* The four rows.  Consumers outside the repository read them by name.
StateName == {"ChainTip", "LastIndexed", "BlockFloor", "LogFloor"}

\* A row: whether it exists, the block number it carries and that block's
\* timestamp.  The wall-clock column "updated" takes no part in any decision.
Row(index, timestamp) == [exists |-> TRUE, index |-> index, time |-> timestamp]

\* What reading a missing row yields: the zero State.
NoRow == [exists |-> FALSE, index |-> 0, time |-> 0]

RowType == [exists : BOOLEAN, index : Nat, time : Nat]

\* What a consumer of the table takes a row to say: its block, or nothing.
RowIndex(row) == IF row.exists THEN row.index ELSE -1

\* AutoMigrate creates the table empty.
NoStates == [n \in StateName |-> NoRow]

\* A row that carries block 0 reads as unset, as a missing one does.
IsSet(row) == row.index # 0

\* The upsert.
UpdateState(table, name, index, timestamp) ==
    [table EXCEPT ![name] = Row(index, timestamp)]

\* INSERT ... ON CONFLICT DO NOTHING.
CreateStateIfMissing(table, name, index, timestamp) ==
    IF table[name].exists THEN table ELSE UpdateState(table, name, index, timestamp)

\* Mutant: the floor follows every write.
LowerStateFloorAlways(table, name, index, timestamp) ==
    UpdateState(table, name, index, timestamp)

\* A floor that only moves down: create the row, then UPDATE ... WHERE the
\* stored index is greater.
LowerStateFloor(table, name, index, timestamp) ==
    LET created == CreateStateIfMissing(table, name, index, timestamp)
    IN  IF created[name].index > index
        THEN UpdateState(created, name, index, timestamp)
        ELSE created

\* Mutant: LastIndexed keeps its higher value when the floor is lowered.
WriteCoverageStatesKeepTop(table, lastIndex, lastTime, floorBlock, floorTime) ==
    LET topped == IF table["LastIndexed"].index > lastIndex THEN table
                  ELSE UpdateState(table, "LastIndexed", lastIndex, lastTime)
    IN  LowerStateFloor(topped, "BlockFloor", floorBlock, floorTime)

\* LastIndexed and the block floor move in one database transaction.
WriteCoverageStates(table, lastIndex, lastTime, floorBlock, floorTime) ==
    LowerStateFloor(UpdateState(table, "LastIndexed", lastIndex, lastTime),
                    "BlockFloor", floorBlock, floorTime)

\* Mutant: the persisted high-water mark is not read.
ResumeIndexFromHistory(historyLastIndex, lastIndexed) == historyLastIndex + 1

\* Mutant: one block past the resume point is skipped.
ResumeIndexTooHigh(historyLastIndex, lastIndexed) ==
    IF IsSet(lastIndexed) /\ lastIndexed.index > historyLastIndex
    THEN lastIndexed.index + 2
    ELSE historyLastIndex + 1

\* Where continuous indexing resumes: one past the higher of the end of the
\* history run and the persisted high-water mark.
ResumeIndex(historyLastIndex, lastIndexed) ==
    IF IsSet(lastIndexed) /\ lastIndexed.index > historyLastIndex
    THEN lastIndexed.index + 1
    ELSE historyLastIndex + 1
=============================================================================
