--------------------------- MODULE CoverageLedger ---------------------------
(***************************************************************************)
(* What the database promises a consumer that reads the coverage rows      *)
(* (internal/database/states.go:14-36): the blocks from BlockFloor to      *)
(* LastIndexed are there in full, but for those the indexer has openly     *)
(* given up.  Nothing is said of processes, retries, crashes or the order  *)
(* of statements; FullMode and FspMode are each shown to implement it.     *)
(***************************************************************************)
EXTENDS Integers

CONSTANT Blocks     \* the blocks of the chain

VARIABLES
    covered,    \* the blocks that are in the database in full
    excused,    \* the blocks given up: past retention, or passed over by a plan
    floor,      \* the block of the BlockFloor row
    top         \* the block of the LastIndexed row

ledger == <<covered, excused, floor, top>>

\* A row that does not exist.
Unset == -1

Init == covered = {} /\ excused = {} /\ floor = Unset /\ top = Unset

Accounted == covered \cup excused

\* Rows are inserted.  They claim nothing yet; a block that was given up may
\* come back.
Index ==
    /\ covered \subseteq covered'
    /\ excused' \subseteq excused
    /\ excused \ excused' \subseteq covered'
    /\ UNCHANGED <<floor, top>>

\* Blocks are given up, before any of their rows goes.
Excuse ==
    /\ excused \subseteq excused'
    /\ UNCHANGED <<covered, floor, top>>

\* Only rows of blocks already given up are deleted.
Forget ==
    /\ covered' \subseteq covered
    /\ covered \ covered' \subseteq excused
    /\ UNCHANGED <<excused, floor, top>>

\* Both rows move in one step, the floor only down, and the top also back: to
\* the end of what was inserted before.
Publish ==
    \E lo, hi \in Blocks :
        /\ lo <= hi
        /\ top' = hi
        /\ floor' = IF floor = Unset \/ lo < floor THEN lo ELSE floor
        /\ floor' .. hi \subseteq Accounted
        /\ UNCHANGED <<covered, excused>>

\* The floor alone follows a deletion, to a block from which on nothing is
\* missing.
MoveFloor ==
    \E b \in Blocks :
        /\ floor' = b
        /\ top # Unset => b .. top \subseteq Accounted
        /\ UNCHANGED <<covered, excused, top>>

Next == Index \/ Excuse \/ Forget \/ Publish \/ MoveFloor

Spec == Init /\ [][Next]_ledger

\* What the rows say of a block.
Claimed(b) == floor # Unset /\ floor <= b /\ b <= top

\* What a consumer may rely on that reads the rows first and the tables later,
\* whatever is written or deleted in between: a block the rows have once claimed
\* is there from then on, or has been given up (states.go:20-24).
ReadersServed == \A b \in Blocks : [](Claimed(b) => [](b \in Accounted))
=============================================================================
