----------------------------- MODULE EngineInv ------------------------------
(***************************************************************************)
(* What the tables keep in either mode, whatever plans a start: the parts  *)
(* that the inductive invariants of FullModeInv and FspModeInv share.      *)
(***************************************************************************)
EXTENDS HistoryDrop

Last == states["LastIndexed"]
First == states["BlockFloor"]

\* The types of the variables that either mode shares.
EngineTyped ==
    /\ head \in Block
    /\ rows \in [Table -> SUBSET Block]
    /\ \A t \in Table : rows[t] \subseteq Content(t)
    /\ states \in [StateName -> RowType]
    /\ cursor \in Nat /\ ixEnd \in Nat /\ startIndex \in Nat /\ histLast \in Nat
    /\ synced \in BOOLEAN
    /\ faults \in 0 .. MaxFaults
    /\ dpc \in DropPc
    /\ dtable \in Table
    /\ boundary \in Nat /\ horizon \in Nat /\ dfirst \in Block

\* A row that does not exist reads as the zero row.
MissingRows == \A n \in StateName : ~states[n].exists => states[n] = NoRow

\* A block row inside retention comes with the block's transactions and logs,
\* and a transaction row with the logs that refer to it: indexing its block
\* anew would ignore them.
Whole ==
    /\ \A b \in stored : BlockTime(b) >= horizon => Covered(b)
    /\ \A b \in rows["transactions"] \cap ReceiptLogBlocks :
          BlockTime(b) >= horizon => b \in rows["logs"]
=============================================================================
