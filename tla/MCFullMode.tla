----------------------------- MODULE MCFullMode -----------------------------
(***************************************************************************)
(* A short chain for TLC: blocks 1 and 2 share a timestamp, as C-chain     *)
(* blocks may, and the spacing is uneven, so that a boundary falls on, and *)
(* between, timestamps.  The chain begins younger than the drop interval.  *)
(***************************************************************************)
EXTENDS FullModeInv

MCBlockTime(b) == CASE b = 0 -> 0 [] b = 1 -> 1 [] b = 2 -> 1 [] b = 3 -> 3
                    [] b = 4 -> 4 [] OTHER -> b + 1

MCTxBlocks == {1, 3}
MCLogBlocks == {1, 2, 4}
MCReceiptLogBlocks == {1}
=============================================================================
