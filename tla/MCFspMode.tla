----------------------------- MODULE MCFspMode ------------------------------
(***************************************************************************)
(* A deployment of the contract whose first epoch has no recorded first    *)
(* event, and epochs of one or two blocks, so that a short chain takes the *)
(* served window past the first blocks.                                    *)
(***************************************************************************)
EXTENDS FspModeInv

MCStartedEpochs == 1 .. MaxBlock - 1
MCRewardEpochStartBlock(e) == IF e = 1 THEN 1 ELSE e + 1
MCRandomAcquisitionStartBlock(e) == IF e = 1 THEN 0 ELSE e

\* The genesis block has timestamp 0, and blocks 1 and 2 share theirs.
MCBlockTime(b) == IF b = 0 THEN 0 ELSE IF b <= 2 THEN 2 ELSE b + 1

\* The contract and the margin are as the comments of epochs.go have them.
ASSUME MCAnchors == AnchorsInOrder /\ MarginCoversLead

MCTxBlocks == {2}
MCLogBlocks == {1, 2, 3, 4}
MCReceiptLogBlocks == {2}
MCEventBlocks == {1, 2, 4}
=============================================================================
