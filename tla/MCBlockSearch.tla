--------------------------- MODULE MCBlockSearch ----------------------------
(***************************************************************************)
(* Every chain of eight blocks over four timestamps, every range, and a    *)
(* window that fits the chain twice.                                       *)
(***************************************************************************)
EXTENDS BlockSearch

MCTimes == 0 .. 3
=============================================================================
