------------------------------ MODULE MCRpcPool ------------------------------
(***************************************************************************)
(* Two fetches of one batch, one of the history drop, and two callers      *)
(* without a timeout, which can hold both slots for good: a contract call  *)
(* and the search for a block.                                             *)
(***************************************************************************)
EXTENDS RpcPool

MCCaller == {"block", "receipt", "drop", "contract", "search"}
MCTimed == {"block", "receipt", "drop"}
MCGroup == {"block", "receipt"}
=============================================================================
