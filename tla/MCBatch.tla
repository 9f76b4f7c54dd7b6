------------------------------- MODULE MCBatch -------------------------------
(***************************************************************************)
(* Three blocks for TLC.  Two calls of Relay need a receipt, one call of   *)
(* Submission does not; one log passes a filter and comes with a receipt   *)
(* as well, one only comes with a receipt, one only passes a filter; the   *)
(* last transaction creates a contract.                                    *)
(***************************************************************************)
EXTENDS Batch

Entry(name, address, item, status, events) ==
    [name |-> name, address |-> address, item |-> item, status |-> status, events |-> events]

LogEntry(name, address, item) == Entry(name, address, item, FALSE, FALSE)

MCRegistry == [name \in {"Relay", "Submission", "VoterRegistry"} |->
    CASE name = "Relay" -> "relay" [] name = "Submission" -> "submission" [] OTHER -> "voters2"]

MCUpgrades == {[name |-> "VoterRegistry", old |-> "voters1", new |-> "voters2"],
               [name |-> "VoterRegistry", old |-> "elsewhere1", new |-> "elsewhere2"]}

MCFspTransactions == <<Entry("Submission", Empty, "submit", FALSE, FALSE),
                       Entry("Relay", Empty, "relay()", TRUE, TRUE)>>

MCFspLogs == <<LogEntry("Relay", Empty, "PolicyInitialized"),
               LogEntry("VoterRegistry", Empty, "VoterRegistered")>>

Tx(hash, to, sig, status, logs) ==
    [hash |-> hash, to |-> to, sig |-> sig, status |-> status, logs |-> logs]

Log(index, address, topic) == [index |-> index, address |-> address, topic |-> topic]

MCChain ==
    <<<<Tx("t1", "relay", "relay()", 1, {Log(0, "relay", "PolicyInitialized"),
                                         Log(1, "other", "Other")})>>,
      <<Tx("t2", "submission", "submit", 1, {}),
        Tx("t3", "other", "other()", 1, {Log(2, "voters1", "VoterRegistered")})>>,
      <<Tx("t4", "relay", "relay()", 0, {}),
        Tx("t5", Empty, Empty, 1, {Log(0, "voters2", "VoterRegistered")})>>>>

\* The built-in entries alone; with entries that merge with them and one for any
\* contract; with a built-in contract given by its address, whose entry then
\* stands instead of the built-in one; full mode, where two entries meet in a target.
MCConfigs ==
    {[mode |-> "fsp", transactions |-> <<>>, logs |-> <<>>],
     [mode |-> "fsp",
      transactions |-> <<Entry("Relay", Empty, "relay()", FALSE, FALSE),
                         Entry(Empty, Undefined, "relay()", FALSE, FALSE),
                         Entry(Empty, Undefined, Undefined, TRUE, FALSE)>>,
      logs |-> <<LogEntry(Empty, "relay", Empty)>>],
     [mode |-> "fsp",
      transactions |-> <<Entry(Empty, "relay", "relay()", FALSE, FALSE)>>,
      logs |-> <<>>],
     [mode |-> "full",
      transactions |-> <<Entry(Empty, "relay", "relay()", TRUE, FALSE),
                         Entry("Relay", Empty, "relay()", FALSE, TRUE)>>,
      logs |-> <<LogEntry(Empty, Undefined, "VoterRegistered")>>]}

ASSUME MCContracts == NamesApart
=============================================================================
