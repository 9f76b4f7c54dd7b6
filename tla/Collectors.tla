------------------------------ MODULE Collectors ------------------------------
(***************************************************************************)
(* What the indexer is asked to collect: the entries of the configuration  *)
(* (internal/config), merged in FSP mode with the built-in ones, their     *)
(* contract names resolved to addresses (internal/contracts), and the      *)
(* transaction policies the engine builds of them (internal/core).  All of *)
(* it runs once, in this order, before anything is fetched.                *)
(*                                                                         *)
(* An entry names its contract or gives its address, or both; its item is  *)
(* the function signature of a transaction entry and the first topic of a  *)
(* log entry.  Log entries leave status and events FALSE.  Names,          *)
(* addresses and items stand for what is left of them after trimming and   *)
(* lower-casing.                                                           *)
(***************************************************************************)
EXTENDS Naturals, SequencesExt

CONSTANTS
    Registry,        \* the address the contract registry answers, per name
    Upgrades,        \* fspUpgradedContracts, as records [name, old, new]
    FspTransactions, \* fspCollectTransactions
    FspLogs          \* FspCollectLogs

Empty == ""
Undefined == "undefined"

\* An entry that a start gets past: a name the registry does not know ends it.
CollectorEntry ==
    {e \in [name : STRING, address : STRING, item : STRING,
            status : BOOLEAN, events : BOOLEAN] :
        e.address # Empty \/ e.name \in DOMAIN Registry}

\* The built-in transaction entries name their contracts, and none comes twice.
ASSUME CollectorsAssumption ==
    /\ \A name \in DOMAIN Registry : Registry[name] \in STRING
    /\ Upgrades \subseteq [name : STRING, old : STRING, new : STRING]
    /\ FspTransactions \in Seq(CollectorEntry)
    /\ FspLogs \in Seq(CollectorEntry)
    /\ \A i \in DOMAIN FspTransactions :
          FspTransactions[i].name # Empty /\ FspTransactions[i].address = Empty
    /\ \A i, j \in DOMAIN FspTransactions :
          /\ FspTransactions[i].name = FspTransactions[j].name
          /\ FspTransactions[i].item = FspTransactions[j].item
          => i = j

-----------------------------------------------------------------------------
(***************************************************************************)
(* mergeFspCollectors                                                      *)
(***************************************************************************)

ContractKey(e) == IF e.name # Empty THEN <<"name", e.name>> ELSE <<"addr", e.address>>

DedupKey(e) == <<ContractKey(e), e.item>>

\* Mutant: the flags of the entry of the configuration replace the built-in ones.
MergeInfoReplaced(base, more) ==
    [base EXCEPT !.address = IF @ = Empty THEN more.address ELSE @,
                 !.status = more.status, !.events = more.events]

\* Equal keys have equal items, and names that are equal or both empty.
MergeInfo(base, more) ==
    [base EXCEPT !.address = IF @ = Empty THEN more.address ELSE @,
                 !.status = @ \/ more.status, !.events = @ \/ more.events]

Collect(entries, e) ==
    IF \E i \in DOMAIN entries : DedupKey(entries[i]) = DedupKey(e)
    THEN [i \in DOMAIN entries |-> IF DedupKey(entries[i]) = DedupKey(e)
                                   THEN MergeInfo(entries[i], e) ELSE entries[i]]
    ELSE Append(entries, e)

\* One entry of the configuration after the other.
MergeCollectors(builtin, entries) ==
    LET merged[n \in 0 .. Len(entries)] ==
            IF n = 0 THEN builtin ELSE Collect(merged[n - 1], entries[n])
    IN  merged[Len(entries)]

\* Full mode takes the entries of the configuration as they are.
Transactions(config) ==
    IF config.mode = "fsp" THEN MergeCollectors(FspTransactions, config.transactions)
                           ELSE config.transactions

Logs(config) ==
    IF config.mode = "fsp" THEN MergeCollectors(FspLogs, config.logs) ELSE config.logs

-----------------------------------------------------------------------------
(***************************************************************************)
(* ResolveContractAddresses                                                *)
(***************************************************************************)

\* Both deployments of an upgraded contract, when the registry knows one of them.
ResolveAllByName(name) ==
    LET upgrade == {u \in Upgrades : u.name = name /\ Registry[name] \in {u.old, u.new}}
    IN IF upgrade = {} THEN <<Registry[name]>>
       ELSE LET u == CHOOSE u \in upgrade : TRUE IN <<u.old, u.new>>

\* No contract stands at an address of another: a hypothesis about the registry,
\* which the code relies on when it keeps one policy per address.
NamesApart ==
    \A name, other \in DOMAIN Registry :
        ToSet(ResolveAllByName(name)) \cap ToSet(ResolveAllByName(other)) # {} => name = other

\* An address that is given is kept, whatever the name.
Resolve(entries) ==
    FlattenSeq([i \in DOMAIN entries |->
        IF entries[i].address # Empty THEN <<entries[i]>>
        ELSE [j \in DOMAIN ResolveAllByName(entries[i].name) |->
                [entries[i] EXCEPT !.address = ResolveAllByName(entries[i].name)[j]]]])

-----------------------------------------------------------------------------
(***************************************************************************)
(* buildTransactionPolicies and its use                                    *)
(***************************************************************************)

Target(e) == <<e.address, e.item>>

\* One policy per address and signature: of two entries for the same pair the
\* later one stands.
Policies(entries) ==
    [target \in {Target(entries[i]) : i \in DOMAIN entries} |->
        LET last == CHOOSE i \in DOMAIN entries :
                        /\ Target(entries[i]) = target
                        /\ \A j \in DOMAIN entries : Target(entries[j]) = target => j <= i
        IN [status |-> entries[last].status, events |-> entries[last].events]]

\* A contract creation and a call without a selector meet no entry.
Matching(policies, tx) ==
    IF Empty \in {tx.to, tx.sig} THEN {}
    ELSE ({tx.to, Undefined} \X {tx.sig, Undefined}) \cap DOMAIN policies

\* Every entry that matches adds what it asks for.
PolicyOf(policies, tx) ==
    [status |-> \E target \in Matching(policies, tx) : policies[target].status,
     events |-> \E target \in Matching(policies, tx) : policies[target].events]

\* What eth_getLogs answers for a log entry.
Passes(filter, log) ==
    /\ filter.address \in {Undefined, log.address}
    /\ filter.item \in {Empty, Undefined, log.topic}
=============================================================================
