-------------------------------- MODULE Batch --------------------------------
(***************************************************************************)
(* One batch of the engine (internal/core): indexBatch, and the continuous *)
(* run's indexContinuousIteration, which is a batch of one block fetched   *)
(* in one of the orders allowed here.  Blocks and then receipts are        *)
(* fetched by a bounded number of goroutines while another one requests    *)
(* the logs; their results become rows, which are saved in one database    *)
(* transaction.  Module Engine takes a batch as a whole (its Insert); this *)
(* module is what happens inside, down to the single row.                  *)
(*                                                                         *)
(* Which blocks a batch takes is left open: after an error, a restart or   *)
(* a change of the configuration the same blocks may come again, over any  *)
(* rows the earlier batches and the history drop have left.                *)
(***************************************************************************)
EXTENDS Collectors, FiniteSets

CONSTANTS
    Chain,          \* the transactions of each block, in order
    Configs,        \* the configurations a process may be started with
    BatchSize,      \* indexer.batch_size
    LogRange,       \* indexer.log_range
    RpcConcurrency, \* indexer.rpc_concurrency, the limit of each errgroup
    MaxId,          \* no batch starts with a counter above this (bound)
    MaxFaults       \* errors and restarts in a behaviour (bound)

\* A block of the chain; a chain of n blocks begins at block 1.
Block == DOMAIN Chain

\* The chain has its first block, and no transaction twice.
ASSUME BatchAssumption ==
    /\ Chain # <<>>
    /\ Chain \in Seq(Seq([hash : STRING, to : STRING, sig : STRING, status : {0, 1},
                          logs : SUBSET [index : Nat, address : STRING, topic : STRING]]))
    /\ \A b, c \in Block : \A i \in DOMAIN Chain[b], j \in DOMAIN Chain[c] :
          Chain[b][i].hash = Chain[c][j].hash => b = c /\ i = j
    /\ \A c \in Configs : /\ c.transactions \in Seq(CollectorEntry)
                          /\ c.logs \in Seq(CollectorEntry)
    /\ BatchSize \in Nat \ {0}
    /\ LogRange \in Nat \ {0}
    /\ RpcConcurrency \in Nat \ {0}
    /\ MaxId \in Nat
    /\ MaxFaults \in Nat

NoTransaction == 0      \* transaction_id NULL; ids begin at 1
UnknownStatus == 2      \* status of a transaction without a receipt
NoReceipt == [status |-> UnknownStatus, logs |-> {}]

VARIABLES
    config,     \* the configuration of this process
    policies,   \* Engine.transactions, the policies built of it
    filters,    \* params.CollectLogs, the resolved log entries
    pc,         \* the next call: "idle", "blocks", "receipts" or "save"
    lo, hi,     \* the blocks of the batch
    fetched,    \* the blocks that have arrived
    txBatch,    \* the transactions collected of them, in order
    receipts,   \* the receipt of each, at the same index
    filter,     \* the log entry being requested; past the last one, all are
    from,       \* the first block of its next request
    lgBatch,    \* the logs that have arrived, with the hash of their transaction
    data,       \* the rows built of the batch
    nextId,     \* database.TransactionId
    txRows,     \* the transactions table
    logRows,    \* the logs table
    pass,       \* the history drop has deleted the logs up to this block, and
                \* not yet the transactions
    faults      \* faults so far

batch == <<lo, hi, fetched, txBatch, receipts, filter, from, lgBatch, data>>
collectors == <<config, policies, filters>>
vars == <<collectors, pc, batch, nextId, txRows, logRows, pass, faults>>

NoData == [txs |-> {}, logs |-> {}]

\* The variables of a batch are local to indexBatch: between two batches they
\* have no value of interest.
NoBatch ==
    /\ lo = 1 /\ hi = 1
    /\ fetched = {}
    /\ txBatch = <<>> /\ receipts = <<>>
    /\ filter = 1 /\ from = 1
    /\ lgBatch = {}
    /\ data = NoData

BatchForgotten ==
    /\ lo' = 1 /\ hi' = 1
    /\ fetched' = {}
    /\ txBatch' = <<>> /\ receipts' = <<>>
    /\ filter' = 1 /\ from' = 1
    /\ lgBatch' = {}
    /\ data' = NoData

\* The least of two numbers.
Lesser(a, b) == IF a <= b THEN a ELSE b

-----------------------------------------------------------------------------
(***************************************************************************)
(* Fetching                                                                *)
(***************************************************************************)

\* indexBatch starts both streams.
BatchStarts(first, last) ==
    /\ pc = "idle"
    /\ nextId <= MaxId
    /\ first <= last /\ last < first + BatchSize
    /\ pc' = "blocks"
    /\ lo' = first /\ hi' = last
    /\ fetched' = {}
    /\ txBatch' = <<>> /\ receipts' = <<>>
    /\ filter' = 1 /\ from' = first
    /\ lgBatch' = {}
    /\ UNCHANGED <<collectors, data, nextId, txRows, logRows, pass, faults>>

\* Goroutines start in order, RpcConcurrency of them at a time: item i is in
\* flight when fewer than that many of the earlier ones are.
InFlight(i, pending) ==
    i \in pending /\ Cardinality({j \in pending : j < i}) < RpcConcurrency

BlockArrives(b) ==
    /\ pc = "blocks"
    /\ InFlight(b, (lo .. hi) \ fetched)
    /\ fetched' = fetched \cup {b}
    /\ UNCHANGED <<collectors, pc, lo, hi, txBatch, receipts, filter, from, lgBatch,
                   data, nextId, txRows, logRows, pass, faults>>

\* Where the transactions of the batch are that some entry collects: the block
\* and the place in it.
Collected ==
    UNION {{<<b, k>> : k \in {k \in DOMAIN Chain[b] :
                                 Matching(policies, Chain[b][k]) # {}}} : b \in lo .. hi}

Before(p, q) == p[1] < q[1] \/ (p[1] = q[1] /\ p[2] < q[2])

\* The i-th of them in the order of the chain.
Ith(i) == CHOOSE p \in Collected : Cardinality({q \in Collected : Before(q, p)}) = i - 1

\* processBlocksBatch, once every block is there, goes through them in order and
\* keeps each transaction with the policy that holds for it.
BlocksProcessed ==
    /\ pc = "blocks"
    /\ fetched = lo .. hi
    /\ txBatch' = [i \in 1 .. Cardinality(Collected) |->
                      LET p == Ith(i)
                          tx == Chain[p[1]][p[2]]
                      IN [tx |-> tx, block |-> p[1], policy |-> PolicyOf(policies, tx)]]
    /\ receipts' = [i \in DOMAIN txBatch' |-> NoReceipt]
    /\ pc' = "receipts"
    /\ UNCHANGED <<collectors, lo, hi, fetched, filter, from, lgBatch, data, nextId,
                   txRows, logRows, pass, faults>>

NeedsReceipt(i) == txBatch[i].policy.status \/ txBatch[i].policy.events

Awaited == {i \in DOMAIN txBatch : NeedsReceipt(i) /\ receipts[i] = NoReceipt}

\* Mutant: receipts are kept in the order of their arrival.
ReceiptArrivesAppended(i) ==
    /\ pc = "receipts"
    /\ InFlight(i, Awaited)
    /\ LET slot == CHOOSE j \in Awaited : \A k \in Awaited : j <= k
       IN receipts' = [receipts EXCEPT ![slot] = txBatch[i].tx]
    /\ UNCHANGED <<collectors, pc, lo, hi, fetched, txBatch, filter, from, lgBatch,
                   data, nextId, txRows, logRows, pass, faults>>

\* fetchReceiptAt: a receipt is the status and the logs of its transaction.
ReceiptArrives(i) ==
    /\ pc = "receipts"
    /\ InFlight(i, Awaited)
    /\ receipts' = [receipts EXCEPT ![i] = txBatch[i].tx]
    /\ UNCHANGED <<collectors, pc, lo, hi, fetched, txBatch, filter, from, lgBatch,
                   data, nextId, txRows, logRows, pass, faults>>

LogsOf(tx, b) ==
    {[hash |-> tx.hash, index |-> log.index, block |-> b, log |-> log] : log \in tx.logs}

BlockLogs(b) == UNION {LogsOf(Chain[b][i], b) : i \in DOMAIN Chain[b]}

\* Mutant: a request ends one block early.
RequestEndShort == Lesser(from + LogRange - 2, hi)

RequestEnd == Lesser(from + LogRange - 1, hi)

\* Mutant: the loop goes one request past the end of the batch.
NextRequestOverrun ==
    IF from + LogRange <= hi + 1
    THEN from' = from + LogRange /\ filter' = filter
    ELSE from' = lo /\ filter' = filter + 1

NextRequest ==
    IF from + LogRange <= hi
    THEN from' = from + LogRange /\ filter' = filter
    ELSE from' = lo /\ filter' = filter + 1

\* requestLogs: one filter after the other, each in steps of LogRange.
LogsArrive ==
    /\ pc \in {"blocks", "receipts"}
    /\ filter \in DOMAIN filters
    /\ lgBatch' = lgBatch \cup
          {row \in UNION {BlockLogs(b) : b \in from .. RequestEnd} :
              Passes(filters[filter], row.log)}
    /\ NextRequest
    /\ UNCHANGED <<collectors, pc, lo, hi, fetched, txBatch, receipts, data, nextId,
                   txRows, logRows, pass, faults>>

-----------------------------------------------------------------------------
(***************************************************************************)
(* Building and saving the rows                                            *)
(***************************************************************************)

\* Row i takes the i-th id of the counter.
TransactionRows ==
    {[id |-> nextId + i - 1, hash |-> txBatch[i].tx.hash, block |-> txBatch[i].block,
      status |-> receipts[i].status] : i \in DOMAIN txBatch}

Row(log, id) == [hash |-> log.hash, index |-> log.index, block |-> log.block, txId |-> id]

\* Without a receipt there are none.
ReceiptLogs(i) ==
    IF receipts[i] # NoReceipt /\ txBatch[i].policy.events
    THEN LogsOf(receipts[i], txBatch[i].block) ELSE {}

ReceiptLogRows ==
    UNION {{Row(log, nextId + i - 1) : log \in ReceiptLogs(i)} : i \in DOMAIN txBatch}

\* A log that came with a receipt is not taken again from the answers to the filters.
FilterLogRows ==
    {Row(log, NoTransaction) :
        log \in {l \in lgBatch : \A row \in ReceiptLogRows :
                                    row.hash # l.hash \/ row.index # l.index}}

\* processTransactions and processLogs, when both streams have ended.
RowsBuilt ==
    /\ pc = "receipts"
    /\ Awaited = {}
    /\ filter \notin DOMAIN filters
    /\ data' = [txs |-> TransactionRows, logs |-> ReceiptLogRows \cup FilterLogRows]
    /\ nextId' = nextId + Len(txBatch)
    /\ pc' = "save"
    /\ UNCHANGED <<collectors, lo, hi, fetched, txBatch, receipts, filter, from, lgBatch,
                   txRows, logRows, pass, faults>>

\* INSERT IGNORE: a row whose id or hash is taken is left out.
NewTransactions ==
    {row \in data.txs : \A old \in txRows : old.id # row.id /\ old.hash # row.hash}

\* So is a log whose hash and index are taken, or whose transaction has no row.
NewLogs ==
    {row \in data.logs :
        /\ \A old \in logRows : old.hash # row.hash \/ old.index # row.index
        /\ \/ row.txId = NoTransaction
           \/ \E tx \in txRows \cup NewTransactions : tx.id = row.txId}

\* The commit of the data transaction of saveData.
Saved ==
    /\ pc = "save"
    /\ txRows' = txRows \cup NewTransactions
    /\ logRows' = logRows \cup NewLogs
    /\ pc' = "idle"
    /\ BatchForgotten
    /\ UNCHANGED <<collectors, nextId, pass, faults>>

-----------------------------------------------------------------------------
(***************************************************************************)
(* Faults, restarts and the history drop                                   *)
(***************************************************************************)

\* A call of either stream fails for good, which cancels the other stream, or
\* the data transaction does: nothing is saved, and ids given out are burnt.
BatchFails ==
    /\ pc # "idle"
    /\ faults < MaxFaults
    /\ faults' = faults + 1
    /\ pc' = "idle"
    /\ BatchForgotten
    /\ UNCHANGED <<collectors, nextId, txRows, logRows, pass>>

\* Mutant: the counter starts at the highest id that is taken.
StoreTransactionIdTaken ==
    nextId' = IF txRows = {} THEN 1
              ELSE CHOOSE id \in {row.id : row \in txRows} : \A row \in txRows : row.id <= id

\* storeTransactionID: the counter starts after the highest id in the table.
StoreTransactionId ==
    nextId' = IF txRows = {} THEN 1
              ELSE 1 + CHOOSE id \in {row.id : row \in txRows} :
                           \A row \in txRows : row.id <= id

\* The process ends and the next one starts, with any configuration.
Restarts(next) ==
    /\ faults < MaxFaults
    /\ faults' = faults + 1
    /\ config' = next
    /\ policies' = Policies(Resolve(Transactions(next)))
    /\ filters' = Resolve(Logs(next))
    /\ StoreTransactionId
    /\ pc' = "idle"
    /\ BatchForgotten
    /\ pass' = 0
    /\ UNCHANGED <<txRows, logRows>>

\* A pass of the history drop: first the logs up to a block ...
LogsDropped(b) ==
    /\ pass = 0
    /\ logRows' = {row \in logRows : row.block > b}
    /\ pass' = b
    /\ UNCHANGED <<collectors, pc, batch, nextId, txRows, faults>>

\* ... then the transactions, and with them the logs that refer to them.
TransactionsDropped ==
    LET kept == {row \in txRows : row.block > pass}
    IN /\ pass # 0
       /\ txRows' = kept
       /\ logRows' = {row \in logRows :
                         row.txId # NoTransaction => \E tx \in kept : tx.id = row.txId}
       /\ pass' = 0
       /\ UNCHANGED <<collectors, pc, batch, nextId, faults>>

-----------------------------------------------------------------------------
Init ==
    /\ config \in Configs
    /\ policies = Policies(Resolve(Transactions(config)))
    /\ filters = Resolve(Logs(config))
    /\ pc = "idle"
    /\ NoBatch
    /\ nextId = 1
    /\ txRows = {} /\ logRows = {}
    /\ pass = 0
    /\ faults = 0

Fetching ==
    \/ \E b \in Block : BlockArrives(b)
    \/ BlocksProcessed
    \/ \E i \in DOMAIN txBatch : ReceiptArrives(i)
    \/ LogsArrive

Next ==
    \/ \E first, last \in Block : BatchStarts(first, last)
    \/ Fetching
    \/ RowsBuilt
    \/ Saved
    \/ BatchFails
    \/ \E next \in Configs : Restarts(next)
    \/ \E b \in Block : LogsDropped(b)
    \/ TransactionsDropped

Spec == Init /\ [][Next]_vars

-----------------------------------------------------------------------------
(***************************************************************************)
(* Properties                                                              *)
(***************************************************************************)

\* Type invariant.  The receipts are as long as the transactions they belong to.
TypeOK ==
    /\ config \in Configs
    /\ pc \in {"idle", "blocks", "receipts", "save"}
    /\ lo \in Block /\ hi \in Block
    /\ fetched \subseteq lo .. hi
    /\ DOMAIN receipts = DOMAIN txBatch
    /\ filter \in 1 .. Len(filters) + 1
    /\ from \in lo .. hi
    /\ nextId \in Nat \ {0}
    /\ pass \in Block \cup {0}
    /\ faults \in 0 .. MaxFaults

\* No two transactions share an id, and the id a log carries is that of the row
\* of its own transaction: whatever ids were burnt by ignored rows and failed
\* batches, and wherever the counter started again after a restart
\* (storeTransactionID, processTransactions).
LogsReferToOwn ==
    /\ \A row, other \in txRows : row.id = other.id => row = other
    /\ \A log \in logRows : log.txId # NoTransaction =>
          \E row \in txRows : row.id = log.txId /\ row.hash = log.hash

\* A row that carries a status carries that of its own transaction, in whatever
\* order the receipts of the batch arrived (fetchReceiptAt, buildDBTx).
StatusIsOwn ==
    \A row \in txRows : row.status # UnknownStatus =>
        \E b \in Block : \E i \in DOMAIN Chain[b] :
            Chain[b][i].hash = row.hash /\ Chain[b][i].status = row.status

\* What the entries ask for, read off the policies and filters themselves.
AskedFor(tx) ==
    {target \in DOMAIN policies : /\ target[1] \in {tx.to, Undefined} /\ tx.to # Empty
                                 /\ target[2] \in {tx.sig, Undefined} /\ tx.sig # Empty}
StatusAskedFor(tx) ==
    \E target \in AskedFor(tx) : policies[target].status \/ policies[target].events
EventsAskedFor(tx) == \E target \in AskedFor(tx) : policies[target].events
FilteredFor(log) == \E i \in DOMAIN filters : Passes(filters[i], log)

HasRow(tx) == \E row \in txRows : row.hash = tx.hash
HasLogRow(tx, log) == \E row \in logRows : row.hash = tx.hash /\ row.index = log.index

\* A batch that is saved is saved whole, down to the row: afterwards every
\* transaction some entry asks for has a row, with its status if that was asked
\* for and the row is new, and so has every log a filter passes or a collected
\* transaction brings - but for the logs of a transaction that was collected with
\* its logs and had a row already: theirs name a row that was ignored.
SaveIsWhole ==
    [][(pc = "save" /\ pc' = "idle" /\ faults' = faults) =>
        \A b \in lo .. hi : \A i \in DOMAIN Chain[b] :
            LET tx == Chain[b][i]
            IN /\ AskedFor(tx) # {} => HasRow(tx)'
               /\ StatusAskedFor(tx) /\ ~HasRow(tx) =>
                     \E row \in txRows' : row.hash = tx.hash /\ row.status = tx.status
               /\ ~(EventsAskedFor(tx) /\ HasRow(tx)) =>
                     \A log \in tx.logs :
                         FilteredFor(log) \/ EventsAskedFor(tx) => HasLogRow(tx, log)'
      ]_vars

\* Merging never switches off what FSP mode needs, "they are merged and
\* deduplicated" (README.md:37): a built-in entry keeps its flags at every address
\* of its contract - unless an entry of the configuration gives the contract, or
\* a contract of the same name, an address of its own.
BuiltinsKept ==
    config.mode = "fsp" =>
        \A i \in DOMAIN FspTransactions :
            LET e == FspTransactions[i]
                addresses == ToSet(ResolveAllByName(e.name))
                addressed == \E j \in DOMAIN config.transactions :
                    LET user == config.transactions[j]
                    IN user.item = e.item /\ user.address # Empty
                       /\ (user.name = e.name \/ user.address \in addresses)
            IN ~addressed => \A address \in addresses :
                    /\ <<address, e.item>> \in DOMAIN policies
                    /\ e.status => policies[<<address, e.item>>].status
                    /\ e.events => policies[<<address, e.item>>].events
=============================================================================
