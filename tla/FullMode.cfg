CONSTANTS
    MaxBlock = 5
    BlockTime <- MCBlockTime
    TxBlocks <- MCTxBlocks
    LogBlocks <- MCLogBlocks
    ReceiptLogBlocks <- MCReceiptLogBlocks
    Confirmations = 1
    BatchSize = 2
    StopIndex = 3
    MaxFaults = 2
    StartIndex = 0
    Interval = 2
SPECIFICATION Spec
INVARIANTS TypeOK CoverageSound NoGaps LogFloorSound IInv LogsInv TruthInv
PROPERTIES DropWritesTruth LastIndexedAdvances ReadyMeansCaughtUp
