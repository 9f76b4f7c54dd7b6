CONSTANTS
    MaxBlock = 4
    BlockTime <- MCBlockTime
    TxBlocks <- MCTxBlocks
    LogBlocks <- MCLogBlocks
    ReceiptLogBlocks <- MCReceiptLogBlocks
    Confirmations = 1
    BatchSize = 2
    StopIndex = 9
    MaxFaults = 1
    StartIndex = 0
    Interval = 2
SPECIFICATION FairSpec
PROPERTIES ImplementsLedger EveryBlockIndexed ClaimsHeal ReadersServed
