CONSTANTS
    MaxBlock = 5
    BlockTime <- MCBlockTime
    TxBlocks <- MCTxBlocks
    LogBlocks <- MCLogBlocks
    ReceiptLogBlocks <- MCReceiptLogBlocks
    EventBlocks <- MCEventBlocks
    Confirmations = 1
    BatchSize = 2
    StopIndex = 9
    MaxFaults = 1
    StartedEpochs <- MCStartedEpochs
    RewardEpochStartBlock <- MCRewardEpochStartBlock
    RandomAcquisitionStartBlock <- MCRandomAcquisitionStartBlock
    BootstrapEpoch = 0
    TxLookback = 1
    EventLeadBlocks = 1
    EventLeadSeconds = 2
    RetentionMargin = 0
    EpochChoices = {1}
    LogRange = 2
SPECIFICATION FairSpec
INVARIANTS EventsServed ServedInv
PROPERTY CatchesUp
