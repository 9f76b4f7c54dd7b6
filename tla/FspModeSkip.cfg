CONSTANTS
    MaxBlock = 6
    BlockTime <- MCBlockTime
    TxBlocks <- MCTxBlocks
    LogBlocks <- MCLogBlocks
    ReceiptLogBlocks <- MCReceiptLogBlocks
    EventBlocks <- MCEventBlocks
    Confirmations = 1
    BatchSize = 2
    StopIndex = 9
    MaxFaults = 1
    StartedEpochs <- MCStartedEpochs
    RewardEpochStartBlock <- MCRewardEpochStartBlock
    RandomAcquisitionStartBlock <- MCRandomAcquisitionStartBlock
    BootstrapEpoch = 0
    TxLookback = 1
    EventLeadBlocks = 1
    EventLeadSeconds = 1
    RetentionMargin = 1
    EpochChoices = {0}
    LogRange = 2
SPECIFICATION Spec
PROPERTY SkipsOnlyCovered
