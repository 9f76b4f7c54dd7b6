CONSTANTS
    MaxBlock = 6
    BlockTime <- MCBlockTime
    TxBlocks <- MCTxBlocks
    LogBlocks <- MCLogBlocks
    ReceiptLogBlocks <- MCReceiptLogBlocks
    EventBlocks <- MCEventBlocks
    Confirmations = 1
    BatchSize = 2
    StopIndex = 5
    MaxFaults = 2
    StartedEpochs <- MCStartedEpochs
    RewardEpochStartBlock <- MCRewardEpochStartBlock
    RandomAcquisitionStartBlock <- MCRandomAcquisitionStartBlock
    BootstrapEpoch = 0
    TxLookback = 1
    EventLeadBlocks = 2
    EventLeadSeconds = 1
    RetentionMargin = 1
    EpochChoices = {0, 5}
    LogRange = 2
SPECIFICATION Spec
INVARIANTS IInv TypeOK CoverageSound LogFloorSound
PROPERTIES ImplementsLedger ReadyMeansPlanDone RetentionKeepsBackfill
