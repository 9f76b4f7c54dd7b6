CONSTANTS
    Registry <- MCRegistry
    Upgrades <- MCUpgrades
    FspTransactions <- MCFspTransactions
    FspLogs <- MCFspLogs
    Chain <- MCChain
    Configs <- MCConfigs
    BatchSize = 3
    LogRange = 2
    RpcConcurrency = 2
    MaxId = 4
    MaxFaults = 1
SPECIFICATION Spec
INVARIANTS TypeOK LogsReferToOwn StatusIsOwn BuiltinsKept
PROPERTY SaveIsWhole
