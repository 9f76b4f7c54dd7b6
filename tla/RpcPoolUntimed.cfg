CONSTANTS
    Caller <- MCCaller
    Timed <- MCTimed
    Group <- MCGroup
    RpcConcurrency = 2
    MaxAttempts = 2
SPECIFICATION FairSpec
PROPERTY EveryAttemptEnds
