CONSTANTS
    Caller <- MCCaller
    Timed <- MCTimed
    Group <- MCGroup
    RpcConcurrency = 2
    MaxAttempts = 2
SPECIFICATION FairSpec
INVARIANTS TypeOK SlotsMatchCalls
PROPERTIES TimedOperationsEnd OperationsEnd
