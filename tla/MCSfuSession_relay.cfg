SPECIFICATION FairSpec
CONSTANTS
    Shards = {0, 1}
    Health = Health
    Commands = {1}
    ShardOf <- RemainderShard
    EventCapacity = 1
    OutgoingCapacity = 1
    MaxBatch = 2
    MaxEvents = 2
    MaxBreaks = 1
    MayStop = TRUE
INVARIANT TypeOK
INVARIANT NoEventLost
INVARIANT FreshNeverOvertakes
PROPERTY KeepsWorkerPromise
PROPERTY OnlyCircularWaitBlocks
CHECK_DEADLOCK FALSE
