SPECIFICATION FairSpec
CONSTANTS
    Shards = {0}
    Health = Health
    Commands = {1}
    ShardOf <- RemainderShard
    EventCapacity = 1
    OutgoingCapacity = 2
    MaxBatch = 2
    MaxEvents = 3
    MaxBreaks = 0
    MayStop = FALSE
PROPERTY MediaLoopReturns
CHECK_DEADLOCK FALSE
