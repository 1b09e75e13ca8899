SPECIFICATION Spec
CONSTANTS
    Rooms = {1, 2}
    Clients = {c1, c2}
    Shards = {0, 1}
    ShardOf <- RemainderShard
    Lifecycles = {1}
    Epochs = {1}
    Contents <- SomeContents
    Commands <- MembershipCommands
    FirstId = 0
    MaxCommands = 3
    Window = 1
    CacheCapacity = 1
    MayRestart = TRUE
SYMMETRY ClientSymmetry
INVARIANT MetricsExact
CHECK_DEADLOCK FALSE
