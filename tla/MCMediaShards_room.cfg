SPECIFICATION Spec
CONSTANTS
    Rooms = {1}
    Clients = {c1, c2}
    Shards = {0}
    ShardOf <- RemainderShard
    Lifecycles = {1, 2}
    Epochs = {1}
    Contents <- SomeContents
    Commands <- AllCommands
    FirstId = 1
    MaxCommands = 4
    Window = 2
    CacheCapacity = 2
    MayRestart = FALSE
SYMMETRY ClientSymmetry
INVARIANT TypeOK
INVARIANT EngineMatchesProjection
INVARIANT AppliedOnce
INVARIANT AnswersItsCommand
PROPERTY OkMeansApplied
CHECK_DEADLOCK FALSE
