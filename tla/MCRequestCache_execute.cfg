SPECIFICATION CanonicalSpec
CONSTANTS
    Rpcs = {1, 2, 3}
    Keys = {1, 2}
    Ops = {1, 2}
    CacheCapacity = 1
    CommandCapacity = 1
    MayTimeOut = TRUE
    MayCancel = TRUE
INVARIANT TypeOK
INVARIANT SingleFlight
INVARIANT ReplayFaithful
INVARIANT NoMutationPastCache
PROPERTY ImplementsService
PROPERTY RpcAnswered
CHECK_DEADLOCK FALSE
