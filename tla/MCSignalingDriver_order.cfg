SPECIFICATION Spec
CONSTANTS
    Browsers = {b1}
    Workers = {w1}
    CommandCapacity = 1
    OutputCapacity = 2
    MaxBatch = 2
    MaxOutputs = 4
    MaxInputs = 1
    MayStall = TRUE
    MayFail = FALSE
INVARIANT TypeOK
INVARIANT WriterOrder
INVARIANT WorkerStreamComplete
INVARIANT NobodyCutOff
CHECK_DEADLOCK FALSE
