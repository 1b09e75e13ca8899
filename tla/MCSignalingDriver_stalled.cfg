SPECIFICATION FairSpec
CONSTANTS
    Browsers = {b1}
    Workers = {}
    CommandCapacity = 1
    OutputCapacity = 1
    MaxBatch = 1
    MaxOutputs = 1
    MaxInputs = 0
    MayStall = TRUE
    MayFail = FALSE
PROPERTY ShutdownCompletes
CHECK_DEADLOCK FALSE
