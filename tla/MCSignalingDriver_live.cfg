SPECIFICATION FairSpec
CONSTANTS
    Browsers = {b1}
    Workers = {w1}
    CommandCapacity = 1
    OutputCapacity = 1
    MaxBatch = 1
    MaxOutputs = 2
    MaxInputs = 0
    MayStall = FALSE
    MayFail = TRUE
PROPERTY BackpressureDisconnects
PROPERTY OutputsFlushed
PROPERTY OrphansEnd
PROPERTY ShutdownCompletes
CHECK_DEADLOCK FALSE
