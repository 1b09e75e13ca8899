SPECIFICATION FairSpec
CONSTANTS
    EarlyMessages = TRUE
    MaxSfuOffers = 1
    MaxCandidates = 0
    MaxRejects = 0
    MaxTimeouts = 1
PROPERTY QueueDrains
CHECK_DEADLOCK FALSE
