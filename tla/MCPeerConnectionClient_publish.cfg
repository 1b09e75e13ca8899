SPECIFICATION FairSpec
CONSTANTS
    EarlyMessages = FALSE
    MaxSfuOffers = 3
    MaxCandidates = 2
    MaxRejects = 1
    MaxTimeouts = 1
INVARIANT TypeOK
INVARIANT FlagsTellTheChains
INVARIANT AnswerNamesItsOffer
INVARIANT AnswerMeetsItsOffer
PROPERTY PublishedInTheEnd
PROPERTY QueueDrains
CHECK_DEADLOCK FALSE
