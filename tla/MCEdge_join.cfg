SPECIFICATION FairSpec
CONSTANTS
    MaxRequests = 3
    ClientIds = {c1, c2}
    MaxAttempts = 2
    Modulus = 8
    FirstId = 6
INVARIANT TypeOK
INVARIANT JoinAccounted
PROPERTY RequestsAnswered
CHECK_DEADLOCK FALSE
