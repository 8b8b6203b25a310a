SPECIFICATION FairSpec
CONSTANTS
    MaxAttempts = 2
    MaxGeneration = 2
    MaxClaims = 4
    MaxLive = 2
INVARIANTS
    PreparingHasWork
    ReadyLineage
    FailureCanCommit
PROPERTIES
    PreparationSettles
    PublishedStays
    RetryTakesNoClaim
CHECK_DEADLOCK FALSE
