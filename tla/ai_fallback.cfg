SPECIFICATION FairSpec
CONSTANTS
    Models = 2
    MaxAttempts = 2
    RequestTimeout = 10
    JobTimeout = 24
    BodyTime = 1
    Codes <- SomeCodes
INVARIANTS TypeOK FallbackGetsItsTurn OneCallAtATime TemporaryIsRetried
PROPERTY JobEnds
CHECK_DEADLOCK FALSE
