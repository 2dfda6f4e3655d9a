SPECIFICATION Spec
CONSTANTS
    Models = 2
    MaxAttempts = 2
    RequestTimeout = 10
    JobTimeout = 24
    BodyTime = 1
    Codes <- SomeCodes
INVARIANT DeadOnlyIfHopeless
CHECK_DEADLOCK FALSE
