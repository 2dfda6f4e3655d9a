SPECIFICATION FairSpec
CONSTANTS
    Requests = {r1, r2, r3, r4}
    MaxRequests = 2
    MaxCount = 6
    MaxFaults = 2
INVARIANTS TypeOK LimitHolds
PROPERTY BlockEndsUnlessFaulty
CHECK_DEADLOCK FALSE
