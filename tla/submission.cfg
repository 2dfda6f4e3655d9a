SPECIFICATION FairSpec
CONSTANTS
    Requests = {r1, r2, r3}
    MaxFaults = 2
INVARIANTS TypeOK OneJobPerKey
PROPERTIES AcceptedIsQueued SubmitsAsPipeline
CHECK_DEADLOCK FALSE
