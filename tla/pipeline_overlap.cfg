SPECIFICATION FairSpec
CONSTANTS
    w1 = w1
    w2 = w2
    l1 = l1
    l2 = l2
    l3 = l3
    t1 = t1
    t2 = t2
    NoJob = NoJob
    NoWorker = NoWorker
    Jobs = {j1, j2}
    Workers = {w1}
    Lanes = {l1}
    Ticks = {t1, t2}
    WorkerOf <- OneWorker
    Cancels = {}
    MaxAttempts = 2
    MaxFaults = 0
    MaxStalls = 2
INVARIANTS AtMostOneCarrier
PROPERTIES EveryJobEnds
CHECK_DEADLOCK FALSE
