SPECIFICATION FairSpec
CONSTANTS
    w1 = w1
    w2 = w2
    l1 = l1
    l2 = l2
    l3 = l3
    t1 = t1
    t2 = t2
    NoJob = NoJob
    NoWorker = NoWorker
    Jobs = {j1}
    Workers = {w1, w2}
    Lanes = {l1, l2}
    Ticks = {t1, t2}
    WorkerOf <- OneLaneEach
    Cancels = {c1}
    MaxAttempts = 2
    MaxFaults = 1
    MaxStalls = 2
PROPERTIES EveryJobEnds DeadHolderIsReplaced
CHECK_DEADLOCK FALSE
