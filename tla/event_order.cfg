SPECIFICATION EventsSpec
CONSTANTS
    w1 = w1
    w2 = w2
    l1 = l1
    l2 = l2
    t1 = t1
    NoJob = NoJob
    NoWorker = NoWorker
    Api = Api
    Jobs = {j1}
    Workers = {w1, w2}
    Lanes = {l1, l2}
    Ticks = {t1}
    WorkerOf <- TwoWorkers
    Cancels = {}
    MaxAttempts = 2
    MaxFaults = 0
    MaxStalls = 0
INVARIANT CreatedComesFirst
CHECK_DEADLOCK FALSE
