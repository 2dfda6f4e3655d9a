SPECIFICATION Spec
CONSTANTS
    w1 = w1
    w2 = w2
    l1 = l1
    l2 = l2
    l3 = l3
    t1 = t1
    t2 = t2
    NoJob = NoJob
    NoWorker = NoWorker
    Jobs = {j1}
    Workers = {w1, w2}
    Lanes = {l1, l2, l3}
    Ticks = {t1, t2}
    WorkerOf <- TwoLanesAndOne
    Cancels = {c1}
    MaxAttempts = 2
    MaxFaults = 1
    MaxStalls = 2
INVARIANTS TypeOK AtMostOneCarrier AttemptsCountRuns OnlyFaultsLoseJobs FenceOfSingleLane OneAttemptAtATime ExtraAttemptsNeedStalls FenceIsPerAttempt
PROPERTIES FinishedNeverRestarts CancelRemovedIsFinal KeepsCustody
CHECK_DEADLOCK FALSE
