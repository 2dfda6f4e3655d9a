------------------------ MODULE JobPipelineProperties ------------------------
(***************************************************************************)
(* What the job pipeline promises, and what its documentation promises of  *)
(* it.  The configurations of MCJobPipeline say which holds when.          *)
(***************************************************************************)
EXTENDS JobPipeline, FiniteSets

\* As many lanes and runs of a callback as there are, they are finitely many.
ASSUME FiniteAssumption == IsFiniteSet(Lanes) /\ IsFiniteSet(Ticks)

(***************************************************************************)
(* Who can cause job j to be run, or run on: the places its id is in, and  *)
(* the lock on its document.                                               *)
(***************************************************************************)
InQueue(j)     == IF j \in queue THEN {<<"queue", j>>} ELSE {}
InDelayed(j)   == IF delayed[j] # "absent" THEN {<<"delayed", j>>} ELSE {}
InSubmit(j)    == IF submit[j] \in {"enqueueing", "scheduling"} THEN {<<"submit", j>>} ELSE {}
InLanes(j)     == {<<"lane", l>> : l \in {l \in Lanes :
                      lane[l].job = j /\ lane[l].pc \in {"popped", "loaded", "scheduling"}}}
InPromoters(j) == {<<"promoter", t>> : t \in {t \in Ticks : j \in promoter[t].promoted}}
InRecoverers(j) == {<<"recoverer", t>> : t \in {t \in Ticks : recoverer[t].retry = j}}
Locks(j)       == IF db[j].lockedBy # NoWorker THEN {<<"lock", db[j].lockedBy>>} ELSE {}

Carriers(j) ==
    InQueue(j) \cup InDelayed(j) \cup InSubmit(j) \cup InLanes(j)
        \cup InPromoters(j) \cup InRecoverers(j) \cup Locks(j)

\* A job is in one place at a time: in one of the two Redis sets, in the
\* hands of one process on the way between two of them, or locked.
\* Overlapping promotion scans, recovery of a live worker's job, late
\* finishing writes and cancels never make two of it (ZREM's result in
\* promoteDueDelayedJobs, the fence in finalizeJob, "only if OUR write
\* landed" in handleFailure).
AtMostOneCarrier ==
    \A j \in Jobs : \A c, d \in Carriers(j) : c = d

\* The attempts counter, which processJob writes as an absolute value with a
\* save() that has no condition, loses no update: it equals the number of
\* PROCESSING entries of the history.
AttemptsCountRuns ==
    \A j \in Jobs : db[j].attempts = db[j].runs

\* A job a worker has completed or dead-lettered is never started again and
\* never reopened; the one thing that can still change it is the save() of a
\* cancelJob that read the job before it finished.
FinishedNeverRestarts ==
    [][\A j \in Jobs :
          db[j].status \in {"COMPLETED", "DEAD_LETTER"} =>
              /\ db'[j].status \in {db[j].status, "CANCELLED"}
              /\ db'[j].runs = db[j].runs]_vars

\* If one of cancelJob's two ZREMs did remove the id, the cancellation is
\* effective: the job is not started again, and when cancelJob answers 200
\* it is CANCELLED and stays so.
CancelRemovedIsFinal ==
    [][\A c \in Cancels :
          cancel[c].removed > 0 =>
              LET j == cancel[c].job
              IN  /\ db'[j].runs = db[j].runs
                  /\ cancel'[c].pc = "cancelled" => db'[j].status = "CANCELLED"]_vars

\* The refinement mapping: the lock decides first, then any other carrier.
Custody(j) ==
    IF db[j].lockedBy # NoWorker THEN "running"
    ELSE IF Carriers(j) # {} THEN "waiting" ELSE "nowhere"

Abstract == INSTANCE JobCustody WITH
    status  <- [j \in Jobs |-> db[j].status],
    custody <- [j \in Jobs |-> Custody(j)],
    runs    <- [j \in Jobs |-> db[j].runs]

\* The pipeline implements JobCustody: whatever the interleaving of the
\* handlers, the lanes and the two intervals, a job that is running or nowhere
\* cannot be started, and only an attempt under way is ended or retried.
KeepsCustody == Abstract!Spec

-----------------------------------------------------------------------------
(* Nothing is lost *)

\* A cancelJob took the id out of Redis and has yet to write CANCELLED.
BeingCancelled(j) ==
    \E c \in Cancels : /\ cancel[c].job = j
                       /\ cancel[c].removed > 0
                       /\ cancel[c].pc \in {"undelaying", "saving"}

\* README.md: "nothing about a distributed job system should silently lose
\* work".  A job that is not finished has something that will carry it on.
NoJobLost ==
    \A j \in Jobs :
        db[j].status \in Status \ Terminal => Carriers(j) # {} \/ BeingCancelled(j)

\* As long as no process has died and no store command has failed, no job is
\* lost, whatever the order in which lanes, loops and requests run: each of
\* the hand-overs between document and sorted sets is completed by the one
\* process that began it.
OnlyFaultsLoseJobs == faults = 0 => NoJobLost

\* Every submitted job ends, and ends for good, if nothing ever fails:
\* retries, stale recoveries and cancellations cannot keep a job going for
\* ever or leave it behind in a set nobody reads.
EveryJobEnds ==
    <>[](faults > 0 \/ \A j \in Jobs : db[j].status \in Terminal \cup {"ABSENT"})

\* recoverStaleJobs: a job whose worker died while it held the lock is taken
\* over by another worker and ends, as README.md's "If a worker dies
\* mid-job, the job gets retried by someone else" says.
DeadHolderIsReplaced ==
    \A j \in Jobs :
        (db[j].lockedBy \in Workers /\ ~up[db[j].lockedBy])
            ~> db[j].status \in Terminal

-----------------------------------------------------------------------------
(* Attempts *)

\* As long as the locks of live workers have outlived their attempts, as
\* processJob's comment on lockExpiresAt intends, no two lanes were ever inside
\* attempts of the same job: crashes and retries alone cannot cause it.
OneAttemptAtATime ==
    stalls = 0 => \A k, l \in Lanes :
        /\ lane[k].pc \in Attempting
        /\ lane[l].pc \in Attempting
        /\ lane[k].job = lane[l].job
        => k = l

\* handleFailure's comment and README.md: "exactly maxAttempts total tries,
\* not one extra".  A maxAttempts of zero or less still gives one try.
Tries == IF MaxAttempts < 1 THEN 1 ELSE MaxAttempts

NoExtraAttempt == \A j \in Jobs : db[j].runs <= Tries

\* What is left of it: the recovery scan decides by the attempts of a copy it
\* read, so a lock that ran out under a live worker can cost one try more for
\* each run of the scan that read it.  Without one there is no extra try:
\* crashes, late writes and overlapping scans alone cost none.
ExtraAttemptsNeedStalls ==
    \A j \in Jobs : db[j].runs <= Tries + stalls * Cardinality(Ticks)

\* finalizeJob's comment: the ownership check "is what prevents a
\* slow-but-alive worker's late result from overwriting a newer outcome".
\* Whenever a lane's finishing write would land, the attempt on record is
\* that lane's own, as long as no lock ran out under a live worker.
FenceIsPerAttempt ==
    stalls = 0 => \A l \in Lanes :
        /\ lane[l].pc \in Attempting
        /\ Lands(db[lane[l].job], WorkerOf[l])
        => lane[l].seen.attempts = db[lane[l].job].attempts

\* What that fence is worth when locks run out under live workers: WORKER_ID
\* names the attempt only in a worker with a single lane (WORKER_CONCURRENCY
\* unset).
FenceOfSingleLane ==
    \A l \in Lanes :
        /\ \A k \in Lanes : WorkerOf[k] = WorkerOf[l] => k = l
        /\ lane[l].pc \in Attempting
        /\ Lands(db[lane[l].job], WorkerOf[l])
        => lane[l].seen.attempts = db[lane[l].job].attempts

-----------------------------------------------------------------------------
(* Cancellation *)

\* README.md: "QUEUED / RETRYING jobs can also be cancelled immediately";
\* cancelJob: "mark it CANCELLED immediately - no race to worry about" (200)
\* and "will be cancelled once the current attempt finishes" (202).  After
\* either answer no attempt of the job begins, and none completes it.
CancellationHolds ==
    [][\A c \in Cancels :
          cancel[c].pc \in {"cancelled", "requested"} =>
              LET j == cancel[c].job
              IN  /\ db'[j].runs = db[j].runs
                  /\ db'[j].status = "COMPLETED" => db[j].status = "COMPLETED"]_vars
==============================================================================
