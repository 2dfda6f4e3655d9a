------------------------------ MODULE JobPipeline ------------------------------
(***************************************************************************)
(* The job pipeline: the API's submit and cancel handlers, the worker      *)
(* lanes, and the two background loops of every worker (promotion of due   *)
(* delayed jobs, recovery of jobs whose lock ran out), over the MongoDB    *)
(* job documents and the two Redis sorted sets.                            *)
(*                                                                         *)
(* One action is one store command together with the in-memory code up to  *)
(* the next await, so every await is a point where the others may run.     *)
(***************************************************************************)
EXTENDS JobDoc

CONSTANTS
    Jobs,       \* one per idempotency key
    NoJob,
    Lanes,      \* all the lanes of all the workers
    Ticks,      \* concurrent runs of the interval callbacks of all the workers
    WorkerOf,   \* the worker process of a lane or a tick
    Cancels,    \* requests to POST /api/jobs/:id/cancel, one try each
    MaxFaults,  \* bound on crashes and failed store commands
    MaxStalls   \* bound on locks that run out while their worker is alive

ASSUME PipelineAssumption ==
    /\ NoJob \notin Jobs
    /\ WorkerOf \in [Lanes \cup Ticks -> Workers]
    /\ {MaxFaults, MaxStalls} \subseteq Nat

VARIABLES
    db,         \* MongoDB: the job documents
    queue,      \* Redis ZSET jobs:queue, as the set of its members
    delayed,    \* Redis ZSET jobs:delayed: not a member, ready-at ahead, or due
    submit,     \* where submitJob is with each job
    lane,       \* the local state of runLane / processJob
    promoter,   \* the local state of each run of promoteReadyJobs
    recoverer,  \* the local state of each run of recoverStaleJobs
    cancel,     \* the local state of each cancelJob request
    up,         \* is the worker process alive?
    faults,     \* crashes and failed commands so far
    stalls      \* locks that ran out under a live worker so far

vars == <<db, queue, delayed, submit, lane, promoter, recoverer, cancel, up, faults, stalls>>
workerVars == <<lane, promoter, recoverer>>

-----------------------------------------------------------------------------
(* Local states *)

\* In these states a lane runs an attempt and believes it holds the lock.
Attempting == {"running", "completing", "cancelling", "failing"}

LanePc == {"idle", "popped", "loaded", "scheduling"} \cup Attempting

LaneState == [pc : LanePc, job : Jobs \cup {NoJob}, seen : Loaded]

IdleLane == [pc |-> "idle", job |-> NoJob, seen |-> NothingLoaded]

PromoterState == [pc       : {"idle", "removing", "loading", "saving", "pushing"},
                  due      : SUBSET Jobs,    \* dueJobIds not yet ZREMed
                  promoted : SUBSET Jobs,    \* ZREMed, not yet in jobs:queue
                  job      : Jobs \cup {NoJob},
                  seen     : Status \cup {"ABSENT"}]

IdlePromoter == [pc |-> "idle", due |-> {}, promoted |-> {},
                 job |-> NoJob, seen |-> "ABSENT"]

\* A document of staleJobs, as find() returned it.
StaleJob == [job : Jobs, attempts : Nat, lockedBy : Owner]

RecovererState == [stale : SUBSET StaleJob,        \* not handled yet
                   retry : Jobs \cup {NoJob}]      \* RETRYING, not yet delayed

IdleRecoverer == [stale |-> {}, retry |-> NoJob]

CancelState == [pc      : {"new", "dequeuing", "undelaying", "saving", "flagging",
                           "refused", "cancelled", "requested"},
                job     : Jobs \cup {NoJob},
                removed : Nat]      \* sum of what the ZREMs returned; the code ignores it

NewCancel == [pc |-> "new", job |-> NoJob, removed |-> 0]

TypeOK ==
    /\ db \in [Jobs -> Doc]
    /\ queue \in SUBSET Jobs
    /\ delayed \in [Jobs -> {"absent", "waiting", "due"}]
    /\ submit \in [Jobs -> {"new", "enqueueing", "scheduling", "done"}]
    /\ lane \in [Lanes -> LaneState]
    /\ \A l \in Lanes : lane[l].pc # "idle" => lane[l].job \in Jobs
    /\ promoter \in [Ticks -> PromoterState]
    /\ \A t \in Ticks : promoter[t].pc \in {"saving", "pushing"} =>
                              promoter[t].job \in promoter[t].promoted
    /\ recoverer \in [Ticks -> RecovererState]
    /\ cancel \in [Cancels -> CancelState]
    /\ \A c \in Cancels : cancel[c].pc \notin {"new", "refused"} => cancel[c].job \in Jobs
    /\ up \in [Workers -> BOOLEAN]
    /\ faults \in 0 .. MaxFaults
    /\ stalls \in 0 .. MaxStalls

Init ==
    /\ db = [j \in Jobs |-> NoDoc]
    /\ queue = {}
    /\ delayed = [j \in Jobs |-> "absent"]
    /\ submit = [j \in Jobs |-> "new"]
    /\ lane = [l \in Lanes |-> IdleLane]
    /\ promoter = [t \in Ticks |-> IdlePromoter]
    /\ recoverer = [t \in Ticks |-> IdleRecoverer]
    /\ cancel = [c \in Cancels |-> NewCancel]
    /\ up = [w \in Workers |-> TRUE]
    /\ faults = 0
    /\ stalls = 0

-----------------------------------------------------------------------------
(* Redis commands *)

PushJobToQueue(j) == queue' = queue \cup {j}

\* ZADD of a member that is there already moves its ready-at.
PushToDelayedQueue(j) == delayed' = [delayed EXCEPT ![j] = "waiting"]

\* ZREM's answer.
Zrem(member) == IF member THEN 1 ELSE 0

\* The clock passes a member's ready-at time.
BecomesDue(j) ==
    /\ delayed[j] = "waiting"
    /\ delayed' = [delayed EXCEPT ![j] = "due"]
    /\ UNCHANGED <<db, queue, submit, workerVars, cancel, up, faults, stalls>>

-----------------------------------------------------------------------------
(* submitJob.  A second request with the same key finds the document, or   *)
(* loses to the unique index on idempotencyKey, and changes nothing.       *)

CreateJob(j, scheduled) ==
    /\ submit[j] = "new"
    /\ db' = [db EXCEPT ![j] = NewDoc]
    /\ submit' = [submit EXCEPT ![j] = IF scheduled THEN "scheduling" ELSE "enqueueing"]
    /\ UNCHANGED <<queue, delayed, workerVars, cancel, up, faults, stalls>>

EnqueueNewJob(j) ==
    /\ submit[j] = "enqueueing"
    /\ PushJobToQueue(j)
    /\ submit' = [submit EXCEPT ![j] = "done"]
    /\ UNCHANGED <<db, delayed, workerVars, cancel, up, faults, stalls>>

ScheduleNewJob(j) ==
    /\ submit[j] = "scheduling"
    /\ PushToDelayedQueue(j)
    /\ submit' = [submit EXCEPT ![j] = "done"]
    /\ UNCHANGED <<db, queue, workerVars, cancel, up, faults, stalls>>

-----------------------------------------------------------------------------
(* runLane and processJob *)

\* Mutant of ClaimNextJob: the member is read, not popped.
ClaimWithoutRemoving(l, j) ==
    /\ up[WorkerOf[l]]
    /\ lane[l].pc = "idle"
    /\ j \in queue
    /\ lane' = [lane EXCEPT ![l] = [@ EXCEPT !.pc = "popped", !.job = j]]
    /\ UNCHANGED <<db, queue, delayed, submit, promoter, recoverer, cancel, up, faults, stalls>>

\* BZPOPMIN: one caller gets the member.
ClaimNextJob(l, j) ==
    /\ up[WorkerOf[l]]
    /\ lane[l].pc = "idle"
    /\ j \in queue
    /\ queue' = queue \ {j}
    /\ lane' = [lane EXCEPT ![l] = [@ EXCEPT !.pc = "popped", !.job = j]]
    /\ UNCHANGED <<db, delayed, submit, promoter, recoverer, cancel, up, faults, stalls>>

\* Job.findById.  Neither status nor attempts is looked at.
LoadClaimed(l) ==
    /\ lane[l].pc = "popped"
    /\ lane' = [lane EXCEPT ![l] = [@ EXCEPT !.pc = "loaded", !.seen = Load(db[lane[l].job])]]
    /\ UNCHANGED <<db, queue, delayed, submit, promoter, recoverer, cancel, up, faults, stalls>>

\* job.save() with PROCESSING: not conditional on anything.
SaveClaim(l) ==
    LET j == lane[l].job
        w == WorkerOf[l]
        seen == lane[l].seen
    IN  /\ lane[l].pc = "loaded"
        /\ db' = [db EXCEPT ![j] = ClaimWrite(@, seen, w)]
        /\ lane' = [lane EXCEPT ![l] = [@ EXCEPT !.pc = "running", !.seen = Claimed(seen, w)]]
        /\ UNCHANGED <<queue, delayed, submit, promoter, recoverer, cancel, up, faults, stalls>>

\* The handler resolved before the timer: re-read cancellationRequested.
CheckCancellation(l) ==
    /\ lane[l].pc = "running"
    /\ lane' = [lane EXCEPT ![l].pc = IF db[lane[l].job].cancelRequested
                                      THEN "cancelling" ELSE "completing"]
    /\ UNCHANGED <<db, queue, delayed, submit, promoter, recoverer, cancel, up, faults, stalls>>

\* finalizeJob with COMPLETED or CANCELLED.
Finished(l) ==
    [db EXCEPT ![lane[l].job] =
        Finalize(@, WorkerOf[l],
                 IF lane[l].pc = "cancelling" THEN "CANCELLED" ELSE "COMPLETED")]

FinishAttempt(l) ==
    /\ lane[l].pc \in {"completing", "cancelling"}
    /\ db' = Finished(l)
    /\ lane' = [lane EXCEPT ![l] = IdleLane]
    /\ UNCHANGED <<queue, delayed, submit, promoter, recoverer, cancel, up, faults, stalls>>

\* The handler rejected or the timer won, or a command of the try block
\* failed (its error has no retryable flag): handleFailure up to the push.
FailAttempt(l, nonRetryable) ==
    LET j == lane[l].job
        status == FailureStatus(lane[l].seen.attempts, nonRetryable)
    IN  /\ \/ lane[l].pc = "running"
           \/ lane[l].pc = "failing" /\ ~nonRetryable
        /\ db' = [db EXCEPT ![j] = Finalize(@, WorkerOf[l], status)]
        /\ lane' = [lane EXCEPT ![l] =
                        IF Lands(db[j], WorkerOf[l]) /\ status = "RETRYING"
                        THEN [@ EXCEPT !.pc = "scheduling"]
                        ELSE IdleLane]
        /\ UNCHANGED <<queue, delayed, submit, promoter, recoverer, cancel, up, faults, stalls>>

\* Mutant of ScheduleRetry: RETRYING without the push.
ScheduleRetryDropped(l) ==
    /\ lane[l].pc = "scheduling"
    /\ lane' = [lane EXCEPT ![l] = IdleLane]
    /\ UNCHANGED <<db, queue, delayed, submit, promoter, recoverer, cancel, up, faults, stalls>>

ScheduleRetry(l) ==
    /\ lane[l].pc = "scheduling"
    /\ PushToDelayedQueue(lane[l].job)
    /\ lane' = [lane EXCEPT ![l] = IdleLane]
    /\ UNCHANGED <<db, queue, submit, promoter, recoverer, cancel, up, faults, stalls>>

-----------------------------------------------------------------------------
(* promoteReadyJobs: all the due members are removed from jobs:delayed     *)
(* first, then each is marked QUEUED and pushed to jobs:queue.  setInterval *)
(* does not wait for a run to end, so one worker may have several under way. *)

\* ZRANGEBYSCORE -inf now.  An empty answer ends the run at once.
ScanDue(t) ==
    LET due == {j \in Jobs : delayed[j] = "due"}
    IN  /\ up[WorkerOf[t]]
        /\ promoter[t].pc = "idle"
        /\ due # {}
        /\ promoter' = [promoter EXCEPT ![t] = [@ EXCEPT !.pc = "removing", !.due = due]]
        /\ UNCHANGED <<db, queue, delayed, submit, lane, recoverer, cancel, up, faults, stalls>>

\* Mutants of AfterPush: a run that does not end with its list, and one that
\* ends after its first job.
AfterPushNotReset(p, promoted) ==
    [p EXCEPT !.promoted = promoted, !.due = {},
              !.pc = IF promoted = {} THEN @ ELSE "loading"]

AfterPushDropsRest(p, promoted) ==
    IF p.pc = "pushing" \/ promoted = {} THEN IdlePromoter
    ELSE [p EXCEPT !.pc = "loading", !.due = {}, !.promoted = promoted]

AfterPush(p, promoted) ==
    IF promoted = {} THEN IdlePromoter
    ELSE [p EXCEPT !.pc = "loading", !.due = {}, !.promoted = promoted,
                   !.job = NoJob, !.seen = "ABSENT"]

\* Mutant of RemoveDue: ZREM's result is ignored.
RemoveDueUnchecked(t, j) ==
    LET p == promoter[t]
        due == p.due \ {j}
        promoted == p.promoted \cup {j}
    IN  /\ p.pc = "removing"
        /\ j \in p.due
        /\ delayed' = [delayed EXCEPT ![j] = "absent"]
        /\ promoter' = [promoter EXCEPT ![t] =
                            IF due = {} THEN AfterPush(p, promoted)
                            ELSE [p EXCEPT !.due = due, !.promoted = promoted]]
        /\ UNCHANGED <<db, queue, submit, lane, recoverer, cancel, up, faults, stalls>>

\* ZREM: only the caller that removed the member promotes it.
RemoveDue(t, j) ==
    LET p == promoter[t]
        due == p.due \ {j}
        promoted == IF delayed[j] # "absent" THEN p.promoted \cup {j} ELSE p.promoted
    IN  /\ p.pc = "removing"
        /\ j \in p.due
        /\ delayed' = [delayed EXCEPT ![j] = "absent"]
        /\ promoter' = [promoter EXCEPT ![t] =
                            IF due = {} THEN AfterPush(p, promoted)
                            ELSE [p EXCEPT !.due = due, !.promoted = promoted]]
        /\ UNCHANGED <<db, queue, submit, lane, recoverer, cancel, up, faults, stalls>>

LoadPromoted(t, j) ==
    /\ promoter[t].pc = "loading"
    /\ j \in promoter[t].promoted
    /\ promoter' = [promoter EXCEPT ![t] =
                        [@ EXCEPT !.pc = "saving", !.job = j, !.seen = db[j].status]]
    /\ UNCHANGED <<db, queue, delayed, submit, lane, recoverer, cancel, up, faults, stalls>>

\* job.save() with QUEUED: not conditional on anything.
SavePromoted(t) ==
    LET p == promoter[t]
    IN  /\ p.pc = "saving"
        /\ db' = [db EXCEPT ![p.job] = PromotionWrite(@, p.seen)]
        /\ promoter' = [promoter EXCEPT ![t].pc = "pushing"]
        /\ UNCHANGED <<queue, delayed, submit, lane, recoverer, cancel, up, faults, stalls>>

PushPromoted(t) ==
    LET p == promoter[t]
    IN  /\ p.pc = "pushing"
        /\ PushJobToQueue(p.job)
        /\ promoter' = [promoter EXCEPT ![t] = AfterPush(p, p.promoted \ {p.job})]
        /\ UNCHANGED <<db, delayed, submit, lane, recoverer, cancel, up, faults, stalls>>

-----------------------------------------------------------------------------
(* recoverStaleJobs *)

\* Mutant of LockRunsOut: a lock of 30s whatever the job's timeout is.
LockShorterThanAttempt(j) ==
    /\ db[j].status = "PROCESSING"
    /\ db[j].lock = "future"
    /\ db' = [db EXCEPT ![j] = [@ EXCEPT !.lock = "past"]]
    /\ UNCHANGED <<queue, delayed, submit, workerVars, cancel, up, faults, stalls>>

\* The clock passes lockExpiresAt: of a dead worker, or of a live one whose
\* event loop or store stalls longer than max(30s, timeoutMs + 5s) allows for
\* (LockTiming says how long that is).  Only the recovery scan reads the
\* field, and only while PROCESSING.
LockRunsOut(j) ==
    /\ db[j].status = "PROCESSING"
    /\ db[j].lock = "future"
    /\ \/ ~up[db[j].lockedBy] /\ UNCHANGED stalls
       \/ up[db[j].lockedBy] /\ stalls < MaxStalls /\ stalls' = stalls + 1
    /\ db' = [db EXCEPT ![j] = [@ EXCEPT !.lock = "past"]]
    /\ UNCHANGED <<queue, delayed, submit, workerVars, cancel, up, faults>>

\* Mutant of ScanStale: a worker looks for its own jobs only.
ScanOwnStale(t) ==
    LET stale == {j \in Jobs : /\ db[j].status = "PROCESSING" /\ db[j].lock = "past"
                               /\ db[j].lockedBy = WorkerOf[t]}
    IN  /\ up[WorkerOf[t]]
        /\ recoverer[t] = IdleRecoverer
        /\ stale # {}
        /\ recoverer' = [recoverer EXCEPT ![t].stale =
               {[job |-> j, attempts |-> db[j].attempts, lockedBy |-> db[j].lockedBy] :
                    j \in stale}]
        /\ UNCHANGED <<db, queue, delayed, submit, lane, promoter, cancel, up, faults, stalls>>

\* Job.find({status: PROCESSING, lockExpiresAt < now}): a list of copies.
ScanStale(t) ==
    LET stale == {j \in Jobs : db[j].status = "PROCESSING" /\ db[j].lock = "past"}
    IN  /\ up[WorkerOf[t]]
        /\ recoverer[t] = IdleRecoverer
        /\ stale # {}
        /\ recoverer' = [recoverer EXCEPT ![t].stale =
               {[job |-> j, attempts |-> db[j].attempts, lockedBy |-> db[j].lockedBy] :
                    j \in stale}]
        /\ UNCHANGED <<db, queue, delayed, submit, lane, promoter, cancel, up, faults, stalls>>

\* Mutant of RecoverJob: RETRYING, and nothing to push it.
RecoverWithoutRetry(t, s) ==
    /\ s \in recoverer[t].stale
    /\ db' = [db EXCEPT ![s.job] = Finalize(@, s.lockedBy, FailureStatus(s.attempts, FALSE))]
    /\ recoverer' = [recoverer EXCEPT ![t].stale = @ \ {s}]
    /\ UNCHANGED <<queue, delayed, submit, lane, promoter, cancel, up, faults, stalls>>

\* handleFailure with the copy's attempts and its staleOwner as expectedOwner.
RecoverJob(t, s) ==
    LET status == FailureStatus(s.attempts, FALSE)
    IN  /\ recoverer[t].retry = NoJob
        /\ s \in recoverer[t].stale
        /\ db' = [db EXCEPT ![s.job] = Finalize(@, s.lockedBy, status)]
        /\ recoverer' = [recoverer EXCEPT ![t] =
               [stale |-> @.stale \ {s},
                retry |-> IF Lands(db[s.job], s.lockedBy) /\ status = "RETRYING"
                          THEN s.job ELSE NoJob]]
        /\ UNCHANGED <<queue, delayed, submit, lane, promoter, cancel, up, faults, stalls>>

ScheduleRecovered(t) ==
    /\ recoverer[t].retry # NoJob
    /\ PushToDelayedQueue(recoverer[t].retry)
    /\ recoverer' = [recoverer EXCEPT ![t].retry = NoJob]
    /\ UNCHANGED <<db, queue, submit, lane, promoter, cancel, up, faults, stalls>>

-----------------------------------------------------------------------------
(* cancelJob, for a caller that owns the job *)

LoadForCancel(c, j) ==
    /\ cancel[c].pc = "new"
    /\ db[j].status # "ABSENT"
    /\ cancel' = [cancel EXCEPT ![c] =
           [@ EXCEPT !.job = j,
                     !.pc = CASE db[j].status \in Terminal -> "refused"
                              [] db[j].status = "PROCESSING" -> "flagging"
                              [] db[j].status \in {"QUEUED", "RETRYING"} -> "dequeuing"]]
    /\ UNCHANGED <<db, queue, delayed, submit, workerVars, up, faults, stalls>>

RemoveJobFromQueue(c) ==
    LET j == cancel[c].job
    IN  /\ cancel[c].pc = "dequeuing"
        /\ queue' = queue \ {j}
        /\ cancel' = [cancel EXCEPT ![c] =
               [@ EXCEPT !.pc = "undelaying", !.removed = Zrem(j \in queue)]]
        /\ UNCHANGED <<db, delayed, submit, workerVars, up, faults, stalls>>

RemoveJobFromDelayedQueue(c) ==
    LET j == cancel[c].job
    IN  /\ cancel[c].pc = "undelaying"
        /\ delayed' = [delayed EXCEPT ![j] = "absent"]
        /\ cancel' = [cancel EXCEPT ![c] =
               [@ EXCEPT !.pc = "saving", !.removed = cancel[c].removed + Zrem(delayed[j] # "absent")]]
        /\ UNCHANGED <<db, queue, submit, workerVars, up, faults, stalls>>

\* job.save() with CANCELLED: always a change of the status that was loaded.
SaveCancelled(c) ==
    /\ cancel[c].pc = "saving"
    /\ db' = [db EXCEPT ![cancel[c].job] = [@ EXCEPT !.status = "CANCELLED"]]
    /\ cancel' = [cancel EXCEPT ![c].pc = "cancelled"]
    /\ UNCHANGED <<queue, delayed, submit, workerVars, up, faults, stalls>>

SaveCancellationRequest(c) ==
    /\ cancel[c].pc = "flagging"
    /\ db' = [db EXCEPT ![cancel[c].job] = [@ EXCEPT !.cancelRequested = TRUE]]
    /\ cancel' = [cancel EXCEPT ![c].pc = "requested"]
    /\ UNCHANGED <<queue, delayed, submit, workerVars, up, faults, stalls>>

-----------------------------------------------------------------------------
(* Failures: a process dies, or a store command rejects its promise.       *)

Fault ==
    /\ faults < MaxFaults
    /\ faults' = faults + 1

\* The process ends: killed, or process.exit(1) after a lane threw (every
\* command of a lane outside processJob's try block, or in its catch).
Crash(w) ==
    /\ Fault
    /\ up[w]
    /\ up' = [up EXCEPT ![w] = FALSE]
    /\ lane' = [l \in Lanes |-> IF WorkerOf[l] = w THEN IdleLane ELSE lane[l]]
    /\ promoter' = [t \in Ticks |-> IF WorkerOf[t] = w THEN IdlePromoter ELSE promoter[t]]
    /\ recoverer' = [t \in Ticks |-> IF WorkerOf[t] = w THEN IdleRecoverer ELSE recoverer[t]]
    /\ UNCHANGED <<db, queue, delayed, submit, cancel, stalls>>

\* finalizeJob rejects inside the try block, its write applied or not.
FinishFails(l, applied) ==
    /\ Fault
    /\ lane[l].pc \in {"completing", "cancelling"}
    /\ db' = IF applied THEN Finished(l) ELSE db
    /\ lane' = [lane EXCEPT ![l].pc = "failing"]
    /\ UNCHANGED <<queue, delayed, submit, promoter, recoverer, cancel, up, stalls>>

\* A rejected command ends the whole run of the interval's callback; the
\* error is logged and the worker lives on.
PromotionFails(t) ==
    /\ Fault
    /\ promoter[t].pc # "idle"
    /\ promoter' = [promoter EXCEPT ![t] = IdlePromoter]
    /\ UNCHANGED <<db, queue, delayed, submit, lane, recoverer, cancel, up, stalls>>

RecoveryFails(t) ==
    /\ Fault
    /\ recoverer[t] # IdleRecoverer
    /\ recoverer' = [recoverer EXCEPT ![t] = IdleRecoverer]
    /\ UNCHANGED <<db, queue, delayed, submit, lane, promoter, cancel, up, stalls>>

\* The API process dies, or the ZADD rejects and the request ends in a 500.
SubmissionFails(j) ==
    /\ Fault
    /\ submit[j] \in {"enqueueing", "scheduling"}
    /\ submit' = [submit EXCEPT ![j] = "done"]
    /\ UNCHANGED <<db, queue, delayed, workerVars, cancel, up, stalls>>

CancellationFails(c) ==
    /\ Fault
    /\ cancel[c].pc \in {"dequeuing", "undelaying", "saving", "flagging"}
    /\ cancel' = [cancel EXCEPT ![c].pc = "refused"]
    /\ UNCHANGED <<db, queue, delayed, submit, workerVars, up, stalls>>

-----------------------------------------------------------------------------
(* The specification *)

ApiStep ==
    \/ \E j \in Jobs :
          \/ \E scheduled \in BOOLEAN : CreateJob(j, scheduled)
          \/ EnqueueNewJob(j)
          \/ ScheduleNewJob(j)
    \/ \E c \in Cancels :
          \/ \E j \in Jobs : LoadForCancel(c, j)
          \/ RemoveJobFromQueue(c)
          \/ RemoveJobFromDelayedQueue(c)
          \/ SaveCancelled(c)
          \/ SaveCancellationRequest(c)

LaneStep(l) ==
    \/ \E j \in Jobs : ClaimNextJob(l, j)
    \/ LoadClaimed(l)
    \/ SaveClaim(l)
    \/ CheckCancellation(l)
    \/ FinishAttempt(l)
    \/ \E nonRetryable \in BOOLEAN : FailAttempt(l, nonRetryable)
    \/ ScheduleRetry(l)

PromoterStep(t) ==
    \/ ScanDue(t)
    \/ \E j \in Jobs : RemoveDue(t, j) \/ LoadPromoted(t, j)
    \/ SavePromoted(t)
    \/ PushPromoted(t)

RecovererStep(t) ==
    \/ ScanStale(t)
    \/ \E s \in recoverer[t].stale : RecoverJob(t, s)
    \/ ScheduleRecovered(t)

TimePasses(j) == BecomesDue(j) \/ LockRunsOut(j)

FaultStep ==
    \/ \E w \in Workers : Crash(w)
    \/ \E t \in Ticks : PromotionFails(t) \/ RecoveryFails(t)
    \/ \E l \in Lanes, applied \in BOOLEAN : FinishFails(l, applied)
    \/ \E j \in Jobs : SubmissionFails(j)
    \/ \E c \in Cancels : CancellationFails(c)

Next ==
    \/ ApiStep
    \/ \E l \in Lanes : LaneStep(l)
    \/ \E t \in Ticks : PromoterStep(t) \/ RecovererStep(t)
    \/ \E j \in Jobs : TimePasses(j)
    \/ FaultStep

Spec == Init /\ [][Next]_vars

(***************************************************************************)
(* Every await of a live process returns (the job timer bounds a handler), *)
(* the intervals keep firing, the clock runs.  No client need submit or    *)
(* cancel anything, and nothing obliges a process to crash.                *)
(***************************************************************************)
Fairness ==
    /\ \A l \in Lanes : WF_vars(LaneStep(l))
    /\ \A t \in Ticks : WF_vars(PromoterStep(t)) /\ WF_vars(RecovererStep(t))
    /\ \A j \in Jobs : /\ WF_vars(BecomesDue(j))
                       /\ WF_vars(LockRunsOut(j))
                       /\ WF_vars(EnqueueNewJob(j) \/ ScheduleNewJob(j))
    /\ \A c \in Cancels : WF_vars(\/ RemoveJobFromQueue(c)
                                  \/ RemoveJobFromDelayedQueue(c)
                                  \/ SaveCancelled(c)
                                  \/ SaveCancellationRequest(c))

FairSpec == Spec /\ Fairness
================================================================================
