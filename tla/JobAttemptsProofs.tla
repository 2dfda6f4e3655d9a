--------------------------- MODULE JobAttemptsProofs ---------------------------
(***************************************************************************)
(* What the attempts of a job are to each other, as long as the locks of   *)
(* live workers have outlived them (stalls = 0): one attempt at a time,    *)
(* a fence that tells them apart, no extra try.  And what the fence is     *)
(* worth whatever happens, in a worker with a single lane.                 *)
(***************************************************************************)
EXTENDS JobPipelineProofs, FiniteSetTheorems

-----------------------------------------------------------------------------
(* The inductive invariant *)

\* The tasks of a worker end with its process.
BusyIsUp == \A l \in Lanes : lane[l].pc # "idle" => up[WorkerOf[l]]

\* A lock in the past is a dead worker's.
PastIsDead ==
    \A j \in Jobs : db[j].lock = "past" => db[j].lockedBy \in Workers /\ ~up[db[j].lockedBy]

\* So is a copy the recovery scan holds, and its attempts are those on record
\* for as long as handleFailure's filter would match.
StaleIsDead ==
    \A t \in Ticks : \A s \in recoverer[t].stale :
        /\ ~up[s.lockedBy]
        /\ db[s.job].lockedBy = s.lockedBy => s.attempts = db[s.job].attempts

\* An attempt under way holds the lock, or has finished the job (its write
\* was applied, the answer lost).
AttemptIsCurrent ==
    \A l \in Lanes : lane[l].pc \in Attempting =>
        LET j == lane[l].job
        IN  \/ db[j].lockedBy = WorkerOf[l] /\ lane[l].seen.attempts = db[j].attempts
            \/ submit[j] # "new" /\ Carriers(j) = {}

OneAttempt ==
    \A k, l \in Lanes :
        lane[k].pc \in Attempting /\ lane[l].pc \in Attempting /\ lane[k].job = lane[l].job
            => k = l

\* A job that waits to be run has a try left.
HasTryLeft ==
    \A j \in Jobs : db[j].lockedBy = NoWorker /\ Carriers(j) # {} => db[j].attempts < Tries

WithinTries == \A j \in Jobs : db[j].attempts <= Tries

Punctual ==
    /\ PastIsDead
    /\ StaleIsDead
    /\ AttemptIsCurrent
    /\ OneAttempt
    /\ HasTryLeft
    /\ WithinTries

AInv == IInv /\ BusyIsUp /\ (stalls = 0 => Punctual)

-----------------------------------------------------------------------------
(* What a step does to the variables the invariant relates *)

LEMMA UpStays ==
  ASSUME TypeOK, [Next]_vars
  PROVE  \/ up' = up
         \/ \E w \in Workers : Crash(w) /\ up' = [up EXCEPT ![w] = FALSE]
  <1>1. ASSUME NEW w \in Workers, Crash(w) PROVE up' = [up EXCEPT ![w] = FALSE]
    BY <1>1 DEF Crash
  <1>2. FaultStep => up' = up \/ \E w \in Workers : Crash(w)
    BY DEF FaultStep, PromotionFails, RecoveryFails, FinishFails, SubmissionFails,
           CancellationFails
  <1>3. ApiStep => up' = up
    BY DEF ApiStep, CreateJob, EnqueueNewJob, ScheduleNewJob, LoadForCancel,
           RemoveJobFromQueue, RemoveJobFromDelayedQueue, SaveCancelled, SaveCancellationRequest
  <1>4. \A l \in Lanes : LaneStep(l) => up' = up
    BY DEF LaneStep, ClaimNextJob, LoadClaimed, SaveClaim, CheckCancellation, FinishAttempt,
           FailAttempt, ScheduleRetry
  <1>5. \A t \in Ticks : PromoterStep(t) \/ RecovererStep(t) => up' = up
    BY DEF PromoterStep, RecovererStep, ScanDue, RemoveDue, LoadPromoted, SavePromoted,
           PushPromoted, ScanStale, RecoverJob, ScheduleRecovered
  <1>6. \A j \in Jobs : TimePasses(j) => up' = up
    BY DEF TimePasses, BecomesDue, LockRunsOut
  <1> QED
    BY <1>1, <1>2, <1>3, <1>4, <1>5, <1>6 DEF Next, vars

LEMMA DeadStays ==
  ASSUME TypeOK, [Next]_vars, NEW w \in Workers, ~up[w]
  PROVE  ~up'[w]
  BY UpStays DEF TypeOK

LEMMA StallsCount ==
  ASSUME TypeOK, [Next]_vars
  PROVE  /\ stalls' = 0 => stalls = 0
         /\ stalls' = stalls \/ \E j \in Jobs : LockRunsOut(j)
  <1>1. stalls' = stalls \/ \E j \in Jobs : LockRunsOut(j)
    BY DEF Next, vars, ApiStep, CreateJob, EnqueueNewJob, ScheduleNewJob, LoadForCancel,
           RemoveJobFromQueue, RemoveJobFromDelayedQueue, SaveCancelled,
           SaveCancellationRequest, LaneStep, ClaimNextJob, LoadClaimed, SaveClaim,
           CheckCancellation, FinishAttempt, FailAttempt, ScheduleRetry, PromoterStep,
           ScanDue, RemoveDue, LoadPromoted, SavePromoted, PushPromoted, RecovererStep,
           ScanStale, RecoverJob, ScheduleRecovered, TimePasses, BecomesDue,
           FaultStep, Crash, PromotionFails, RecoveryFails, FinishFails, SubmissionFails,
           CancellationFails
  <1>2. \A j \in Jobs : LockRunsOut(j) => stalls' = stalls \/ stalls' = stalls + 1
    BY DEF LockRunsOut
  <1> QED
    BY <1>1, <1>2 DEF TypeOK

\* The moves of one lane.
LEMMA LaneMoves ==
  ASSUME TypeOK, [Next]_vars, NEW l \in Lanes
  PROVE  \/ lane'[l] = lane[l]
         \/ lane'[l] = IdleLane
         \/ \E j \in Jobs : ClaimNextJob(l, j)
         \/ LoadClaimed(l)
         \/ SaveClaim(l)
         \/ CheckCancellation(l)
         \/ \E nonRetryable \in BOOLEAN : FailAttempt(l, nonRetryable)
         \/ \E applied \in BOOLEAN : FinishFails(l, applied)
  <1>1. ASSUME NEW m \in Lanes, NEW r, lane' = [lane EXCEPT ![m] = r], m # l
        PROVE  lane'[l] = lane[l]
    BY <1>1 DEF TypeOK
  <1>2. ASSUME NEW m \in Lanes, LaneStep(m), m # l PROVE lane'[l] = lane[l]
    <2>1. ASSUME NEW j \in Jobs, ClaimNextJob(m, j) PROVE lane'[l] = lane[l]
      BY <1>1, <1>2, <2>1 DEF ClaimNextJob
    <2>2. ASSUME NEW nonRetryable \in BOOLEAN, FailAttempt(m, nonRetryable)
          PROVE  lane'[l] = lane[l]
      BY <1>1, <1>2, <2>2 DEF FailAttempt
    <2>3. LoadClaimed(m) \/ SaveClaim(m) \/ CheckCancellation(m) => lane'[l] = lane[l]
      BY <1>1, <1>2 DEF LoadClaimed, SaveClaim, CheckCancellation
    <2>4. FinishAttempt(m) \/ ScheduleRetry(m) => lane'[l] = lane[l]
      BY <1>1, <1>2 DEF FinishAttempt, ScheduleRetry
    <2> QED
      BY <1>2, <2>1, <2>2, <2>3, <2>4 DEF LaneStep
  <1>3. FinishAttempt(l) \/ ScheduleRetry(l) => lane'[l] = IdleLane
    BY DEF FinishAttempt, ScheduleRetry, TypeOK
  <1>4. ASSUME FaultStep
        PROVE  \/ lane'[l] \in {lane[l], IdleLane}
               \/ \E applied \in BOOLEAN : FinishFails(l, applied)
    <2>1. ASSUME NEW w \in Workers, Crash(w) PROVE lane'[l] \in {lane[l], IdleLane}
      BY <2>1 DEF Crash
    <2>2. ASSUME NEW m \in Lanes, NEW applied \in BOOLEAN, FinishFails(m, applied), m # l
          PROVE  lane'[l] = lane[l]
      BY <1>1, <2>2 DEF FinishFails
    <2>3. ASSUME NEW t \in Ticks, PromotionFails(t) \/ RecoveryFails(t) PROVE lane' = lane
      BY <2>3 DEF PromotionFails, RecoveryFails
    <2>4. ASSUME NEW j \in Jobs, SubmissionFails(j) PROVE lane' = lane
      BY <2>4 DEF SubmissionFails, workerVars
    <2>5. ASSUME NEW c \in Cancels, CancellationFails(c) PROVE lane' = lane
      BY <2>5 DEF CancellationFails, workerVars
    <2> QED
      BY <1>4, <2>1, <2>2, <2>3, <2>4, <2>5 DEF FaultStep
  <1>5. ApiStep => lane' = lane
    BY DEF ApiStep, CreateJob, EnqueueNewJob, ScheduleNewJob, LoadForCancel,
           RemoveJobFromQueue, RemoveJobFromDelayedQueue, SaveCancelled,
           SaveCancellationRequest, workerVars
  <1>6. \A t \in Ticks : PromoterStep(t) \/ RecovererStep(t) => lane' = lane
    BY DEF PromoterStep, RecovererStep, ScanDue, RemoveDue, LoadPromoted, SavePromoted,
           PushPromoted, ScanStale, RecoverJob, ScheduleRecovered
  <1>7. \A j \in Jobs : TimePasses(j) => lane' = lane
    BY DEF TimePasses, BecomesDue, LockRunsOut, workerVars
  <1>8. ASSUME LaneStep(l)
        PROVE  \/ \E j \in Jobs : ClaimNextJob(l, j)
               \/ LoadClaimed(l) \/ SaveClaim(l) \/ CheckCancellation(l)
               \/ FinishAttempt(l) \/ ScheduleRetry(l)
               \/ \E nonRetryable \in BOOLEAN : FailAttempt(l, nonRetryable)
    BY <1>8 DEF LaneStep
  <1>9. CASE UNCHANGED vars
    BY <1>9 DEF vars
  <1>10. CASE \E m \in Lanes : LaneStep(m)
    BY <1>2, <1>3, <1>8, <1>10
  <1>11. CASE ~\E m \in Lanes : LaneStep(m)
    BY <1>4, <1>5, <1>6, <1>7, <1>9, <1>11 DEF Next
  <1> QED
    BY <1>10, <1>11

\* What they do to its record.
LEMMA LaneRecord ==
  ASSUME TypeOK, NEW l \in Lanes
  PROVE  /\ \A j \in Jobs : ClaimNextJob(l, j) => lane'[l].pc = "popped"
         /\ LoadClaimed(l) => lane'[l].pc = "loaded"
         /\ SaveClaim(l) =>
                /\ lane'[l].pc = "running" /\ lane'[l].job = lane[l].job
                /\ lane'[l].seen = Claimed(lane[l].seen, WorkerOf[l])
                /\ \A m \in Lanes \ {l} : lane'[m] = lane[m]
         /\ CheckCancellation(l) =>
                /\ lane[l].pc = "running" /\ lane'[l].pc \in Attempting
                /\ lane'[l].job = lane[l].job /\ lane'[l].seen = lane[l].seen
         /\ \A nonRetryable \in BOOLEAN : FailAttempt(l, nonRetryable) =>
                /\ lane[l].pc \in {"running", "failing"}
                /\ lane'[l].pc \in {"scheduling", "idle"}
         /\ \A applied \in BOOLEAN : FinishFails(l, applied) =>
                /\ lane[l].pc \in Attempting /\ lane'[l].pc \in Attempting
                /\ lane'[l].job = lane[l].job /\ lane'[l].seen = lane[l].seen
  <1>t. lane[l] \in LaneState /\ lane \in [Lanes -> LaneState]
    BY DEF TypeOK
  <1>1. ASSUME NEW r, lane' = [lane EXCEPT ![l] = r]
        PROVE  lane'[l] = r /\ \A m \in Lanes \ {l} : lane'[m] = lane[m]
    BY <1>1, <1>t
  <1>2. ASSUME NEW pc
        PROVE  LET r == [lane[l] EXCEPT !.pc = pc]
               IN  r.pc = pc /\ r.job = lane[l].job /\ r.seen = lane[l].seen
    BY <1>t DEF LaneState
  <1>3. ASSUME NEW pc, NEW x
        PROVE  /\ [lane[l] EXCEPT !.pc = pc, !.job = x].pc = pc
               /\ LET r == [lane[l] EXCEPT !.pc = pc, !.seen = x]
                  IN  r.pc = pc /\ r.job = lane[l].job /\ r.seen = x
    BY <1>t DEF LaneState
  <1>4. ASSUME NEW pc, lane' = [lane EXCEPT ![l] = [lane[l] EXCEPT !.pc = pc]]
        PROVE  lane'[l].pc = pc /\ lane'[l].job = lane[l].job /\ lane'[l].seen = lane[l].seen
    <2> DEFINE r == [lane[l] EXCEPT !.pc = pc]
    <2>1. lane' = [lane EXCEPT ![l] = r]
      BY <1>4
    <2>2. r.pc = pc /\ r.job = lane[l].job /\ r.seen = lane[l].seen
      BY <1>2
    <2> HIDE DEF r
    <2> QED
      BY <1>1, <2>1, <2>2
  <1>5. ASSUME NEW j \in Jobs, ClaimNextJob(l, j) PROVE lane'[l].pc = "popped"
    <2> DEFINE r == [lane[l] EXCEPT !.pc = "popped", !.job = j]
    <2>1. lane' = [lane EXCEPT ![l] = r]
      BY <1>5 DEF ClaimNextJob
    <2>2. r.pc = "popped"
      BY <1>3
    <2> HIDE DEF r
    <2> QED
      BY <1>1, <2>1, <2>2
  <1>6. ASSUME LoadClaimed(l) PROVE lane'[l].pc = "loaded"
    <2> DEFINE r == [lane[l] EXCEPT !.pc = "loaded", !.seen = Load(db[lane[l].job])]
    <2>1. lane' = [lane EXCEPT ![l] = r]
      BY <1>6 DEF LoadClaimed
    <2>2. r.pc = "loaded"
      BY <1>3
    <2> HIDE DEF r
    <2> QED
      BY <1>1, <2>1, <2>2
  <1>7. ASSUME SaveClaim(l)
        PROVE  /\ lane'[l].pc = "running" /\ lane'[l].job = lane[l].job
               /\ lane'[l].seen = Claimed(lane[l].seen, WorkerOf[l])
               /\ \A m \in Lanes \ {l} : lane'[m] = lane[m]
    <2> DEFINE x == Claimed(lane[l].seen, WorkerOf[l])
               r == [lane[l] EXCEPT !.pc = "running", !.seen = x]
    <2>1. lane' = [lane EXCEPT ![l] = r]
      BY <1>7 DEF SaveClaim
    <2> HIDE DEF x
    <2>2. r.pc = "running" /\ r.job = lane[l].job /\ r.seen = x
      BY <1>3
    <2> HIDE DEF r
    <2>3. lane'[l] = r /\ \A m \in Lanes \ {l} : lane'[m] = lane[m]
      BY <1>1, <2>1
    <2> QED
      BY <2>2, <2>3 DEF x
  <1>8. ASSUME CheckCancellation(l)
        PROVE  /\ lane[l].pc = "running" /\ lane'[l].pc \in Attempting
               /\ lane'[l].job = lane[l].job /\ lane'[l].seen = lane[l].seen
    <2> DEFINE pc == IF db[lane[l].job].cancelRequested THEN "cancelling" ELSE "completing"
    <2>1. lane[l].pc = "running" /\ lane' = [lane EXCEPT ![l] = [lane[l] EXCEPT !.pc = pc]]
      BY <1>8 DEF CheckCancellation
    <2>2. pc \in Attempting
      BY DEF Attempting
    <2> HIDE DEF pc
    <2> QED
      BY <1>4, <2>1, <2>2
  <1>9. ASSUME NEW nonRetryable \in BOOLEAN, FailAttempt(l, nonRetryable)
        PROVE  lane[l].pc \in {"running", "failing"} /\ lane'[l].pc \in {"scheduling", "idle"}
    <2>1. /\ lane[l].pc \in {"running", "failing"}
          /\ \/ lane' = [lane EXCEPT ![l] = [lane[l] EXCEPT !.pc = "scheduling"]]
             \/ lane' = [lane EXCEPT ![l] = IdleLane]
      BY <1>9 DEF FailAttempt
    <2>2. IdleLane.pc = "idle"
      BY DEF IdleLane
    <2> QED
      BY <1>1, <1>4, <2>1, <2>2
  <1>10. ASSUME NEW applied \in BOOLEAN, FinishFails(l, applied)
         PROVE  /\ lane[l].pc \in Attempting /\ lane'[l].pc \in Attempting
                /\ lane'[l].job = lane[l].job /\ lane'[l].seen = lane[l].seen
    BY <1>4, <1>10 DEF FinishFails, Attempting
  <1> QED
    BY <1>5, <1>6, <1>7, <1>8, <1>9, <1>10

-----------------------------------------------------------------------------
(* Who writes a document *)

\* Lane l's finishing write of its attempt at j.
FinishedBy(l, j) ==
    /\ lane[l].pc \in Attempting /\ lane[l].job = j /\ db[j].lockedBy = WorkerOf[l]
    /\ \E status \in Status :
          /\ db'[j] = Release(db[j], status)
          /\ status = "RETRYING" => /\ lane[l].seen.attempts < MaxAttempts
                                    /\ lane'[l].pc \notin Attempting

\* Recovery scan t's handleFailure on the strength of copy s.
RecoveredBy(t, s, j) ==
    /\ s.job = j /\ db[j].lockedBy = s.lockedBy
    /\ recoverer'[t].stale = recoverer[t].stale \ {s}
    /\ \E status \in Status :
          /\ db'[j] = Release(db[j], status)
          /\ status = "RETRYING" => s.attempts < MaxAttempts

OwnershipKept(j) ==
    /\ db'[j].attempts = db[j].attempts
    /\ db'[j].lockedBy = db[j].lockedBy
    /\ db'[j].lock = db[j].lock

LEMMA RetryingHasTry ==
  ASSUME NEW attempts \in Nat, NEW nonRetryable \in BOOLEAN,
         FailureStatus(attempts, nonRetryable) = "RETRYING"
  PROVE  attempts < MaxAttempts
  BY DocAssumption DEF FailureStatus

LEMMA DocWrites ==
  ASSUME TypeOK, [Next]_vars, NEW j \in Jobs
  PROVE  \/ OwnershipKept(j)
         \/ LockRunsOut(j)
         \/ \E l \in Lanes : SaveClaim(l) /\ lane[l].job = j
         \/ db'[j] = NewDoc
         \/ \E l \in Lanes : FinishedBy(l, j)
         \/ \E t \in Ticks : \E s \in recoverer[t].stale : RecoveredBy(t, s, j)
  <1> USE PipelineAssumption, DocAssumption
  <1>t. db \in [Jobs -> Doc] /\ db[j] \in Doc
    BY DEF TypeOK
  <1>k. db'[j] = db[j] => OwnershipKept(j)
    BY DEF OwnershipKept
  <1>1. ASSUME NEW k, NEW doc, db' = [db EXCEPT ![k] = doc], k # j PROVE db'[j] = db[j]
    BY <1>1, <1>t
  <1>2. ASSUME NEW doc, db' = [db EXCEPT ![j] = doc] PROVE db'[j] = doc
    BY <1>2, <1>t
  <1>3. ASSUME ApiStep PROVE db'[j] = NewDoc \/ OwnershipKept(j)
    <2>1. ASSUME NEW k \in Jobs, NEW scheduled \in BOOLEAN, CreateJob(k, scheduled)
          PROVE  db'[j] = NewDoc \/ db'[j] = db[j]
      BY <1>1, <1>2, <2>1 DEF CreateJob
    <2>2. ASSUME NEW c \in Cancels, SaveCancelled(c) \/ SaveCancellationRequest(c)
          PROVE  OwnershipKept(j)
      <3>1. CASE cancel[c].job # j
        BY <1>1, <1>k, <2>2, <3>1 DEF SaveCancelled, SaveCancellationRequest
      <3>2. CASE cancel[c].job = j
        <4>1. \/ db' = [db EXCEPT ![j] = [db[j] EXCEPT !.status = "CANCELLED"]]
              \/ db' = [db EXCEPT ![j] = [db[j] EXCEPT !.cancelRequested = TRUE]]
          BY <2>2, <3>2 DEF SaveCancelled, SaveCancellationRequest
        <4>2. \/ db'[j] = [db[j] EXCEPT !.status = "CANCELLED"]
              \/ db'[j] = [db[j] EXCEPT !.cancelRequested = TRUE]
          BY <1>t, <4>1
        <4> QED
          BY <1>t, <4>2 DEF OwnershipKept, Doc
      <3> QED
        BY <3>1, <3>2
    <2>3. ASSUME NEW k \in Jobs, NEW c \in Cancels,
                 \/ EnqueueNewJob(k) \/ ScheduleNewJob(k) \/ LoadForCancel(c, k)
                 \/ RemoveJobFromQueue(c) \/ RemoveJobFromDelayedQueue(c)
          PROVE  db' = db
      BY <2>3 DEF EnqueueNewJob, ScheduleNewJob, LoadForCancel, RemoveJobFromQueue,
                  RemoveJobFromDelayedQueue
    <2>4. ASSUME NEW k \in Jobs, EnqueueNewJob(k) \/ ScheduleNewJob(k) PROVE db' = db
      BY <2>4 DEF EnqueueNewJob, ScheduleNewJob
    <2> QED
      BY <1>3, <1>k, <2>1, <2>2, <2>3, <2>4 DEF ApiStep
  <1>4. ASSUME NEW l \in Lanes, NEW status \in Status, lane[l].pc \in Attempting,
               db' = [db EXCEPT ![lane[l].job] = Finalize(@, WorkerOf[l], status)],
               status = "RETRYING" => /\ lane[l].seen.attempts < MaxAttempts
                                      /\ lane'[l].pc \notin Attempting
        PROVE  OwnershipKept(j) \/ FinishedBy(l, j)
    <2>1. CASE lane[l].job # j
      BY <1>1, <1>4, <1>k, <2>1
    <2>2. CASE lane[l].job = j
      <3>1. db'[j] = Finalize(db[j], WorkerOf[l], status)
        BY <1>4, <1>t, <2>2
      <3> QED
        BY <1>4, <1>k, <2>2, <3>1 DEF Finalize, Lands, FinishedBy
    <2> QED
      BY <2>1, <2>2
  <1>5. ASSUME NEW l \in Lanes, db' = Finished(l), lane[l].pc \in {"completing", "cancelling"}
        PROVE  OwnershipKept(j) \/ FinishedBy(l, j)
    <2>1. PICK status \in {"CANCELLED", "COMPLETED"} :
              db' = [db EXCEPT ![lane[l].job] = Finalize(@, WorkerOf[l], status)]
      BY <1>5 DEF Finished
    <2>2. status \in Status /\ status # "RETRYING" /\ lane[l].pc \in Attempting
      BY <1>5 DEF Status, Attempting
    <2> QED
      BY <1>4, <2>1, <2>2
  <1>6. ASSUME NEW l \in Lanes, LaneStep(l)
        PROVE  \/ OwnershipKept(j) \/ FinishedBy(l, j)
               \/ SaveClaim(l) /\ lane[l].job = j
    <2>1. ASSUME SaveClaim(l), lane[l].job # j PROVE db'[j] = db[j]
      BY <1>1, <2>1 DEF SaveClaim
    <2>2. ASSUME FinishAttempt(l) PROVE OwnershipKept(j) \/ FinishedBy(l, j)
      BY <1>5, <2>2 DEF FinishAttempt
    <2>3. ASSUME NEW nonRetryable \in BOOLEAN, FailAttempt(l, nonRetryable)
          PROVE  OwnershipKept(j) \/ FinishedBy(l, j)
      <3> DEFINE status == FailureStatus(lane[l].seen.attempts, nonRetryable)
      <3>1. /\ lane[l].pc \in Attempting
            /\ db' = [db EXCEPT ![lane[l].job] = Finalize(@, WorkerOf[l], status)]
        BY <2>3 DEF FailAttempt, Attempting
      <3>2. status \in Status
        BY FailureStatusIsStatus
      <3>3. lane[l].seen.attempts \in Nat
        BY DEF TypeOK, LaneState, Loaded
      <3>4. status = "RETRYING" => lane[l].seen.attempts < MaxAttempts
        BY <3>3, RetryingHasTry
      <3>5. lane'[l].pc \notin Attempting
        BY <2>3, LaneRecord DEF Attempting
      <3> HIDE DEF status
      <3> QED
        BY <1>4, <3>1, <3>2, <3>4, <3>5
    <2>4. ASSUME NEW k \in Jobs,
                 \/ ClaimNextJob(l, k) \/ LoadClaimed(l) \/ CheckCancellation(l)
                 \/ ScheduleRetry(l)
          PROVE  db' = db
      BY <2>4 DEF ClaimNextJob, LoadClaimed, CheckCancellation, ScheduleRetry
    <2> QED
      BY <1>6, <1>k, <2>1, <2>2, <2>3, <2>4 DEF LaneStep
  <1>7. ASSUME NEW t \in Ticks, PromoterStep(t) PROVE OwnershipKept(j)
    <2>1. ASSUME SavePromoted(t) PROVE OwnershipKept(j)
      <3>1. CASE promoter[t].job # j
        BY <1>1, <1>k, <2>1, <3>1 DEF SavePromoted
      <3>2. CASE promoter[t].job = j
        <4>1. db'[j] = PromotionWrite(db[j], promoter[t].seen)
          BY <1>t, <2>1, <3>2 DEF SavePromoted
        <4> QED
          BY <1>t, <4>1 DEF PromotionWrite, Doc, OwnershipKept
      <3> QED
        BY <3>1, <3>2
    <2>2. ASSUME NEW k \in Jobs,
                 ScanDue(t) \/ RemoveDue(t, k) \/ LoadPromoted(t, k) \/ PushPromoted(t)
          PROVE  db' = db
      BY <2>2 DEF ScanDue, RemoveDue, LoadPromoted, PushPromoted
    <2> QED
      BY <1>7, <1>k, <2>1, <2>2 DEF PromoterStep
  <1>8. ASSUME NEW t \in Ticks, RecovererStep(t)
        PROVE  OwnershipKept(j) \/ \E s \in recoverer[t].stale : RecoveredBy(t, s, j)
    <2>1. ASSUME NEW s \in recoverer[t].stale, RecoverJob(t, s)
          PROVE  OwnershipKept(j) \/ RecoveredBy(t, s, j)
      <3> DEFINE status == FailureStatus(s.attempts, FALSE)
      <3>1. db' = [db EXCEPT ![s.job] = Finalize(@, s.lockedBy, status)]
        BY <2>1 DEF RecoverJob
      <3>2. status \in Status
        BY FailureStatusIsStatus
      <3>3. s.attempts \in Nat
        BY DEF TypeOK, RecovererState, StaleJob
      <3>4. status = "RETRYING" => s.attempts < MaxAttempts
        BY <3>3, RetryingHasTry
      <3>7. recoverer'[t].stale = recoverer[t].stale \ {s}
        <4> DEFINE retry == IF Lands(db[s.job], s.lockedBy) /\ status = "RETRYING"
                            THEN s.job ELSE NoJob
        <4>1. recoverer' = [recoverer EXCEPT ![t] =
                  [stale |-> recoverer[t].stale \ {s}, retry |-> retry]]
          BY <2>1 DEF RecoverJob
        <4> HIDE DEF retry
        <4> QED
          BY <4>1 DEF TypeOK
      <3> HIDE DEF status
      <3>5. CASE s.job # j
        BY <1>1, <1>k, <3>1, <3>5
      <3>6. CASE s.job = j
        <4>1. db'[j] = Finalize(db[j], s.lockedBy, status)
          BY <1>t, <3>1, <3>6
        <4> QED
          BY <1>k, <3>2, <3>4, <3>6, <3>7, <4>1 DEF Finalize, Lands, RecoveredBy
      <3> QED
        BY <3>5, <3>6
    <2>2. ScanStale(t) \/ ScheduleRecovered(t) => db' = db
      BY DEF ScanStale, ScheduleRecovered
    <2> QED
      BY <1>8, <1>k, <2>1, <2>2 DEF RecovererStep
  <1>9. ASSUME NEW k \in Jobs, TimePasses(k) PROVE OwnershipKept(j) \/ LockRunsOut(j)
    <2>1. ASSUME LockRunsOut(k), k # j PROVE db'[j] = db[j]
      BY <1>1, <2>1 DEF LockRunsOut
    <2>2. BecomesDue(k) => db' = db
      BY DEF BecomesDue
    <2> QED
      BY <1>9, <1>k, <2>1, <2>2 DEF TimePasses
  <1>10. ASSUME FaultStep PROVE OwnershipKept(j) \/ \E l \in Lanes : FinishedBy(l, j)
    <2>1. ASSUME NEW l \in Lanes, NEW applied \in BOOLEAN, FinishFails(l, applied)
          PROVE  OwnershipKept(j) \/ FinishedBy(l, j)
      BY <1>5, <1>k, <2>1 DEF FinishFails
    <2>2. ASSUME NEW w \in Workers, Crash(w) PROVE db' = db
      BY <2>2 DEF Crash
    <2>3. ASSUME NEW t \in Ticks, PromotionFails(t) \/ RecoveryFails(t) PROVE db' = db
      BY <2>3 DEF PromotionFails, RecoveryFails
    <2>4. ASSUME NEW k \in Jobs, SubmissionFails(k) PROVE db' = db
      BY <2>4 DEF SubmissionFails
    <2>5. ASSUME NEW c \in Cancels, CancellationFails(c) PROVE db' = db
      BY <2>5 DEF CancellationFails
    <2> QED
      BY <1>10, <1>k, <2>1, <2>2, <2>3, <2>4, <2>5 DEF FaultStep
  <1>11. CASE UNCHANGED vars
    BY <1>k, <1>11 DEF vars
  <1>12. CASE Next
    BY <1>3, <1>6, <1>7, <1>8, <1>9, <1>10, <1>12 DEF Next
  <1> QED
    BY <1>11, <1>12

-----------------------------------------------------------------------------
(* The invariant is inductive *)

LEMMA BusyIsUpStays == ASSUME TypeOK, BusyIsUp, [Next]_vars PROVE BusyIsUp'
  <1> SUFFICES ASSUME NEW l \in Lanes, lane'[l].pc # "idle"
               PROVE  up'[WorkerOf[l]]
    BY DEF BusyIsUp
  <1>t. WorkerOf[l] \in Workers
    BY PipelineAssumption
  <1>1. up[WorkerOf[l]]
    <2>1. lane'[l] # IdleLane
      BY DEF IdleLane
    <2>2. \A j \in Jobs : ClaimNextJob(l, j) => up[WorkerOf[l]]
      BY DEF ClaimNextJob
    <2>3. LoadClaimed(l) \/ SaveClaim(l) \/ CheckCancellation(l) => lane[l].pc # "idle"
      BY DEF LoadClaimed, SaveClaim, CheckCancellation
    <2>4. \A nonRetryable \in BOOLEAN : FailAttempt(l, nonRetryable) => lane[l].pc # "idle"
      BY DEF FailAttempt
    <2>5. \A applied \in BOOLEAN : FinishFails(l, applied) => lane[l].pc # "idle"
      BY DEF FinishFails
    <2> QED
      BY <1>t, <2>1, <2>2, <2>3, <2>4, <2>5, LaneMoves DEF BusyIsUp
  <1>2. ASSUME NEW w \in Workers, Crash(w) PROVE w # WorkerOf[l]
    BY <1>2 DEF Crash, IdleLane
  <1> QED
    BY <1>t, <1>1, <1>2, UpStays DEF TypeOK

LEMMA ReleaseFrees ==
  ASSUME NEW doc \in Doc, NEW status
  PROVE  Release(doc, status).lock = "null" /\ Release(doc, status).lockedBy = NoWorker
  BY DEF Release, Doc

\* The claim takes the lock for the lane's worker.
LEMMA ClaimTakesLock ==
  ASSUME IInv, NEW l \in Lanes, SaveClaim(l)
  PROVE  /\ lane[l].job \in Jobs
         /\ db[lane[l].job].lockedBy = NoWorker
         /\ Carriers(lane[l].job) = {<<"lane", l>>}
         /\ db'[lane[l].job].lockedBy = WorkerOf[l]
         /\ db'[lane[l].job].lock = "future"
         /\ db'[lane[l].job].attempts = lane'[l].seen.attempts
         /\ db'[lane[l].job].attempts = db[lane[l].job].attempts + 1
  <1>t. TypeOK /\ AtMostOneCarrier /\ LoadedIsCurrent /\ WorkerOf[l] \in Workers
    BY PipelineAssumption DEF IInv
  <1>1. lane[l].pc = "loaded" /\ lane[l].job \in Jobs
    BY <1>t DEF SaveClaim, TypeOK
  <1> PICK j \in Jobs : j = lane[l].job
    BY <1>1
  <1>2. db[j].lockedBy = NoWorker /\ Carriers(j) = {<<"lane", l>>}
    BY <1>t, <1>1, LaneOnly
  <1>3. lane[l].seen.lockedBy = NoWorker /\ lane[l].seen.attempts = db[j].attempts
    BY <1>t, <1>1 DEF LoadedIsCurrent
  <1>4. db'[j] = ClaimWrite(db[j], lane[l].seen, WorkerOf[l]) /\ db[j] \in Doc
    BY <1>t DEF SaveClaim, TypeOK
  <1>5. WorkerOf[l] # NoWorker
    BY <1>t, DocAssumption
  <1>6. /\ db'[j].lockedBy = WorkerOf[l] /\ db'[j].lock = "future"
        /\ db'[j].attempts = lane[l].seen.attempts + 1
    BY <1>3, <1>4, <1>5 DEF ClaimWrite, Saved, Doc
  <1>7. lane'[l].seen.attempts = lane[l].seen.attempts + 1
    <2>1. lane'[l].seen = Claimed(lane[l].seen, WorkerOf[l])
      BY <1>t, LaneRecord
    <2>2. Claimed(lane[l].seen, WorkerOf[l]).attempts = lane[l].seen.attempts + 1
      BY DEF Claimed
    <2> QED
      BY <2>1, <2>2
  <1> QED
    BY <1>1, <1>2, <1>3, <1>6, <1>7

LEMMA PastIsDeadStays == ASSUME AInv, [Next]_vars, stalls' = 0 PROVE PastIsDead'
  <1> SUFFICES ASSUME NEW j \in Jobs, db'[j].lock = "past"
               PROVE  db'[j].lockedBy \in Workers /\ ~up'[db'[j].lockedBy]
    BY DEF PastIsDead
  <1>t. TypeOK /\ IInv /\ PastIsDead /\ db[j] \in Doc /\ stalls = 0
    BY StallsCount DEF AInv, IInv, Punctual, TypeOK
  <1>1. CASE OwnershipKept(j)
    BY <1>1, <1>t, DeadStays DEF OwnershipKept, PastIsDead
  <1>2. CASE LockRunsOut(j)
    <2>1. db'[j].lockedBy = db[j].lockedBy /\ db[j].lockedBy \in Workers
      <3>1. db'[j] = [db[j] EXCEPT !.lock = "past"]
        BY <1>2, <1>t DEF LockRunsOut, TypeOK
      <3>2. db[j].status = "PROCESSING"
        BY <1>2 DEF LockRunsOut
      <3> QED
        BY <1>t, <3>1, <3>2 DEF Doc, IInv, ProcessingIsLocked
    <2>2. ~up[db[j].lockedBy]
      BY <1>2, <1>t DEF LockRunsOut
    <2> QED
      BY <1>t, <2>1, <2>2, DeadStays
  <1>3. ASSUME NEW l \in Lanes, SaveClaim(l), lane[l].job = j PROVE FALSE
    BY <1>t, <1>3, ClaimTakesLock
  <1>4. db'[j] # NewDoc
    BY DEF NewDoc, NoDoc
  <1>5. ASSUME NEW l \in Lanes, FinishedBy(l, j) PROVE FALSE
    BY <1>t, <1>5, ReleaseFrees DEF FinishedBy
  <1>6. ASSUME NEW t \in Ticks, NEW s \in recoverer[t].stale, RecoveredBy(t, s, j) PROVE FALSE
    BY <1>t, <1>6, ReleaseFrees DEF RecoveredBy
  <1> QED
    BY <1>t, <1>1, <1>2, <1>3, <1>4, <1>5, <1>6, DocWrites

\* An owner that is dead takes no lock anew.
LEMMA StaleIsDeadStays == ASSUME AInv, [Next]_vars, stalls' = 0 PROVE StaleIsDead'
  <1> SUFFICES ASSUME NEW t \in Ticks, NEW s \in recoverer'[t].stale
               PROVE  /\ ~up'[s.lockedBy]
                      /\ db'[s.job].lockedBy = s.lockedBy => s.attempts = db'[s.job].attempts
    BY DEF StaleIsDead
  <1>t. TypeOK /\ IInv /\ PastIsDead /\ StaleIsDead /\ BusyIsUp /\ StaleHasOwner
    BY StallsCount DEF AInv, IInv, Punctual
  <1>1. CASE s \in recoverer[t].stale
    <2>1. /\ ~up[s.lockedBy] /\ s.lockedBy \in Workers
          /\ db[s.job].lockedBy = s.lockedBy => s.attempts = db[s.job].attempts
      BY <1>1, <1>t DEF StaleIsDead, StaleHasOwner
    <2>2. ~up'[s.lockedBy]
      BY <1>t, <2>1, DeadStays
    <2>3. PICK j \in Jobs : j = s.job
      BY <1>1, <1>t DEF TypeOK, RecovererState, StaleJob
    <2>4. SUFFICES ASSUME db'[j].lockedBy = s.lockedBy PROVE s.attempts = db'[j].attempts
      BY <2>2, <2>3
    <2>d. db[j] \in Doc /\ s.lockedBy # NoWorker
      BY <1>t, <2>1, DocAssumption DEF TypeOK
    <2>5. CASE OwnershipKept(j)
      BY <2>1, <2>3, <2>4, <2>5 DEF OwnershipKept
    <2>6. CASE LockRunsOut(j)
      <3>1. db'[j] = [db[j] EXCEPT !.lock = "past"]
        BY <2>6, <1>t DEF LockRunsOut, TypeOK
      <3> QED
        BY <2>1, <2>3, <2>4, <2>d, <3>1 DEF Doc
    <2>7. ASSUME NEW l \in Lanes, SaveClaim(l), lane[l].job = j PROVE FALSE
      <3>1. db'[j].lockedBy = WorkerOf[l]
        BY <1>t, <2>7, ClaimTakesLock
      <3>2. up[WorkerOf[l]]
        BY <1>t, <2>7 DEF BusyIsUp, SaveClaim
      <3> QED
        BY <2>1, <2>4, <3>1, <3>2
    <2>8. db'[j] # NewDoc
      BY <2>4, <2>d DEF NewDoc, NoDoc
    <2>9. ASSUME NEW l \in Lanes, FinishedBy(l, j) PROVE FALSE
      BY <2>4, <2>d, <2>9, ReleaseFrees DEF FinishedBy
    <2>10. ASSUME NEW u \in Ticks, NEW x \in recoverer[u].stale, RecoveredBy(u, x, j) PROVE FALSE
      BY <2>4, <2>d, <2>10, ReleaseFrees DEF RecoveredBy
    <2> QED
      BY <1>t, <2>5, <2>6, <2>7, <2>8, <2>9, <2>10, DocWrites
  <1>2. CASE s \notin recoverer[t].stale
    <2>1. /\ db' = db
          /\ \E j \in Jobs : /\ db[j].status = "PROCESSING" /\ db[j].lock = "past"
                             /\ s = [job |-> j, attempts |-> db[j].attempts,
                                     lockedBy |-> db[j].lockedBy]
      BY <1>t, <1>2, StaleComes
    <2>2. PICK j \in Jobs : /\ db[j].lock = "past"
                            /\ s = [job |-> j, attempts |-> db[j].attempts,
                                    lockedBy |-> db[j].lockedBy]
      BY <2>1
    <2>3. ~up[s.lockedBy] /\ s.lockedBy \in Workers
      BY <1>t, <2>2 DEF PastIsDead
    <2> QED
      BY <1>t, <2>1, <2>2, <2>3, DeadStays
  <1> QED
    BY <1>1, <1>2

\* Of the lanes attempting a job, at most one holds it.
LEMMA NobodyElseAttempts ==
  ASSUME IInv, AttemptIsCurrent, NEW l \in Lanes, SaveClaim(l),
         NEW k \in Lanes \ {l}, lane'[k].pc \in Attempting
  PROVE  lane'[k].job # lane[l].job
  <1> SUFFICES ASSUME lane'[k].job = lane[l].job PROVE FALSE
    OBVIOUS
  <1>1. lane[k].pc \in Attempting /\ lane[k].job = lane[l].job
    BY LaneRecord DEF IInv
  <1>2. db[lane[l].job].lockedBy = NoWorker /\ Carriers(lane[l].job) # {}
    BY ClaimTakesLock
  <1>3. WorkerOf[k] # NoWorker
    BY PipelineAssumption, DocAssumption
  <1> QED
    BY <1>1, <1>2, <1>3 DEF AttemptIsCurrent

\* A lane that attempts a job after a step began to do so in it, or was at it.
LEMMA AttemptGoesOn ==
  ASSUME TypeOK, [Next]_vars, NEW l \in Lanes, lane'[l].pc \in Attempting
  PROVE  \/ SaveClaim(l)
         \/ /\ lane[l].pc \in Attempting
            /\ lane'[l].job = lane[l].job /\ lane'[l].seen = lane[l].seen
  <1>1. lane'[l] # IdleLane
    BY DEF IdleLane, Attempting
  <1>2. \A j \in Jobs : ~ClaimNextJob(l, j)
    BY LaneRecord DEF Attempting
  <1>3. ~LoadClaimed(l)
    BY LaneRecord DEF Attempting
  <1>4. \A nonRetryable \in BOOLEAN : ~FailAttempt(l, nonRetryable)
    BY LaneRecord DEF Attempting
  <1>5. "running" \in Attempting
    BY DEF Attempting
  <1> QED
    BY <1>1, <1>2, <1>3, <1>4, <1>5, LaneMoves, LaneRecord

LEMMA OneAttemptStays == ASSUME AInv, [Next]_vars, stalls' = 0 PROVE OneAttempt'
  <1>t. TypeOK /\ IInv /\ OneAttempt /\ AttemptIsCurrent
    BY StallsCount DEF AInv, IInv, Punctual
  <1> SUFFICES ASSUME NEW k \in Lanes, NEW l \in Lanes, k # l,
                      lane'[k].pc \in Attempting, lane'[l].pc \in Attempting
               PROVE  lane'[k].job # lane'[l].job
    BY DEF OneAttempt
  <1>1. CASE SaveClaim(l)
    BY <1>1, <1>t, NobodyElseAttempts, LaneRecord
  <1>2. CASE SaveClaim(k)
    BY <1>2, <1>t, NobodyElseAttempts, LaneRecord
  <1> QED
    BY <1>1, <1>2, <1>t, AttemptGoesOn DEF OneAttempt

\* No other lane, and no recovery scan, retries the job of a live attempt.
LEMMA NotRetried ==
  ASSUME AInv, [Next]_vars, Punctual, NEW l \in Lanes,
         lane[l].pc \in Attempting, lane'[l].pc \in Attempting,
         NEW j \in Jobs, lane[l].job = j, db[j].lockedBy = WorkerOf[l], Retried(j)
  PROVE  FALSE
  <1>t. TypeOK /\ OneAttempt /\ StaleIsDead /\ BusyIsUp /\ db[j] \in Doc
    BY DEF AInv, IInv, Punctual, TypeOK
  <1>1. /\ db[j].lockedBy \in Workers /\ db[j].lockedBy # NoWorker
        /\ db'[j].status = "RETRYING" /\ db'[j].lockedBy = NoWorker
    BY <1>t, ReleaseKeeps, DocAssumption DEF Retried, Released
  <1>2. ~OwnershipKept(j)
    BY <1>1 DEF OwnershipKept
  <1>3. ~LockRunsOut(j)
    <2>1. LockRunsOut(j) => db'[j] = [db[j] EXCEPT !.lock = "past"]
      BY <1>t DEF LockRunsOut, TypeOK
    <2> QED
      BY <2>1, <1>1, <1>t DEF Doc
  <1>4. ASSUME NEW m \in Lanes, SaveClaim(m), lane[m].job = j PROVE FALSE
    BY <1>1, <1>4, ClaimTakesLock DEF AInv
  <1>5. db'[j] # NewDoc
    BY <1>1 DEF NewDoc, NoDoc
  <1>6. ASSUME NEW m \in Lanes, FinishedBy(m, j) PROVE FALSE
    <2>1. m = l
      BY <1>t, <1>6 DEF FinishedBy, OneAttempt
    <2>2. lane'[m].pc \notin Attempting
      BY <1>1, <1>6, <1>t, ReleaseKeeps DEF FinishedBy
    <2> QED
      BY <2>1, <2>2
  <1>7. ASSUME NEW t \in Ticks, NEW s \in recoverer[t].stale, RecoveredBy(t, s, j) PROVE FALSE
    <2>1. ~up[WorkerOf[l]]
      BY <1>t, <1>7 DEF RecoveredBy, StaleIsDead
    <2> QED
      BY <1>t, <2>1 DEF BusyIsUp, Attempting
  <1> QED
    BY <1>t, <1>2, <1>3, <1>4, <1>5, <1>6, <1>7, DocWrites

LEMMA AttemptIsCurrentStays == ASSUME AInv, [Next]_vars, stalls' = 0 PROVE AttemptIsCurrent'
  <1>t. TypeOK /\ IInv /\ Punctual /\ AttemptIsCurrent /\ JobSteps
    BY StallsCount, NextJobSteps DEF AInv, IInv, Punctual
  <1> SUFFICES ASSUME NEW l \in Lanes, lane'[l].pc \in Attempting,
                      NEW j, j = lane'[l].job
               PROVE  \/ /\ db'[j].lockedBy = WorkerOf[l]
                         /\ lane'[l].seen.attempts = db'[j].attempts
                      \/ submit'[j] # "new" /\ Carriers(j)' = {}
    BY DEF AttemptIsCurrent
  <1>1. CASE SaveClaim(l)
    BY <1>1, <1>t, ClaimTakesLock, LaneRecord
  <1>2. CASE ~SaveClaim(l)
    <2>1. /\ lane[l].pc \in Attempting /\ j = lane[l].job
          /\ lane'[l].seen = lane[l].seen /\ j \in Jobs
      <3>1. lane[l].pc \in Attempting /\ j = lane[l].job /\ lane'[l].seen = lane[l].seen
        BY <1>t, <1>2, AttemptGoesOn
      <3>2. lane[l].pc # "idle"
        BY <3>1 DEF Attempting
      <3> QED
        BY <1>t, <3>1, <3>2 DEF TypeOK
    <2>2. CASE submit[j] # "new" /\ Carriers(j) = {}
      <3>1. Stays(j) \/ Cancelled(j)
        BY <1>t, <2>1, <2>2, NowhereStays
      <3>2. Carriers(j)' = {}
        BY <2>2, <3>1 DEF Stays, Cancelled
      <3>3. submit'[j] # "new"
        BY <1>t, <2>1, <2>2, EachJob DEF Changes, Created, SubmitKept
      <3> QED
        BY <3>2, <3>3
    <2>3. CASE db[j].lockedBy = WorkerOf[l] /\ lane[l].seen.attempts = db[j].attempts
      <3>1. db[j].lockedBy \in Workers /\ db[j].lockedBy # NoWorker /\ db[j] \in Doc
        BY <1>t, <2>1, <2>3, PipelineAssumption, DocAssumption DEF TypeOK
      <3>2. Carriers(j) # {} /\ submit[j] # "new"
        BY <1>t, <2>1, <3>1, LockedIsCarried DEF IInv, UnsubmittedIsNowhere
      <3>3. CASE Stays(j)
        BY <2>1, <2>3, <3>3 DEF Stays, DocKept
      <3>4. CASE Cancelled(j)
        BY <2>1, <2>3, <3>1, <3>4 DEF Cancelled, Doc
      <3>5. ASSUME NEW status \in Terminal, EndedAs(j, status), SubmitKept(j)
            PROVE  submit'[j] # "new" /\ Carriers(j)' = {}
        BY <3>2, <3>5 DEF EndedAs, SubmitKept
      <3>6. ~Retried(j)
        BY <1>t, <2>1, <2>3, NotRetried
      <3>7. ~Created(j) /\ ~Handed(j) /\ ~Dropped(j) /\ ~Promoted(j) /\ ~Begun(j)
        BY <3>1, <3>2 DEF Created, Handed, Dropped, Promoted, Begun
      <3> QED
        BY <1>t, <2>1, <3>3, <3>4, <3>5, <3>6, <3>7, EachJob DEF Changes
    <2> QED
      BY <1>t, <2>1, <2>2, <2>3 DEF AttemptIsCurrent
  <1> QED
    BY <1>1, <1>2

\* A job is put back only if the attempt on record was not its last.
LEMMA TriesStay == ASSUME AInv, [Next]_vars, stalls' = 0 PROVE HasTryLeft' /\ WithinTries'
  <1>t. TypeOK /\ IInv /\ Punctual /\ JobSteps /\ stalls = 0
    BY StallsCount, NextJobSteps DEF AInv, IInv
  <1> SUFFICES ASSUME NEW j \in Jobs
               PROVE  /\ db'[j].lockedBy = NoWorker /\ Carriers(j)' # {} => db'[j].attempts < Tries
                      /\ db'[j].attempts <= Tries
    BY DEF HasTryLeft, WithinTries
  <1>n. /\ db[j] \in Doc /\ db[j].attempts \in Nat /\ db'[j] \in Doc /\ Tries \in Int /\ Tries >= 1
        /\ \A n \in Nat : n < MaxAttempts => n < Tries
    <2>1. TypeOK'
      BY <1>t, NextTypeOK
    <2> QED
      BY <1>t, <2>1, DocAssumption DEF TypeOK, Doc, Tries
  <1>h. /\ db[j].attempts <= Tries
        /\ db[j].lockedBy = NoWorker /\ Carriers(j) # {} => db[j].attempts < Tries
    BY <1>t DEF Punctual, HasTryLeft, WithinTries
  <1>1. CASE Stays(j)
    BY <1>1, <1>h DEF Stays, DocKept
  <1>2. CASE Created(j)
    BY <1>2, <1>n DEF Created, NewDoc, NoDoc
  <1>3. CASE Handed(j) \/ Dropped(j)
    BY <1>3, <1>h DEF Handed, Dropped, DocKept
  <1>4. CASE Promoted(j) \/ Cancelled(j)
    <2>1. db'[j].attempts = db[j].attempts /\ db'[j].lockedBy = db[j].lockedBy
      BY <1>4, <1>n DEF Promoted, Cancelled, Doc
    <2> QED
      BY <1>4, <1>h, <2>1 DEF Promoted, Cancelled
  <1>5. CASE Begun(j)
    BY <1>5, <1>h, <1>n, DocAssumption DEF Begun
  <1>6. ASSUME NEW status \in Terminal, EndedAs(j, status)
        PROVE  Carriers(j)' = {} /\ db'[j].attempts = db[j].attempts
    BY <1>6, <1>n, ReleaseKeeps DEF EndedAs, Released
  <1>7. CASE Retried(j)
    <2>1. /\ db[j].lockedBy \in Workers /\ db[j].lockedBy # NoWorker
          /\ db'[j].status = "RETRYING" /\ db'[j].lockedBy = NoWorker
          /\ db'[j].attempts = db[j].attempts
      BY <1>7, <1>n, ReleaseKeeps, DocAssumption DEF Retried, Released
    <2>2. ASSUME NEW l \in Lanes, FinishedBy(l, j) PROVE db[j].attempts < MaxAttempts
      <3>1. lane[l].seen.attempts < MaxAttempts
        BY <1>n, <2>1, <2>2, ReleaseKeeps DEF FinishedBy
      <3>2. Carriers(j) # {}
        BY <2>1, LockedIsCarried
      <3>3. lane[l].seen.attempts = db[j].attempts
        BY <1>t, <2>2, <3>2 DEF FinishedBy, Punctual, AttemptIsCurrent
      <3> QED
        BY <3>1, <3>3
    <2>3. ASSUME NEW t \in Ticks, NEW s \in recoverer[t].stale, RecoveredBy(t, s, j)
          PROVE  db[j].attempts < MaxAttempts
      <3>1. s.attempts < MaxAttempts
        BY <1>n, <2>1, <2>3, ReleaseKeeps DEF RecoveredBy
      <3>2. s.attempts = db[j].attempts
        BY <1>t, <2>3 DEF RecoveredBy, Punctual, StaleIsDead
      <3> QED
        BY <3>1, <3>2
    <2>4. ~OwnershipKept(j) /\ db'[j] # NewDoc
      BY <2>1 DEF OwnershipKept, NewDoc, NoDoc
    <2>5. ~LockRunsOut(j)
      <3>1. LockRunsOut(j) => db'[j] = [db[j] EXCEPT !.lock = "past"]
        BY <1>t DEF LockRunsOut, TypeOK
      <3> QED
        BY <2>1, <3>1, <1>n DEF Doc
    <2>6. ASSUME NEW l \in Lanes, SaveClaim(l), lane[l].job = j PROVE FALSE
      BY <1>t, <2>1, <2>6, ClaimTakesLock
    <2>7. db[j].attempts < MaxAttempts
      BY <1>t, <2>2, <2>3, <2>4, <2>5, <2>6, DocWrites
    <2> QED
      BY <1>n, <1>h, <2>1, <2>7
  <1> QED
    BY <1>t, <1>h, <1>1, <1>2, <1>3, <1>4, <1>5, <1>6, <1>7, EachJob DEF Changes

LEMMA InitAInv == Init => AInv
  <1> SUFFICES ASSUME Init PROVE AInv
    OBVIOUS
  <1>1. IInv
    BY InitIInv
  <1>2. /\ \A j \in Jobs : db[j].lock = "null" /\ db[j].lockedBy = NoWorker /\ db[j].attempts = 0
        /\ \A j \in Jobs : submit[j] = "new"
        /\ \A l \in Lanes : lane[l].pc = "idle"
        /\ \A t \in Ticks : recoverer[t].stale = {}
    BY DEF Init, NoDoc, IdleLane, IdleRecoverer
  <1>3. \A j \in Jobs : Carriers(j) = {}
    BY <1>1, <1>2 DEF IInv, UnsubmittedIsNowhere
  <1>4. BusyIsUp /\ AttemptIsCurrent /\ OneAttempt
    BY <1>2 DEF BusyIsUp, AttemptIsCurrent, OneAttempt, Attempting
  <1>5. PastIsDead /\ StaleIsDead /\ HasTryLeft
    BY <1>2, <1>3 DEF PastIsDead, StaleIsDead, HasTryLeft
  <1>6. WithinTries
    BY <1>2, DocAssumption DEF WithinTries, Tries
  <1> QED
    BY <1>1, <1>4, <1>5, <1>6 DEF AInv, Punctual

LEMMA NextAInv == AInv /\ [Next]_vars => AInv'
  <1> SUFFICES ASSUME AInv, [Next]_vars PROVE AInv'
    OBVIOUS
  <1>1. IInv'
    BY NextIInv DEF AInv
  <1>2. BusyIsUp'
    BY BusyIsUpStays DEF AInv, IInv
  <1>3. stalls' = 0 => Punctual'
    BY PastIsDeadStays, StaleIsDeadStays, AttemptIsCurrentStays, OneAttemptStays, TriesStay
       DEF Punctual
  <1> QED
    BY <1>1, <1>2, <1>3 DEF AInv

-----------------------------------------------------------------------------
(* The theorems *)

\* Every reachable state satisfies the inductive invariant.
THEOREM AttemptsInvariance == Spec => []AInv
  BY InitAInv, NextAInv, PTL DEF Spec

\* While the locks of live workers outlive their attempts, no two lanes are in
\* attempts of one job, whatever crashes and whatever is retried.
THEOREM OneAtATime == Spec => []OneAttemptAtATime
  <1>1. AInv => OneAttemptAtATime
    BY DEF AInv, Punctual, OneAttempt, OneAttemptAtATime
  <1> QED
    BY <1>1, AttemptsInvariance, PTL

\* As long, the filter of finalizeJob tells the attempts of a job apart, also
\* those of lanes that share a WORKER_ID.
THEOREM FenceHolds == Spec => []FenceIsPerAttempt
  <1>1. ASSUME AInv PROVE FenceIsPerAttempt
    <2> SUFFICES ASSUME stalls = 0, NEW l \in Lanes, lane[l].pc \in Attempting,
                        Lands(db[lane[l].job], WorkerOf[l])
                 PROVE  lane[l].seen.attempts = db[lane[l].job].attempts
      BY DEF FenceIsPerAttempt
    <2>1. lane[l].job \in Jobs
      <3>1. lane[l].pc # "idle"
        BY DEF Attempting
      <3> QED
        BY <1>1, <3>1 DEF AInv, IInv, TypeOK
    <2>2. db[lane[l].job].lockedBy \in Workers
      BY PipelineAssumption DEF Lands
    <2>3. Carriers(lane[l].job) # {}
      BY <2>1, <2>2, LockedIsCarried
    <2> QED
      BY <1>1, <2>3 DEF AInv, Punctual, AttemptIsCurrent
  <1> QED
    BY <1>1, AttemptsInvariance, PTL

\* As long, a job gets "exactly maxAttempts total tries, not one extra":
\* crashes, failed commands and overlapping scans cost none.
THEOREM NoTryTooMany == Spec => [](stalls = 0 => NoExtraAttempt)
  <1>1. AInv => (stalls = 0 => NoExtraAttempt)
    BY DEF AInv, IInv, Punctual, WithinTries, AttemptsCountRuns, NoExtraAttempt
  <1> QED
    BY <1>1, AttemptsInvariance, PTL

LEMMA SingleLaneStays ==
  ASSUME AInv, [Next]_vars, FenceOfSingleLane
  PROVE  FenceOfSingleLane'
  <1>t. TypeOK /\ IInv
    BY DEF AInv, IInv
  <1> SUFFICES ASSUME NEW l \in Lanes, \A k \in Lanes : WorkerOf[k] = WorkerOf[l] => k = l,
                      lane'[l].pc \in Attempting,
                      NEW j, j = lane'[l].job, db'[j].lockedBy = WorkerOf[l]
               PROVE  lane'[l].seen.attempts = db'[j].attempts
    BY DEF FenceOfSingleLane, Lands
  <1>w. WorkerOf[l] # NoWorker
    BY PipelineAssumption, DocAssumption
  <1>1. CASE SaveClaim(l)
    BY <1>1, <1>t, ClaimTakesLock, LaneRecord
  <1>2. CASE ~SaveClaim(l)
    <2>1. lane[l].pc \in Attempting /\ j = lane[l].job /\ lane'[l].seen = lane[l].seen
      BY <1>t, <1>2, AttemptGoesOn
    <2>2. j \in Jobs /\ db[j] \in Doc
      <3>1. lane[l].pc # "idle"
        BY <2>1 DEF Attempting
      <3> QED
        BY <1>t, <2>1, <3>1 DEF TypeOK
    <2>3. db[j].lockedBy = WorkerOf[l] => lane[l].seen.attempts = db[j].attempts
      BY <2>1 DEF FenceOfSingleLane, Lands
    <2>4. CASE OwnershipKept(j)
      BY <2>1, <2>3, <2>4 DEF OwnershipKept
    <2>5. CASE LockRunsOut(j)
      <3>1. db'[j] = [db[j] EXCEPT !.lock = "past"]
        BY <2>2, <2>5, <1>t DEF LockRunsOut, TypeOK
      <3> QED
        BY <2>1, <2>2, <2>3, <3>1 DEF Doc
    <2>6. ASSUME NEW m \in Lanes, SaveClaim(m), lane[m].job = j PROVE FALSE
      <3>1. WorkerOf[m] = WorkerOf[l]
        BY <1>t, <2>6, ClaimTakesLock
      <3> QED
        BY <1>2, <2>6, <3>1
    <2>7. db'[j] # NewDoc
      BY <1>w DEF NewDoc, NoDoc
    <2>8. ASSUME NEW m \in Lanes, FinishedBy(m, j) PROVE FALSE
      BY <1>w, <2>2, <2>8, ReleaseFrees DEF FinishedBy
    <2>9. ASSUME NEW t \in Ticks, NEW s \in recoverer[t].stale, RecoveredBy(t, s, j) PROVE FALSE
      BY <1>w, <2>2, <2>9, ReleaseFrees DEF RecoveredBy
    <2> QED
      BY <1>t, <2>2, <2>4, <2>5, <2>6, <2>7, <2>8, <2>9, DocWrites
  <1> QED
    BY <1>1, <1>2

\* Whatever the locks do: in a worker with one lane, WORKER_ID names the attempt.
THEOREM SingleLaneFence == Spec => []FenceOfSingleLane
  <1>1. Init => FenceOfSingleLane
    BY DEF Init, IdleLane, FenceOfSingleLane, Attempting
  <1> QED
    BY <1>1, AttemptsInvariance, SingleLaneStays, PTL DEF Spec
-----------------------------------------------------------------------------
(* What a lock that runs out under a live worker can cost.  Each gives     *)
(* every run of the recovery scan a copy that handleFailure judges after   *)
(* the attempts on record have moved on; a worker with several lanes may   *)
(* then also hold an attempt whose count is behind.  A job put back on     *)
(* such grounds has used one of them up.                                   *)

\* A copy whose handleFailure can find the lock held by another attempt of
\* the same worker, or does.
Dangerous(s) ==
    \/ up[s.lockedBy]
    \/ db[s.job].lockedBy = s.lockedBy /\ s.attempts # db[s.job].attempts

Holding(j) == {t \in Ticks : \E s \in recoverer[t].stale : s.job = j /\ Dangerous(s)}

\* The lock of a live worker's attempt at j has run out.
Overdue(j) == db[j].lock = "past" /\ db[j].lockedBy \in Workers /\ up[db[j].lockedBy]

\* The runs of the scan that hold such a copy of j, or can get one.
Rescuers(j) == IF Overdue(j) THEN Ticks ELSE Holding(j)

Current(l) ==
    LET j == lane[l].job
    IN  db[j].lockedBy = WorkerOf[l] /\ lane[l].seen.attempts = db[j].attempts

\* The lanes whose attempt at j is not the one on record, and which would put j
\* back.
Strays(j) ==
    {l \in Lanes : /\ lane[l].pc \in Attempting /\ lane[l].job = j
                   /\ lane[l].seen.attempts < MaxAttempts /\ ~Current(l)}

Budget == stalls * Cardinality(Ticks)

Excess(j) == Cardinality(Rescuers(j)) + Cardinality(Strays(j))

\* A list of copies has each job once.
OneCopy ==
    \A t \in Ticks : \A r, s \in recoverer[t].stale :
        submit[s.job] # "new" /\ (r.job = s.job => r = s)

\* The attempts of a job are numbered apart, up to the number on record.
Numbered ==
    \A l \in Lanes : lane[l].pc \in Attempting =>
        /\ submit[lane[l].job] # "new"
        /\ lane[l].seen.attempts <= db[lane[l].job].attempts
        /\ \A k \in Lanes : /\ lane[k].pc \in Attempting /\ lane[k].job = lane[l].job
                            /\ lane[k].seen.attempts = lane[l].seen.attempts
                            => k = l

\* The start a job that waits will make.
ToStart(j) == IF db[j].lockedBy = NoWorker THEN 1 ELSE 0

WithinBudget ==
    \A j \in Jobs :
        /\ db[j].attempts <= Tries + Budget
        /\ Carriers(j) # {} =>
              /\ Excess(j) <= Budget
              /\ db[j].attempts + ToStart(j) + Excess(j) <= Tries + Budget

XInv == IInv /\ BusyIsUp /\ OneCopy /\ Numbered /\ WithinBudget

LEMMA InitXInv == Init => XInv
  <1> SUFFICES ASSUME Init PROVE XInv
    OBVIOUS
  <1>1. IInv /\ BusyIsUp
    BY InitAInv DEF AInv
  <1>2. /\ \A j \in Jobs : submit[j] = "new" /\ db[j].attempts = 0
        /\ \A l \in Lanes : lane[l].pc = "idle"
        /\ \A t \in Ticks : recoverer[t].stale = {}
    BY DEF Init, NoDoc, IdleLane, IdleRecoverer
  <1>3. \A j \in Jobs : Carriers(j) = {}
    BY <1>1, <1>2 DEF IInv, UnsubmittedIsNowhere
  <1>4. OneCopy /\ Numbered
    BY <1>2 DEF OneCopy, Numbered, Attempting
  <1>5. Budget \in Nat /\ Tries \in Nat
    <2>1. Cardinality(Ticks) \in Nat
      BY FiniteAssumption, FS_CardinalityType
    <2>2. stalls = 0
      BY DEF Init
    <2> QED
      BY <2>1, <2>2, DocAssumption DEF Budget, Tries
  <1>6. WithinBudget
    BY <1>2, <1>3, <1>5 DEF WithinBudget
  <1> QED
    BY <1>1, <1>4, <1>6 DEF XInv

\* A document that exists stays submitted, and its attempts never go down.
LEMMA AttemptsGrow ==
  ASSUME TypeOK, JobSteps, NEW j \in Jobs, submit[j] # "new"
  PROVE  submit'[j] # "new" /\ db'[j].attempts >= db[j].attempts
  <1>1. db[j] \in Doc /\ db[j].attempts \in Nat
    BY DEF TypeOK, Doc
  <1>2. (SubmitKept(j) /\ Stays(j)) \/ (Changes(j) /\ ~Created(j))
    BY EachJob DEF Created
  <1>3. submit'[j] # "new"
    BY <1>2 DEF Changes, SubmitKept
  <1>4. Stays(j) \/ Handed(j) \/ Dropped(j) => db'[j].attempts = db[j].attempts
    BY DEF Stays, Handed, Dropped, DocKept
  <1>5. Promoted(j) \/ Cancelled(j) => db'[j].attempts = db[j].attempts
    BY <1>1 DEF Promoted, Cancelled, Doc
  <1>6. \A status : Released(j, status) => db'[j].attempts = db[j].attempts
    BY <1>1, ReleaseKeeps DEF Released
  <1>7. Begun(j) => db'[j].attempts = db[j].attempts + 1
    BY DEF Begun
  <1>8. Retried(j) \/ (\E status \in Terminal : EndedAs(j, status))
        => \E status : Released(j, status)
    BY DEF Retried, EndedAs
  <1>9. db'[j].attempts = db[j].attempts \/ db'[j].attempts = db[j].attempts + 1
    BY <1>2, <1>4, <1>5, <1>6, <1>7, <1>8 DEF Changes
  <1> QED
    BY <1>1, <1>3, <1>9

LEMMA OneCopyStays == ASSUME XInv, [Next]_vars PROVE OneCopy'
  <1>t. TypeOK /\ OneCopy /\ UnsubmittedIsNowhere /\ JobSteps
    BY NextJobSteps DEF XInv, IInv
  <1> SUFFICES ASSUME NEW t \in Ticks, NEW r \in recoverer'[t].stale, NEW s \in recoverer'[t].stale
               PROVE  submit'[s.job] # "new" /\ (r.job = s.job => r = s)
    BY DEF OneCopy
  <1>1. CASE s \in recoverer[t].stale
    <2>1. s.job \in Jobs /\ submit[s.job] # "new"
      BY <1>1, <1>t DEF OneCopy, TypeOK, RecovererState, StaleJob
    <2>2. submit'[s.job] # "new"
      <3>1. ASSUME NEW j \in Jobs, submit[j] # "new" PROVE submit'[j] # "new"
        BY <1>t, <3>1, AttemptsGrow
      <3> QED
        BY <2>1, <3>1
    <2>3. r \in recoverer[t].stale
      BY <1>1, <1>t, StaleComes
    <2> QED
      BY <1>1, <1>t, <2>2, <2>3 DEF OneCopy
  <1>2. CASE s \notin recoverer[t].stale
    <2>1. /\ recoverer[t].stale = {}
          /\ \E j \in Jobs : /\ db[j].status = "PROCESSING"
                             /\ s = [job |-> j, attempts |-> db[j].attempts,
                                     lockedBy |-> db[j].lockedBy]
      BY <1>2, <1>t, StaleComes
    <2>2. PICK j \in Jobs : /\ db[j].status = "PROCESSING"
                            /\ s = [job |-> j, attempts |-> db[j].attempts,
                                    lockedBy |-> db[j].lockedBy]
      BY <2>1
    <2>3. PICK k \in Jobs : r = [job |-> k, attempts |-> db[k].attempts,
                                 lockedBy |-> db[k].lockedBy]
      BY <1>t, <2>1, StaleComes
    <2>4. submit[j] # "new"
      BY <1>t, <2>2 DEF UnsubmittedIsNowhere
    <2>5. submit'[j] # "new"
      BY <1>t, <2>4, AttemptsGrow
    <2> QED
      BY <2>2, <2>3, <2>5
  <1> QED
    BY <1>1, <1>2

LEMMA NumberedStays == ASSUME XInv, [Next]_vars PROVE Numbered'
  <1>t. TypeOK /\ IInv /\ Numbered /\ UnsubmittedIsNowhere /\ JobSteps
    BY NextJobSteps DEF XInv, IInv
  \* A lane at its claim: the number is new, and nobody else's.
  <1>1. ASSUME NEW l \in Lanes, SaveClaim(l)
        PROVE  \E j \in Jobs :
                  /\ lane'[l].job = j /\ lane[l].job = j /\ submit[j] # "new"
                  /\ lane'[l].seen.attempts = db'[j].attempts
                  /\ db'[j].attempts = db[j].attempts + 1 /\ db[j].attempts \in Nat
                  /\ Carriers(j) = {<<"lane", l>>}
    <2>1. PICK j \in Jobs : j = lane[l].job
      BY <1>1, <1>t, ClaimTakesLock
    <2>2. /\ lane'[l].seen.attempts = db'[j].attempts
          /\ db'[j].attempts = db[j].attempts + 1
          /\ Carriers(j) = {<<"lane", l>>}
      BY <1>1, <1>t, <2>1, ClaimTakesLock
    <2>3. lane'[l].job = j
      BY <1>1, <1>t, <2>1, LaneRecord
    <2>4. submit[j] # "new" /\ db[j].attempts \in Nat
      BY <1>t, <2>2 DEF UnsubmittedIsNowhere, TypeOK, Doc
    <2> QED
      BY <2>1, <2>2, <2>3, <2>4
  <1>2. ASSUME NEW l \in Lanes, lane'[l].pc \in Attempting, ~SaveClaim(l)
        PROVE  /\ lane[l].pc \in Attempting
               /\ lane'[l].job = lane[l].job /\ lane'[l].seen = lane[l].seen
               /\ lane[l].job \in Jobs /\ lane[l].seen.attempts \in Nat
    <2>1. /\ lane[l].pc \in Attempting
          /\ lane'[l].job = lane[l].job /\ lane'[l].seen = lane[l].seen
      BY <1>2, <1>t, AttemptGoesOn
    <2>2. lane[l].pc # "idle"
      BY <2>1 DEF Attempting
    <2> QED
      BY <1>t, <2>1, <2>2 DEF TypeOK, LaneState, Loaded
  <1>3. ASSUME NEW l \in Lanes, SaveClaim(l), NEW k \in Lanes, lane'[k].pc \in Attempting,
               lane'[k].job = lane'[l].job, lane'[k].seen.attempts = lane'[l].seen.attempts
        PROVE  k = l
    <2> PICK j \in Jobs : /\ lane'[l].job = j /\ Carriers(j) = {<<"lane", l>>}
                          /\ lane'[l].seen.attempts = db[j].attempts + 1
                          /\ db[j].attempts \in Nat
      BY <1>1, <1>3
    <2>1. CASE SaveClaim(k)
      <3>1. Carriers(j) = {<<"lane", k>>}
        BY <1>1, <1>3, <2>1
      <3>2. <<"lane", k>> \in {<<"lane", l>>}
        BY <3>1
      <3> QED
        BY <3>2
    <2>2. CASE ~SaveClaim(k)
      <3>2. /\ lane[k].job = j /\ lane[k].pc \in Attempting
            /\ lane[k].seen.attempts = db[j].attempts + 1
        BY <1>2, <1>3, <2>2
      <3>3. lane[k].seen.attempts <= db[j].attempts
        BY <1>t, <3>2 DEF Numbered
      <3> QED
        BY <3>2, <3>3
    <2> QED
      BY <2>1, <2>2
  <1> SUFFICES ASSUME NEW l \in Lanes, lane'[l].pc \in Attempting,
                      NEW j, j = lane'[l].job
               PROVE  /\ submit'[j] # "new" /\ lane'[l].seen.attempts <= db'[j].attempts
                      /\ \A k \in Lanes : /\ lane'[k].pc \in Attempting /\ lane'[k].job = j
                                          /\ lane'[k].seen.attempts = lane'[l].seen.attempts
                                          => k = l
    BY DEF Numbered
  <1>4. CASE SaveClaim(l)
    <2>1. /\ j \in Jobs /\ submit[j] # "new" /\ lane'[l].seen.attempts = db'[j].attempts
          /\ db'[j].attempts \in Nat
      BY <1>1, <1>4
    <2>2. submit'[j] # "new"
      BY <1>t, <2>1, AttemptsGrow
    <2> QED
      BY <1>3, <1>4, <2>1, <2>2
  <1>5. CASE ~SaveClaim(l)
    <2>1. /\ lane[l].pc \in Attempting /\ lane[l].job = j /\ lane'[l].seen = lane[l].seen
          /\ j \in Jobs /\ lane[l].seen.attempts \in Nat
      BY <1>2, <1>5
    <2>2. submit[j] # "new" /\ lane[l].seen.attempts <= db[j].attempts
      BY <1>t, <2>1 DEF Numbered
    <2>3. /\ submit'[j] # "new" /\ db'[j].attempts >= db[j].attempts
          /\ db[j].attempts \in Nat /\ db'[j].attempts \in Nat
      <3>1. TypeOK'
        BY <1>t, NextTypeOK
      <3> QED
        BY <1>t, <2>1, <2>2, <3>1, AttemptsGrow DEF TypeOK, Doc
    <2>4. ASSUME NEW k \in Lanes, lane'[k].pc \in Attempting, lane'[k].job = j,
                 lane'[k].seen.attempts = lane'[l].seen.attempts
          PROVE  k = l
      <3>1. CASE SaveClaim(k)
        BY <1>3, <2>4, <3>1
      <3>2. CASE ~SaveClaim(k)
        BY <1>2, <1>t, <2>1, <2>4, <3>2 DEF Numbered
      <3> QED
        BY <3>1, <3>2
    <2> QED
      BY <2>1, <2>2, <2>3, <2>4
  <1> QED
    BY <1>4, <1>5

\* Counting.
LEMMA Fewer ==
  ASSUME NEW S, IsFiniteSet(S), NEW T \in SUBSET S
  PROVE  Cardinality(T) \in Nat /\ Cardinality(S) \in Nat /\ Cardinality(T) <= Cardinality(S)
  BY FS_Subset, FS_CardinalityType

LEMMA OneFewer ==
  ASSUME NEW S, IsFiniteSet(S), NEW x \in S, NEW T \in SUBSET (S \ {x})
  PROVE  Cardinality(T) \in Nat /\ Cardinality(S) \in Nat /\ Cardinality(T) + 1 <= Cardinality(S)
  <1>1. IsFiniteSet(S \ {x}) /\ Cardinality(S \ {x}) = Cardinality(S) - 1
    BY FS_RemoveElement
  <1>2. /\ Cardinality(T) \in Nat /\ Cardinality(S \ {x}) \in Nat
        /\ Cardinality(T) <= Cardinality(S \ {x})
    BY <1>1, Fewer
  <1>3. Cardinality(S) \in Nat
    BY FS_CardinalityType
  <1> QED
    BY <1>1, <1>2, <1>3

LEMMA OneMore ==
  ASSUME NEW S, IsFiniteSet(S), NEW x, NEW T \in SUBSET (S \cup {x})
  PROVE  Cardinality(T) \in Nat /\ Cardinality(S) \in Nat /\ Cardinality(T) <= Cardinality(S) + 1
  <1>1. /\ IsFiniteSet(S \cup {x})
        /\ Cardinality(S \cup {x}) = Cardinality(S) \/ Cardinality(S \cup {x}) = Cardinality(S) + 1
    BY FS_AddElement
  <1>2. /\ Cardinality(T) \in Nat /\ Cardinality(S \cup {x}) \in Nat
        /\ Cardinality(T) <= Cardinality(S \cup {x})
    BY <1>1, Fewer
  <1>3. Cardinality(S) \in Nat
    BY FS_CardinalityType
  <1> QED
    BY <1>1, <1>2, <1>3

LEMMA Swapped ==
  ASSUME NEW S, IsFiniteSet(S), NEW x \in S, NEW y, NEW T \in SUBSET ((S \ {x}) \cup {y})
  PROVE  Cardinality(T) \in Nat /\ Cardinality(S) \in Nat /\ Cardinality(T) <= Cardinality(S)
  <1>1. IsFiniteSet(S \ {x})
    BY FS_RemoveElement
  <1>2. Cardinality(T) \in Nat /\ Cardinality(T) <= Cardinality(S \ {x}) + 1
    BY <1>1, OneMore
  <1>3. /\ Cardinality(S \ {x}) \in Nat /\ Cardinality(S) \in Nat
        /\ Cardinality(S \ {x}) + 1 <= Cardinality(S)
    BY OneFewer
  <1> QED
    BY <1>2, <1>3

LEMMA SideSets ==
  ASSUME NEW j \in Jobs
  PROVE  /\ Rescuers(j) \subseteq Ticks /\ Strays(j) \subseteq Lanes
         /\ IsFiniteSet(Rescuers(j)) /\ IsFiniteSet(Strays(j))
  <1>1. Rescuers(j) \subseteq Ticks /\ Strays(j) \subseteq Lanes
    BY DEF Rescuers, Holding, Strays
  <1> QED
    BY <1>1, FiniteAssumption, FS_Subset

LEMMA BudgetGrows ==
  ASSUME TypeOK, [Next]_vars
  PROVE  /\ Budget \in Nat /\ Budget' \in Nat /\ Budget' >= Budget
         /\ stalls' = stalls + 1 => Budget' = Budget + Cardinality(Ticks)
  <1> DEFINE c == Cardinality(Ticks)
  <1>1. c \in Nat
    BY FiniteAssumption, FS_CardinalityType
  <1>2. stalls \in Nat /\ (stalls' = stalls \/ stalls' = stalls + 1)
    <2>1. \A j \in Jobs : LockRunsOut(j) => stalls' = stalls \/ stalls' = stalls + 1
      BY DEF LockRunsOut
    <2> QED
      BY <2>1, StallsCount, PipelineAssumption DEF TypeOK
  <1>3. Budget = stalls * c /\ Budget' = stalls' * c
    BY DEF Budget
  <1> HIDE DEF c
  <1>4. stalls * c \in Nat /\ (stalls + 1) * c = stalls * c + c
    BY <1>1, <1>2
  <1>5. c = Cardinality(Ticks)
    BY DEF c
  <1> QED
    BY <1>1, <1>2, <1>3, <1>4, <1>5

\* What the writes of a document do to its lock.
LEMMA LockWrites ==
  ASSUME XInv, [Next]_vars, NEW j \in Jobs
  PROVE  \/ OwnershipKept(j)
         \/ /\ LockRunsOut(j)
            /\ db'[j].attempts = db[j].attempts /\ db'[j].lockedBy = db[j].lockedBy
            /\ db'[j].lock = "past"
         \/ /\ db[j].lockedBy = NoWorker /\ db'[j].lock = "future"
            /\ db'[j].lockedBy \in Workers /\ up[db'[j].lockedBy]
         \/ db'[j].lockedBy = NoWorker /\ db'[j].lock = "null"
  <1>t. TypeOK /\ IInv /\ BusyIsUp /\ db[j] \in Doc
    BY DEF XInv, IInv, TypeOK
  <1>1. ASSUME LockRunsOut(j)
        PROVE  /\ db'[j].attempts = db[j].attempts /\ db'[j].lockedBy = db[j].lockedBy
               /\ db'[j].lock = "past"
    <2>1. db'[j] = [db[j] EXCEPT !.lock = "past"]
      BY <1>1, <1>t DEF LockRunsOut, TypeOK
    <2> QED
      BY <1>t, <2>1 DEF Doc
  <1>2. ASSUME NEW l \in Lanes, SaveClaim(l), lane[l].job = j
        PROVE  /\ db[j].lockedBy = NoWorker /\ db'[j].lock = "future"
               /\ db'[j].lockedBy \in Workers /\ up[db'[j].lockedBy]
    <2>1. lane[l].pc = "loaded"
      BY <1>2 DEF SaveClaim
    <2>2. up[WorkerOf[l]] /\ WorkerOf[l] \in Workers
      BY <1>t, <2>1, PipelineAssumption DEF BusyIsUp
    <2> QED
      BY <1>t, <1>2, <2>2, ClaimTakesLock
  <1>3. NewDoc.lockedBy = NoWorker /\ NewDoc.lock = "null"
    BY DEF NewDoc, NoDoc
  <1>4. ASSUME NEW l \in Lanes, FinishedBy(l, j) PROVE db'[j].lockedBy = NoWorker /\ db'[j].lock = "null"
    BY <1>t, <1>4, ReleaseFrees DEF FinishedBy
  <1>5. ASSUME NEW t \in Ticks, NEW s \in recoverer[t].stale, RecoveredBy(t, s, j)
        PROVE  db'[j].lockedBy = NoWorker /\ db'[j].lock = "null"
    BY <1>t, <1>5, ReleaseFrees DEF RecoveredBy
  <1> QED
    BY <1>t, <1>1, <1>2, <1>3, <1>4, <1>5, DocWrites

\* Only a lock that runs out under a live worker adds to the rescuers of a job.
LEMMA RescuersShrink ==
  ASSUME XInv, [Next]_vars, NEW j \in Jobs, ~(LockRunsOut(j) /\ up[db[j].lockedBy])
  PROVE  Rescuers(j)' \subseteq Rescuers(j)
  <1>t. TypeOK /\ IInv /\ StaleHasOwner /\ ProcessingIsLocked
    BY DEF XInv, IInv
  <1>d. \A w \in Workers : up'[w] => up[w]
    BY <1>t, DeadStays
  <1>w. NoWorker \notin Workers
    BY DocAssumption
  <1>1. ASSUME Overdue(j)' PROVE Overdue(j)
    BY <1>1, <1>d, <1>w, LockWrites DEF Overdue, OwnershipKept
  <1> SUFFICES ASSUME ~Overdue(j), ~Overdue(j)', NEW t \in Holding(j)' PROVE t \in Holding(j)
    BY <1>1, SideSets DEF Rescuers, Holding
  <1>2. PICK s \in recoverer'[t].stale :
            /\ s.job = j
            /\ \/ up'[s.lockedBy]
               \/ db'[j].lockedBy = s.lockedBy /\ s.attempts # db'[j].attempts
    BY DEF Holding, Dangerous
  <1>3. t \in Ticks
    BY DEF Holding
  <1>4. CASE s \in recoverer[t].stale
    <2>1. s.lockedBy \in Workers
      BY <1>t, <1>3, <1>4 DEF StaleHasOwner
    <2>2. up[s.lockedBy] \/ (db[j].lockedBy = s.lockedBy /\ s.attempts # db[j].attempts)
      BY <1>2, <1>d, <1>w, <2>1, LockWrites DEF OwnershipKept
    <2> QED
      BY <1>2, <1>3, <1>4, <2>2 DEF Holding, Dangerous
  <1>5. CASE s \notin recoverer[t].stale
    <2>1. /\ db' = db
          /\ \E k \in Jobs : /\ db[k].status = "PROCESSING" /\ db[k].lock = "past"
                             /\ s = [job |-> k, attempts |-> db[k].attempts,
                                     lockedBy |-> db[k].lockedBy]
      BY <1>t, <1>3, <1>5, StaleComes
    <2>2. /\ db[j].status = "PROCESSING" /\ db[j].lock = "past"
          /\ s.attempts = db[j].attempts /\ s.lockedBy = db[j].lockedBy
      BY <1>2, <2>1
    <2>3. db[j].lockedBy \in Workers
      BY <1>t, <2>2 DEF ProcessingIsLocked
    <2>4. up[db[j].lockedBy]
      BY <1>2, <1>d, <2>1, <2>2, <2>3
    <2> QED
      BY <2>2, <2>3, <2>4 DEF Overdue
  <1> QED
    BY <1>4, <1>5

LEMMA RescuersCount ==
  ASSUME XInv, [Next]_vars, NEW j \in Jobs
  PROVE  /\ Cardinality(Rescuers(j)) \in Nat /\ Cardinality(Rescuers(j)') \in Nat
         /\ Cardinality(Rescuers(j)') + Budget <= Cardinality(Rescuers(j)) + Budget'
  <1>1. /\ Budget \in Nat /\ Budget' \in Nat /\ Budget' >= Budget
        /\ stalls' = stalls + 1 => Budget' = Budget + Cardinality(Ticks)
    BY BudgetGrows DEF XInv, IInv
  <1>2. Rescuers(j) \subseteq Ticks /\ IsFiniteSet(Rescuers(j)) /\ Rescuers(j)' \subseteq Ticks
    BY SideSets DEF Rescuers, Holding
  <1>3. /\ Cardinality(Rescuers(j)) \in Nat /\ Cardinality(Rescuers(j)') \in Nat
        /\ Cardinality(Ticks) \in Nat /\ Cardinality(Rescuers(j)') <= Cardinality(Ticks)
    BY <1>2, FiniteAssumption, Fewer
  <1>4. CASE LockRunsOut(j) /\ up[db[j].lockedBy]
    <2>1. stalls' = stalls + 1
      BY <1>4 DEF LockRunsOut
    <2> QED
      BY <1>1, <1>3, <2>1
  <1>5. CASE ~(LockRunsOut(j) /\ up[db[j].lockedBy])
    <2>1. Rescuers(j)' \subseteq Rescuers(j)
      BY <1>5, RescuersShrink
    <2>2. Cardinality(Rescuers(j)') <= Cardinality(Rescuers(j))
      BY <1>2, <2>1, Fewer
    <2> QED
      BY <1>1, <1>3, <2>2
  <1> QED
    BY <1>4, <1>5

\* A stray attempt was one already, or was on record until its job was released.
LEMMA StraysCome ==
  ASSUME XInv, [Next]_vars, NEW j \in Jobs, NEW l \in Strays(j)'
  PROVE  /\ l \in Lanes /\ lane[l].pc \in Attempting /\ lane'[l].pc \in Attempting
         /\ lane[l].job = j /\ lane[l].seen.attempts < MaxAttempts
         /\ \/ l \in Strays(j)
            \/ /\ db[j].lockedBy = WorkerOf[l] /\ lane[l].seen.attempts = db[j].attempts
               /\ db'[j].lockedBy = NoWorker
  <1>t. TypeOK /\ IInv
    BY DEF XInv, IInv
  <1>1. /\ l \in Lanes /\ lane'[l].pc \in Attempting /\ lane'[l].job = j
        /\ lane'[l].seen.attempts < MaxAttempts
        /\ ~(db'[j].lockedBy = WorkerOf[l] /\ lane'[l].seen.attempts = db'[j].attempts)
    BY DEF Strays, Current
  <1>2. ~SaveClaim(l)
    <2>1. ASSUME SaveClaim(l)
          PROVE  db'[j].lockedBy = WorkerOf[l] /\ lane'[l].seen.attempts = db'[j].attempts
      <3>1. lane[l].job = j
        BY <1>t, <1>1, <2>1, LaneRecord
      <3> QED
        BY <1>t, <1>1, <2>1, <3>1, ClaimTakesLock
    <2> QED
      BY <1>1, <2>1
  <1>3. /\ lane[l].pc \in Attempting /\ lane[l].job = j /\ lane'[l].seen = lane[l].seen
    BY <1>t, <1>1, <1>2, AttemptGoesOn
  <1>4. CASE db[j].lockedBy = WorkerOf[l] /\ lane[l].seen.attempts = db[j].attempts
    <2>1. db[j].lockedBy # NoWorker
      BY <1>1, <1>4, PipelineAssumption, DocAssumption
    <2>2. db'[j].lockedBy = NoWorker
      BY <1>1, <1>3, <1>4, <2>1, LockWrites DEF OwnershipKept
    <2> QED
      BY <1>1, <1>3, <1>4, <2>2
  <1>5. CASE ~(db[j].lockedBy = WorkerOf[l] /\ lane[l].seen.attempts = db[j].attempts)
    <2>1. l \in Strays(j)
      BY <1>1, <1>3, <1>5 DEF Strays, Current
    <2> QED
      BY <1>1, <1>3, <2>1
  <1> QED
    BY <1>4, <1>5

\* Unless its lock is released, a job gains no more than the budget does.
LEMMA ExcessKept ==
  ASSUME XInv, [Next]_vars, NEW j \in Jobs,
         db[j].lockedBy = NoWorker \/ db'[j].lockedBy # NoWorker
  PROVE  /\ Excess(j) \in Nat /\ Excess(j)' \in Nat
         /\ Excess(j)' + Budget <= Excess(j) + Budget'
  <1>1. \A l \in Lanes : WorkerOf[l] # NoWorker
    BY PipelineAssumption, DocAssumption
  <1>2. Strays(j)' \subseteq Strays(j)
    BY <1>1, StraysCome
  <1>3. /\ Cardinality(Strays(j)) \in Nat /\ Cardinality(Strays(j)') \in Nat
        /\ Cardinality(Strays(j)') <= Cardinality(Strays(j))
    BY <1>2, SideSets, Fewer
  <1>4. /\ Cardinality(Rescuers(j)) \in Nat /\ Cardinality(Rescuers(j)') \in Nat
        /\ Cardinality(Rescuers(j)') + Budget <= Cardinality(Rescuers(j)) + Budget'
    BY RescuersCount
  <1>5. Budget \in Nat /\ Budget' \in Nat
    BY BudgetGrows DEF XInv, IInv
  <1>6. /\ Excess(j) = Cardinality(Rescuers(j)) + Cardinality(Strays(j))
        /\ Excess(j)' = Cardinality(Rescuers(j)') + Cardinality(Strays(j)')
    BY DEF Excess
  <1> QED
    BY <1>3, <1>4, <1>5, <1>6

\* Who put a job back.
LEMMA PutBack ==
  ASSUME XInv, [Next]_vars, NEW j \in Jobs, Retried(j)
  PROVE  /\ db'[j].lockedBy = NoWorker /\ db'[j].lock = "null"
         /\ db'[j].attempts = db[j].attempts /\ db[j].lockedBy \in Workers
         /\ \/ \E l \in Lanes : FinishedBy(l, j) /\ lane[l].seen.attempts < MaxAttempts
                                /\ lane'[l].pc \notin Attempting
            \/ \E t \in Ticks : \E s \in recoverer[t].stale :
                  RecoveredBy(t, s, j) /\ s.attempts < MaxAttempts
  <1>t. TypeOK /\ IInv /\ db[j] \in Doc
    BY DEF XInv, IInv, TypeOK
  <1>1. /\ db[j].lockedBy \in Workers /\ db[j].lockedBy # NoWorker
        /\ db'[j].status = "RETRYING" /\ db'[j].lockedBy = NoWorker
        /\ db'[j].attempts = db[j].attempts
    BY <1>t, ReleaseKeeps, DocAssumption DEF Retried, Released
  <1>2. db'[j].lock = "null"
    BY <1>1, LockWrites DEF OwnershipKept
  <1>3. ~OwnershipKept(j) /\ ~LockRunsOut(j) /\ db'[j] # NewDoc
    <2>1. db'[j] # NewDoc
      BY <1>1 DEF NewDoc, NoDoc
    <2>2. LockRunsOut(j) => db'[j].lockedBy = db[j].lockedBy
      <3>1. LockRunsOut(j) => db'[j] = [db[j] EXCEPT !.lock = "past"]
        BY <1>t DEF LockRunsOut, TypeOK
      <3> QED
        BY <1>t, <3>1 DEF Doc
    <2> QED
      BY <1>1, <2>1, <2>2 DEF OwnershipKept
  <1>4. ASSUME NEW m \in Lanes, SaveClaim(m), lane[m].job = j PROVE FALSE
    BY <1>t, <1>1, <1>4, ClaimTakesLock
  <1>5. ASSUME NEW l \in Lanes, FinishedBy(l, j)
        PROVE  lane[l].seen.attempts < MaxAttempts /\ lane'[l].pc \notin Attempting
    BY <1>t, <1>1, <1>5, ReleaseKeeps DEF FinishedBy
  <1>6. ASSUME NEW t \in Ticks, NEW s \in recoverer[t].stale, RecoveredBy(t, s, j)
        PROVE  s.attempts < MaxAttempts
    BY <1>t, <1>1, <1>6, ReleaseKeeps DEF RecoveredBy
  <1> QED
    BY <1>t, <1>1, <1>2, <1>3, <1>4, <1>5, <1>6, DocWrites

LEMMA LockRunsToPast ==
  ASSUME TypeOK, NEW j \in Jobs, LockRunsOut(j)
  PROVE  db'[j].lock = "past"
  <1>1. db'[j] = [db[j] EXCEPT !.lock = "past"] /\ db[j] \in Doc
    BY DEF LockRunsOut, TypeOK
  <1> QED
    BY <1>1 DEF Doc

\* A run of the scan that put the job back on a dangerous copy is its rescuer no
\* more: it had one copy of the job.
LEMMA RescuerDone ==
  ASSUME XInv, [Next]_vars, NEW j \in Jobs, Rescuers(j)' \subseteq Rescuers(j),
         Rescuers(j)' = Holding(j)',
         NEW t \in Ticks, NEW s \in recoverer[t].stale, RecoveredBy(t, s, j), Dangerous(s)
  PROVE  Rescuers(j)' \subseteq Rescuers(j) \ {t} /\ t \in Rescuers(j)
  <1>1. t \in Rescuers(j)
    BY DEF Rescuers, Holding, RecoveredBy
  <1>2. t \notin Holding(j)'
    <2> SUFFICES ASSUME NEW x \in recoverer'[t].stale, x.job = j PROVE FALSE
      BY DEF Holding
    <2>1. x \in recoverer[t].stale /\ x # s /\ s.job = j
      BY DEF RecoveredBy
    <2> QED
      BY <2>1 DEF XInv, OneCopy
  <1> QED
    BY <1>1, <1>2

\* A job put back costs none of the budget if it has a try left, else one.
LEMMA ExcessSpent ==
  ASSUME XInv, [Next]_vars, NEW j \in Jobs, Retried(j)
  PROVE  /\ Excess(j) \in Nat /\ Excess(j)' \in Nat
         /\ Excess(j)' <= Excess(j)
         /\ db[j].attempts >= MaxAttempts => Excess(j)' + 1 <= Excess(j)
  <1> USE SideSets
  <1>t. TypeOK /\ IInv /\ BusyIsUp /\ OneCopy /\ Numbered
    BY DEF XInv, IInv
  <1>n. db[j].attempts \in Nat /\ MaxAttempts \in Int
    BY <1>t, DocAssumption DEF TypeOK, Doc
  <1>b. /\ db'[j].lockedBy = NoWorker /\ db'[j].lock = "null"
        /\ db'[j].attempts = db[j].attempts /\ db[j].lockedBy \in Workers
    BY PutBack
  <1>p. Rescuers(j)' \subseteq Rescuers(j) /\ Rescuers(j)' = Holding(j)'
    <2>1. ~LockRunsOut(j)
      BY <1>b, <1>t, LockRunsToPast
    <2> QED
      BY <1>b, <2>1, RescuersShrink DEF Rescuers, Overdue
  <1>e. /\ Excess(j) = Cardinality(Rescuers(j)) + Cardinality(Strays(j))
        /\ Excess(j)' = Cardinality(Rescuers(j)') + Cardinality(Strays(j)')
    BY DEF Excess
  <1>r. /\ Cardinality(Rescuers(j)') \in Nat /\ Cardinality(Rescuers(j)) \in Nat
        /\ Cardinality(Rescuers(j)') <= Cardinality(Rescuers(j))
    BY <1>p, Fewer
  \* The lanes that may become strays: those at the attempt on record.
  <1> DEFINE Joins(k) == /\ k \in Lanes /\ lane[k].pc \in Attempting /\ lane[k].job = j
                         /\ db[j].lockedBy = WorkerOf[k] /\ lane[k].seen.attempts = db[j].attempts
                         /\ lane[k].seen.attempts < MaxAttempts /\ lane'[k].pc \in Attempting
  <1>s. \A k \in Strays(j)' : lane'[k].pc \in Attempting /\ (k \in Strays(j) \/ Joins(k))
    BY StraysCome
  <1>o. \A k, m : Joins(k) /\ Joins(m) => k = m
    BY <1>t DEF Numbered
  <1>h. \A k : Joins(k) => db[j].attempts < MaxAttempts
    OBVIOUS
  <1>1. CASE \E k : Joins(k)
    <2> PICK d : Joins(d)
      BY <1>1
    <2>m. db[j].attempts < MaxAttempts
      BY <1>h
    <2>1. Strays(j)' \subseteq Strays(j) \cup {d}
      BY <1>s, <1>o
    <2>j. d \in Lanes /\ lane[d].pc \in Attempting /\ db[j].lockedBy = WorkerOf[d]
          /\ lane[d].job = j /\ lane[d].seen.attempts = db[j].attempts /\ lane'[d].pc \in Attempting
      OBVIOUS
    <2> HIDE DEF Joins
    <2>2. ASSUME NEW l \in Lanes, FinishedBy(l, j), lane[l].seen.attempts < MaxAttempts,
                 lane'[l].pc \notin Attempting
          PROVE  Cardinality(Strays(j)') \in Nat /\ Cardinality(Strays(j)') <= Cardinality(Strays(j))
                 /\ Cardinality(Strays(j)) \in Nat
      <3>1. l # d /\ l \notin Strays(j)'
        BY <1>s, <2>j, <2>2
      <3>2. lane[l].pc \in Attempting /\ lane[l].job = j
        BY <2>2 DEF FinishedBy
      <3>3. lane[l].seen.attempts # db[j].attempts
        BY <1>t, <2>j, <3>1, <3>2 DEF Numbered
      <3>4. l \in Strays(j)
        BY <2>2, <3>2, <3>3 DEF Strays, Current
      <3>5. Strays(j)' \subseteq (Strays(j) \ {l}) \cup {d}
        BY <2>1, <3>1
      <3> QED
        BY <3>4, <3>5, Swapped
    <2>3. ASSUME NEW t \in Ticks, NEW s \in recoverer[t].stale, RecoveredBy(t, s, j),
                 s.attempts < MaxAttempts
          PROVE  /\ Cardinality(Strays(j)') \in Nat /\ Cardinality(Strays(j)) \in Nat
                 /\ Cardinality(Strays(j)') <= Cardinality(Strays(j)) + 1
                 /\ Cardinality(Rescuers(j)') + 1 <= Cardinality(Rescuers(j))
      <3>1. up[db[j].lockedBy]
        BY <1>t, <2>j DEF BusyIsUp, Attempting
      <3>2. Dangerous(s) /\ s.job = j
        BY <2>3, <3>1 DEF RecoveredBy, Dangerous
      <3>3. Rescuers(j)' \subseteq Rescuers(j) \ {t} /\ t \in Rescuers(j)
        BY <1>t, <1>p, <2>3, <3>2, RescuerDone
      <3> QED
        BY <2>1, <3>3, OneMore, OneFewer
    <2> QED
      BY <1>e, <1>n, <1>r, <2>m, <2>2, <2>3, PutBack
  <1>2. CASE ~\E k : Joins(k)
    <2>1. Strays(j)' \subseteq Strays(j)
      BY <1>s, <1>2
    <2> HIDE DEF Joins
    <2>s. /\ Cardinality(Strays(j)') \in Nat /\ Cardinality(Strays(j)) \in Nat
          /\ Cardinality(Strays(j)') <= Cardinality(Strays(j))
      BY <2>1, Fewer
    <2>2. ASSUME NEW l \in Lanes, FinishedBy(l, j), lane[l].seen.attempts < MaxAttempts,
                 lane'[l].pc \notin Attempting, db[j].attempts >= MaxAttempts
          PROVE  Cardinality(Strays(j)') + 1 <= Cardinality(Strays(j))
      <3>1. l \notin Strays(j)'
        BY <1>s, <2>2
      <3>2. lane[l].pc \in Attempting /\ lane[l].job = j
        BY <2>2 DEF FinishedBy
      <3>3. lane[l].seen.attempts # db[j].attempts
        BY <1>n, <2>2
      <3>4. l \in Strays(j)
        BY <2>2, <3>2, <3>3 DEF Strays, Current
      <3> QED
        BY <2>1, <3>1, <3>4, OneFewer
    <2>3. ASSUME NEW t \in Ticks, NEW s \in recoverer[t].stale, RecoveredBy(t, s, j),
                 s.attempts < MaxAttempts, db[j].attempts >= MaxAttempts
          PROVE  Cardinality(Rescuers(j)') + 1 <= Cardinality(Rescuers(j))
      <3>1. s.attempts # db[j].attempts
        BY <1>n, <2>3
      <3>2. Dangerous(s) /\ s.job = j
        BY <2>3, <3>1 DEF RecoveredBy, Dangerous
      <3>3. Rescuers(j)' \subseteq Rescuers(j) \ {t} /\ t \in Rescuers(j)
        BY <1>t, <1>p, <2>3, <3>2, RescuerDone
      <3> QED
        BY <3>3, OneFewer
    <2> QED
      BY <1>e, <1>r, <2>s, <2>2, <2>3, PutBack
  <1> QED
    BY <1>1, <1>2

LEMMA WithinBudgetStays == ASSUME XInv, [Next]_vars PROVE WithinBudget'
  <1>t. TypeOK /\ IInv /\ WithinBudget /\ JobSteps
    BY NextJobSteps DEF XInv, IInv
  <1> SUFFICES ASSUME NEW j \in Jobs
               PROVE  /\ db'[j].attempts <= Tries + Budget'
                      /\ Carriers(j)' # {} =>
                            /\ Excess(j)' <= Budget'
                            /\ db'[j].attempts + ToStart(j)' + Excess(j)' <= Tries + Budget'
    BY DEF WithinBudget
  <1>n. /\ db[j] \in Doc /\ db[j].attempts \in Nat /\ Tries \in Nat /\ Tries >= 1
        /\ MaxAttempts \in Int /\ Tries >= MaxAttempts
    BY <1>t, DocAssumption DEF TypeOK, Doc, Tries
  <1>g. Budget \in Nat /\ Budget' \in Nat /\ Budget' >= Budget
    BY <1>t, BudgetGrows
  <1>w. NoWorker \notin Workers
    BY DocAssumption
  <1>h. /\ db[j].attempts <= Tries + Budget
        /\ Carriers(j) # {} =>
              /\ Excess(j) <= Budget
              /\ db[j].attempts + ToStart(j) + Excess(j) <= Tries + Budget
    BY <1>t DEF WithinBudget
  <1>s. /\ ToStart(j) \in {0, 1} /\ ToStart(j)' \in {0, 1}
        /\ db[j].lockedBy = NoWorker => ToStart(j) = 1
        /\ db[j].lockedBy \in Workers => ToStart(j) = 0
        /\ db'[j].lockedBy = NoWorker => ToStart(j)' = 1
        /\ db'[j].lockedBy \in Workers => ToStart(j)' = 0
    BY <1>w DEF ToStart
  <1>k. ASSUME db[j].lockedBy = NoWorker \/ db'[j].lockedBy # NoWorker
        PROVE  /\ Excess(j) \in Nat /\ Excess(j)' \in Nat
               /\ Excess(j)' + Budget <= Excess(j) + Budget'
    BY <1>k, ExcessKept
  \* The job is neither started nor released.
  <1>1. ASSUME db'[j].attempts = db[j].attempts, db'[j].lockedBy = db[j].lockedBy,
               Carriers(j)' # {} => Carriers(j) # {}
        PROVE  /\ db'[j].attempts <= Tries + Budget'
               /\ Carriers(j)' # {} =>
                     /\ Excess(j)' <= Budget'
                     /\ db'[j].attempts + ToStart(j)' + Excess(j)' <= Tries + Budget'
    <2>1. ToStart(j)' = ToStart(j)
      BY <1>1 DEF ToStart
    <2> QED
      BY <1>1, <1>n, <1>g, <1>h, <1>s, <1>k, <2>1
  <1>2. CASE Stays(j) \/ Handed(j) \/ Dropped(j)
    BY <1>1, <1>2 DEF Stays, Handed, Dropped, DocKept
  <1>3. CASE Promoted(j) \/ Cancelled(j)
    <2>1. db'[j].attempts = db[j].attempts /\ db'[j].lockedBy = db[j].lockedBy
      BY <1>3, <1>n DEF Promoted, Cancelled, Doc
    <2> QED
      BY <1>1, <1>3, <2>1 DEF Promoted, Cancelled
  <1>4. CASE Created(j)
    <2>1. Carriers(j) = {} /\ submit[j] = "new"
      BY <1>4, <1>t DEF Created, IInv, UnsubmittedIsNowhere
    <2>2. db[j].lockedBy \notin Workers
      BY <2>1, LockedIsCarried
    <2>3. db[j].lockedBy = NoWorker
      BY <1>n, <2>2 DEF Doc, Owner
    <2>4. Rescuers(j) = {} /\ Strays(j) = {}
      <3>1. Holding(j) = {}
        BY <2>1 DEF Holding, XInv, OneCopy
      <3>2. Strays(j) = {}
        BY <2>1 DEF Strays, XInv, Numbered
      <3> QED
        BY <2>2, <3>1, <3>2 DEF Rescuers, Overdue
    <2>5. Excess(j) = 0
      BY <2>4, FS_EmptySet DEF Excess
    <2>6. db'[j].attempts = 0
      BY <1>4 DEF Created, NewDoc, NoDoc
    <2>7. Excess(j)' \in Nat /\ Excess(j)' + Budget <= Budget'
      BY <1>g, <1>k, <2>3, <2>5
    <2>8. Excess(j)' <= Budget'
      BY <1>g, <2>7
    <2>t. Tries \in Nat /\ Tries >= 1
      BY <1>n
    <2>a. \A e, b, n \in Nat : e <= b /\ n >= 1 => 0 <= n + b /\ 0 + 1 + e <= n + b
      OBVIOUS
    <2>9. ToStart(j)' = 1
      BY <1>4, <1>s DEF Created, NewDoc, NoDoc
    <2> QED
      BY <1>g, <2>6, <2>7, <2>8, <2>t, <2>a, <2>9
  <1>5. CASE Begun(j)
    <2>1. /\ db[j].lockedBy = NoWorker /\ db'[j].lockedBy \in Workers /\ Carriers(j) # {}
          /\ db'[j].attempts = db[j].attempts + 1
      BY <1>5 DEF Begun
    <2> QED
      BY <1>n, <1>g, <1>h, <1>s, <1>k, <2>1
  <1>6. ASSUME NEW status \in Terminal, EndedAs(j, status)
        PROVE  /\ Carriers(j)' = {} /\ db'[j].attempts <= Tries + Budget'
    <2>1. Carriers(j)' = {} /\ db'[j].attempts = db[j].attempts
      BY <1>6, <1>n, ReleaseKeeps DEF EndedAs, Released
    <2> QED
      BY <1>n, <1>g, <1>h, <2>1
  <1>7. CASE Retried(j)
    <2>1. /\ db'[j].lockedBy = NoWorker /\ db'[j].attempts = db[j].attempts
          /\ db[j].lockedBy \in Workers
      BY <1>7, PutBack
    <2>2. Carriers(j) # {}
      BY <2>1, LockedIsCarried
    <2>3. /\ Excess(j) \in Nat /\ Excess(j)' \in Nat /\ Excess(j)' <= Excess(j)
          /\ db[j].attempts >= MaxAttempts => Excess(j)' + 1 <= Excess(j)
      BY <1>7, ExcessSpent
    <2> QED
      BY <1>n, <1>g, <1>h, <1>s, <2>1, <2>2, <2>3
  <1> QED
    BY <1>t, <1>2, <1>3, <1>4, <1>5, <1>6, <1>7, EachJob DEF Changes

LEMMA NextXInv == XInv /\ [Next]_vars => XInv'
  <1> SUFFICES ASSUME XInv, [Next]_vars PROVE XInv'
    OBVIOUS
  <1>1. IInv'
    BY NextIInv DEF XInv
  <1>2. BusyIsUp'
    BY BusyIsUpStays DEF XInv, IInv
  <1> QED
    BY <1>1, <1>2, OneCopyStays, NumberedStays, WithinBudgetStays DEF XInv

\* The invariant behind the bound on extra tries: what a job has been given and
\* what can still be given to it, in all its places, is within the budget that
\* the locks which ran out under live workers have opened.
THEOREM BudgetInvariance == Spec => []XInv
  BY InitXInv, NextXInv, PTL DEF Spec

\* handleFailure in the recovery scan decides by a copy it read: each lock that
\* ran out under a live worker can cost one try for each run of the scan there
\* can be, and no crash, failed command, late write or overlap costs any.
THEOREM ExtraTriesAreBounded == Spec => []ExtraAttemptsNeedStalls
  <1>1. XInv => ExtraAttemptsNeedStalls
    BY DEF XInv, IInv, AttemptsCountRuns, WithinBudget, Budget, ExtraAttemptsNeedStalls
  <1> QED
    BY <1>1, BudgetInvariance, PTL

-----------------------------------------------------------------------------
(* The safety behind DeadHolderIsReplaced *)

\* The recovery scan goes by status and lockExpiresAt, the lock by lockedBy:
\* whoever holds one, alive or dead, is on a document that the scan finds once
\* the lock is past, unless a cancelJob has ended the job meanwhile.
HolderIsFound ==
    \A j \in Jobs : db[j].lockedBy # NoWorker =>
        db[j].status \in {"PROCESSING", "CANCELLED"} /\ db[j].lock \in {"future", "past"}

\* No step releases, overwrites or forgets half of a lock: no dead worker's job
\* is out of the recovery scan's sight.
THEOREM HoldersAreFound == Spec => []HolderIsFound
  <1>1. Init => HolderIsFound
    BY DEF Init, NoDoc, HolderIsFound
  <1>2. XInv /\ HolderIsFound /\ [Next]_vars => HolderIsFound'
    <2> SUFFICES ASSUME XInv, HolderIsFound, [Next]_vars, NEW j \in Jobs,
                        db'[j].lockedBy # NoWorker
                 PROVE  /\ db'[j].status \in {"PROCESSING", "CANCELLED"}
                        /\ db'[j].lock \in {"future", "past"}
      BY DEF HolderIsFound
    <2>t. IInv /\ db[j] \in Doc
      BY DEF XInv, IInv, TypeOK
    <2>1. db'[j].lock \in {"future", "past"}
      <3>1. \/ db'[j].lockedBy = db[j].lockedBy /\ db'[j].lock = db[j].lock
            \/ db'[j].lock \in {"future", "past"}
            \/ db'[j].lockedBy = NoWorker
        BY LockWrites DEF OwnershipKept
      <3>2. db[j].lockedBy # NoWorker => db[j].lock \in {"future", "past"}
        BY DEF HolderIsFound
      <3> QED
        BY <3>1, <3>2
    <2>2. (SubmitKept(j) /\ Stays(j)) \/ Changes(j)
      BY <2>t, NextJobSteps, EachJob
    <2>3. CASE Stays(j) \/ Handed(j) \/ Dropped(j)
      BY <2>1, <2>3 DEF Stays, Handed, Dropped, DocKept, HolderIsFound
    <2>4. CASE Created(j) \/ Promoted(j)
      BY <2>t, <2>4 DEF Created, NewDoc, NoDoc, Promoted, Doc
    <2>5. CASE Begun(j)
      BY <2>1, <2>5 DEF Begun
    <2>6. CASE Cancelled(j)
      BY <2>t, <2>1, <2>6 DEF Cancelled, Doc
    <2>7. ASSUME NEW status, Released(j, status) PROVE FALSE
      BY <2>t, <2>7, ReleaseKeeps DEF Released
    <2> QED
      BY <2>1, <2>2, <2>3, <2>4, <2>5, <2>6, <2>7 DEF Changes, Retried, EndedAs
  <1> QED
    BY <1>1, <1>2, BudgetInvariance, PTL DEF Spec
================================================================================
