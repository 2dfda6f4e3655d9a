------------------------- MODULE JobPipelineTypeProofs -------------------------
(***************************************************************************)
(* Proofs about the job pipeline, for any number of jobs, workers, lanes,  *)
(* overlapping interval callbacks, cancel requests and faults, any         *)
(* MaxAttempts, and locks that may run out at any time.                    *)
(***************************************************************************)
EXTENDS JobPipelineProperties, TLAPS

-----------------------------------------------------------------------------
(* Documents *)

LEMMA NewDocIsDoc == NewDoc \in Doc /\ NoDoc \in Doc
  BY DEF NewDoc, NoDoc, Doc, Status, Owner

LEMMA LoadIsLoaded == ASSUME NEW doc \in Doc PROVE Load(doc) \in Loaded
  BY DEF Load, Loaded, Doc

LEMMA ClaimedIsLoaded ==
  ASSUME NEW seen \in Loaded, NEW w \in Workers
  PROVE  Claimed(seen, w) \in Loaded
  BY DEF Claimed, Loaded, Status, Owner

LEMMA ClaimWriteIsDoc ==
  ASSUME NEW doc \in Doc, NEW seen \in Loaded, NEW w \in Workers
  PROVE  ClaimWrite(doc, seen, w) \in Doc
  <1>1. seen.attempts + 1 \in Nat /\ doc.runs + 1 \in Nat
    BY DEF Doc, Loaded
  <1>2. Saved("PROCESSING", seen.status, doc.status) \in Status \cup {"ABSENT"}
    BY DEF Saved, Doc, Status
  <1>3. Saved(w, seen.lockedBy, doc.lockedBy) \in Owner
    BY DEF Saved, Doc, Owner
  <1>4. "future" \in {"null", "future", "past"}
    OBVIOUS
  <1> QED
    BY <1>1, <1>2, <1>3, <1>4, Zenon DEF ClaimWrite, Doc

LEMMA PromotionWriteIsDoc ==
  ASSUME NEW doc \in Doc, NEW seen \in Status \cup {"ABSENT"}
  PROVE  PromotionWrite(doc, seen) \in Doc
  BY DEF PromotionWrite, Saved, Doc, Status

LEMMA ReleaseIsDoc ==
  ASSUME NEW doc \in Doc, NEW status \in Status
  PROVE  Release(doc, status) \in Doc
  <1>1. NoWorker \in Owner /\ "null" \in {"null", "future", "past"}
    BY DEF Owner
  <1> QED
    BY <1>1, Zenon DEF Release, Doc

LEMMA FinalizeIsDoc ==
  ASSUME NEW doc \in Doc, NEW owner, NEW status \in Status
  PROVE  Finalize(doc, owner, status) \in Doc
  BY ReleaseIsDoc DEF Finalize

LEMMA FailureStatusIsStatus ==
  ASSUME NEW attempts, NEW nonRetryable
  PROVE  /\ FailureStatus(attempts, nonRetryable) \in {"DEAD_LETTER", "RETRYING"}
         /\ FailureStatus(attempts, nonRetryable) \in Status
  BY DEF FailureStatus, Status

-----------------------------------------------------------------------------
(* Local states *)

LEMMA IdleStates ==
  /\ IdleLane \in LaneState
  /\ IdlePromoter \in PromoterState
  /\ IdleRecoverer \in RecovererState
  /\ NewCancel \in CancelState
  <1>1. NothingLoaded \in Loaded
    BY DEF NothingLoaded, Loaded, Owner
  <1>2. IdleLane \in LaneState
    BY <1>1 DEF IdleLane, LaneState, LanePc
  <1>3. IdlePromoter \in PromoterState
    BY DEF IdlePromoter, PromoterState
  <1>4. IdleRecoverer \in RecovererState
    BY DEF IdleRecoverer, RecovererState
  <1>5. NewCancel \in CancelState
    BY DEF NewCancel, CancelState
  <1> QED
    BY <1>2, <1>3, <1>4, <1>5

LEMMA AfterPushIsState ==
  ASSUME NEW p \in PromoterState, NEW promoted \in SUBSET Jobs
  PROVE  AfterPush(p, promoted) \in PromoterState
  <1>1. {} \in SUBSET Jobs /\ NoJob \in Jobs \cup {NoJob} /\ "ABSENT" \in Status \cup {"ABSENT"}
    OBVIOUS
  <1>2. "loading" \in {"idle", "removing", "loading", "saving", "pushing"}
    OBVIOUS
  <1> QED
    BY <1>1, <1>2, IdleStates, Zenon DEF AfterPush, PromoterState

LEMMA ScannedIsState ==
  ASSUME NEW p \in PromoterState, NEW due \in SUBSET Jobs
  PROVE  [p EXCEPT !.pc = "removing", !.due = due] \in PromoterState
  <1>1. "removing" \in {"idle", "removing", "loading", "saving", "pushing"}
    OBVIOUS
  <1> QED
    BY <1>1, Zenon DEF PromoterState

LEMMA RemovedIsState ==
  ASSUME NEW p \in PromoterState, NEW due \in SUBSET Jobs, NEW promoted \in SUBSET Jobs
  PROVE  [p EXCEPT !.due = due, !.promoted = promoted] \in PromoterState
  BY Zenon DEF PromoterState

\* Single paths of a document that are written.
LEMMA PathsAreDoc ==
  ASSUME NEW d \in Doc
  PROVE  /\ [d EXCEPT !.status = "CANCELLED"] \in Doc
         /\ [d EXCEPT !.cancelRequested = TRUE] \in Doc
         /\ [d EXCEPT !.lock = "past"] \in Doc
  <1>1. [d EXCEPT !.status = "CANCELLED"] \in Doc
    BY DEF Doc, Status
  <1>2. [d EXCEPT !.cancelRequested = TRUE] \in Doc
    BY DEF Doc
  <1>3. [d EXCEPT !.lock = "past"] \in Doc
    BY DEF Doc
  <1> QED
    BY <1>1, <1>2, <1>3

LEMMA PushingIsState ==
  ASSUME NEW p \in PromoterState
  PROVE  LET r == [p EXCEPT !.pc = "pushing"]
         IN  r \in PromoterState /\ r.job = p.job /\ r.promoted = p.promoted
  BY DEF PromoterState

LEMMA LoadedIsState ==
  ASSUME NEW p \in PromoterState, NEW j \in Jobs, NEW seen \in Status \cup {"ABSENT"}
  PROVE  [p EXCEPT !.pc = "saving", !.job = j, !.seen = seen] \in PromoterState
  <1>1. "saving" \in {"idle", "removing", "loading", "saving", "pushing"}
    OBVIOUS
  <1>2. j \in Jobs \cup {NoJob}
    OBVIOUS
  <1> QED
    BY <1>1, <1>2, Zenon DEF PromoterState

LEMMA InitTypeOK == Init => TypeOK
  BY NewDocIsDoc, IdleStates, PipelineAssumption
     DEF Init, TypeOK, IdleLane, IdlePromoter, NewCancel

-----------------------------------------------------------------------------
(* Type correctness, one lemma per process *)

\* The requests of the API keep the types.
LEMMA ApiTypeOK == ASSUME TypeOK, ApiStep PROVE TypeOK'
  <1> USE DEF TypeOK
  <1>1. ASSUME NEW j \in Jobs, NEW scheduled \in BOOLEAN, CreateJob(j, scheduled)
        PROVE  TypeOK'
    BY <1>1, NewDocIsDoc DEF CreateJob, workerVars
  <1>2. ASSUME NEW j \in Jobs, EnqueueNewJob(j) PROVE TypeOK'
    BY <1>2 DEF EnqueueNewJob, PushJobToQueue, workerVars
  <1>3. ASSUME NEW j \in Jobs, ScheduleNewJob(j) PROVE TypeOK'
    BY <1>3 DEF ScheduleNewJob, PushToDelayedQueue, workerVars
  <1>4. ASSUME NEW c \in Cancels, NEW j \in Jobs, LoadForCancel(c, j) PROVE TypeOK'
    <2>1. db[j].status \in Status
      BY <1>4 DEF LoadForCancel, Doc
    <2> DEFINE pc == CASE db[j].status \in Terminal -> "refused"
                       [] db[j].status = "PROCESSING" -> "flagging"
                       [] db[j].status \in {"QUEUED", "RETRYING"} -> "dequeuing"
               r == [cancel[c] EXCEPT !.job = j, !.pc = pc]
    <2>2. pc \in {"refused", "flagging", "dequeuing"}
      BY <2>1 DEF Status, Terminal
    <2>3. r \in CancelState
      <3>1. pc \in {"new", "dequeuing", "undelaying", "saving", "flagging",
                    "refused", "cancelled", "requested"}
        BY <2>2
      <3> HIDE DEF pc
      <3> QED BY <3>1, Zenon DEF CancelState
    <2>4. r.job = j
      BY DEF CancelState
    <2>5. cancel' = [cancel EXCEPT ![c] = r]
      BY <1>4 DEF LoadForCancel
    <2> HIDE DEF r
    <2> QED
      BY <1>4, <2>3, <2>4, <2>5 DEF LoadForCancel, workerVars
  <1>5. ASSUME NEW c \in Cancels, RemoveJobFromQueue(c) PROVE TypeOK'
    <2> DEFINE n == Zrem(cancel[c].job \in queue)
               r == [cancel[c] EXCEPT !.pc = "undelaying", !.removed = n]
    <2>1. r \in CancelState
      <3>1. "undelaying" \in {"new", "dequeuing", "undelaying", "saving", "flagging",
                    "refused", "cancelled", "requested"}
        OBVIOUS
      <3>2. n \in Nat
        BY <1>5 DEF RemoveJobFromQueue, CancelState, Zrem
      <3> HIDE DEF n
      <3> QED BY <3>1, <3>2, Zenon DEF CancelState
    <2>2. r.job = cancel[c].job /\ cancel[c].job \in Jobs
      BY <1>5 DEF RemoveJobFromQueue, CancelState
    <2>3. cancel' = [cancel EXCEPT ![c] = r]
      BY <1>5 DEF RemoveJobFromQueue
    <2> HIDE DEF r
    <2> QED
      BY <1>5, <2>1, <2>2, <2>3 DEF RemoveJobFromQueue, workerVars
  <1>6. ASSUME NEW c \in Cancels, RemoveJobFromDelayedQueue(c) PROVE TypeOK'
    <2> DEFINE n == cancel[c].removed + Zrem(delayed[cancel[c].job] # "absent")
               r == [cancel[c] EXCEPT !.pc = "saving", !.removed = n]
    <2>1. r \in CancelState
      <3>1. "saving" \in {"new", "dequeuing", "undelaying", "saving", "flagging",
                    "refused", "cancelled", "requested"}
        OBVIOUS
      <3>2. n \in Nat
        BY <1>6 DEF RemoveJobFromDelayedQueue, CancelState, Zrem
      <3> HIDE DEF n
      <3> QED BY <3>1, <3>2, Zenon DEF CancelState
    <2>2. r.job = cancel[c].job /\ cancel[c].job \in Jobs
      BY <1>6 DEF RemoveJobFromDelayedQueue, CancelState
    <2>3. cancel' = [cancel EXCEPT ![c] = r]
      BY <1>6 DEF RemoveJobFromDelayedQueue
    <2> HIDE DEF r
    <2> QED
      BY <1>6, <2>1, <2>2, <2>3 DEF RemoveJobFromDelayedQueue, workerVars
  <1>7. ASSUME NEW c \in Cancels, SaveCancelled(c) PROVE TypeOK'
    <2> DEFINE r == [cancel[c] EXCEPT !.pc = "cancelled"]
    <2>1. cancel[c].job \in Jobs
      BY <1>7 DEF SaveCancelled
    <2>2. r \in CancelState /\ r.job = cancel[c].job
      BY DEF CancelState
    <2>3. [db[cancel[c].job] EXCEPT !.status = "CANCELLED"] \in Doc
      BY <2>1, PathsAreDoc
    <2>4. cancel' = [cancel EXCEPT ![c] = r]
      BY <1>7 DEF SaveCancelled
    <2> HIDE DEF r
    <2> QED
      BY <1>7, <2>1, <2>2, <2>3, <2>4 DEF SaveCancelled, workerVars
  <1>8. ASSUME NEW c \in Cancels, SaveCancellationRequest(c) PROVE TypeOK'
    <2> DEFINE r == [cancel[c] EXCEPT !.pc = "requested"]
    <2>1. cancel[c].job \in Jobs
      BY <1>8 DEF SaveCancellationRequest
    <2>2. r \in CancelState /\ r.job = cancel[c].job
      BY DEF CancelState
    <2>3. [db[cancel[c].job] EXCEPT !.cancelRequested = TRUE] \in Doc
      BY <2>1, PathsAreDoc
    <2>4. cancel' = [cancel EXCEPT ![c] = r]
      BY <1>8 DEF SaveCancellationRequest
    <2> HIDE DEF r
    <2> QED
      BY <1>8, <2>1, <2>2, <2>3, <2>4 DEF SaveCancellationRequest, workerVars
  <1> QED
    BY <1>1, <1>2, <1>3, <1>4, <1>5, <1>6, <1>7, <1>8 DEF ApiStep

\* The lanes keep the types.
LEMMA LaneTypeOK == ASSUME TypeOK, NEW l \in Lanes, LaneStep(l) PROVE TypeOK'
  <1> USE PipelineAssumption DEF TypeOK
  <1> DEFINE w == WorkerOf[l]
  <1>1. ASSUME NEW j \in Jobs, ClaimNextJob(l, j) PROVE TypeOK'
    <2> DEFINE r == [lane[l] EXCEPT !.pc = "popped", !.job = j]
    <2>1. r \in LaneState
      <3>1. "popped" \in LanePc /\ j \in Jobs \cup {NoJob}
        BY DEF LanePc
      <3> QED BY <3>1, Zenon DEF LaneState
    <2>2. r.job = j
      BY DEF LaneState
    <2>3. lane' = [lane EXCEPT ![l] = r]
      BY <1>1 DEF ClaimNextJob
    <2> HIDE DEF r
    <2> QED
      BY <1>1, <2>1, <2>2, <2>3 DEF ClaimNextJob
  <1>2. ASSUME LoadClaimed(l) PROVE TypeOK'
    <2> DEFINE r == [lane[l] EXCEPT !.pc = "loaded", !.seen = Load(db[lane[l].job])]
    <2>1. lane[l].job \in Jobs
      BY <1>2 DEF LoadClaimed
    <2>2. r \in LaneState
      <3>1. "loaded" \in LanePc /\ Load(db[lane[l].job]) \in Loaded
        BY <2>1, LoadIsLoaded DEF LanePc
      <3> QED BY <3>1, Zenon DEF LaneState
    <2>3. r.job = lane[l].job
      BY DEF LaneState
    <2>4. lane' = [lane EXCEPT ![l] = r]
      BY <1>2 DEF LoadClaimed
    <2> HIDE DEF r
    <2> QED
      BY <1>2, <2>1, <2>2, <2>3, <2>4 DEF LoadClaimed
  <1>3. ASSUME SaveClaim(l) PROVE TypeOK'
    <2> DEFINE r == [lane[l] EXCEPT !.pc = "running", !.seen = Claimed(lane[l].seen, w)]
    <2>1. lane[l].job \in Jobs /\ lane[l].seen \in Loaded
      BY <1>3 DEF SaveClaim, LaneState
    <2>2. r \in LaneState
      <3>1. "running" \in LanePc /\ Claimed(lane[l].seen, w) \in Loaded
        BY <2>1, ClaimedIsLoaded DEF LanePc, Attempting
      <3> QED BY <3>1, Zenon DEF LaneState
    <2>3. r.job = lane[l].job
      BY DEF LaneState
    <2>4. lane' = [lane EXCEPT ![l] = r]
      BY <1>3 DEF SaveClaim
    <2>5. db' \in [Jobs -> Doc]
      BY <1>3, <2>1, ClaimWriteIsDoc DEF SaveClaim
    <2> HIDE DEF r
    <2> QED
      BY <1>3, <2>1, <2>2, <2>3, <2>4, <2>5 DEF SaveClaim
  <1>4. ASSUME CheckCancellation(l) PROVE TypeOK'
    BY <1>4 DEF CheckCancellation, LaneState, LanePc, Attempting
  <1>5. ASSUME FinishAttempt(l) PROVE TypeOK'
    <2>1. Finished(l) \in [Jobs -> Doc]
      BY <1>5, FinalizeIsDoc DEF FinishAttempt, Finished, Status
    <2> QED
      BY <1>5, <2>1, IdleStates DEF FinishAttempt, IdleLane
  <1>6. ASSUME NEW nonRetryable \in BOOLEAN, FailAttempt(l, nonRetryable) PROVE TypeOK'
    <2>1. db' \in [Jobs -> Doc]
      BY <1>6, FinalizeIsDoc, FailureStatusIsStatus DEF FailAttempt
    <2>2. [lane[l] EXCEPT !.pc = "scheduling"] \in LaneState
      BY DEF LaneState, LanePc
    <2>3. [lane[l] EXCEPT !.pc = "scheduling"].job \in Jobs
      BY <1>6 DEF FailAttempt, LaneState
    <2> QED
      BY <1>6, <2>1, <2>2, <2>3, IdleStates DEF FailAttempt, IdleLane
  <1>7. ASSUME ScheduleRetry(l) PROVE TypeOK'
    BY <1>7, IdleStates DEF ScheduleRetry, PushToDelayedQueue, IdleLane
  <1> QED
    BY <1>1, <1>2, <1>3, <1>4, <1>5, <1>6, <1>7 DEF LaneStep

\* The promotion runs keep the types.
LEMMA PromoterTypeOK == ASSUME TypeOK, NEW t \in Ticks, PromoterStep(t) PROVE TypeOK'
  <1> USE PipelineAssumption DEF TypeOK
  <1>1. ASSUME ScanDue(t) PROVE TypeOK'
    <2> DEFINE due == {j \in Jobs : delayed[j] = "due"}
               r == [promoter[t] EXCEPT !.pc = "removing", !.due = due]
    <2>1. r \in PromoterState
      <3>1. due \in SUBSET Jobs /\ promoter[t] \in PromoterState
        OBVIOUS
      <3> HIDE DEF due
      <3> QED BY <3>1, ScannedIsState
    <2>2. r.pc = "removing"
      BY DEF PromoterState
    <2>3. promoter' = [promoter EXCEPT ![t] = r]
      BY <1>1 DEF ScanDue
    <2> HIDE DEF r
    <2> QED
      BY <1>1, <2>1, <2>2, <2>3 DEF ScanDue
  <1>2. ASSUME NEW j \in Jobs, RemoveDue(t, j) PROVE TypeOK'
    <2> DEFINE due == promoter[t].due \ {j}
               promoted == IF delayed[j] # "absent" THEN promoter[t].promoted \cup {j}
                           ELSE promoter[t].promoted
               r == IF due = {} THEN AfterPush(promoter[t], promoted)
                    ELSE [promoter[t] EXCEPT !.due = due, !.promoted = promoted]
    <2>1. due \in SUBSET Jobs /\ promoted \in SUBSET Jobs
      BY DEF PromoterState
    <2>2. promoter[t].pc = "removing"
      BY <1>2 DEF RemoveDue
    <2>3. promoter' = [promoter EXCEPT ![t] = r]
      BY <1>2 DEF RemoveDue
    <2>4. delayed' \in [Jobs -> {"absent", "waiting", "due"}]
      BY <1>2 DEF RemoveDue
    <2> HIDE DEF due, promoted
    <2>5. r \in PromoterState
      <3>1. [promoter[t] EXCEPT !.due = due, !.promoted = promoted] \in PromoterState
        BY <2>1, RemovedIsState
      <3> QED BY <2>1, <3>1, AfterPushIsState
    <2>6. r.pc \notin {"saving", "pushing"}
      BY <2>2 DEF AfterPush, IdlePromoter, PromoterState
    <2>7. UNCHANGED <<db, queue, submit, lane, recoverer, cancel, up, faults, stalls>>
      BY <1>2 DEF RemoveDue
    <2> HIDE DEF r
    <2> QED
      BY <2>3, <2>4, <2>5, <2>6, <2>7
  <1>3. ASSUME NEW j \in Jobs, LoadPromoted(t, j) PROVE TypeOK'
    <2> DEFINE r == [promoter[t] EXCEPT !.pc = "saving", !.job = j, !.seen = db[j].status]
    <2>1. r \in PromoterState
      <3>1. db[j].status \in Status \cup {"ABSENT"}
        BY DEF Doc
      <3> QED BY <3>1, LoadedIsState
    <2>2. r.job \in r.promoted
      BY <1>3 DEF LoadPromoted, PromoterState
    <2>3. promoter' = [promoter EXCEPT ![t] = r]
      BY <1>3 DEF LoadPromoted
    <2> HIDE DEF r
    <2> QED
      BY <1>3, <2>1, <2>2, <2>3 DEF LoadPromoted
  <1>4. ASSUME SavePromoted(t) PROVE TypeOK'
    <2> DEFINE r == [promoter[t] EXCEPT !.pc = "pushing"]
    <2>1. r \in PromoterState /\ r.job = promoter[t].job /\ r.promoted = promoter[t].promoted
      BY PushingIsState
    <2>2. promoter' = [promoter EXCEPT ![t] = r]
      BY <1>4 DEF SavePromoted
    <2>3. db' \in [Jobs -> Doc]
      BY <1>4, PromotionWriteIsDoc DEF SavePromoted, PromoterState
    <2> HIDE DEF r
    <2> QED
      BY <1>4, <2>1, <2>2, <2>3 DEF SavePromoted
  <1>5. ASSUME PushPromoted(t) PROVE TypeOK'
    <2> DEFINE r == AfterPush(promoter[t], promoter[t].promoted \ {promoter[t].job})
    <2>1. r \in PromoterState
      BY AfterPushIsState DEF PromoterState
    <2>2. r.pc \notin {"saving", "pushing"}
      BY DEF AfterPush, IdlePromoter, PromoterState
    <2>3. promoter' = [promoter EXCEPT ![t] = r]
      BY <1>5 DEF PushPromoted
    <2>4. queue' \in SUBSET Jobs
      BY <1>5 DEF PushPromoted, PushJobToQueue, PromoterState
    <2> HIDE DEF r
    <2> QED
      BY <1>5, <2>1, <2>2, <2>3, <2>4 DEF PushPromoted
  <1> QED
    BY <1>1, <1>2, <1>3, <1>4, <1>5 DEF PromoterStep

\* The recovery runs keep the types.
LEMMA RecovererTypeOK == ASSUME TypeOK, NEW t \in Ticks, RecovererStep(t) PROVE TypeOK'
  <1> USE PipelineAssumption DEF TypeOK
  <1>1. ASSUME ScanStale(t) PROVE TypeOK'
    <2> DEFINE stale == {j \in Jobs : db[j].status = "PROCESSING" /\ db[j].lock = "past"}
               copies == {[job |-> j, attempts |-> db[j].attempts, lockedBy |-> db[j].lockedBy] :
                             j \in stale}
               r == [recoverer[t] EXCEPT !.stale = copies]
    <2>1. copies \in SUBSET StaleJob
      BY DEF StaleJob, Doc
    <2>2. recoverer' = [recoverer EXCEPT ![t] = r]
      BY <1>1 DEF ScanStale
    <2> HIDE DEF copies
    <2>3. r \in RecovererState
      BY <2>1 DEF RecovererState
    <2>4. UNCHANGED <<db, queue, delayed, submit, lane, promoter, cancel, up, faults, stalls>>
      BY <1>1 DEF ScanStale
    <2> HIDE DEF r
    <2> QED
      BY <2>2, <2>3, <2>4
  <1>2. ASSUME NEW s \in recoverer[t].stale, RecoverJob(t, s) PROVE TypeOK'
    <2>1. s.job \in Jobs /\ recoverer[t].stale \in SUBSET StaleJob
      BY DEF RecovererState, StaleJob
    <2>2. db' \in [Jobs -> Doc]
      BY <1>2, <2>1, FinalizeIsDoc, FailureStatusIsStatus DEF RecoverJob
    <2>3. recoverer' \in [Ticks -> RecovererState]
      BY <1>2, <2>1 DEF RecoverJob, RecovererState
    <2> QED
      BY <1>2, <2>2, <2>3 DEF RecoverJob
  <1>3. ASSUME ScheduleRecovered(t) PROVE TypeOK'
    BY <1>3 DEF ScheduleRecovered, PushToDelayedQueue, RecovererState
  <1> QED
    BY <1>1, <1>2, <1>3 DEF RecovererStep

\* The passing of time keeps the types.
LEMMA TimeTypeOK == ASSUME TypeOK, NEW j \in Jobs, TimePasses(j) PROVE TypeOK'
  <1> USE DEF TypeOK
  <1>1. ASSUME BecomesDue(j) PROVE TypeOK'
    BY <1>1 DEF BecomesDue, workerVars
  <1>2. ASSUME LockRunsOut(j) PROVE TypeOK'
    <2>1. [db[j] EXCEPT !.lock = "past"] \in Doc
      BY PathsAreDoc
    <2>2. stalls' \in 0 .. MaxStalls
      BY <1>2, PipelineAssumption DEF LockRunsOut
    <2> QED
      BY <1>2, <2>1, <2>2 DEF LockRunsOut, workerVars
  <1> QED
    BY <1>1, <1>2 DEF TimePasses

\* The failures keep the types.
LEMMA FaultTypeOK == ASSUME TypeOK, FaultStep PROVE TypeOK'
  <1> USE PipelineAssumption DEF TypeOK, Fault
  <1>1. ASSUME NEW w \in Workers, Crash(w) PROVE TypeOK'
    BY <1>1, IdleStates DEF Crash, IdleLane, IdlePromoter
  <1>2. ASSUME NEW l \in Lanes, NEW applied \in BOOLEAN, FinishFails(l, applied) PROVE TypeOK'
    <2>1. Finished(l) \in [Jobs -> Doc]
      BY <1>2, FinalizeIsDoc DEF FinishFails, Finished, Status
    <2> DEFINE r == [lane[l] EXCEPT !.pc = "failing"]
    <2>2. r \in LaneState /\ r.job = lane[l].job
      BY DEF LaneState, LanePc, Attempting
    <2>3. lane' = [lane EXCEPT ![l] = r]
      BY <1>2 DEF FinishFails
    <2> HIDE DEF r
    <2> QED
      BY <1>2, <2>1, <2>2, <2>3 DEF FinishFails
  <1>3. ASSUME NEW t \in Ticks, PromotionFails(t) PROVE TypeOK'
    BY <1>3, IdleStates DEF PromotionFails, IdlePromoter
  <1>4. ASSUME NEW t \in Ticks, RecoveryFails(t) PROVE TypeOK'
    BY <1>4, IdleStates DEF RecoveryFails
  <1>5. ASSUME NEW j \in Jobs, SubmissionFails(j) PROVE TypeOK'
    BY <1>5 DEF SubmissionFails, workerVars
  <1>6. ASSUME NEW c \in Cancels, CancellationFails(c) PROVE TypeOK'
    BY <1>6 DEF CancellationFails, workerVars, CancelState
  <1> QED
    BY <1>1, <1>2, <1>3, <1>4, <1>5, <1>6 DEF FaultStep

LEMMA NextTypeOK == ASSUME TypeOK, [Next]_vars PROVE TypeOK'
  <1>1. CASE UNCHANGED vars
    BY <1>1 DEF vars, TypeOK
  <1>2. CASE Next
    BY <1>2, ApiTypeOK, LaneTypeOK, PromoterTypeOK, RecovererTypeOK, TimeTypeOK, FaultTypeOK
       DEF Next
  <1> QED
    BY <1>1, <1>2

\* Every variable keeps its type, and a process that is under way has a job.
THEOREM TypeCorrectness == Spec => []TypeOK
  <1>1. Init => TypeOK
    BY InitTypeOK
  <1>2. TypeOK /\ [Next]_vars => TypeOK'
    BY NextTypeOK
  <1> QED
    BY <1>1, <1>2, PTL DEF Spec
===============================================================================
