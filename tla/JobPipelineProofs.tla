--------------------------- MODULE JobPipelineProofs ---------------------------
(***************************************************************************)
(* The safety of the job pipeline.  One inductive invariant, IInv, and one *)
(* lemma about steps, JobSteps: whatever the action, each job is left      *)
(* alone, or changes in one of a few ways.                                 *)
(***************************************************************************)
EXTENDS JobPipelineTypeProofs

-----------------------------------------------------------------------------
(* The inductive invariant *)

\* Before Job.create there is no document and no trace of the id.
UnsubmittedIsNowhere ==
    \A j \in Jobs :
        /\ submit[j] = "new" => Carriers(j) = {} /\ db[j].status = "ABSENT" /\ db[j].runs = 0
        /\ submit[j] # "new" => db[j].status # "ABSENT"

\* PROCESSING and lockedBy are written and cleared together.
ProcessingIsLocked ==
    \A j \in Jobs : db[j].status = "PROCESSING" => db[j].lockedBy \in Workers

\* Nothing changes a job between the findById and the save of its claim,
\* but cancelJob's save() of the status.
LoadedIsCurrent ==
    \A l \in Lanes : lane[l].pc = "loaded" =>
        /\ lane[l].seen.status # "PROCESSING"
        /\ lane[l].seen.lockedBy = NoWorker
        /\ lane[l].seen.attempts = db[lane[l].job].attempts

\* So handleFailure never takes lockedBy = null for an owner.
StaleHasOwner ==
    \A t \in Ticks : \A s \in recoverer[t].stale : s.lockedBy \in Workers

FinishedIsNowhere ==
    \A j \in Jobs : db[j].status \in {"COMPLETED", "DEAD_LETTER"} => Carriers(j) = {}

CancelKnowsJob ==
    \A c \in Cancels : cancel[c].job \in Jobs => submit[cancel[c].job] # "new"

RemovedIsNowhere ==
    \A c \in Cancels : cancel[c].removed > 0 =>
        /\ cancel[c].pc # "new" /\ cancel[c].job \in Jobs
        /\ \A j \in Jobs : cancel[c].job = j =>
              /\ Carriers(j) = {}
              /\ cancel[c].pc = "cancelled" => db[j].status = "CANCELLED"

IInv ==
    /\ TypeOK
    /\ AtMostOneCarrier
    /\ AttemptsCountRuns
    /\ UnsubmittedIsNowhere
    /\ ProcessingIsLocked
    /\ LoadedIsCurrent
    /\ StaleHasOwner
    /\ FinishedIsNowhere
    /\ CancelKnowsJob
    /\ RemovedIsNowhere

-----------------------------------------------------------------------------
(* What an action may do to a job *)

DocKept(k) ==
    /\ db'[k].status   = db[k].status
    /\ db'[k].attempts = db[k].attempts
    /\ db'[k].lockedBy = db[k].lockedBy
    /\ db'[k].runs     = db[k].runs

SubmitKept(k) == submit'[k] = "new" <=> submit[k] = "new"

Stays(k) == DocKept(k) /\ Carriers(k)' = Carriers(k)

Created(k) ==
    /\ submit[k] = "new" /\ submit'[k] # "new"
    /\ db'[k] = NewDoc
    /\ \E y : Carriers(k)' = {y}

Handed(k) ==
    /\ DocKept(k) /\ db[k].lockedBy = NoWorker
    /\ \E x, y : Carriers(k) = {x} /\ Carriers(k)' = {y}

\* Only a fault or a cancellation leaves a job without a carrier.
Dropped(k) ==
    /\ DocKept(k) /\ db[k].lockedBy = NoWorker
    /\ \E x : Carriers(k) = {x} /\ Carriers(k)' = {}
    /\ faults' > 0 \/ BeingCancelled(k)'

Promoted(k) ==
    /\ db[k].lockedBy = NoWorker /\ Carriers(k) # {}
    /\ db'[k] = [db[k] EXCEPT !.status = "QUEUED"]
    /\ Carriers(k)' = Carriers(k)

Begun(k) ==
    /\ db[k].lockedBy = NoWorker /\ Carriers(k) # {}
    /\ db'[k].status = "PROCESSING" /\ db'[k].lockedBy \in Workers
    /\ db'[k].attempts = db[k].attempts + 1 /\ db'[k].runs = db[k].runs + 1
    /\ Carriers(k)' = {<<"lock", db'[k].lockedBy>>}

Released(k, status) ==
    /\ db[k].lockedBy \in Workers
    /\ db'[k] = Release(db[k], status)

Retried(k) == Released(k, "RETRYING") /\ \E y : Carriers(k)' = {y}

EndedAs(k, status) == Released(k, status) /\ Carriers(k)' = {}

Cancelled(k) ==
    /\ submit[k] # "new"
    /\ db'[k] = [db[k] EXCEPT !.status = "CANCELLED"]
    /\ Carriers(k)' = Carriers(k)

Changes(k) ==
    \/ Created(k)
    \/ SubmitKept(k) /\ \/ Handed(k) \/ Dropped(k) \/ Promoted(k) \/ Begun(k)
                        \/ Retried(k) \/ Cancelled(k)
                        \/ \E status \in Terminal : EndedAs(k, status)

OneChanges(j) ==
    Changes(j) /\ \A k \in Jobs \ {j} : SubmitKept(k) /\ Stays(k)

SomeDropped ==
    \A k \in Jobs : SubmitKept(k) /\ (Stays(k) \/ Dropped(k))

JobSteps == SomeDropped \/ \E j \in Jobs : OneChanges(j)

-----------------------------------------------------------------------------
(* Where a job is not, given where it is *)

LEMMA QueueOnly ==
  ASSUME AtMostOneCarrier, NEW j \in Jobs, j \in queue
  PROVE  /\ Carriers(j) = {<<"queue", j>>} /\ InQueue(j) = {<<"queue", j>>}
         /\ InDelayed(j) = {} /\ InSubmit(j) = {} /\ InLanes(j) = {}
         /\ InPromoters(j) = {} /\ InRecoverers(j) = {} /\ Locks(j) = {}
         /\ db[j].lockedBy = NoWorker
  <1>1. <<"queue", j>> \in InQueue(j)
    BY DEF InQueue
  <1>2. \A x \in Carriers(j) : x = <<"queue", j>>
    BY <1>1 DEF AtMostOneCarrier, Carriers
  <1> QED
    BY <1>1, <1>2 DEF Carriers, InDelayed, InSubmit, InLanes, InPromoters, InRecoverers, Locks

LEMMA DelayedOnly ==
  ASSUME AtMostOneCarrier, NEW j \in Jobs, delayed[j] # "absent"
  PROVE  /\ Carriers(j) = {<<"delayed", j>>} /\ InDelayed(j) = {<<"delayed", j>>}
         /\ InQueue(j) = {} /\ InSubmit(j) = {} /\ InLanes(j) = {}
         /\ InPromoters(j) = {} /\ InRecoverers(j) = {} /\ Locks(j) = {}
         /\ db[j].lockedBy = NoWorker
  <1>1. <<"delayed", j>> \in InDelayed(j)
    BY DEF InDelayed
  <1>2. \A x \in Carriers(j) : x = <<"delayed", j>>
    BY <1>1 DEF AtMostOneCarrier, Carriers
  <1> QED
    BY <1>1, <1>2 DEF Carriers, InQueue, InSubmit, InLanes, InPromoters, InRecoverers, Locks

LEMMA SubmitOnly ==
  ASSUME AtMostOneCarrier, NEW j \in Jobs, submit[j] \in {"enqueueing", "scheduling"}
  PROVE  /\ Carriers(j) = {<<"submit", j>>} /\ InSubmit(j) = {<<"submit", j>>}
         /\ InQueue(j) = {} /\ InDelayed(j) = {} /\ InLanes(j) = {}
         /\ InPromoters(j) = {} /\ InRecoverers(j) = {} /\ Locks(j) = {}
         /\ db[j].lockedBy = NoWorker
  <1>1. <<"submit", j>> \in InSubmit(j)
    BY DEF InSubmit
  <1>2. \A x \in Carriers(j) : x = <<"submit", j>>
    BY <1>1 DEF AtMostOneCarrier, Carriers
  <1> QED
    BY <1>1, <1>2 DEF Carriers, InQueue, InDelayed, InLanes, InPromoters, InRecoverers, Locks

LEMMA LaneOnly ==
  ASSUME AtMostOneCarrier, NEW l \in Lanes, NEW j \in Jobs, lane[l].job = j,
         lane[l].pc \in {"popped", "loaded", "scheduling"}
  PROVE  /\ Carriers(j) = {<<"lane", l>>} /\ InLanes(j) = {<<"lane", l>>}
         /\ InQueue(j) = {} /\ InDelayed(j) = {} /\ InSubmit(j) = {}
         /\ InPromoters(j) = {} /\ InRecoverers(j) = {} /\ Locks(j) = {}
         /\ db[j].lockedBy = NoWorker
  <1>1. <<"lane", l>> \in InLanes(j)
    BY DEF InLanes
  <1>2. \A x \in Carriers(j) : x = <<"lane", l>>
    BY <1>1 DEF AtMostOneCarrier, Carriers
  <1> QED
    BY <1>1, <1>2 DEF Carriers, InQueue, InDelayed, InSubmit, InPromoters, InRecoverers, Locks

LEMMA PromoterOnly ==
  ASSUME AtMostOneCarrier, NEW t \in Ticks, NEW j \in Jobs, j \in promoter[t].promoted
  PROVE  /\ Carriers(j) = {<<"promoter", t>>} /\ InPromoters(j) = {<<"promoter", t>>}
         /\ InQueue(j) = {} /\ InDelayed(j) = {} /\ InSubmit(j) = {}
         /\ InLanes(j) = {} /\ InRecoverers(j) = {} /\ Locks(j) = {}
         /\ db[j].lockedBy = NoWorker
  <1>1. <<"promoter", t>> \in InPromoters(j)
    BY DEF InPromoters
  <1>2. \A x \in Carriers(j) : x = <<"promoter", t>>
    BY <1>1 DEF AtMostOneCarrier, Carriers
  <1> QED
    BY <1>1, <1>2 DEF Carriers, InQueue, InDelayed, InSubmit, InLanes, InRecoverers, Locks

LEMMA RecovererOnly ==
  ASSUME AtMostOneCarrier, NEW t \in Ticks, NEW j \in Jobs, recoverer[t].retry = j
  PROVE  /\ Carriers(j) = {<<"recoverer", t>>} /\ InRecoverers(j) = {<<"recoverer", t>>}
         /\ InQueue(j) = {} /\ InDelayed(j) = {} /\ InSubmit(j) = {}
         /\ InLanes(j) = {} /\ InPromoters(j) = {} /\ Locks(j) = {}
         /\ db[j].lockedBy = NoWorker
  <1>1. <<"recoverer", t>> \in InRecoverers(j)
    BY DEF InRecoverers
  <1>2. \A x \in Carriers(j) : x = <<"recoverer", t>>
    BY <1>1 DEF AtMostOneCarrier, Carriers
  <1> QED
    BY <1>1, <1>2 DEF Carriers, InQueue, InDelayed, InSubmit, InLanes, InPromoters, Locks

LEMMA LockOnly ==
  ASSUME AtMostOneCarrier, NEW j \in Jobs, db[j].lockedBy # NoWorker
  PROVE  /\ Carriers(j) = {<<"lock", db[j].lockedBy>>} /\ Locks(j) = {<<"lock", db[j].lockedBy>>}
         /\ InQueue(j) = {} /\ InDelayed(j) = {} /\ InSubmit(j) = {}
         /\ InLanes(j) = {} /\ InPromoters(j) = {} /\ InRecoverers(j) = {}
  <1>1. <<"lock", db[j].lockedBy>> \in Locks(j)
    BY DEF Locks
  <1>2. \A x \in Carriers(j) : x = <<"lock", db[j].lockedBy>>
    BY <1>1 DEF AtMostOneCarrier, Carriers
  <1> QED
    BY <1>1, <1>2 DEF Carriers, InQueue, InDelayed, InSubmit, InLanes, InPromoters, InRecoverers

\* A variable that does not change keeps its part of every Carriers(k).
LEMMA Unmoved ==
  /\ UNCHANGED queue => \A k : InQueue(k)' = InQueue(k)
  /\ UNCHANGED delayed => \A k : InDelayed(k)' = InDelayed(k)
  /\ UNCHANGED submit => \A k : InSubmit(k)' = InSubmit(k) /\ SubmitKept(k)
  /\ UNCHANGED lane => \A k : InLanes(k)' = InLanes(k)
  /\ UNCHANGED promoter => \A k : InPromoters(k)' = InPromoters(k)
  /\ UNCHANGED recoverer => \A k : InRecoverers(k)' = InRecoverers(k)
  /\ UNCHANGED db => \A k : Locks(k)' = Locks(k) /\ DocKept(k)
  BY DEF InQueue, InDelayed, InSubmit, InLanes, InPromoters, InRecoverers, Locks,
         SubmitKept, DocKept

-----------------------------------------------------------------------------
(* Every action is one of JobSteps *)

\* What the later steps of a request do to its record.
LEMMA CancelRecord ==
  ASSUME TypeOK, NEW c \in Cancels
  PROVE  /\ RemoveJobFromQueue(c) =>
                /\ cancel'[c].job = cancel[c].job /\ cancel'[c].pc = "undelaying"
                /\ cancel'[c].removed = Zrem(cancel[c].job \in queue)
         /\ RemoveJobFromDelayedQueue(c) =>
                /\ cancel'[c].job = cancel[c].job /\ cancel'[c].pc = "saving"
                /\ cancel'[c].removed =
                       cancel[c].removed + Zrem(delayed[cancel[c].job] # "absent")
         /\ SaveCancelled(c) =>
                /\ cancel'[c].job = cancel[c].job /\ cancel'[c].pc = "cancelled"
                /\ cancel'[c].removed = cancel[c].removed
         /\ SaveCancellationRequest(c) =>
                /\ cancel'[c].job = cancel[c].job /\ cancel'[c].pc = "requested"
                /\ cancel'[c].removed = cancel[c].removed
         /\ CancellationFails(c) =>
                /\ cancel'[c].job = cancel[c].job /\ cancel'[c].pc = "refused"
                /\ cancel'[c].removed = cancel[c].removed
         /\ \A j \in Jobs : LoadForCancel(c, j) =>
                /\ cancel'[c].job = j /\ cancel'[c].removed = cancel[c].removed
  <1>1. cancel[c] \in CancelState
    BY DEF TypeOK
  <1>2. ASSUME NEW pc PROVE  /\ [cancel[c] EXCEPT !.pc = pc].pc = pc
                             /\ [cancel[c] EXCEPT !.pc = pc].job = cancel[c].job
                             /\ [cancel[c] EXCEPT !.pc = pc].removed = cancel[c].removed
    BY <1>1 DEF CancelState
  <1>3. ASSUME NEW pc, NEW n
        PROVE  /\ [cancel[c] EXCEPT !.pc = pc, !.removed = n].pc = pc
               /\ [cancel[c] EXCEPT !.pc = pc, !.removed = n].job = cancel[c].job
               /\ [cancel[c] EXCEPT !.pc = pc, !.removed = n].removed = n
    BY <1>1 DEF CancelState
  <1>4. ASSUME NEW r, cancel' = [cancel EXCEPT ![c] = r] PROVE cancel'[c] = r
    BY <1>4 DEF TypeOK
  <1>5. ASSUME NEW pc, cancel' = [cancel EXCEPT ![c] = [cancel[c] EXCEPT !.pc = pc]]
        PROVE  /\ cancel'[c].job = cancel[c].job /\ cancel'[c].pc = pc
               /\ cancel'[c].removed = cancel[c].removed
    BY <1>2, <1>4, <1>5
  <1>6. ASSUME NEW pc, NEW n,
               cancel' = [cancel EXCEPT ![c] = [cancel[c] EXCEPT !.pc = pc, !.removed = n]]
        PROVE  /\ cancel'[c].job = cancel[c].job /\ cancel'[c].pc = pc
               /\ cancel'[c].removed = n
    <2> DEFINE r == [cancel[c] EXCEPT !.pc = pc, !.removed = n]
    <2>1. r.job = cancel[c].job /\ r.pc = pc /\ r.removed = n
      BY <1>3
    <2>2. cancel' = [cancel EXCEPT ![c] = r]
      BY <1>6
    <2> HIDE DEF r
    <2> QED
      BY <1>4, <2>1, <2>2
  <1>7. ASSUME NEW j \in Jobs, LoadForCancel(c, j)
        PROVE  cancel'[c].job = j /\ cancel'[c].removed = cancel[c].removed
    <2>1. PICK pc : cancel' = [cancel EXCEPT ![c] = [cancel[c] EXCEPT !.job = j, !.pc = pc]]
      BY <1>7 DEF LoadForCancel
    <2> DEFINE r == [cancel[c] EXCEPT !.job = j, !.pc = pc]
    <2>2. r.job = j /\ r.removed = cancel[c].removed
      BY <1>1 DEF CancelState
    <2>3. cancel' = [cancel EXCEPT ![c] = r]
      BY <2>1
    <2> HIDE DEF r
    <2> QED
      BY <1>4, <2>2, <2>3
  <1>8. ASSUME RemoveJobFromQueue(c)
        PROVE  /\ cancel'[c].job = cancel[c].job /\ cancel'[c].pc = "undelaying"
               /\ cancel'[c].removed = Zrem(cancel[c].job \in queue)
    <2> DEFINE n == Zrem(cancel[c].job \in queue)
    <2>1. cancel' = [cancel EXCEPT ![c] = [cancel[c] EXCEPT !.pc = "undelaying", !.removed = n]]
      BY <1>8 DEF RemoveJobFromQueue
    <2> HIDE DEF n
    <2>2. /\ cancel'[c].job = cancel[c].job /\ cancel'[c].pc = "undelaying"
          /\ cancel'[c].removed = n
      BY <1>6, <2>1
    <2> QED
      BY <2>2 DEF n
  <1>9. ASSUME RemoveJobFromDelayedQueue(c)
        PROVE  /\ cancel'[c].job = cancel[c].job /\ cancel'[c].pc = "saving"
               /\ cancel'[c].removed = cancel[c].removed + Zrem(delayed[cancel[c].job] # "absent")
    <2> DEFINE n == cancel[c].removed + Zrem(delayed[cancel[c].job] # "absent")
    <2>1. cancel' = [cancel EXCEPT ![c] = [cancel[c] EXCEPT !.pc = "saving", !.removed = n]]
      BY <1>9 DEF RemoveJobFromDelayedQueue
    <2> HIDE DEF n
    <2>2. /\ cancel'[c].job = cancel[c].job /\ cancel'[c].pc = "saving"
          /\ cancel'[c].removed = n
      BY <1>6, <2>1
    <2> QED
      BY <2>2 DEF n
  <1>10. /\ SaveCancelled(c) =>
                cancel' = [cancel EXCEPT ![c] = [cancel[c] EXCEPT !.pc = "cancelled"]]
         /\ SaveCancellationRequest(c) =>
                cancel' = [cancel EXCEPT ![c] = [cancel[c] EXCEPT !.pc = "requested"]]
         /\ CancellationFails(c) =>
                cancel' = [cancel EXCEPT ![c] = [cancel[c] EXCEPT !.pc = "refused"]]
    BY DEF SaveCancelled, SaveCancellationRequest, CancellationFails
  <1>11. /\ SaveCancelled(c) =>
                /\ cancel'[c].job = cancel[c].job /\ cancel'[c].pc = "cancelled"
                /\ cancel'[c].removed = cancel[c].removed
         /\ SaveCancellationRequest(c) =>
                /\ cancel'[c].job = cancel[c].job /\ cancel'[c].pc = "requested"
                /\ cancel'[c].removed = cancel[c].removed
         /\ CancellationFails(c) =>
                /\ cancel'[c].job = cancel[c].job /\ cancel'[c].pc = "refused"
                /\ cancel'[c].removed = cancel[c].removed
    BY <1>5, <1>10
  <1> QED
    BY <1>7, <1>8, <1>9, <1>11

LEMMA ApiJobSteps == ASSUME IInv, ApiStep PROVE JobSteps
  <1> USE DEF JobSteps, OneChanges, SomeDropped, Changes, Stays
  <1>t. TypeOK /\ AtMostOneCarrier
    BY DEF IInv
  <1>1. ASSUME NEW j \in Jobs, NEW scheduled \in BOOLEAN, CreateJob(j, scheduled)
        PROVE  OneChanges(j)
    <2>1. Carriers(j) = {}
      BY <1>1 DEF CreateJob, IInv, UnsubmittedIsNowhere
    <2>2. /\ submit[j] = "new" /\ submit'[j] \in {"enqueueing", "scheduling"}
          /\ \A k \in Jobs \ {j} : submit'[k] = submit[k]
          /\ db'[j] = NewDoc /\ \A k \in Jobs \ {j} : db'[k] = db[k]
      BY <1>1, <1>t DEF CreateJob, TypeOK
    <2>3. InSubmit(j)' = {<<"submit", j>>} /\ Locks(j)' = {}
      BY <2>2 DEF InSubmit, Locks, NewDoc, NoDoc
    <2>4. \A k \in Jobs \ {j} : /\ InSubmit(k)' = InSubmit(k) /\ Locks(k)' = Locks(k)
                                /\ SubmitKept(k) /\ DocKept(k)
      BY <2>2 DEF InSubmit, Locks, SubmitKept, DocKept
    <2>5. UNCHANGED <<queue, delayed, lane, promoter, recoverer>>
      BY <1>1 DEF CreateJob, workerVars
    <2>6. Carriers(j)' = {<<"submit", j>>}
      BY <2>1, <2>3, <2>5, Unmoved DEF Carriers
    <2>7. \A k \in Jobs \ {j} : Carriers(k)' = Carriers(k)
      BY <2>4, <2>5, Unmoved DEF Carriers
    <2> QED
      BY <2>2, <2>4, <2>6, <2>7 DEF Created
  <1>2. ASSUME NEW j \in Jobs, EnqueueNewJob(j) PROVE OneChanges(j)
    <2>1. /\ submit[j] = "enqueueing" /\ submit' = [submit EXCEPT ![j] = "done"]
          /\ queue' = queue \cup {j}
          /\ UNCHANGED <<db, delayed, lane, promoter, recoverer>>
      BY <1>2 DEF EnqueueNewJob, PushJobToQueue, workerVars
    <2>2. /\ InSubmit(j)' = {} /\ InQueue(j)' = {<<"queue", j>>} /\ SubmitKept(j)
          /\ \A k \in Jobs \ {j} : /\ InSubmit(k)' = InSubmit(k) /\ InQueue(k)' = InQueue(k)
                                   /\ SubmitKept(k)
      BY <2>1, <1>t DEF InSubmit, InQueue, SubmitKept, TypeOK
    <2>3. Carriers(j) = {<<"submit", j>>} /\ db[j].lockedBy = NoWorker
      BY <2>1, <1>t, SubmitOnly
    <2>4. Carriers(j)' = {<<"queue", j>>}
      BY <2>1, <2>2, <1>t, SubmitOnly, Unmoved DEF Carriers
    <2> QED
      BY <2>1, <2>2, <2>3, <2>4, Unmoved DEF Handed, Carriers
  <1>3. ASSUME NEW j \in Jobs, ScheduleNewJob(j) PROVE OneChanges(j)
    <2>1. /\ submit[j] = "scheduling" /\ submit' = [submit EXCEPT ![j] = "done"]
          /\ delayed' = [delayed EXCEPT ![j] = "waiting"]
          /\ UNCHANGED <<db, queue, lane, promoter, recoverer>>
      BY <1>3 DEF ScheduleNewJob, PushToDelayedQueue, workerVars
    <2>2. /\ InSubmit(j)' = {} /\ InDelayed(j)' = {<<"delayed", j>>} /\ SubmitKept(j)
          /\ \A k \in Jobs \ {j} : /\ InSubmit(k)' = InSubmit(k) /\ InDelayed(k)' = InDelayed(k)
                                   /\ SubmitKept(k)
      BY <2>1, <1>t DEF InSubmit, InDelayed, SubmitKept, TypeOK
    <2>3. Carriers(j) = {<<"submit", j>>} /\ db[j].lockedBy = NoWorker
      BY <2>1, <1>t, SubmitOnly
    <2>4. Carriers(j)' = {<<"delayed", j>>}
      BY <2>1, <2>2, <1>t, SubmitOnly, Unmoved DEF Carriers
    <2> QED
      BY <2>1, <2>2, <2>3, <2>4, Unmoved DEF Handed, Carriers
  <1>4. ASSUME NEW c \in Cancels, NEW j \in Jobs, LoadForCancel(c, j) PROVE SomeDropped
    BY <1>4, Unmoved DEF LoadForCancel, workerVars, Carriers
  <1>5. ASSUME NEW c \in Cancels, RemoveJobFromQueue(c) PROVE SomeDropped
    <2> PICK j \in Jobs : j = cancel[c].job
      BY <1>5, <1>t DEF RemoveJobFromQueue, TypeOK
    <2>1. j \in Jobs /\ queue' = queue \ {j}
      BY <1>5, <1>t DEF RemoveJobFromQueue, TypeOK
    <2>2. UNCHANGED <<db, delayed, submit, lane, promoter, recoverer>>
      BY <1>5 DEF RemoveJobFromQueue, workerVars
    <2>3. InQueue(j)' = {} /\ \A k \in Jobs \ {j} : InQueue(k)' = InQueue(k)
      BY <2>1 DEF InQueue
    <2>4. \A k \in Jobs \ {j} : Carriers(k)' = Carriers(k)
      BY <2>2, <2>3, Unmoved DEF Carriers
    <2>5. CASE j \in queue
      <3>1. Carriers(j) = {<<"queue", j>>} /\ db[j].lockedBy = NoWorker
        BY <2>5, <1>t, QueueOnly
      <3>2. Carriers(j)' = {}
        BY <2>2, <2>3, <2>5, <1>t, QueueOnly, Unmoved DEF Carriers
      <3>3. BeingCancelled(j)'
        BY <1>5, <2>5, <1>t, CancelRecord DEF BeingCancelled, Zrem
      <3> QED
        BY <2>2, <2>4, <3>1, <3>2, <3>3, Unmoved DEF Dropped
    <2>6. CASE j \notin queue
      <3>1. queue' = queue
        BY <2>1, <2>6
      <3> QED
        BY <2>2, <3>1, Unmoved DEF Carriers
    <2> QED
      BY <2>5, <2>6
  <1>6. ASSUME NEW c \in Cancels, RemoveJobFromDelayedQueue(c) PROVE SomeDropped
    <2> PICK j \in Jobs : j = cancel[c].job
      BY <1>6, <1>t DEF RemoveJobFromDelayedQueue, TypeOK
    <2>1. j \in Jobs /\ delayed' = [delayed EXCEPT ![j] = "absent"]
      BY <1>6, <1>t DEF RemoveJobFromDelayedQueue, TypeOK
    <2>2. UNCHANGED <<db, queue, submit, lane, promoter, recoverer>>
      BY <1>6 DEF RemoveJobFromDelayedQueue, workerVars
    <2>3. InDelayed(j)' = {} /\ \A k \in Jobs \ {j} : InDelayed(k)' = InDelayed(k)
      BY <2>1, <1>t DEF InDelayed, TypeOK
    <2>4. \A k \in Jobs \ {j} : Carriers(k)' = Carriers(k)
      BY <2>2, <2>3, Unmoved DEF Carriers
    <2>5. CASE delayed[j] # "absent"
      <3>1. Carriers(j) = {<<"delayed", j>>} /\ db[j].lockedBy = NoWorker
        BY <2>5, <1>t, DelayedOnly
      <3>2. Carriers(j)' = {}
        BY <2>2, <2>3, <2>5, <1>t, DelayedOnly, Unmoved DEF Carriers
      <3>3. cancel'[c].removed > 0
        BY <1>6, <2>5, <1>t, CancelRecord DEF Zrem, TypeOK, CancelState
      <3>4. BeingCancelled(j)'
        BY <1>6, <3>3, <1>t, CancelRecord DEF BeingCancelled
      <3> QED
        BY <2>2, <2>4, <3>1, <3>2, <3>4, Unmoved DEF Dropped
    <2>6. CASE delayed[j] = "absent"
      <3>1. InDelayed(j)' = InDelayed(j)
        BY <2>3, <2>6 DEF InDelayed
      <3> QED
        BY <2>2, <2>4, <3>1, Unmoved DEF Carriers
    <2> QED
      BY <2>5, <2>6
  <1>7. ASSUME NEW c \in Cancels, SaveCancelled(c) PROVE \E j \in Jobs : OneChanges(j)
    <2> PICK j \in Jobs : j = cancel[c].job
      BY <1>7, <1>t DEF SaveCancelled, TypeOK
    <2>1. /\ j \in Jobs /\ db[j] \in Doc
          /\ db' = [db EXCEPT ![j] = [db[j] EXCEPT !.status = "CANCELLED"]]
      BY <1>7, <1>t DEF SaveCancelled, TypeOK
    <2>2. UNCHANGED <<queue, delayed, submit, lane, promoter, recoverer>>
      BY <1>7 DEF SaveCancelled, workerVars
    <2>3. submit[j] # "new"
      BY <2>1 DEF IInv, CancelKnowsJob
    <2>4. /\ db'[j] = [db[j] EXCEPT !.status = "CANCELLED"]
          /\ \A k \in Jobs \ {j} : DocKept(k)
          /\ \A k \in Jobs : Locks(k)' = Locks(k)
      BY <2>1, <1>t DEF Locks, Doc, DocKept, TypeOK
    <2>5. \A k \in Jobs : Carriers(k)' = Carriers(k)
      BY <2>2, <2>4, Unmoved DEF Carriers
    <2> QED
      BY <2>1, <2>2, <2>3, <2>4, <2>5, Unmoved DEF Cancelled
  <1>8. ASSUME NEW c \in Cancels, SaveCancellationRequest(c) PROVE SomeDropped
    <2> PICK j \in Jobs : j = cancel[c].job
      BY <1>8, <1>t DEF SaveCancellationRequest, TypeOK
    <2>1. /\ j \in Jobs
          /\ db' = [db EXCEPT ![j] = [db[j] EXCEPT !.cancelRequested = TRUE]]
      BY <1>8, <1>t DEF SaveCancellationRequest, TypeOK
    <2>2. UNCHANGED <<queue, delayed, submit, lane, promoter, recoverer>>
      BY <1>8 DEF SaveCancellationRequest, workerVars
    <2>3. \A k \in Jobs : DocKept(k) /\ Locks(k)' = Locks(k)
      <3> DEFINE r == [db[j] EXCEPT !.cancelRequested = TRUE]
      <3>1. /\ r.status = db[j].status /\ r.attempts = db[j].attempts
            /\ r.lockedBy = db[j].lockedBy /\ r.runs = db[j].runs
        BY <1>t DEF Doc, TypeOK
      <3>2. db' = [db EXCEPT ![j] = r]
        BY <2>1
      <3> HIDE DEF r
      <3> QED
        BY <3>1, <3>2, <1>t DEF Locks, DocKept, TypeOK
    <2> QED
      BY <2>2, <2>3, Unmoved DEF Carriers
  <1> QED
    BY <1>1, <1>2, <1>3, <1>4, <1>5, <1>6, <1>7, <1>8 DEF ApiStep

LEMMA DocMoves ==
  ASSUME TypeOK, NEW j \in Jobs, NEW doc, db' = [db EXCEPT ![j] = doc]
  PROVE  /\ db'[j] = doc
         /\ \A k \in Jobs \ {j} : DocKept(k) /\ Locks(k)' = Locks(k)
         /\ Locks(j)' = IF doc.lockedBy # NoWorker THEN {<<"lock", doc.lockedBy>>} ELSE {}
  <1>1. db'[j] = doc /\ \A k \in Jobs \ {j} : db'[k] = db[k]
    BY DEF TypeOK
  <1> QED
    BY <1>1 DEF DocKept, Locks

LEMMA FinalizeMoves ==
  ASSUME TypeOK, AtMostOneCarrier, NEW j \in Jobs, NEW owner \in Workers, NEW status \in Status,
         db' = [db EXCEPT ![j] = Finalize(@, owner, status)]
  PROVE  /\ \A k \in Jobs \ {j} : DocKept(k) /\ Locks(k)' = Locks(k)
         /\ Lands(db[j], owner) => Released(j, status) /\ Locks(j)' = {}
         /\ ~Lands(db[j], owner) => db' = db
  <1> USE DocAssumption
  <1>1. db' = [db EXCEPT ![j] = Finalize(db[j], owner, status)]
    OBVIOUS
  <1>2. Lands(db[j], owner) => db[j].lockedBy \in Workers
    BY DEF Lands
  <1>3. Release(db[j], status).lockedBy = NoWorker
    BY DEF Release, TypeOK, Doc
  <1>4. CASE Lands(db[j], owner)
    BY <1>1, <1>2, <1>3, <1>4, DocMoves DEF Finalize, Released
  <1>5. CASE ~Lands(db[j], owner)
    BY <1>1, <1>5, DocMoves DEF Finalize, TypeOK
  <1> QED
    BY <1>4, <1>5

\* A finishing write that ends the job, and nothing else about carriers.
LEMMA FinalizeStep ==
  ASSUME TypeOK, AtMostOneCarrier, NEW j \in Jobs, NEW owner \in Workers, NEW status \in Terminal,
         db' = [db EXCEPT ![j] = Finalize(@, owner, status)],
         \A k : InLanes(k)' = InLanes(k), \A k : InRecoverers(k)' = InRecoverers(k),
         UNCHANGED <<queue, delayed, submit, promoter>>
  PROVE  SomeDropped \/ OneChanges(j)
  <1> USE DocAssumption DEF OneChanges, SomeDropped, Changes, Stays
  <1>1. status \in Status
    BY DEF Status, Terminal
  <1>2. CASE Lands(db[j], owner)
    <2>1. db[j].lockedBy # NoWorker
      BY <1>2 DEF Lands
    <2>2. Released(j, status) /\ Locks(j)' = {}
      BY <1>1, <1>2, FinalizeMoves
    <2>3. \A k \in Jobs \ {j} : DocKept(k) /\ Locks(k)' = Locks(k)
      BY <1>1, FinalizeMoves
    <2>4. Carriers(j)' = {}
      BY <2>1, <2>2, LockOnly, Unmoved DEF Carriers
    <2>5. \A k \in Jobs \ {j} : Carriers(k)' = Carriers(k)
      BY <2>3, Unmoved DEF Carriers
    <2> QED
      BY <2>2, <2>3, <2>4, <2>5, Unmoved DEF EndedAs
  <1>3. CASE ~Lands(db[j], owner)
    <2>1. UNCHANGED db
      BY <1>1, <1>3, FinalizeMoves
    <2> QED
      BY <2>1, Unmoved DEF Carriers
  <1> QED
    BY <1>2, <1>3

LEMMA LaneJobSteps == ASSUME IInv, NEW l \in Lanes, LaneStep(l) PROVE JobSteps
  <1> USE PipelineAssumption, DocAssumption DEF JobSteps, OneChanges, SomeDropped, Changes, Stays
  <1>t. TypeOK /\ AtMostOneCarrier
    BY DEF IInv
  <1>1. ASSUME NEW j \in Jobs, ClaimNextJob(l, j) PROVE OneChanges(j)
    <2> DEFINE r == [lane[l] EXCEPT !.pc = "popped", !.job = j]
    <2>1. /\ j \in queue /\ queue' = queue \ {j}
          /\ lane[l].pc = "idle" /\ lane' = [lane EXCEPT ![l] = r]
          /\ UNCHANGED <<db, delayed, submit, promoter, recoverer>>
      BY <1>1 DEF ClaimNextJob
    <2>2. r.job = j /\ r.pc = "popped"
      BY <1>t DEF TypeOK, LaneState
    <2> HIDE DEF r
    <2>3. /\ InQueue(j)' = {}
          /\ \A k \in Jobs \ {j} : InQueue(k)' = InQueue(k)
      BY <2>1 DEF InQueue
    <2>m. lane'[l] = r /\ \A m \in Lanes \ {l} : lane'[m] = lane[m]
      BY <2>1, <1>t DEF TypeOK
    <2>4. \A k \in Jobs \ {j} : InLanes(k)' = InLanes(k)
      BY <2>1, <2>2, <2>m DEF InLanes
    <2>5. Carriers(j) = {<<"queue", j>>} /\ db[j].lockedBy = NoWorker
      BY <2>1, <1>t, QueueOnly
    <2>6. InLanes(j)' = {<<"lane", l>>}
      <3>1. InLanes(j) = {}
        BY <2>1, <1>t, QueueOnly
      <3> QED
        BY <3>1, <2>2, <2>m DEF InLanes
    <2>7. Carriers(j)' = {<<"lane", l>>}
      BY <2>1, <2>3, <2>6, <1>t, QueueOnly, Unmoved DEF Carriers
    <2>8. \A k \in Jobs \ {j} : Carriers(k)' = Carriers(k)
      BY <2>1, <2>3, <2>4, Unmoved DEF Carriers
    <2> QED
      BY <2>1, <2>5, <2>7, <2>8, Unmoved DEF Handed
  <1>2. ASSUME LoadClaimed(l) PROVE SomeDropped
    <2> DEFINE r == [lane[l] EXCEPT !.pc = "loaded", !.seen = Load(db[lane[l].job])]
    <2>1. /\ lane[l].pc = "popped" /\ lane' = [lane EXCEPT ![l] = r]
          /\ UNCHANGED <<db, queue, delayed, submit, promoter, recoverer>>
      BY <1>2 DEF LoadClaimed
    <2>2. r.job = lane[l].job /\ r.pc = "loaded"
      BY <1>t DEF TypeOK, LaneState
    <2> HIDE DEF r
    <2>3. \A k : InLanes(k)' = InLanes(k)
      <3>1. lane'[l] = r /\ \A m \in Lanes \ {l} : lane'[m] = lane[m]
        BY <2>1, <1>t DEF TypeOK
      <3> QED
        BY <2>1, <2>2, <3>1 DEF InLanes
    <2> QED
      BY <2>1, <2>3, Unmoved DEF Carriers
  <1>3. ASSUME SaveClaim(l) PROVE \E j \in Jobs : OneChanges(j)
    <2> PICK j \in Jobs : j = lane[l].job
      BY <1>3, <1>t DEF SaveClaim, TypeOK
    <2> DEFINE w == WorkerOf[l]
               r == [lane[l] EXCEPT !.pc = "running", !.seen = Claimed(lane[l].seen, w)]
               doc == ClaimWrite(db[j], lane[l].seen, w)
    <2>1. /\ lane[l].pc = "loaded" /\ lane' = [lane EXCEPT ![l] = r]
          /\ db' = [db EXCEPT ![j] = doc]
          /\ UNCHANGED <<queue, delayed, submit, promoter, recoverer>>
      BY <1>3 DEF SaveClaim
    <2>2. r.job = j /\ r.pc = "running"
      BY <1>t DEF TypeOK, LaneState
    <2>3. /\ doc.status = "PROCESSING" /\ doc.lockedBy = w
          /\ doc.attempts = db[j].attempts + 1 /\ doc.runs = db[j].runs + 1
      <3>1. /\ lane[l].seen.status # "PROCESSING" /\ lane[l].seen.lockedBy = NoWorker
            /\ lane[l].seen.attempts = db[j].attempts
        BY <2>1 DEF IInv, LoadedIsCurrent
      <3>2. db[j] \in Doc /\ w # NoWorker
        BY <1>t DEF TypeOK
      <3> QED
        BY <3>1, <3>2 DEF ClaimWrite, Saved, Doc
    <2>4. w \in Workers
      OBVIOUS
    <2> HIDE DEF r, doc, w
    <2>5. /\ Carriers(j) = {<<"lane", l>>} /\ db[j].lockedBy = NoWorker
          /\ InLanes(j) = {<<"lane", l>>} /\ InQueue(j) = {} /\ InDelayed(j) = {}
          /\ InSubmit(j) = {} /\ InPromoters(j) = {} /\ InRecoverers(j) = {}
      BY <2>1, <1>t, LaneOnly
    <2>6. InLanes(j)' = {} /\ \A k \in Jobs \ {j} : InLanes(k)' = InLanes(k)
      <3>1. lane'[l] = r /\ \A m \in Lanes \ {l} : lane'[m] = lane[m]
        BY <2>1, <1>t DEF TypeOK
      <3>2. \A m \in Lanes \ {l} : ~(lane[m].job = j /\ lane[m].pc \in {"popped", "loaded", "scheduling"})
        <4> SUFFICES ASSUME NEW m \in Lanes \ {l}, lane[m].job = j,
                            lane[m].pc \in {"popped", "loaded", "scheduling"}
                     PROVE  FALSE
          OBVIOUS
        <4>1. <<"lane", m>> \in InLanes(j)
          BY DEF InLanes
        <4> QED
          BY <4>1, <2>5
      <3>3. InLanes(j)' = {}
        BY <2>1, <2>2, <3>1, <3>2 DEF InLanes
      <3>4. \A k \in Jobs \ {j} : InLanes(k)' = InLanes(k)
        BY <2>1, <2>2, <3>1 DEF InLanes
      <3> QED
        BY <3>3, <3>4
    <2>7. db'[j] = doc /\ Locks(j)' = {<<"lock", w>>}
      BY <2>1, <2>3, <2>4, <1>t, DocMoves
    <2>8. Carriers(j)' = {<<"lock", w>>}
      BY <2>1, <2>5, <2>6, <2>7, Unmoved DEF Carriers
    <2>9. \A k \in Jobs \ {j} : Carriers(k)' = Carriers(k) /\ DocKept(k)
      BY <2>1, <2>6, <1>t, DocMoves, Unmoved DEF Carriers
    <2>10. Begun(j)
      BY <2>3, <2>4, <2>5, <2>7, <2>8 DEF Begun
    <2> QED
      BY <2>1, <2>9, <2>10, Unmoved
  <1>4. ASSUME CheckCancellation(l) PROVE SomeDropped
    <2>1. PICK pc \in {"cancelling", "completing"} :
              lane[l].pc = "running" /\ lane' = [lane EXCEPT ![l] = [lane[l] EXCEPT !.pc = pc]]
      BY <1>4, <1>t DEF CheckCancellation, TypeOK
    <2> DEFINE r == [lane[l] EXCEPT !.pc = pc]
    <2>2. r.pc = pc
      BY <1>t DEF TypeOK, LaneState
    <2> HIDE DEF r
    <2>3. \A k : InLanes(k)' = InLanes(k)
      <3>1. lane'[l] = r /\ \A m \in Lanes \ {l} : lane'[m] = lane[m]
        BY <2>1, <1>t DEF TypeOK, r
      <3> QED
        BY <2>1, <2>2, <3>1 DEF InLanes
    <2> QED
      BY <1>4, <2>3, Unmoved DEF Carriers, CheckCancellation
  <1>5. ASSUME FinishAttempt(l) PROVE SomeDropped \/ \E j \in Jobs : OneChanges(j)
    <2> PICK j \in Jobs : j = lane[l].job
      BY <1>5, <1>t DEF FinishAttempt, TypeOK
    <2>1. PICK status \in {"CANCELLED", "COMPLETED"} :
              db' = [db EXCEPT ![j] = Finalize(@, WorkerOf[l], status)]
      BY <1>5 DEF FinishAttempt, Finished
    <2>2. /\ lane[l].pc \in {"completing", "cancelling"}
          /\ lane' = [lane EXCEPT ![l] = IdleLane]
          /\ UNCHANGED <<queue, delayed, submit, promoter, recoverer>>
      BY <1>5 DEF FinishAttempt
    <2>3. \A k : InLanes(k)' = InLanes(k)
      <3>1. lane'[l] = IdleLane /\ \A m \in Lanes \ {l} : lane'[m] = lane[m]
        BY <2>2, <1>t DEF TypeOK
      <3> QED
        BY <2>2, <3>1 DEF InLanes, IdleLane
    <2> QED
      BY <2>1, <2>2, <2>3, <1>t, FinalizeStep, Unmoved DEF Terminal
  <1>6. ASSUME NEW nonRetryable \in BOOLEAN, FailAttempt(l, nonRetryable)
        PROVE  SomeDropped \/ \E j \in Jobs : OneChanges(j)
    <2> PICK j \in Jobs : j = lane[l].job
      BY <1>6, <1>t DEF FailAttempt, TypeOK
    <2> DEFINE status == FailureStatus(lane[l].seen.attempts, nonRetryable)
               r == [lane[l] EXCEPT !.pc = "scheduling"]
    <2>1. /\ lane[l].pc \in {"running", "failing"}
          /\ db' = [db EXCEPT ![j] = Finalize(@, WorkerOf[l], status)]
          /\ lane' = [lane EXCEPT ![l] =
                         IF Lands(db[j], WorkerOf[l]) /\ status = "RETRYING" THEN r ELSE IdleLane]
          /\ UNCHANGED <<queue, delayed, submit, promoter, recoverer>>
      BY <1>6 DEF FailAttempt
    <2>2. status \in {"DEAD_LETTER", "RETRYING"}
      BY FailureStatusIsStatus
    <2>3. r.job = j /\ r.pc = "scheduling"
      BY <1>t DEF TypeOK, LaneState
    <2> HIDE DEF r, status
    <2>4. CASE Lands(db[j], WorkerOf[l]) /\ status = "RETRYING"
      <3>1. lane' = [lane EXCEPT ![l] = r]
        BY <2>1, <2>4
      <3>m. lane'[l] = r /\ \A m \in Lanes \ {l} : lane'[m] = lane[m]
        BY <3>1, <1>t DEF TypeOK
      <3>2. \A k \in Jobs \ {j} : InLanes(k)' = InLanes(k)
        BY <2>1, <2>3, <3>m DEF InLanes
      <3>3. db[j].lockedBy # NoWorker
        BY <2>4 DEF Lands
      <3>4. InLanes(j)' = {<<"lane", l>>}
        <4>1. InLanes(j) = {}
          BY <3>3, <1>t, LockOnly
        <4> QED
          BY <4>1, <2>3, <3>m DEF InLanes
      <3>5. Released(j, "RETRYING") /\ Locks(j)' = {}
        BY <2>1, <2>4, <1>t, FinalizeMoves DEF Status
      <3>6. \A k \in Jobs \ {j} : DocKept(k) /\ Locks(k)' = Locks(k)
        BY <2>1, <2>2, <1>t, FinalizeMoves DEF Status
      <3>7. Carriers(j)' = {<<"lane", l>>}
        BY <3>3, <3>4, <3>5, <2>1, <1>t, LockOnly, Unmoved DEF Carriers
      <3>8. \A k \in Jobs \ {j} : Carriers(k)' = Carriers(k)
        BY <3>2, <3>6, <2>1, Unmoved DEF Carriers
      <3> QED
        BY <3>5, <3>6, <3>7, <3>8, <2>1, Unmoved DEF Retried
    <2>5. CASE ~(Lands(db[j], WorkerOf[l]) /\ status = "RETRYING")
      <3>1. lane' = [lane EXCEPT ![l] = IdleLane]
        BY <2>1, <2>5
      <3>2. \A k : InLanes(k)' = InLanes(k)
        <4>1. lane'[l] = IdleLane /\ \A m \in Lanes \ {l} : lane'[m] = lane[m]
          BY <3>1, <1>t DEF TypeOK
        <4> QED
          BY <2>1, <4>1 DEF InLanes, IdleLane
      <3>3. CASE status = "DEAD_LETTER"
        BY <3>2, <3>3, <2>1, <1>t, FinalizeStep, Unmoved DEF Terminal
      <3>4. CASE ~Lands(db[j], WorkerOf[l])
        <4>1. UNCHANGED db
          BY <3>4, <2>1, <2>2, <1>t, FinalizeMoves DEF Status
        <4> QED
          BY <4>1, <3>2, <2>1, Unmoved DEF Carriers
      <3> QED
        BY <3>3, <3>4, <2>2, <2>5
    <2> QED
      BY <2>4, <2>5
  <1>7. ASSUME ScheduleRetry(l) PROVE \E j \in Jobs : OneChanges(j)
    <2> PICK j \in Jobs : j = lane[l].job
      BY <1>7, <1>t DEF ScheduleRetry, TypeOK
    <2>1. /\ lane[l].pc = "scheduling" /\ lane' = [lane EXCEPT ![l] = IdleLane]
          /\ delayed' = [delayed EXCEPT ![j] = "waiting"]
          /\ UNCHANGED <<db, queue, submit, promoter, recoverer>>
      BY <1>7 DEF ScheduleRetry, PushToDelayedQueue
    <2>2. /\ InDelayed(j)' = {<<"delayed", j>>}
          /\ \A k \in Jobs \ {j} : InDelayed(k)' = InDelayed(k)
      BY <2>1, <1>t DEF InDelayed, TypeOK
    <2>3. /\ Carriers(j) = {<<"lane", l>>} /\ db[j].lockedBy = NoWorker
          /\ InLanes(j) = {<<"lane", l>>} /\ InQueue(j) = {} /\ Locks(j) = {}
          /\ InSubmit(j) = {} /\ InPromoters(j) = {} /\ InRecoverers(j) = {}
      BY <2>1, <1>t, LaneOnly
    <2>4. InLanes(j)' = {} /\ \A k \in Jobs \ {j} : InLanes(k)' = InLanes(k)
      <3>1. lane'[l] = IdleLane /\ \A m \in Lanes \ {l} : lane'[m] = lane[m]
        BY <2>1, <1>t DEF TypeOK
      <3>2. \A m \in Lanes \ {l} : ~(lane[m].job = j /\ lane[m].pc \in {"popped", "loaded", "scheduling"})
        <4> SUFFICES ASSUME NEW m \in Lanes \ {l}, lane[m].job = j,
                            lane[m].pc \in {"popped", "loaded", "scheduling"}
                     PROVE  FALSE
          OBVIOUS
        <4>1. <<"lane", m>> \in InLanes(j)
          BY DEF InLanes
        <4> QED
          BY <4>1, <2>3
      <3>3. InLanes(j)' = {}
        BY <2>1, <3>1, <3>2 DEF InLanes, IdleLane
      <3>4. \A k \in Jobs \ {j} : InLanes(k)' = InLanes(k)
        BY <2>1, <3>1 DEF InLanes, IdleLane
      <3> QED
        BY <3>3, <3>4
    <2>5. Carriers(j)' = {<<"delayed", j>>}
      BY <2>1, <2>2, <2>3, <2>4, Unmoved DEF Carriers
    <2>6. \A k \in Jobs \ {j} : Carriers(k)' = Carriers(k)
      BY <2>1, <2>2, <2>4, Unmoved DEF Carriers
    <2> QED
      BY <2>1, <2>3, <2>5, <2>6, Unmoved DEF Handed
  <1> QED
    BY <1>1, <1>2, <1>3, <1>4, <1>5, <1>6, <1>7 DEF LaneStep

\* AfterPush keeps exactly the list it is given.
LEMMA AfterPushPromoted ==
  ASSUME NEW p \in PromoterState, NEW promoted \in SUBSET Jobs
  PROVE  AfterPush(p, promoted).promoted = promoted
  BY DEF AfterPush, IdlePromoter, PromoterState

LEMMA PromoterJobSteps == ASSUME IInv, NEW t \in Ticks, PromoterStep(t) PROVE JobSteps
  <1> USE PipelineAssumption, DocAssumption DEF JobSteps, OneChanges, SomeDropped, Changes, Stays
  <1>t. TypeOK /\ AtMostOneCarrier
    BY DEF IInv
  <1>1. ASSUME ScanDue(t) PROVE SomeDropped
    <2> DEFINE r == [promoter[t] EXCEPT !.pc = "removing", !.due = {j \in Jobs : delayed[j] = "due"}]
    <2>1. /\ promoter' = [promoter EXCEPT ![t] = r]
          /\ UNCHANGED <<db, queue, delayed, submit, lane, recoverer>>
      BY <1>1 DEF ScanDue
    <2>2. r.promoted = promoter[t].promoted
      BY <1>t DEF TypeOK, PromoterState
    <2> HIDE DEF r
    <2>3. promoter'[t] = r /\ \A u \in Ticks \ {t} : promoter'[u] = promoter[u]
      BY <2>1, <1>t DEF TypeOK
    <2>4. \A k : InPromoters(k)' = InPromoters(k)
      BY <2>2, <2>3 DEF InPromoters
    <2> QED
      BY <2>1, <2>4, Unmoved DEF Carriers
  <1>2. ASSUME NEW j \in Jobs, RemoveDue(t, j) PROVE SomeDropped \/ OneChanges(j)
    <2> DEFINE p == promoter[t]
               promoted == IF delayed[j] # "absent" THEN p.promoted \cup {j} ELSE p.promoted
               r == IF p.due \ {j} = {} THEN AfterPush(p, promoted)
                    ELSE [p EXCEPT !.due = p.due \ {j}, !.promoted = promoted]
    <2>1. /\ delayed' = [delayed EXCEPT ![j] = "absent"]
          /\ promoter' = [promoter EXCEPT ![t] = r]
          /\ UNCHANGED <<db, queue, submit, lane, recoverer>>
      BY <1>2 DEF RemoveDue
    <2>2. r.promoted = promoted
      <3>1. p \in PromoterState /\ promoted \in SUBSET Jobs
        BY <1>t DEF TypeOK, PromoterState
      <3>2. AfterPush(p, promoted).promoted = promoted
        BY <3>1, AfterPushPromoted
      <3>3. [p EXCEPT !.due = p.due \ {j}, !.promoted = promoted].promoted = promoted
        BY <3>1 DEF PromoterState
      <3> QED
        BY <3>2, <3>3
    <2> HIDE DEF r
    <2>3. promoter'[t] = r /\ \A u \in Ticks \ {t} : promoter'[u] = promoter[u]
      BY <2>1, <1>t DEF TypeOK
    <2>4. /\ InDelayed(j)' = {}
          /\ \A k \in Jobs \ {j} : InDelayed(k)' = InDelayed(k)
      BY <2>1, <1>t DEF InDelayed, TypeOK
    <2>5. \A k \in Jobs \ {j} : InPromoters(k)' = InPromoters(k)
      BY <2>2, <2>3 DEF InPromoters
    <2>6. \A k \in Jobs \ {j} : Carriers(k)' = Carriers(k)
      BY <2>1, <2>4, <2>5, Unmoved DEF Carriers
    <2>7. CASE delayed[j] # "absent"
      <3>1. Carriers(j) = {<<"delayed", j>>} /\ db[j].lockedBy = NoWorker /\ InPromoters(j) = {}
        BY <2>7, <1>t, DelayedOnly
      <3>2. j \in r.promoted /\ \A u \in Ticks \ {t} : j \notin promoter[u].promoted
        <4>1. j \in r.promoted
          BY <2>2, <2>7
        <4>2. ASSUME NEW u \in Ticks, j \in promoter[u].promoted PROVE FALSE
          <5>1. <<"promoter", u>> \in InPromoters(j)
            BY <4>2 DEF InPromoters
          <5> QED
            BY <5>1, <3>1
        <4> QED
          BY <4>1, <4>2
      <3>3. InPromoters(j)' = {<<"promoter", t>>}
        BY <2>3, <3>2 DEF InPromoters
      <3>4. Carriers(j)' = {<<"promoter", t>>}
        BY <2>1, <2>4, <2>7, <3>3, <1>t, DelayedOnly, Unmoved DEF Carriers
      <3> QED
        BY <2>1, <2>6, <3>1, <3>4, Unmoved DEF Handed
    <2>8. CASE delayed[j] = "absent"
      <3>1. InDelayed(j)' = InDelayed(j)
        BY <2>4, <2>8 DEF InDelayed
      <3>2. InPromoters(j)' = InPromoters(j)
        BY <2>2, <2>3, <2>8 DEF InPromoters
      <3> QED
        BY <2>1, <2>6, <3>1, <3>2, Unmoved DEF Carriers
    <2> QED
      BY <2>7, <2>8
  <1>3. ASSUME NEW j \in Jobs, LoadPromoted(t, j) PROVE SomeDropped
    <2> DEFINE r == [promoter[t] EXCEPT !.pc = "saving", !.job = j, !.seen = db[j].status]
    <2>1. /\ promoter' = [promoter EXCEPT ![t] = r]
          /\ UNCHANGED <<db, queue, delayed, submit, lane, recoverer>>
      BY <1>3 DEF LoadPromoted
    <2>2. r.promoted = promoter[t].promoted
      BY <1>t DEF TypeOK, PromoterState
    <2> HIDE DEF r
    <2>3. promoter'[t] = r /\ \A u \in Ticks \ {t} : promoter'[u] = promoter[u]
      BY <2>1, <1>t DEF TypeOK
    <2>4. \A k : InPromoters(k)' = InPromoters(k)
      BY <2>2, <2>3 DEF InPromoters
    <2> QED
      BY <2>1, <2>4, Unmoved DEF Carriers
  <1>4. ASSUME SavePromoted(t) PROVE SomeDropped \/ \E j \in Jobs : OneChanges(j)
    <2> PICK j \in Jobs : j = promoter[t].job /\ j \in promoter[t].promoted
      BY <1>4, <1>t DEF SavePromoted, TypeOK, PromoterState
    <2> DEFINE r == [promoter[t] EXCEPT !.pc = "pushing"]
    <2>1. /\ promoter' = [promoter EXCEPT ![t] = r]
          /\ db' = [db EXCEPT ![j] = PromotionWrite(db[j], promoter[t].seen)]
          /\ UNCHANGED <<queue, delayed, submit, lane, recoverer>>
      BY <1>4, <1>t DEF SavePromoted, TypeOK
    <2>2. r.promoted = promoter[t].promoted
      BY <1>t DEF TypeOK, PromoterState
    <2> HIDE DEF r
    <2>3. promoter'[t] = r /\ \A u \in Ticks \ {t} : promoter'[u] = promoter[u]
      BY <2>1, <1>t DEF TypeOK
    <2>4. \A k : InPromoters(k)' = InPromoters(k)
      BY <2>2, <2>3 DEF InPromoters
    <2>5. Carriers(j) = {<<"promoter", t>>} /\ db[j].lockedBy = NoWorker
      BY <1>t, PromoterOnly
    <2>6. CASE promoter[t].seen = "QUEUED"
      <3>1. [db[j] EXCEPT !.status = db[j].status] = db[j]
        BY <1>t DEF TypeOK, Doc
      <3>2. db' = db
        BY <2>1, <2>6, <3>1, <1>t DEF PromotionWrite, Saved, TypeOK
      <3> QED
        BY <2>1, <2>4, <3>2, Unmoved DEF Carriers
    <2>7. CASE promoter[t].seen # "QUEUED"
      <3> DEFINE doc == [db[j] EXCEPT !.status = "QUEUED"]
      <3>1. db' = [db EXCEPT ![j] = doc]
        BY <2>1, <2>7 DEF PromotionWrite, Saved
      <3>2. doc.lockedBy = NoWorker
        BY <2>5, <1>t DEF TypeOK, Doc
      <3>3. db'[j] = doc
        BY <3>1, <1>t DEF TypeOK
      <3> HIDE DEF doc
      <3>4. /\ Locks(j)' = {} /\ \A k \in Jobs \ {j} : DocKept(k) /\ Locks(k)' = Locks(k)
        BY <3>1, <3>2, <1>t, DocMoves
      <3>5. Locks(j) = {}
        BY <2>5 DEF Locks
      <3>6. \A k \in Jobs : Carriers(k)' = Carriers(k)
        BY <2>1, <2>4, <3>4, <3>5, Unmoved DEF Carriers
      <3>7. Promoted(j)
        BY <2>5, <3>3, <3>6 DEF Promoted, doc
      <3> QED
        BY <2>1, <3>4, <3>6, <3>7, Unmoved
    <2> QED
      BY <2>6, <2>7
  <1>5. ASSUME PushPromoted(t) PROVE \E j \in Jobs : OneChanges(j)
    <2>p. promoter[t].pc = "pushing"
      BY <1>5 DEF PushPromoted
    <2> PICK j \in Jobs : j = promoter[t].job /\ j \in promoter[t].promoted
      BY <2>p, <1>t DEF TypeOK, PromoterState
    <2> DEFINE r == AfterPush(promoter[t], promoter[t].promoted \ {j})
    <2>1. /\ queue' = queue \cup {j} /\ promoter' = [promoter EXCEPT ![t] = r]
          /\ UNCHANGED <<db, delayed, submit, lane, recoverer>>
      BY <1>5 DEF PushPromoted, PushJobToQueue
    <2>2. r.promoted = promoter[t].promoted \ {j}
      <3>1. promoter[t] \in PromoterState /\ promoter[t].promoted \ {j} \in SUBSET Jobs
        BY <1>t DEF TypeOK, PromoterState
      <3> QED
        BY <3>1, AfterPushPromoted
    <2> HIDE DEF r
    <2>3. promoter'[t] = r /\ \A u \in Ticks \ {t} : promoter'[u] = promoter[u]
      BY <2>1, <1>t DEF TypeOK
    <2>4. /\ InQueue(j)' = {<<"queue", j>>}
          /\ \A k \in Jobs \ {j} : InQueue(k)' = InQueue(k)
      BY <2>1 DEF InQueue
    <2>5. \A k \in Jobs \ {j} : InPromoters(k)' = InPromoters(k)
      BY <2>2, <2>3 DEF InPromoters
    <2>6. Carriers(j) = {<<"promoter", t>>} /\ db[j].lockedBy = NoWorker
      BY <1>t, PromoterOnly
    <2>7. \A u \in Ticks \ {t} : j \notin promoter[u].promoted
      <3> SUFFICES ASSUME NEW u \in Ticks \ {t}, j \in promoter[u].promoted PROVE FALSE
        OBVIOUS
      <3>1. <<"promoter", u>> \in InPromoters(j)
        BY DEF InPromoters
      <3> QED
        BY <3>1, <2>6 DEF Carriers
    <2>8. InPromoters(j)' = {}
      BY <2>2, <2>3, <2>7 DEF InPromoters
    <2>9. Carriers(j)' = {<<"queue", j>>}
      BY <2>1, <2>4, <2>8, <1>t, PromoterOnly, Unmoved DEF Carriers
    <2>10. \A k \in Jobs \ {j} : Carriers(k)' = Carriers(k)
      BY <2>1, <2>4, <2>5, Unmoved DEF Carriers
    <2> QED
      BY <2>1, <2>6, <2>9, <2>10, Unmoved DEF Handed
  <1> QED
    BY <1>1, <1>2, <1>3, <1>4, <1>5 DEF PromoterStep

LEMMA RecovererJobSteps == ASSUME IInv, NEW t \in Ticks, RecovererStep(t) PROVE JobSteps
  <1> USE PipelineAssumption, DocAssumption DEF JobSteps, OneChanges, SomeDropped, Changes, Stays
  <1>t. TypeOK /\ AtMostOneCarrier
    BY DEF IInv
  <1>1. ASSUME ScanStale(t) PROVE SomeDropped
    <2>1. UNCHANGED <<db, queue, delayed, submit, lane, promoter>>
      BY <1>1 DEF ScanStale
    <2>2. PICK stale : recoverer' = [recoverer EXCEPT ![t] = [recoverer[t] EXCEPT !.stale = stale]]
      BY <1>1 DEF ScanStale
    <2> DEFINE r == [recoverer[t] EXCEPT !.stale = stale]
    <2>3. r.retry = recoverer[t].retry
      BY <1>t DEF TypeOK, RecovererState
    <2>4. recoverer' = [recoverer EXCEPT ![t] = r]
      BY <2>2
    <2> HIDE DEF r
    <2>5. recoverer'[t] = r /\ \A u \in Ticks \ {t} : recoverer'[u] = recoverer[u]
      BY <2>4, <1>t DEF TypeOK
    <2>6. \A k : InRecoverers(k)' = InRecoverers(k)
      BY <2>3, <2>5 DEF InRecoverers
    <2> QED
      BY <2>1, <2>6, Unmoved DEF Carriers
  <1>2. ASSUME NEW s \in recoverer[t].stale, RecoverJob(t, s)
        PROVE  SomeDropped \/ \E j \in Jobs : OneChanges(j)
    <2>s. s \in StaleJob /\ s.lockedBy \in Workers
      BY <1>t DEF TypeOK, RecovererState, IInv, StaleHasOwner
    <2> PICK j \in Jobs : j = s.job
      BY <2>s DEF StaleJob
    <2> PICK w \in Workers : w = s.lockedBy
      BY <2>s
    <2> DEFINE status == FailureStatus(s.attempts, FALSE)
               rest == recoverer[t].stale \ {s}
    <2>1. /\ recoverer[t].retry = NoJob
          /\ db' = [db EXCEPT ![j] = Finalize(@, w, status)]
          /\ recoverer' = [recoverer EXCEPT ![t] =
                 [stale |-> rest,
                  retry |-> IF Lands(db[j], w) /\ status = "RETRYING" THEN j ELSE NoJob]]
          /\ UNCHANGED <<queue, delayed, submit, lane, promoter>>
      BY <1>2 DEF RecoverJob
    <2>2. status \in {"DEAD_LETTER", "RETRYING"}
      BY FailureStatusIsStatus
    <2> HIDE DEF status, rest
    <2>3. \A u \in Ticks \ {t} : recoverer'[u] = recoverer[u]
      BY <2>1, <1>t DEF TypeOK
    <2>4. CASE Lands(db[j], w) /\ status = "RETRYING"
      <3>1. recoverer'[t].retry = j
        BY <2>1, <2>4, <1>t DEF TypeOK
      <3>2. \A k \in Jobs \ {j} : InRecoverers(k)' = InRecoverers(k)
        BY <2>1, <2>3, <3>1 DEF InRecoverers
      <3>3. db[j].lockedBy # NoWorker
        BY <2>4 DEF Lands
      <3>4. \A u \in Ticks : recoverer[u].retry # j
        <4> SUFFICES ASSUME NEW u \in Ticks, recoverer[u].retry = j PROVE FALSE
          OBVIOUS
        <4>1. <<"recoverer", u>> \in InRecoverers(j)
          BY DEF InRecoverers
        <4> QED
          BY <4>1, <3>3, <1>t, LockOnly
      <3>5. InRecoverers(j)' = {<<"recoverer", t>>}
        BY <2>3, <3>1, <3>4 DEF InRecoverers
      <3>6. Released(j, "RETRYING") /\ Locks(j)' = {}
        BY <2>1, <2>4, <1>t, FinalizeMoves DEF Status
      <3>7. \A k \in Jobs \ {j} : DocKept(k) /\ Locks(k)' = Locks(k)
        BY <2>1, <2>2, <1>t, FinalizeMoves DEF Status
      <3>8. Carriers(j)' = {<<"recoverer", t>>}
        BY <3>3, <3>5, <3>6, <2>1, <1>t, LockOnly, Unmoved DEF Carriers
      <3>9. \A k \in Jobs \ {j} : Carriers(k)' = Carriers(k)
        BY <3>2, <3>7, <2>1, Unmoved DEF Carriers
      <3> QED
        BY <3>6, <3>7, <3>8, <3>9, <2>1, Unmoved DEF Retried
    <2>5. CASE ~(Lands(db[j], w) /\ status = "RETRYING")
      <3>1. recoverer'[t].retry = NoJob
        BY <2>1, <2>5, <1>t DEF TypeOK
      <3>2. \A k : InRecoverers(k)' = InRecoverers(k)
        BY <2>1, <2>3, <3>1 DEF InRecoverers
      <3>3. CASE status = "DEAD_LETTER"
        BY <3>2, <3>3, <2>1, <1>t, FinalizeStep, Unmoved DEF Terminal
      <3>4. CASE ~Lands(db[j], w)
        <4>1. UNCHANGED db
          BY <3>4, <2>1, <2>2, <1>t, FinalizeMoves DEF Status
        <4> QED
          BY <4>1, <3>2, <2>1, Unmoved DEF Carriers
      <3> QED
        BY <3>3, <3>4, <2>2, <2>5
    <2> QED
      BY <2>4, <2>5
  <1>3. ASSUME ScheduleRecovered(t) PROVE \E j \in Jobs : OneChanges(j)
    <2> PICK j \in Jobs : j = recoverer[t].retry
      BY <1>3, <1>t DEF ScheduleRecovered, TypeOK, RecovererState
    <2> DEFINE r == [recoverer[t] EXCEPT !.retry = NoJob]
    <2>1. /\ delayed' = [delayed EXCEPT ![j] = "waiting"]
          /\ recoverer' = [recoverer EXCEPT ![t] = r]
          /\ UNCHANGED <<db, queue, submit, lane, promoter>>
      BY <1>3 DEF ScheduleRecovered, PushToDelayedQueue
    <2>2. r.retry = NoJob
      BY <1>t DEF TypeOK, RecovererState
    <2> HIDE DEF r
    <2>3. recoverer'[t] = r /\ \A u \in Ticks \ {t} : recoverer'[u] = recoverer[u]
      BY <2>1, <1>t DEF TypeOK
    <2>4. /\ InDelayed(j)' = {<<"delayed", j>>}
          /\ \A k \in Jobs \ {j} : InDelayed(k)' = InDelayed(k)
      BY <2>1, <1>t DEF InDelayed, TypeOK
    <2>5. \A k \in Jobs \ {j} : InRecoverers(k)' = InRecoverers(k)
      BY <2>2, <2>3 DEF InRecoverers
    <2>6. /\ Carriers(j) = {<<"recoverer", t>>} /\ InRecoverers(j) = {<<"recoverer", t>>}
          /\ InQueue(j) = {} /\ InSubmit(j) = {} /\ InLanes(j) = {}
          /\ InPromoters(j) = {} /\ Locks(j) = {} /\ db[j].lockedBy = NoWorker
      BY <1>t, RecovererOnly
    <2>7. \A u \in Ticks \ {t} : recoverer[u].retry # j
      <3> SUFFICES ASSUME NEW u \in Ticks \ {t}, recoverer[u].retry = j PROVE FALSE
        OBVIOUS
      <3>1. <<"recoverer", u>> \in InRecoverers(j)
        BY DEF InRecoverers
      <3> QED
        BY <3>1, <2>6
    <2>8. InRecoverers(j)' = {}
      BY <2>2, <2>3, <2>7 DEF InRecoverers
    <2>9. Carriers(j)' = {<<"delayed", j>>}
      BY <2>1, <2>4, <2>6, <2>8, Unmoved DEF Carriers
    <2>10. \A k \in Jobs \ {j} : Carriers(k)' = Carriers(k)
      BY <2>1, <2>4, <2>5, Unmoved DEF Carriers
    <2> QED
      BY <2>1, <2>6, <2>9, <2>10, Unmoved DEF Handed
  <1> QED
    BY <1>1, <1>2, <1>3 DEF RecovererStep

LEMMA TimeJobSteps == ASSUME IInv, NEW j \in Jobs, TimePasses(j) PROVE JobSteps
  <1> USE DEF JobSteps, SomeDropped, Stays
  <1>t. TypeOK /\ AtMostOneCarrier
    BY DEF IInv
  <1>1. CASE BecomesDue(j)
    <2>1. /\ delayed[j] = "waiting" /\ delayed' = [delayed EXCEPT ![j] = "due"]
          /\ UNCHANGED <<db, queue, submit, lane, promoter, recoverer>>
      BY <1>1 DEF BecomesDue, workerVars
    <2>2. \A k \in Jobs : InDelayed(k)' = InDelayed(k)
      BY <2>1, <1>t DEF InDelayed, TypeOK
    <2> QED
      BY <2>1, <2>2, Unmoved DEF Carriers
  <1>2. CASE LockRunsOut(j)
    <2> DEFINE r == [db[j] EXCEPT !.lock = "past"]
    <2>1. /\ db' = [db EXCEPT ![j] = r]
          /\ UNCHANGED <<queue, delayed, submit, lane, promoter, recoverer>>
      BY <1>2 DEF LockRunsOut, workerVars
    <2>2. /\ r.status = db[j].status /\ r.attempts = db[j].attempts
          /\ r.lockedBy = db[j].lockedBy /\ r.runs = db[j].runs
      BY <1>t DEF Doc, TypeOK
    <2> HIDE DEF r
    <2>3. \A k \in Jobs : DocKept(k) /\ Locks(k)' = Locks(k)
      BY <2>1, <2>2, <1>t DEF Locks, DocKept, TypeOK
    <2> QED
      BY <2>1, <2>3, Unmoved DEF Carriers
  <1> QED
    BY <1>1, <1>2 DEF TimePasses

\* A failure takes carriers away and gives none.
LEMMA Loses ==
  ASSUME AtMostOneCarrier, NEW k \in Jobs, UNCHANGED db, faults' > 0,
         Carriers(k)' \subseteq Carriers(k)
  PROVE  Stays(k) \/ Dropped(k)
  <1>1. DocKept(k) /\ Locks(k)' = Locks(k)
    BY Unmoved
  <1>2. CASE Carriers(k)' = Carriers(k)
    BY <1>1, <1>2 DEF Stays
  <1>3. CASE Carriers(k)' # Carriers(k)
    <2>1. PICK x \in Carriers(k) : x \notin Carriers(k)'
      BY <1>3
    <2>2. Carriers(k) = {x}
      BY <2>1 DEF AtMostOneCarrier
    <2>3. Carriers(k)' = {}
      BY <2>1, <2>2
    <2>4. Locks(k) = {}
      BY <1>1, <2>3 DEF Carriers
    <2>5. db[k].lockedBy = NoWorker
      BY <2>4 DEF Locks
    <2> QED
      BY <1>1, <2>2, <2>3, <2>5 DEF Dropped
  <1> QED
    BY <1>2, <1>3

LEMMA FaultJobSteps == ASSUME IInv, FaultStep PROVE JobSteps
  <1> USE PipelineAssumption, DocAssumption DEF JobSteps, SomeDropped
  <1>t. TypeOK /\ AtMostOneCarrier
    BY DEF IInv
  <1>f. faults' > 0
    BY <1>t DEF FaultStep, Crash, PromotionFails, RecoveryFails, FinishFails, SubmissionFails,
                CancellationFails, Fault, TypeOK
  <1>1. ASSUME NEW w \in Workers, Crash(w) PROVE SomeDropped
    <2>1. /\ lane' = [l \in Lanes |-> IF WorkerOf[l] = w THEN IdleLane ELSE lane[l]]
          /\ promoter' = [t \in Ticks |-> IF WorkerOf[t] = w THEN IdlePromoter ELSE promoter[t]]
          /\ recoverer' = [t \in Ticks |-> IF WorkerOf[t] = w THEN IdleRecoverer ELSE recoverer[t]]
          /\ UNCHANGED <<db, queue, delayed, submit>>
      BY <1>1 DEF Crash
    <2>2. \A k \in Jobs : InLanes(k)' \subseteq InLanes(k)
      <3>1. \A l \in Lanes : lane'[l] = IdleLane \/ lane'[l] = lane[l]
        BY <2>1
      <3> QED
        BY <3>1 DEF InLanes, IdleLane
    <2>3. \A k \in Jobs : InPromoters(k)' \subseteq InPromoters(k)
      <3>1. \A t \in Ticks : promoter'[t] = IdlePromoter \/ promoter'[t] = promoter[t]
        BY <2>1
      <3> QED
        BY <3>1 DEF InPromoters, IdlePromoter
    <2>4. \A k \in Jobs : InRecoverers(k)' \subseteq InRecoverers(k)
      <3>1. \A t \in Ticks : recoverer'[t] = IdleRecoverer \/ recoverer'[t] = recoverer[t]
        BY <2>1
      <3> QED
        BY <3>1 DEF InRecoverers, IdleRecoverer
    <2>5. \A k \in Jobs : Carriers(k)' \subseteq Carriers(k)
      BY <2>1, <2>2, <2>3, <2>4, Unmoved DEF Carriers
    <2> QED
      BY <2>1, <2>5, <1>t, <1>f, Loses, Unmoved
  <1>2. ASSUME NEW t \in Ticks, PromotionFails(t) PROVE SomeDropped
    <2>1. /\ promoter' = [promoter EXCEPT ![t] = IdlePromoter]
          /\ UNCHANGED <<db, queue, delayed, submit, lane, recoverer>>
      BY <1>2 DEF PromotionFails
    <2>2. \A k \in Jobs : InPromoters(k)' \subseteq InPromoters(k)
      <3>1. \A u \in Ticks : promoter'[u] = IdlePromoter \/ promoter'[u] = promoter[u]
        BY <2>1, <1>t DEF TypeOK
      <3> QED
        BY <3>1 DEF InPromoters, IdlePromoter
    <2>3. \A k \in Jobs : Carriers(k)' \subseteq Carriers(k)
      BY <2>1, <2>2, Unmoved DEF Carriers
    <2> QED
      BY <2>1, <2>3, <1>t, <1>f, Loses, Unmoved
  <1>3. ASSUME NEW t \in Ticks, RecoveryFails(t) PROVE SomeDropped
    <2>1. /\ recoverer' = [recoverer EXCEPT ![t] = IdleRecoverer]
          /\ UNCHANGED <<db, queue, delayed, submit, lane, promoter>>
      BY <1>3 DEF RecoveryFails
    <2>2. \A k \in Jobs : InRecoverers(k)' \subseteq InRecoverers(k)
      <3>1. \A u \in Ticks : recoverer'[u] = IdleRecoverer \/ recoverer'[u] = recoverer[u]
        BY <2>1, <1>t DEF TypeOK
      <3> QED
        BY <3>1 DEF InRecoverers, IdleRecoverer
    <2>3. \A k \in Jobs : Carriers(k)' \subseteq Carriers(k)
      BY <2>1, <2>2, Unmoved DEF Carriers
    <2> QED
      BY <2>1, <2>3, <1>t, <1>f, Loses, Unmoved
  <1>4. ASSUME NEW l \in Lanes, NEW applied \in BOOLEAN, FinishFails(l, applied)
        PROVE  SomeDropped \/ \E j \in Jobs : OneChanges(j)
    <2> DEFINE r == [lane[l] EXCEPT !.pc = "failing"]
    <2>1. /\ lane[l].pc \in {"completing", "cancelling"}
          /\ lane' = [lane EXCEPT ![l] = r]
          /\ db' = Finished(l) \/ db' = db
          /\ UNCHANGED <<queue, delayed, submit, promoter, recoverer>>
      BY <1>4 DEF FinishFails
    <2>2. r.pc = "failing"
      BY <1>t DEF TypeOK, LaneState
    <2> HIDE DEF r
    <2>3. lane'[l] = r /\ \A m \in Lanes \ {l} : lane'[m] = lane[m]
      BY <2>1, <1>t DEF TypeOK
    <2>4. \A k : InLanes(k)' = InLanes(k)
      BY <2>1, <2>2, <2>3 DEF InLanes
    <2>5. CASE db' = db
      BY <2>1, <2>4, <2>5, Unmoved DEF Carriers, Stays
    <2>6. CASE db' = Finished(l)
      <3> PICK j \in Jobs : j = lane[l].job
        BY <2>1, <1>t DEF TypeOK
      <3>1. PICK status \in {"CANCELLED", "COMPLETED"} :
                db' = [db EXCEPT ![j] = Finalize(@, WorkerOf[l], status)]
        BY <2>6 DEF Finished
      <3> QED
        BY <2>1, <2>4, <3>1, <1>t, FinalizeStep, Unmoved DEF Terminal
    <2> QED
      BY <2>1, <2>5, <2>6
  <1>5. ASSUME NEW j \in Jobs, SubmissionFails(j) PROVE SomeDropped
    <2>1. /\ submit[j] # "new" /\ submit' = [submit EXCEPT ![j] = "done"]
          /\ UNCHANGED <<db, queue, delayed, lane, promoter, recoverer>>
      BY <1>5 DEF SubmissionFails, workerVars
    <2>2. \A k \in Jobs : InSubmit(k)' \subseteq InSubmit(k) /\ SubmitKept(k)
      BY <2>1, <1>t DEF InSubmit, SubmitKept, TypeOK
    <2>3. \A k \in Jobs : Carriers(k)' \subseteq Carriers(k)
      BY <2>1, <2>2, Unmoved DEF Carriers
    <2> QED
      BY <2>1, <2>2, <2>3, <1>t, <1>f, Loses
  <1>6. ASSUME NEW c \in Cancels, CancellationFails(c) PROVE SomeDropped
    BY <1>6, Unmoved DEF CancellationFails, workerVars, Carriers, Stays
  <1> QED
    BY <1>1, <1>2, <1>3, <1>4, <1>5, <1>6 DEF FaultStep

LEMMA NextJobSteps == ASSUME IInv, [Next]_vars PROVE JobSteps
  <1>1. CASE UNCHANGED vars
    BY <1>1, Unmoved DEF vars, JobSteps, SomeDropped, Stays, Carriers
  <1> QED
    BY <1>1, ApiJobSteps, LaneJobSteps, PromoterJobSteps, RecovererJobSteps, TimeJobSteps,
       FaultJobSteps DEF Next

-----------------------------------------------------------------------------
(* The invariant holds of each job after any of JobSteps *)

LEMMA EachJob ==
  ASSUME JobSteps, NEW k \in Jobs
  PROVE  (SubmitKept(k) /\ Stays(k)) \/ Changes(k)
  BY DEF JobSteps, SomeDropped, OneChanges, Changes

LEMMA ReleaseKeeps ==
  ASSUME NEW doc \in Doc, NEW status
  PROVE  /\ Release(doc, status).status = status
         /\ Release(doc, status).attempts = doc.attempts
         /\ Release(doc, status).runs = doc.runs
         /\ Release(doc, status).lockedBy = NoWorker
  BY DEF Release, Doc

LEMMA LockedIsCarried ==
  ASSUME NEW k \in Jobs, db[k].lockedBy \in Workers
  PROVE  Carriers(k) # {}
  <1>1. <<"lock", db[k].lockedBy>> \in Locks(k)
    BY DocAssumption DEF Locks
  <1> QED
    BY <1>1 DEF Carriers

\* A job nothing carries can only be submitted or marked CANCELLED.
LEMMA NowhereStays ==
  ASSUME JobSteps, NEW k \in Jobs, Carriers(k) = {}, submit[k] # "new"
  PROVE  Stays(k) \/ Cancelled(k)
  BY EachJob, LockedIsCarried
     DEF Changes, Created, Handed, Dropped, Promoted, Begun, Retried, EndedAs, Released

LEMMA JobKeepsCarriers ==
  ASSUME IInv, JobSteps, NEW k \in Jobs
  PROVE  \A c, d \in Carriers(k)' : c = d
  <1>1. \A c, d \in Carriers(k) : c = d
    BY DEF IInv, AtMostOneCarrier
  <1>2. \/ Carriers(k)' = Carriers(k)
        \/ Carriers(k)' = {}
        \/ \E y : Carriers(k)' = {y}
    BY EachJob DEF Stays, Changes, Created, Handed, Dropped, Promoted, Begun, Retried,
                   EndedAs, Cancelled
  <1> QED
    BY <1>1, <1>2

LEMMA JobKeepsAttempts ==
  ASSUME IInv, JobSteps, NEW k \in Jobs
  PROVE  db'[k].attempts = db'[k].runs
  <1>1. db[k].attempts = db[k].runs /\ db[k] \in Doc
    BY DEF IInv, AttemptsCountRuns, TypeOK
  <1>2. \/ db'[k].attempts = db[k].attempts /\ db'[k].runs = db[k].runs
        \/ db'[k].attempts = db[k].attempts + 1 /\ db'[k].runs = db[k].runs + 1
        \/ db'[k] = NewDoc
    <2>1. CASE Promoted(k) \/ Cancelled(k)
      BY <1>1, <2>1 DEF Promoted, Cancelled, Doc
    <2>2. ASSUME NEW status, Released(k, status)
          PROVE  db'[k].attempts = db[k].attempts /\ db'[k].runs = db[k].runs
      BY <1>1, <2>2, ReleaseKeeps DEF Released
    <2> QED
      BY EachJob, <2>1, <2>2
         DEF Stays, DocKept, Changes, Created, Handed, Dropped, Begun, Retried, EndedAs
  <1> QED
    BY <1>1, <1>2 DEF NewDoc, NoDoc

LEMMA JobKeepsStatus ==
  ASSUME IInv, JobSteps, NEW k \in Jobs
  PROVE  /\ db'[k].status = "PROCESSING" => db'[k].lockedBy \in Workers
         /\ db'[k].status \in {"COMPLETED", "DEAD_LETTER"} => Carriers(k)' = {}
         /\ submit'[k] # "new" => db'[k].status # "ABSENT"
  <1>1. /\ db[k] \in Doc
        /\ db[k].status = "PROCESSING" => db[k].lockedBy \in Workers
        /\ db[k].status \in {"COMPLETED", "DEAD_LETTER"} => Carriers(k) = {}
        /\ submit[k] # "new" => db[k].status # "ABSENT"
    BY DEF IInv, TypeOK, ProcessingIsLocked, FinishedIsNowhere, UnsubmittedIsNowhere
  <1>2. CASE SubmitKept(k) /\ (Stays(k) \/ Handed(k) \/ Dropped(k))
    BY <1>1, <1>2 DEF Stays, DocKept, Handed, Dropped, SubmitKept
  <1>3. CASE Created(k)
    BY <1>3 DEF Created, NewDoc, NoDoc
  <1>4. CASE Promoted(k) \/ Cancelled(k)
    BY <1>1, <1>4 DEF Promoted, Cancelled, Doc
  <1>5. CASE Begun(k)
    BY <1>5 DEF Begun
  <1>6. CASE Retried(k)
    BY <1>1, <1>6, ReleaseKeeps DEF Retried, Released
  <1>7. ASSUME NEW status \in Terminal, EndedAs(k, status)
        PROVE  db'[k].status \notin {"PROCESSING", "ABSENT"} /\ Carriers(k)' = {}
    BY <1>1, <1>7, ReleaseKeeps DEF EndedAs, Released, Terminal
  <1> QED
    BY <1>2, <1>3, <1>4, <1>5, <1>6, <1>7, EachJob DEF Changes

LEMMA JobKeepsUnsubmitted ==
  ASSUME IInv, JobSteps, NEW k \in Jobs, submit'[k] = "new"
  PROVE  Carriers(k)' = {} /\ db'[k].status = "ABSENT" /\ db'[k].runs = 0
  <1>1. SubmitKept(k)
    BY EachJob DEF Changes, Created
  <1>2. /\ submit[k] = "new" /\ Carriers(k) = {}
        /\ db[k].status = "ABSENT" /\ db[k].runs = 0
    BY <1>1 DEF SubmitKept, IInv, UnsubmittedIsNowhere
  <1>3. Stays(k)
    BY <1>2, EachJob, LockedIsCarried
       DEF Changes, Created, Handed, Dropped, Promoted, Begun, Retried, EndedAs, Released,
           Cancelled
  <1> QED
    BY <1>2, <1>3 DEF Stays, DocKept

-----------------------------------------------------------------------------
(* The local states of lanes, recoverers and requests *)

\* A lane between findById and save() got there by LoadClaimed.
LEMMA LaneLoads ==
  ASSUME TypeOK, [Next]_vars, NEW l \in Lanes, lane'[l].pc = "loaded"
  PROVE  lane'[l] = lane[l] \/ LoadClaimed(l)
  <1>1. CASE UNCHANGED lane
    BY <1>1
  <1>2. ASSUME NEW m \in Lanes, NEW r, lane' = [lane EXCEPT ![m] = r], r.pc # "loaded"
        PROVE  lane'[l] = lane[l]
    BY <1>2 DEF TypeOK
  <1>3. ASSUME NEW m \in Lanes, NEW pc, pc # "loaded",
               NEW job, lane' = [lane EXCEPT ![m] = [lane[m] EXCEPT !.pc = pc, !.job = job]]
        PROVE  lane'[l] = lane[l]
    <2> DEFINE r == [lane[m] EXCEPT !.pc = pc, !.job = job]
    <2>1. r.pc = pc
      BY DEF TypeOK, LaneState
    <2>2. lane' = [lane EXCEPT ![m] = r]
      BY <1>3
    <2> HIDE DEF r
    <2> QED
      BY <1>2, <1>3, <2>1, <2>2
  <1>4. ASSUME NEW m \in Lanes, NEW pc, pc # "loaded",
               lane' = [lane EXCEPT ![m] = [lane[m] EXCEPT !.pc = pc]]
        PROVE  lane'[l] = lane[l]
    <2> DEFINE r == [lane[m] EXCEPT !.pc = pc]
    <2>1. r.pc = pc
      BY DEF TypeOK, LaneState
    <2>2. lane' = [lane EXCEPT ![m] = r]
      BY <1>4
    <2> HIDE DEF r
    <2> QED
      BY <1>2, <1>4, <2>1, <2>2
  <1>5. IdleLane.pc # "loaded"
    BY DEF IdleLane
  <1>6. ASSUME NEW m \in Lanes, LaneStep(m) PROVE lane'[l] = lane[l] \/ LoadClaimed(l)
    <2>1. ASSUME NEW j \in Jobs, ClaimNextJob(m, j) PROVE lane'[l] = lane[l]
      BY <2>1, <1>3 DEF ClaimNextJob
    <2>2. ASSUME LoadClaimed(m), m # l PROVE lane'[l] = lane[l]
      BY <2>2 DEF LoadClaimed, TypeOK
    <2>3. ASSUME SaveClaim(m) PROVE lane'[l] = lane[l]
      <3> DEFINE r == [lane[m] EXCEPT !.pc = "running", !.seen = Claimed(lane[m].seen, WorkerOf[m])]
      <3>1. lane' = [lane EXCEPT ![m] = r]
        BY <2>3 DEF SaveClaim
      <3>2. r.pc = "running"
        BY DEF TypeOK, LaneState
      <3> HIDE DEF r
      <3> QED
        BY <3>1, <3>2, <1>2
    <2>4. ASSUME CheckCancellation(m) PROVE lane'[l] = lane[l]
      BY <2>4, <1>4 DEF CheckCancellation
    <2>5. ASSUME FinishAttempt(m) \/ ScheduleRetry(m) PROVE lane'[l] = lane[l]
      BY <2>5, <1>2, <1>5 DEF FinishAttempt, ScheduleRetry
    <2>6. ASSUME NEW nonRetryable \in BOOLEAN, FailAttempt(m, nonRetryable)
          PROVE  lane'[l] = lane[l]
      <3>1. \/ lane' = [lane EXCEPT ![m] = [lane[m] EXCEPT !.pc = "scheduling"]]
            \/ lane' = [lane EXCEPT ![m] = IdleLane]
        BY <2>6 DEF FailAttempt
      <3> QED
        BY <3>1, <1>2, <1>4, <1>5
    <2> QED
      BY <1>6, <2>1, <2>2, <2>3, <2>4, <2>5, <2>6 DEF LaneStep
  <1>7. ASSUME FaultStep PROVE lane'[l] = lane[l]
    <2>1. ASSUME NEW w \in Workers, Crash(w) PROVE lane'[l] = lane[l]
      BY <2>1, <1>5 DEF Crash
    <2>2. ASSUME NEW m \in Lanes, NEW applied \in BOOLEAN, FinishFails(m, applied)
          PROVE  lane'[l] = lane[l]
      BY <2>2, <1>4 DEF FinishFails
    <2>3. ASSUME NEW t \in Ticks, PromotionFails(t) \/ RecoveryFails(t) PROVE lane'[l] = lane[l]
      BY <2>3 DEF PromotionFails, RecoveryFails
    <2>4. ASSUME NEW j \in Jobs, SubmissionFails(j) PROVE lane'[l] = lane[l]
      BY <2>4 DEF SubmissionFails, workerVars
    <2>5. ASSUME NEW c \in Cancels, CancellationFails(c) PROVE lane'[l] = lane[l]
      BY <2>5 DEF CancellationFails, workerVars
    <2> QED
      BY <1>7, <2>1, <2>2, <2>3, <2>4, <2>5 DEF FaultStep
  <1>8. ASSUME ApiStep PROVE lane' = lane
    BY <1>8 DEF ApiStep, CreateJob, EnqueueNewJob, ScheduleNewJob, LoadForCancel,
                RemoveJobFromQueue, RemoveJobFromDelayedQueue, SaveCancelled,
                SaveCancellationRequest, workerVars
  <1>9. ASSUME NEW t \in Ticks, PromoterStep(t) \/ RecovererStep(t) PROVE lane' = lane
    BY <1>9 DEF PromoterStep, RecovererStep, ScanDue, RemoveDue, LoadPromoted, SavePromoted,
                PushPromoted, ScanStale, RecoverJob, ScheduleRecovered
  <1>10. ASSUME NEW j \in Jobs, TimePasses(j) PROVE lane' = lane
    BY <1>10 DEF TimePasses, BecomesDue, LockRunsOut, workerVars
  <1> QED
    BY <1>1, <1>6, <1>7, <1>8, <1>9, <1>10 DEF Next, vars

LEMMA LoadedStays == ASSUME IInv, [Next]_vars PROVE LoadedIsCurrent'
  <1> USE DocAssumption
  <1>t. TypeOK /\ AtMostOneCarrier /\ LoadedIsCurrent /\ JobSteps
    BY NextJobSteps DEF IInv
  <1> SUFFICES ASSUME NEW l \in Lanes, lane'[l].pc = "loaded"
               PROVE  /\ lane'[l].seen.status # "PROCESSING"
                      /\ lane'[l].seen.lockedBy = NoWorker
                      /\ lane'[l].seen.attempts = db'[lane'[l].job].attempts
    BY DEF LoadedIsCurrent
  <1>1. CASE LoadClaimed(l)
    <2> PICK j \in Jobs : j = lane[l].job
      BY <1>1, <1>t DEF LoadClaimed, TypeOK
    <2>1. /\ lane[l].pc = "popped" /\ db' = db
          /\ lane'[l] = [lane[l] EXCEPT !.pc = "loaded", !.seen = Load(db[j])]
      BY <1>1, <1>t DEF LoadClaimed, TypeOK
    <2>2. lane'[l].seen = Load(db[j]) /\ lane'[l].job = j
      BY <2>1, <1>t DEF TypeOK, LaneState
    <2>3. db[j].lockedBy = NoWorker
      BY <2>1, <1>t, LaneOnly
    <2>4. db[j].status # "PROCESSING"
      BY <2>3 DEF IInv, ProcessingIsLocked
    <2> QED
      BY <2>1, <2>2, <2>3, <2>4 DEF Load
  <1>2. CASE lane'[l] = lane[l]
    <2> PICK j \in Jobs : j = lane[l].job
      BY <1>2, <1>t DEF TypeOK
    <2>1. /\ lane[l].seen.status # "PROCESSING" /\ lane[l].seen.lockedBy = NoWorker
          /\ lane[l].seen.attempts = db[j].attempts
      BY <1>2, <1>t DEF LoadedIsCurrent
    <2>2. Carriers(j) = {<<"lane", l>>} /\ db[j].lockedBy = NoWorker
      BY <1>2, <1>t, LaneOnly
    <2>3. <<"lane", l>> \in Carriers(j)'
      <3>1. <<"lane", l>> \in InLanes(j)'
        BY <1>2 DEF InLanes
      <3> QED
        BY <3>1 DEF Carriers
    <2>4. ~Begun(j)
      <3> SUFFICES ASSUME Begun(j) PROVE FALSE
        OBVIOUS
      <3>1. Carriers(j)' = {<<"lock", db'[j].lockedBy>>}
        BY DEF Begun
      <3>2. <<"lane", l>> = <<"lock", db'[j].lockedBy>>
        BY <2>3, <3>1
      <3> QED
        BY <3>2
    <2>5. ~Created(j)
      BY <2>2 DEF Created, IInv, UnsubmittedIsNowhere
    <2>6. \A status : ~Released(j, status)
      BY <2>2 DEF Released
    <2>7. db[j] \in Doc
      BY <1>t DEF TypeOK
    <2>8. db'[j].attempts = db[j].attempts
      <3>1. CASE Promoted(j) \/ Cancelled(j)
        BY <2>7, <3>1 DEF Promoted, Cancelled, Doc
      <3> QED
        BY <1>t, <2>4, <2>5, <2>6, <3>1, EachJob
           DEF Stays, DocKept, Changes, Handed, Dropped, Retried, EndedAs
    <2> QED
      BY <1>2, <2>1, <2>8
  <1> QED
    BY <1>1, <1>2, <1>t, LaneLoads

\* A copy of a stale document is one the scan has just read, or an older one.
LEMMA StaleComes ==
  ASSUME TypeOK, [Next]_vars, NEW t \in Ticks, NEW s \in recoverer'[t].stale
  PROVE  \/ s \in recoverer[t].stale
         \/ /\ db' = db /\ recoverer[t].stale = {}
            /\ \E j \in Jobs : /\ db[j].status = "PROCESSING" /\ db[j].lock = "past"
                               /\ s = [job |-> j, attempts |-> db[j].attempts,
                                       lockedBy |-> db[j].lockedBy]
  <1>2. ASSUME ScanStale(t)
        PROVE  /\ db' = db /\ recoverer[t].stale = {}
               /\ \E j \in Jobs : /\ db[j].status = "PROCESSING" /\ db[j].lock = "past"
                                  /\ s = [job |-> j, attempts |-> db[j].attempts,
                                          lockedBy |-> db[j].lockedBy]
    <2> DEFINE stale == {[job |-> j, attempts |-> db[j].attempts, lockedBy |-> db[j].lockedBy] :
                            j \in {j \in Jobs : db[j].status = "PROCESSING" /\ db[j].lock = "past"}}
               r == [recoverer[t] EXCEPT !.stale = stale]
    <2>1. recoverer' = [recoverer EXCEPT ![t] = r]
      BY <1>2 DEF ScanStale
    <2>2. r.stale = stale
      BY DEF TypeOK, RecovererState
    <2> HIDE DEF r
    <2>3. recoverer'[t] = r
      BY <2>1 DEF TypeOK
    <2>4. s \in stale
      BY <2>2, <2>3
    <2>5. db' = db /\ recoverer[t].stale = {}
      BY <1>2 DEF ScanStale, IdleRecoverer
    <2> QED
      BY <2>4, <2>5
  <1>3. ASSUME NEW u \in Ticks, PromoterStep(u) \/ RecovererStep(u), ~ScanStale(t)
        PROVE  recoverer'[t].stale \subseteq recoverer[t].stale
    <2>1. ASSUME PromoterStep(u) PROVE recoverer' = recoverer
      BY <2>1 DEF PromoterStep, ScanDue, RemoveDue, LoadPromoted, SavePromoted, PushPromoted
    <2>2. ASSUME ScanStale(u), u # t PROVE recoverer'[t] = recoverer[t]
      BY <2>2 DEF ScanStale, TypeOK
    <2>3. ASSUME NEW x \in recoverer[u].stale, RecoverJob(u, x)
          PROVE  recoverer'[t].stale \subseteq recoverer[t].stale
      BY <2>3 DEF RecoverJob, TypeOK
    <2>4. ASSUME ScheduleRecovered(u) PROVE recoverer'[t].stale = recoverer[t].stale
      <3> DEFINE r == [recoverer[u] EXCEPT !.retry = NoJob]
      <3>1. recoverer' = [recoverer EXCEPT ![u] = r]
        BY <2>4 DEF ScheduleRecovered
      <3>2. r.stale = recoverer[u].stale
        BY DEF TypeOK, RecovererState
      <3> HIDE DEF r
      <3> QED
        BY <3>1, <3>2 DEF TypeOK
    <2> QED
      BY <1>3, <2>1, <2>2, <2>3, <2>4 DEF RecovererStep
  <1>4. ASSUME FaultStep PROVE recoverer'[t] = IdleRecoverer \/ recoverer'[t] = recoverer[t]
    BY <1>4 DEF FaultStep, Crash, PromotionFails, RecoveryFails, FinishFails,
                      SubmissionFails, CancellationFails, workerVars, TypeOK
  <1>5. ASSUME ApiStep PROVE recoverer' = recoverer
    BY <1>5 DEF ApiStep, CreateJob, EnqueueNewJob, ScheduleNewJob, LoadForCancel,
                RemoveJobFromQueue, RemoveJobFromDelayedQueue, SaveCancelled,
                SaveCancellationRequest, workerVars
  <1>6. ASSUME NEW l \in Lanes, LaneStep(l) PROVE recoverer' = recoverer
    BY <1>6 DEF LaneStep, ClaimNextJob, LoadClaimed, SaveClaim, CheckCancellation,
                FinishAttempt, FailAttempt, ScheduleRetry
  <1>7. ASSUME NEW j \in Jobs, TimePasses(j) PROVE recoverer' = recoverer
    BY <1>7 DEF TimePasses, BecomesDue, LockRunsOut, workerVars
  <1>8. IdleRecoverer.stale = {}
    BY DEF IdleRecoverer
  <1>9. recoverer'[t].stale \subseteq recoverer[t].stale \/ ScanStale(t)
    BY <1>3, <1>4, <1>5, <1>6, <1>7, <1>8 DEF Next, vars
  <1> QED
    BY <1>2, <1>9

LEMMA StaleStays == ASSUME IInv, [Next]_vars PROVE StaleHasOwner'
  BY StaleComes DEF IInv, StaleHasOwner, ProcessingIsLocked

\* The moves of one cancelJob request.
LEMMA CancelMoves ==
  ASSUME TypeOK, [Next]_vars, NEW c \in Cancels
  PROVE  \/ cancel'[c] = cancel[c]
         \/ \E j \in Jobs : LoadForCancel(c, j)
         \/ RemoveJobFromQueue(c)
         \/ RemoveJobFromDelayedQueue(c)
         \/ SaveCancelled(c)
         \/ SaveCancellationRequest(c)
         \/ CancellationFails(c)
  <1>1. ASSUME ApiStep
        PROVE  \/ cancel'[c] = cancel[c]
               \/ \E j \in Jobs : LoadForCancel(c, j)
               \/ RemoveJobFromQueue(c) \/ RemoveJobFromDelayedQueue(c)
               \/ SaveCancelled(c) \/ SaveCancellationRequest(c)
    <2>1. ASSUME NEW d \in Cancels, d # c,
                 \/ \E j \in Jobs : LoadForCancel(d, j)
                 \/ RemoveJobFromQueue(d) \/ RemoveJobFromDelayedQueue(d)
                 \/ SaveCancelled(d) \/ SaveCancellationRequest(d)
          PROVE  cancel'[c] = cancel[c]
      <3>1. PICK r : cancel' = [cancel EXCEPT ![d] = r]
        BY <2>1 DEF LoadForCancel, RemoveJobFromQueue, RemoveJobFromDelayedQueue, SaveCancelled,
                    SaveCancellationRequest
      <3> QED
        BY <2>1, <3>1 DEF TypeOK
    <2>2. ASSUME NEW j \in Jobs, NEW scheduled \in BOOLEAN,
                 CreateJob(j, scheduled) \/ EnqueueNewJob(j) \/ ScheduleNewJob(j)
          PROVE  cancel' = cancel
      BY <2>2 DEF CreateJob, EnqueueNewJob, ScheduleNewJob
    <2> QED
      BY <1>1, <2>1, <2>2 DEF ApiStep
  <1>2. ASSUME FaultStep PROVE cancel'[c] = cancel[c] \/ CancellationFails(c)
    <2>1. ASSUME NEW d \in Cancels, d # c, CancellationFails(d) PROVE cancel'[c] = cancel[c]
      BY <2>1 DEF CancellationFails, TypeOK
    <2> QED
      BY <1>2, <2>1 DEF FaultStep, Crash, PromotionFails, RecoveryFails, FinishFails,
                        SubmissionFails
  <1>3. ASSUME NEW l \in Lanes, LaneStep(l) PROVE cancel' = cancel
    BY <1>3 DEF LaneStep, ClaimNextJob, LoadClaimed, SaveClaim, CheckCancellation,
                FinishAttempt, FailAttempt, ScheduleRetry
  <1>4. ASSUME NEW t \in Ticks, PromoterStep(t) \/ RecovererStep(t) PROVE cancel' = cancel
    BY <1>4 DEF PromoterStep, RecovererStep, ScanDue, RemoveDue, LoadPromoted, SavePromoted,
                PushPromoted, ScanStale, RecoverJob, ScheduleRecovered
  <1>5. ASSUME NEW j \in Jobs, TimePasses(j) PROVE cancel' = cancel
    BY <1>5 DEF TimePasses, BecomesDue, LockRunsOut
  <1> QED
    BY <1>1, <1>2, <1>3, <1>4, <1>5 DEF Next, vars

LEMMA CancelKnowsStays == ASSUME IInv, [Next]_vars PROVE CancelKnowsJob'
  <1>t. TypeOK /\ JobSteps
    BY NextJobSteps DEF IInv
  <1> SUFFICES ASSUME NEW c \in Cancels, cancel'[c].job \in Jobs
               PROVE  submit'[cancel'[c].job] # "new"
    BY DEF CancelKnowsJob
  <1>1. PICK j \in Jobs : j = cancel'[c].job
    OBVIOUS
  <1>2. submit[j] # "new"
    <2>1. CASE cancel'[c].job = cancel[c].job
      BY <1>1, <2>1 DEF IInv, CancelKnowsJob
    <2>2. ASSUME NEW k \in Jobs, LoadForCancel(c, k) PROVE submit[j] # "new"
      <3>1. k = j
        BY <2>2, <1>1, <1>t, CancelRecord
      <3>2. db[j].status # "ABSENT"
        BY <2>2, <3>1 DEF LoadForCancel
      <3> QED
        BY <3>2 DEF IInv, UnsubmittedIsNowhere
    <2> QED
      BY <2>1, <2>2, <1>t, CancelMoves, CancelRecord
  <1>3. submit'[j] # "new"
    BY <1>2, <1>t, EachJob DEF SubmitKept, Changes, Created
  <1> QED
    BY <1>1, <1>3

LEMMA RemovedStays == ASSUME IInv, [Next]_vars PROVE RemovedIsNowhere'
  <1> USE DocAssumption
  <1>t. TypeOK /\ AtMostOneCarrier /\ JobSteps
    BY NextJobSteps DEF IInv
  <1> SUFFICES ASSUME NEW c \in Cancels, cancel'[c].removed > 0
               PROVE  /\ cancel'[c].pc # "new" /\ cancel'[c].job \in Jobs
                      /\ \A j \in Jobs : cancel'[c].job = j =>
                            /\ Carriers(j)' = {}
                            /\ cancel'[c].pc = "cancelled" => db'[j].status = "CANCELLED"
    BY DEF RemovedIsNowhere
  <1>1. cancel[c].removed \in Nat
    BY <1>t DEF TypeOK, CancelState
  <1>2. ASSUME cancel[c].removed > 0
        PROVE  /\ cancel[c].pc # "new" /\ cancel[c].job \in Jobs
               /\ \A j \in Jobs : cancel[c].job = j =>
                     /\ Carriers(j) = {} /\ Carriers(j)' = {}
                     /\ cancel[c].pc = "cancelled" => db'[j].status = "CANCELLED"
    <2>1. /\ cancel[c].pc # "new" /\ cancel[c].job \in Jobs
          /\ \A j \in Jobs : cancel[c].job = j =>
                /\ Carriers(j) = {}
                /\ cancel[c].pc = "cancelled" => db[j].status = "CANCELLED"
      BY <1>2 DEF IInv, RemovedIsNowhere
    <2>2. ASSUME NEW j \in Jobs, cancel[c].job = j
          PROVE  /\ Carriers(j)' = {}
                 /\ cancel[c].pc = "cancelled" => db'[j].status = "CANCELLED"
      <3>1. Carriers(j) = {} /\ submit[j] # "new" /\ db[j] \in Doc
        BY <2>1, <2>2, <1>t DEF IInv, CancelKnowsJob, TypeOK
      <3>2. CASE Stays(j)
        BY <2>1, <2>2, <3>1, <3>2 DEF Stays, DocKept
      <3>3. CASE Cancelled(j)
        BY <3>1, <3>3 DEF Cancelled, Doc
      <3> QED
        BY <3>1, <3>2, <3>3, <1>t, NowhereStays
    <2> QED
      BY <2>1, <2>2
  <1>3. CASE cancel'[c] = cancel[c]
    BY <1>2, <1>3
  <1>4. ASSUME NEW j \in Jobs, LoadForCancel(c, j) PROVE FALSE
    <2>1. cancel[c].pc = "new" /\ cancel[c].removed > 0
      BY <1>4, <1>t, CancelRecord DEF LoadForCancel
    <2> QED
      BY <2>1, <1>2
  <1>5. CASE RemoveJobFromQueue(c)
    <2>1. /\ cancel'[c].job = cancel[c].job /\ cancel'[c].pc = "undelaying"
          /\ cancel'[c].removed = Zrem(cancel[c].job \in queue)
      BY <1>5, <1>t, CancelRecord
    <2> PICK j \in Jobs : j = cancel[c].job
      BY <1>5, <1>t DEF RemoveJobFromQueue, TypeOK
    <2>2. j \in queue
      BY <2>1 DEF Zrem
    <2>3. Carriers(j)' = {}
      <3>1. /\ InDelayed(j) = {} /\ InSubmit(j) = {} /\ InLanes(j) = {}
            /\ InPromoters(j) = {} /\ InRecoverers(j) = {} /\ Locks(j) = {}
        BY <2>2, <1>t, QueueOnly
      <3>2. queue' = queue \ {j} /\ UNCHANGED <<db, delayed, submit, lane, promoter, recoverer>>
        BY <1>5 DEF RemoveJobFromQueue, workerVars
      <3>3. InQueue(j)' = {}
        BY <3>2 DEF InQueue
      <3> QED
        BY <3>1, <3>2, <3>3, Unmoved DEF Carriers
    <2> QED
      BY <2>1, <2>3
  <1>6. CASE RemoveJobFromDelayedQueue(c)
    <2>1. /\ cancel'[c].job = cancel[c].job /\ cancel'[c].pc = "saving"
          /\ cancel'[c].removed = cancel[c].removed + Zrem(delayed[cancel[c].job] # "absent")
      BY <1>6, <1>t, CancelRecord
    <2> PICK j \in Jobs : j = cancel[c].job
      BY <1>6, <1>t DEF RemoveJobFromDelayedQueue, TypeOK
    <2>2. CASE cancel[c].removed > 0
      BY <2>1, <2>2, <1>2
    <2>3. CASE delayed[j] # "absent"
      <3>1. /\ InQueue(j) = {} /\ InSubmit(j) = {} /\ InLanes(j) = {}
            /\ InPromoters(j) = {} /\ InRecoverers(j) = {} /\ Locks(j) = {}
        BY <2>3, <1>t, DelayedOnly
      <3>2. /\ delayed' = [delayed EXCEPT ![j] = "absent"]
            /\ UNCHANGED <<db, queue, submit, lane, promoter, recoverer>>
        BY <1>6 DEF RemoveJobFromDelayedQueue, workerVars
      <3>3. InDelayed(j)' = {}
        BY <3>2, <1>t DEF InDelayed, TypeOK
      <3>4. Carriers(j)' = {}
        BY <3>1, <3>2, <3>3, Unmoved DEF Carriers
      <3> QED
        BY <2>1, <3>4
    <2>4. CASE delayed[j] = "absent" /\ ~(cancel[c].removed > 0)
      BY <2>1, <2>4, <1>1 DEF Zrem
    <2> QED
      BY <2>2, <2>3, <2>4
  <1>7. CASE SaveCancelled(c)
    <2>1. /\ cancel'[c].job = cancel[c].job /\ cancel'[c].pc = "cancelled"
          /\ cancel'[c].removed = cancel[c].removed
      BY <1>7, <1>t, CancelRecord
    <2> PICK j \in Jobs : j = cancel[c].job
      BY <1>7, <1>t DEF SaveCancelled, TypeOK
    <2>2. db' = [db EXCEPT ![j] = [db[j] EXCEPT !.status = "CANCELLED"]]
      BY <1>7 DEF SaveCancelled
    <2>3. db'[j].status = "CANCELLED"
      BY <2>2, <1>t DEF TypeOK, Doc
    <2> QED
      BY <2>1, <2>3, <1>2
  <1>8. CASE SaveCancellationRequest(c) \/ CancellationFails(c)
    <2>1. /\ cancel'[c].job = cancel[c].job /\ cancel'[c].pc \in {"requested", "refused"}
          /\ cancel'[c].removed = cancel[c].removed
      BY <1>8, <1>t, CancelRecord
    <2> QED
      BY <2>1, <1>2
  <1> QED
    BY <1>3, <1>4, <1>5, <1>6, <1>7, <1>8, <1>t, CancelMoves

-----------------------------------------------------------------------------
(* The theorems *)

LEMMA InitIInv == Init => IInv
  <1> SUFFICES ASSUME Init PROVE IInv
    OBVIOUS
  <1> USE DocAssumption, PipelineAssumption
  <1>1. TypeOK
    BY InitTypeOK
  <1>2. /\ db = [j \in Jobs |-> NoDoc] /\ queue = {} /\ delayed = [j \in Jobs |-> "absent"]
        /\ submit = [j \in Jobs |-> "new"] /\ lane = [l \in Lanes |-> IdleLane]
        /\ promoter = [t \in Ticks |-> IdlePromoter]
        /\ recoverer = [t \in Ticks |-> IdleRecoverer]
        /\ cancel = [c \in Cancels |-> NewCancel]
    BY DEF Init
  <1>3. ASSUME NEW j \in Jobs PROVE Carriers(j) = {}
    <2>1. InQueue(j) = {} /\ InDelayed(j) = {} /\ InSubmit(j) = {} /\ Locks(j) = {}
      BY <1>2 DEF InQueue, InDelayed, InSubmit, Locks, NoDoc
    <2>2. InLanes(j) = {}
      BY <1>2 DEF InLanes, IdleLane
    <2>3. InPromoters(j) = {}
      BY <1>2 DEF InPromoters, IdlePromoter
    <2>4. InRecoverers(j) = {}
      BY <1>2 DEF InRecoverers, IdleRecoverer
    <2> QED
      BY <2>1, <2>2, <2>3, <2>4 DEF Carriers
  <1>4. AtMostOneCarrier /\ FinishedIsNowhere
    BY <1>3 DEF AtMostOneCarrier, FinishedIsNowhere
  <1>5. AttemptsCountRuns /\ UnsubmittedIsNowhere /\ ProcessingIsLocked
    BY <1>2, <1>3 DEF AttemptsCountRuns, UnsubmittedIsNowhere, ProcessingIsLocked, NoDoc
  <1>6. LoadedIsCurrent /\ StaleHasOwner
    BY <1>2 DEF LoadedIsCurrent, StaleHasOwner, IdleLane, IdleRecoverer
  <1>7. CancelKnowsJob /\ RemovedIsNowhere
    BY <1>2 DEF CancelKnowsJob, RemovedIsNowhere, NewCancel
  <1> QED
    BY <1>1, <1>4, <1>5, <1>6, <1>7 DEF IInv

LEMMA NextIInv == IInv /\ [Next]_vars => IInv'
  <1> SUFFICES ASSUME IInv, [Next]_vars PROVE IInv'
    OBVIOUS
  <1>1. JobSteps
    BY NextJobSteps
  <1>2. TypeOK'
    BY NextTypeOK DEF IInv
  <1>3. AtMostOneCarrier'
    BY <1>1, JobKeepsCarriers DEF AtMostOneCarrier
  <1>4. AttemptsCountRuns'
    BY <1>1, JobKeepsAttempts DEF AttemptsCountRuns
  <1>5. UnsubmittedIsNowhere'
    BY <1>1, JobKeepsUnsubmitted, JobKeepsStatus DEF UnsubmittedIsNowhere
  <1>6. ProcessingIsLocked' /\ FinishedIsNowhere'
    BY <1>1, JobKeepsStatus DEF ProcessingIsLocked, FinishedIsNowhere
  <1> QED
    BY <1>2, <1>3, <1>4, <1>5, <1>6, LoadedStays, StaleStays, CancelKnowsStays, RemovedStays
       DEF IInv

\* Every reachable state satisfies the inductive invariant.
THEOREM Invariance == Spec => []IInv
  BY InitIInv, NextIInv, PTL DEF Spec

\* No interleaving of the API, the lanes and the background loops, with
\* crashes, failed commands and locks that run out under live workers, makes
\* two carriers of one job.
THEOREM OneCarrier == Spec => []AtMostOneCarrier
  <1>1. IInv => AtMostOneCarrier
    BY DEF IInv
  <1> QED
    BY <1>1, Invariance, PTL

\* The unconditional save() of the claim never overwrites another's count.
THEOREM NoLostAttempt == Spec => []AttemptsCountRuns
  <1>1. IInv => AttemptsCountRuns
    BY DEF IInv
  <1> QED
    BY <1>1, Invariance, PTL

\* What a worker has completed or dead-lettered is never run again.
THEOREM FinishedIsFinal == Spec => FinishedNeverRestarts
  <1>1. ASSUME IInv, [Next]_vars
        PROVE  [\A j \in Jobs :
                   db[j].status \in {"COMPLETED", "DEAD_LETTER"} =>
                       /\ db'[j].status \in {db[j].status, "CANCELLED"}
                       /\ db'[j].runs = db[j].runs]_vars
    <2> SUFFICES ASSUME NEW j \in Jobs, db[j].status \in {"COMPLETED", "DEAD_LETTER"}
                 PROVE  /\ db'[j].status \in {db[j].status, "CANCELLED"}
                        /\ db'[j].runs = db[j].runs
      OBVIOUS
    <2>1. JobSteps
      BY <1>1, NextJobSteps
    <2>2. Carriers(j) = {} /\ submit[j] # "new" /\ db[j] \in Doc
      <3>1. Carriers(j) = {} /\ db[j] \in Doc
        BY <1>1 DEF IInv, FinishedIsNowhere, TypeOK
      <3>2. db[j].status # "ABSENT"
        OBVIOUS
      <3>3. submit[j] # "new"
        BY <1>1, <3>2 DEF IInv, UnsubmittedIsNowhere
      <3> QED
        BY <3>1, <3>3
    <2>3. CASE Stays(j)
      BY <2>3 DEF Stays, DocKept
    <2>4. CASE Cancelled(j)
      BY <2>2, <2>4 DEF Cancelled, Doc
    <2> QED
      BY <2>1, <2>2, <2>3, <2>4, NowhereStays
  <1> QED
    BY <1>1, Invariance, PTL DEF Spec, FinishedNeverRestarts

\* A cancellation whose ZREM found the id is final.
THEOREM RemovalIsFinal == Spec => CancelRemovedIsFinal
  <1>1. ASSUME IInv, [Next]_vars
        PROVE  [\A c \in Cancels :
                  cancel[c].removed > 0 =>
                      LET j == cancel[c].job
                      IN  /\ db'[j].runs = db[j].runs
                          /\ cancel'[c].pc = "cancelled" => db'[j].status = "CANCELLED"]_vars
    <2> SUFFICES ASSUME NEW c \in Cancels, cancel[c].removed > 0
                 PROVE  /\ db'[cancel[c].job].runs = db[cancel[c].job].runs
                        /\ cancel'[c].pc = "cancelled" =>
                              db'[cancel[c].job].status = "CANCELLED"
      OBVIOUS
    <2>t. JobSteps /\ TypeOK
      BY <1>1, NextJobSteps DEF IInv
    <2>1. PICK j \in Jobs : j = cancel[c].job
      BY <1>1 DEF IInv, RemovedIsNowhere
    <2>2. /\ Carriers(j) = {} /\ submit[j] # "new" /\ db[j] \in Doc
          /\ cancel[c].pc = "cancelled" => db[j].status = "CANCELLED"
          /\ cancel[c].pc # "new"
      BY <1>1, <2>1 DEF IInv, RemovedIsNowhere, CancelKnowsJob, TypeOK
    <2>3. /\ db'[j].runs = db[j].runs
          /\ db[j].status = "CANCELLED" => db'[j].status = "CANCELLED"
      <3>1. CASE Stays(j)
        BY <3>1 DEF Stays, DocKept
      <3>2. CASE Cancelled(j)
        BY <2>2, <3>2 DEF Cancelled, Doc
      <3> QED
        BY <2>t, <2>2, <3>1, <3>2, NowhereStays
    <2>4. SaveCancelled(c) => db'[j].status = "CANCELLED"
      <3>1. SaveCancelled(c) => db' = [db EXCEPT ![j] = [db[j] EXCEPT !.status = "CANCELLED"]]
        BY <2>1 DEF SaveCancelled
      <3> QED
        BY <3>1, <2>2, <2>t DEF TypeOK, Doc
    <2>5. cancel'[c].pc = "cancelled" => cancel'[c] = cancel[c] \/ SaveCancelled(c)
      <3>1. ASSUME NEW k \in Jobs PROVE ~LoadForCancel(c, k)
        BY <2>2 DEF LoadForCancel
      <3> QED
        BY <1>1, <2>t, <3>1, CancelMoves, CancelRecord
    <2> QED
      BY <2>1, <2>2, <2>3, <2>4, <2>5
  <1> QED
    BY <1>1, Invariance, PTL DEF Spec, CancelRemovedIsFinal

\* While nothing has failed, a step takes an unfinished job's last carrier only
\* by a cancellation, and the cancellation goes on until it writes CANCELLED.
LEMMA NotLostStays == ASSUME IInv, [Next]_vars, OnlyFaultsLoseJobs PROVE OnlyFaultsLoseJobs'
  <1> SUFFICES ASSUME faults' = 0, NEW k \in Jobs, db'[k].status \in Status \ Terminal
               PROVE  Carriers(k)' # {} \/ BeingCancelled(k)'
    BY DEF OnlyFaultsLoseJobs, NoJobLost
  <1>t. JobSteps /\ TypeOK /\ db[k] \in Doc
    BY NextJobSteps DEF IInv, TypeOK
  <1>f. faults = 0
    <2>1. faults' = faults \/ FaultStep
      BY DEF Next, vars, ApiStep, CreateJob, EnqueueNewJob, ScheduleNewJob, LoadForCancel,
             RemoveJobFromQueue, RemoveJobFromDelayedQueue, SaveCancelled,
             SaveCancellationRequest, LaneStep, ClaimNextJob, LoadClaimed, SaveClaim,
             CheckCancellation, FinishAttempt, FailAttempt, ScheduleRetry, PromoterStep,
             ScanDue, RemoveDue, LoadPromoted, SavePromoted, PushPromoted, RecovererStep,
             ScanStale, RecoverJob, ScheduleRecovered, TimePasses, BecomesDue, LockRunsOut
    <2>2. FaultStep => faults' = faults + 1
      BY DEF FaultStep, Crash, PromotionFails, RecoveryFails, FinishFails, SubmissionFails,
             CancellationFails, Fault
    <2> QED
      BY <2>1, <2>2, <1>t DEF TypeOK
  <1>1. CASE Stays(k) /\ Carriers(k) = {}
    <2>1. db'[k].status = db[k].status /\ Carriers(k)' = {}
      BY <1>1 DEF Stays, DocKept
    <2>2. PICK c \in Cancels : /\ cancel[c].job = k /\ cancel[c].removed > 0
                               /\ cancel[c].pc \in {"undelaying", "saving"}
      BY <1>1, <1>f, <2>1 DEF OnlyFaultsLoseJobs, NoJobLost, BeingCancelled
    <2>3. CASE cancel'[c] = cancel[c]
      BY <2>2, <2>3 DEF BeingCancelled
    <2>4. CASE RemoveJobFromDelayedQueue(c)
      <3>1. cancel'[c].removed > 0
        BY <2>2, <2>4, <1>t, CancelRecord DEF Zrem, TypeOK, CancelState
      <3> QED
        BY <2>2, <2>4, <3>1, <1>t, CancelRecord DEF BeingCancelled
    <2>5. CASE SaveCancelled(c)
      <3>1. db' = [db EXCEPT ![k] = [db[k] EXCEPT !.status = "CANCELLED"]]
        BY <2>2, <2>5 DEF SaveCancelled
      <3>2. db'[k].status = "CANCELLED"
        BY <3>1, <1>t DEF TypeOK, Doc
      <3> QED
        BY <3>2 DEF Terminal
    <2>6. ~CancellationFails(c)
      BY <1>f, <1>t DEF CancellationFails, Fault
    <2>7. /\ \A j \in Jobs : ~LoadForCancel(c, j)
          /\ ~RemoveJobFromQueue(c) /\ ~SaveCancellationRequest(c)
      BY <2>2 DEF LoadForCancel, RemoveJobFromQueue, SaveCancellationRequest
    <2> QED
      BY <1>t, <2>3, <2>4, <2>5, <2>6, <2>7, CancelMoves
  <1>2. CASE Stays(k) /\ Carriers(k) # {}
    BY <1>2 DEF Stays
  <1>3. CASE Dropped(k)
    BY <1>3 DEF Dropped
  <1>4. CASE Created(k) \/ Handed(k) \/ Promoted(k) \/ Begun(k) \/ Retried(k)
    BY <1>4 DEF Created, Handed, Promoted, Begun, Retried
  <1>5. CASE Cancelled(k)
    BY <1>5, <1>t DEF Cancelled, Doc, Terminal
  <1>6. ASSUME NEW status \in Terminal, EndedAs(k, status) PROVE FALSE
    BY <1>6, <1>t, ReleaseKeeps DEF EndedAs, Released
  <1> QED
    BY <1>t, <1>1, <1>2, <1>3, <1>4, <1>5, <1>6, EachJob DEF Changes

\* Lanes, loops and cancellations lose no job between two stores; only a death
\* or a failed command does.
THEOREM NothingIsLost == Spec => []OnlyFaultsLoseJobs
  <1>1. Init => OnlyFaultsLoseJobs
    BY DEF Init, NoDoc, OnlyFaultsLoseJobs, NoJobLost, Status
  <1> QED
    BY <1>1, Invariance, NotLostStays, PTL DEF Spec

-----------------------------------------------------------------------------
(* Refinement of JobCustody *)

LEMMA StaysCustody ==
  ASSUME NEW k \in Jobs, Stays(k)
  PROVE  db'[k].status = db[k].status /\ Custody(k)' = Custody(k) /\ db'[k].runs = db[k].runs
  BY DEF Stays, DocKept, Custody

\* A step of one job changes the abstract functions at that job only, and is
\* an abstract step if what it does to that job is one.
LEMMA OneChangeRefines ==
  ASSUME IInv, NEW j \in Jobs, OneChanges(j)
  PROVE  [Abstract!Next]_(Abstract!vars)
  <1> USE DocAssumption
  <1> DEFINE st == [k \in Jobs |-> db[k].status]
             cu == [k \in Jobs |-> Custody(k)]
             ru == [k \in Jobs |-> db[k].runs]
  <1>t. db[j] \in Doc /\ \A k \in Jobs \ {j} : Stays(k)
    BY DEF IInv, TypeOK, OneChanges
  <1>a. /\ st[j] = db[j].status /\ cu[j] = Custody(j) /\ ru[j] = db[j].runs
    OBVIOUS
  <1>s. ASSUME NEW status, db'[j].status = status PROVE st' = [st EXCEPT ![j] = status]
    BY <1>t, <1>s, StaysCustody
  <1>c. ASSUME NEW custody, Custody(j)' = custody PROVE cu' = [cu EXCEPT ![j] = custody]
    BY <1>t, <1>c, StaysCustody
  <1>r. ASSUME NEW runs, db'[j].runs = runs PROVE ru' = [ru EXCEPT ![j] = runs]
    BY <1>t, <1>r, StaysCustody
  <1>sk. db'[j].status = db[j].status => st' = st
    BY <1>t, StaysCustody
  <1>ck. Custody(j)' = Custody(j) => cu' = cu
    BY <1>t, StaysCustody
  <1>rk. db'[j].runs = db[j].runs => ru' = ru
    BY <1>t, StaysCustody
  <1> HIDE DEF st, cu, ru
  <1>1. ASSUME Created(j) PROVE Abstract!Submit(j)
    <2>1. /\ db'[j].status = "QUEUED" /\ Custody(j)' = "waiting" /\ db'[j].runs = 0
      BY <1>1 DEF Created, NewDoc, NoDoc, Custody
    <2>2. db[j].status = "ABSENT" /\ db[j].runs = 0
      BY <1>1 DEF Created, IInv, UnsubmittedIsNowhere
    <2>3. /\ st[j] = "ABSENT" /\ st' = [st EXCEPT ![j] = "QUEUED"]
          /\ cu' = [cu EXCEPT ![j] = "waiting"] /\ ru' = ru
      BY <1>a, <1>s, <1>c, <1>rk, <2>1, <2>2
    <2> QED
      BY <2>3 DEF Abstract!Submit, st, cu, ru
  <1>2. ASSUME Handed(j) PROVE UNCHANGED Abstract!vars
    <2>1. Custody(j)' = Custody(j) /\ DocKept(j)
      BY <1>2 DEF Handed, DocKept, Custody
    <2>2. st' = st /\ cu' = cu /\ ru' = ru
      BY <1>sk, <1>ck, <1>rk, <2>1 DEF DocKept
    <2> QED
      BY <2>2 DEF Abstract!vars, st, cu, ru
  <1>3. ASSUME Dropped(j) PROVE Abstract!Drop({j})
    <2>1. Custody(j) = "waiting" /\ Custody(j)' = "nowhere" /\ DocKept(j)
      BY <1>3 DEF Dropped, DocKept, Custody
    <2>2. st' = st /\ ru' = ru
      BY <1>sk, <1>rk, <2>1 DEF DocKept
    <2>3. cu[j] = "waiting" /\ cu' = [k \in Jobs |-> IF k \in {j} THEN "nowhere" ELSE cu[k]]
      BY <1>t, <2>1, StaysCustody DEF cu
    <2> QED
      BY <2>2, <2>3 DEF Abstract!Drop, st, cu, ru
  <1>4. ASSUME Promoted(j) PROVE Abstract!Promote(j)
    <2>1. /\ Custody(j) = "waiting" /\ Custody(j)' = "waiting"
          /\ db'[j].status = "QUEUED" /\ db'[j].runs = db[j].runs
      BY <1>t, <1>4 DEF Promoted, Custody, Doc
    <2>2. cu[j] = "waiting" /\ st' = [st EXCEPT ![j] = "QUEUED"] /\ cu' = cu /\ ru' = ru
      BY <1>a, <1>s, <1>ck, <1>rk, <2>1
    <2> QED
      BY <2>2 DEF Abstract!Promote, st, cu, ru
  <1>5. ASSUME Begun(j) PROVE Abstract!Start(j)
    <2>1. /\ Custody(j) = "waiting" /\ Custody(j)' = "running"
          /\ db'[j].status = "PROCESSING" /\ db'[j].runs = db[j].runs + 1
      BY <1>5 DEF Begun, Custody
    <2>2. /\ cu[j] = "waiting" /\ st' = [st EXCEPT ![j] = "PROCESSING"]
          /\ cu' = [cu EXCEPT ![j] = "running"] /\ ru' = [ru EXCEPT ![j] = ru[j] + 1]
      BY <1>a, <1>s, <1>c, <1>r, <2>1
    <2> QED
      BY <2>2 DEF Abstract!Start, st, cu, ru
  <1>6. ASSUME Retried(j) PROVE Abstract!Retry(j)
    <2>1. /\ db'[j].status = "RETRYING" /\ db'[j].lockedBy = NoWorker
          /\ db'[j].runs = db[j].runs
      BY <1>t, <1>6, ReleaseKeeps DEF Retried, Released
    <2>2. Custody(j) = "running" /\ Custody(j)' = "waiting"
      BY <1>6, <2>1 DEF Retried, Released, Custody
    <2>3. /\ cu[j] = "running" /\ st' = [st EXCEPT ![j] = "RETRYING"]
          /\ cu' = [cu EXCEPT ![j] = "waiting"] /\ ru' = ru
      BY <1>a, <1>s, <1>c, <1>rk, <2>1, <2>2
    <2> QED
      BY <2>3 DEF Abstract!Retry, st, cu, ru
  <1>7. ASSUME NEW status \in Terminal, EndedAs(j, status) PROVE Abstract!End(j, status)
    <2>1. /\ db'[j].status = status /\ db'[j].lockedBy = NoWorker
          /\ db'[j].runs = db[j].runs
      BY <1>t, <1>7, ReleaseKeeps DEF EndedAs, Released
    <2>2. Custody(j) = "running" /\ Custody(j)' = "nowhere"
      BY <1>7, <2>1 DEF EndedAs, Released, Custody
    <2>3. /\ cu[j] = "running" /\ st' = [st EXCEPT ![j] = status]
          /\ cu' = [cu EXCEPT ![j] = "nowhere"] /\ ru' = ru
      BY <1>a, <1>s, <1>c, <1>rk, <2>1, <2>2
    <2> QED
      BY <2>3 DEF Abstract!End, st, cu, ru
  <1>8. ASSUME Cancelled(j) PROVE Abstract!Cancel(j)
    <2>1. /\ db'[j].status = "CANCELLED" /\ db'[j].lockedBy = db[j].lockedBy
          /\ db'[j].runs = db[j].runs
      BY <1>t, <1>8 DEF Cancelled, Doc
    <2>2. db[j].status # "ABSENT" /\ Custody(j)' = Custody(j)
      BY <1>8, <2>1 DEF Cancelled, IInv, UnsubmittedIsNowhere, Custody
    <2>3. st[j] # "ABSENT" /\ st' = [st EXCEPT ![j] = "CANCELLED"] /\ cu' = cu /\ ru' = ru
      BY <1>a, <1>s, <1>ck, <1>rk, <2>1, <2>2
    <2> QED
      BY <2>3 DEF Abstract!Cancel, st, cu, ru
  <1>9. \A status \in Terminal : EndedAs(j, status) => Abstract!Next
    BY <1>7 DEF Abstract!Next, Abstract!Ended, Terminal
  <1>10. Dropped(j) => Abstract!Next
    BY <1>3 DEF Abstract!Next
  <1>11. Created(j) \/ Promoted(j) \/ Begun(j) \/ Retried(j) \/ Cancelled(j) => Abstract!Next
    BY <1>1, <1>4, <1>5, <1>6, <1>8 DEF Abstract!Next
  <1> QED
    BY <1>2, <1>9, <1>10, <1>11 DEF OneChanges, Changes

LEMMA SomeDroppedRefines ==
  ASSUME SomeDropped
  PROVE  [Abstract!Next]_(Abstract!vars)
  <1> DEFINE js == {k \in Jobs : Dropped(k)}
             cu == [k \in Jobs |-> Custody(k)]
  <1>1. \A k \in js : Custody(k) = "waiting" /\ Custody(k)' = "nowhere" /\ DocKept(k)
    BY DEF Dropped, DocKept, Custody
  <1>2. \A k \in Jobs \ js : Stays(k)
    BY DEF SomeDropped
  <1>3. \A k \in Jobs : db'[k].status = db[k].status /\ db'[k].runs = db[k].runs
    BY <1>1, <1>2, StaysCustody DEF DocKept
  <1>4. [k \in Jobs |-> db[k].status]' = [k \in Jobs |-> db[k].status]
    BY <1>3
  <1>5. [k \in Jobs |-> db[k].runs]' = [k \in Jobs |-> db[k].runs]
    BY <1>3
  <1>6. /\ \A k \in js : cu[k] = "waiting"
        /\ cu' = [k \in Jobs |-> IF k \in js THEN "nowhere" ELSE cu[k]]
    BY <1>1, <1>2, StaysCustody
  <1>7. Abstract!Drop(js)
    <2> HIDE DEF js
    <2> QED
      BY <1>4, <1>5, <1>6 DEF Abstract!Drop
  <1> QED
    BY <1>7 DEF Abstract!Next

LEMMA InitRefines == Init => Abstract!Init
  <1> SUFFICES ASSUME Init PROVE Abstract!Init
    OBVIOUS
  <1>1. \A j \in Jobs : db[j].status = "ABSENT" /\ db[j].runs = 0 /\ db[j].lockedBy = NoWorker
    BY DEF Init, NoDoc
  <1>2. \A j \in Jobs : Carriers(j) = {}
    BY InitIInv DEF IInv, UnsubmittedIsNowhere, Init
  <1>3. \A j \in Jobs : Custody(j) = "nowhere"
    BY <1>1, <1>2 DEF Custody
  <1> QED
    BY <1>1, <1>3 DEF Abstract!Init

\* The pipeline implements JobCustody.
THEOREM Refinement == Spec => KeepsCustody
  <1>1. IInv /\ [Next]_vars => [Abstract!Next]_(Abstract!vars)
    BY NextJobSteps, OneChangeRefines, SomeDroppedRefines DEF JobSteps
  <1> QED
    BY <1>1, InitRefines, Invariance, PTL DEF Spec, KeepsCustody, Abstract!Spec
===============================================================================
