---------------------------- MODULE JobEventsProofs ----------------------------
(***************************************************************************)
(* What the events say of the jobs.  The ledger of a job: an attempt is    *)
(* opened by its claim and stays open until JOB_RETRYING or an end is      *)
(* published for it, or until it is lost.                                  *)
(***************************************************************************)
EXTENDS JobEvents, JobAttemptsProofs

-----------------------------------------------------------------------------
(* The inductive invariant *)

\* An attempt of j is under way, or its retry is yet to be pushed.
Open(j) ==
    \/ db[j].lockedBy # NoWorker
    \/ \E l \in Lanes : lane[l].pc = "scheduling" /\ lane[l].job = j
    \/ \E t \in Ticks : recoverer[t].retry = j

\* An announced attempt is on record, and announced once.
StartsTold ==
    \A j \in Jobs : \A n \in Nat :
        Calls(Started(j, n)) > 0 => Calls(Started(j, n)) = 1 /\ n \in 1 .. db[j].runs

\* A lane whose claim is not announced waits, and its attempt is its own.
UntoldWait ==
    \A l \in untold :
        /\ lane[l].pc = "running"
        /\ lane[l].seen.attempts \in 1 .. db[lane[l].job].runs
        /\ \A m \in untold \ {l} :
              lane[m].job = lane[l].job => lane[m].seen.attempts # lane[l].seen.attempts
        /\ \A j \in Jobs : \A n \in Nat :
              lane[l].job = j /\ lane[l].seen.attempts = n => Calls(Started(j, n)) = 0

\* While nothing failed, no attempt on record is forgotten.
NoneForgotten ==
    faults = 0 =>
        \A j \in Jobs : \A n \in 1 .. db[j].runs :
            \/ Calls(Started(j, n)) = 1
            \/ \E l \in untold : lane[l].job = j /\ lane[l].seen.attempts = n

EndsTold ==
    \A j \in Jobs : Endings(j) > 0 => submit[j] # "new" /\ Carriers(j) = {}

OutcomesFit ==
    \A j \in Jobs :
        Calls(Told("JOB_RETRYING", j)) + Endings(j) + (IF Open(j) THEN 1 ELSE 0) <= db[j].runs

EInv ==
    /\ IInv
    /\ EventsTypeOK
    /\ IsABag(published)
    /\ StartsTold
    /\ UntoldWait
    /\ NoneForgotten
    /\ EndsTold
    /\ OutcomesFit
    /\ EndIsTrue

-----------------------------------------------------------------------------
(* Events and their counts *)

\* One call more adds one copy of its event and no other.
LEMMA OneMoreCall ==
  ASSUME IsABag(published), NEW e, published' = published (+) SetToBag({e})
  PROVE  /\ IsABag(published')
         /\ BagToSet(published') = BagToSet(published) \cup {e}
         /\ Calls(e)' = Calls(e) + 1
         /\ \A f : f # e => Calls(f)' = Calls(f)
  <1> DEFINE B == published (+) SetToBag({e})
  <1>1. DOMAIN B = DOMAIN published \cup {e}
    BY DEF SetToBag, (+)
  <1>2. \A f \in DOMAIN B : B[f] = (IF f \in DOMAIN published THEN published[f] ELSE 0)
                                     + (IF f = e THEN 1 ELSE 0)
    BY DEF SetToBag, (+)
  <1>3. B = [f \in DOMAIN B |-> B[f]]
    BY DEF (+)
  <1>4. \A f \in DOMAIN published : published[f] \in Nat /\ published[f] > 0
    BY DEF IsABag
  <1>5. published' = B
    OBVIOUS
  <1> HIDE DEF B
  <1>6. \A f \in DOMAIN B : B[f] \in {n \in Nat : n > 0}
    BY <1>1, <1>2, <1>4
  <1>7. B \in [DOMAIN B -> {n \in Nat : n > 0}]
    BY <1>3, <1>6
  <1>8. IsABag(published') /\ BagToSet(published') = BagToSet(published) \cup {e}
    BY <1>1, <1>5, <1>7 DEF IsABag, BagToSet
  <1>9. ASSUME NEW f PROVE Calls(f)' = IF f \in DOMAIN B THEN B[f] ELSE 0
    BY <1>5 DEF Calls, BagIn, BagToSet
  <1>10. ASSUME NEW f PROVE Calls(f) = IF f \in DOMAIN published THEN published[f] ELSE 0
    BY DEF Calls, BagIn, BagToSet
  <1>11. Calls(e)' = Calls(e) + 1
    <2>1. e \in DOMAIN B /\ Calls(e)' = B[e]
      BY <1>1, <1>9
    <2>2. CASE e \in DOMAIN published
      BY <1>2, <1>10, <2>1, <2>2
    <2>3. CASE e \notin DOMAIN published
      BY <1>2, <1>10, <2>1, <2>3
    <2> QED
      BY <2>2, <2>3
  <1>12. ASSUME NEW f, f # e PROVE Calls(f)' = Calls(f)
    <2>1. CASE f \in DOMAIN published
      BY <1>1, <1>2, <1>4, <1>9, <1>10, <1>12, <2>1
    <2>2. CASE f \notin DOMAIN published
      BY <1>1, <1>9, <1>10, <1>12, <2>2
    <2> QED
      BY <2>1, <2>2
  <1> QED
    BY <1>8, <1>11, <1>12

LEMMA CallsIsNat == ASSUME IsABag(published), NEW e PROVE Calls(e) \in Nat
  BY DEF IsABag, Calls, BagIn, BagToSet

LEMMA EventShapes ==
  /\ \A type, j : Told(type, j) = [type |-> type, job |-> j, attempt |-> 0, from |-> "-"]
  /\ \A j, n : Started(j, n) = [type |-> "JOB_STARTED", job |-> j, attempt |-> n, from |-> "-"]
  /\ \A j, status : CancelledFrom(j, status) =
        [type |-> "JOB_CANCELLED", job |-> j, attempt |-> 0, from |-> status]
  BY DEF Told, Started, CancelledFrom

LEMMA EventTypes ==
  ASSUME NEW j \in Jobs
  PROVE  /\ \A type \in EventType \ {"JOB_STARTED", "JOB_CANCELLED"} : Told(type, j) \in Event
         /\ \A n \in Nat \ {0} : Started(j, n) \in Event
         /\ \A status \in {"QUEUED", "PROCESSING"} : CancelledFrom(j, status) \in Event
  BY EventShapes DEF Event, EventType

\* The event for an attempt that ended with `status'.
EndEvent(j, status) ==
    CASE status = "COMPLETED"   -> Told("JOB_COMPLETED", j)
      [] status = "DEAD_LETTER" -> Told("JOB_DLQ", j)
      [] status = "CANCELLED"   -> CancelledFrom(j, "PROCESSING")

\* Events that say nothing of attempts.
Asides(j) ==
    {Told("JOB_CREATED", j), Told("JOB_CANCELLATION_REQUESTED", j), CancelledFrom(j, "QUEUED")}

\* The entries of the ledger of k after a call for e.
LEMMA Booking ==
  ASSUME IsABag(published), NEW k, NEW e, published' = published (+) SetToBag({e})
  PROVE  /\ (\A n : e # Started(k, n)) => \A n : Calls(Started(k, n))' = Calls(Started(k, n))
         /\ e # Told("JOB_RETRYING", k) =>
                Calls(Told("JOB_RETRYING", k))' = Calls(Told("JOB_RETRYING", k))
         /\ (\A status \in Terminal : e # EndEvent(k, status)) => Endings(k)' = Endings(k)
         /\ \A status \in Terminal : e = EndEvent(k, status) =>
                /\ Endings(k)' = Endings(k) + 1
                /\ \A s \in Terminal \ {status} :
                       Calls(EndEvent(k, s))' = Calls(EndEvent(k, s))
  <1>1. \A f : Calls(f) \in Nat
    BY CallsIsNat
  <1>2. /\ EndEvent(k, "COMPLETED") = Told("JOB_COMPLETED", k)
        /\ EndEvent(k, "DEAD_LETTER") = Told("JOB_DLQ", k)
        /\ EndEvent(k, "CANCELLED") = CancelledFrom(k, "PROCESSING")
    BY DEF EndEvent
  <1>3. /\ Told("JOB_COMPLETED", k) # Told("JOB_DLQ", k)
        /\ Told("JOB_COMPLETED", k) # CancelledFrom(k, "PROCESSING")
        /\ Told("JOB_DLQ", k) # CancelledFrom(k, "PROCESSING")
    BY EventShapes
  <1>4. \A s \in Terminal : s \in {"COMPLETED", "DEAD_LETTER", "CANCELLED"}
    BY DEF Terminal
  <1>5. Calls(e)' = Calls(e) + 1 /\ \A f : f # e => Calls(f)' = Calls(f)
    BY OneMoreCall
  <1>6. ASSUME \A status \in Terminal : e # EndEvent(k, status)
        PROVE  Endings(k)' = Endings(k)
    <2>1. /\ e # Told("JOB_COMPLETED", k) /\ e # Told("JOB_DLQ", k)
          /\ e # CancelledFrom(k, "PROCESSING")
      BY <1>2, <1>6 DEF Terminal
    <2> QED
      BY <1>5, <2>1 DEF Endings
  <1>7. ASSUME NEW status \in Terminal, e = EndEvent(k, status)
        PROVE  /\ Endings(k)' = Endings(k) + 1
               /\ \A s \in Terminal \ {status} : Calls(EndEvent(k, s))' = Calls(EndEvent(k, s))
    <2>1. Endings(k)' = Endings(k) + 1
      BY <1>1, <1>2, <1>3, <1>4, <1>5, <1>7 DEF Endings
    <2>2. \A s \in Terminal \ {status} : EndEvent(k, s) # e
      BY <1>2, <1>3, <1>4, <1>7
    <2> QED
      BY <1>5, <2>1, <2>2
  <1> QED
    BY <1>5, <1>6, <1>7

-----------------------------------------------------------------------------
(* What the pipeline's steps do to open attempts *)

NoStart == \A j \in Jobs : db'[j].runs = db[j].runs

LEMMA RetryComes ==
  ASSUME TypeOK, [Next]_vars, NEW t \in Ticks, NEW j \in Jobs, recoverer'[t].retry = j
  PROVE  \/ recoverer[t].retry = j
         \/ \E s \in recoverer[t].stale : s.job = j /\ db[j].lockedBy = s.lockedBy
  <1> USE PipelineAssumption
  <1>1. ASSUME NEW u \in Ticks, RecovererStep(u)
        PROVE  \/ recoverer'[t].retry = recoverer[t].retry
               \/ recoverer'[t].retry = NoJob
               \/ \E s \in recoverer[t].stale :
                     s.job = recoverer'[t].retry /\ db[s.job].lockedBy = s.lockedBy
    <2>1. ASSUME ScanStale(u) PROVE recoverer'[t].retry = recoverer[t].retry
      <3> PICK stale : recoverer' = [recoverer EXCEPT ![u] = [recoverer[u] EXCEPT !.stale = stale]]
        BY <2>1 DEF ScanStale
      <3> DEFINE r == [recoverer[u] EXCEPT !.stale = stale]
      <3>1. recoverer' = [recoverer EXCEPT ![u] = r]
        OBVIOUS
      <3>2. r.retry = recoverer[u].retry
        BY DEF TypeOK, RecovererState
      <3> HIDE DEF r
      <3> QED
        BY <3>1, <3>2 DEF TypeOK
    <2>2. ASSUME NEW s \in recoverer[u].stale, RecoverJob(u, s)
          PROVE  \/ recoverer'[t].retry = recoverer[t].retry
                 \/ recoverer'[t].retry = NoJob
                 \/ \E x \in recoverer[t].stale :
                       x.job = recoverer'[t].retry /\ db[x.job].lockedBy = x.lockedBy
      <3> DEFINE retry == IF Lands(db[s.job], s.lockedBy) /\ FailureStatus(s.attempts, FALSE) = "RETRYING"
                          THEN s.job ELSE NoJob
                 stale == recoverer[u].stale \ {s}
      <3>1. recoverer' = [recoverer EXCEPT ![u] = [stale |-> stale, retry |-> retry]]
        BY <2>2 DEF RecoverJob
      <3>2. retry = NoJob \/ (retry = s.job /\ db[s.job].lockedBy = s.lockedBy)
        BY DEF Lands
      <3> HIDE DEF stale, retry
      <3>3. CASE u = t
        BY <3>1, <3>2, <3>3 DEF TypeOK
      <3>4. CASE u # t
        BY <3>1, <3>4 DEF TypeOK
      <3> QED
        BY <3>3, <3>4
    <2>3. ASSUME ScheduleRecovered(u)
          PROVE  recoverer'[t].retry = recoverer[t].retry \/ recoverer'[t].retry = NoJob
      <3> DEFINE r == [recoverer[u] EXCEPT !.retry = NoJob]
      <3>1. recoverer' = [recoverer EXCEPT ![u] = r]
        BY <2>3 DEF ScheduleRecovered
      <3>2. r.retry = NoJob
        BY DEF TypeOK, RecovererState
      <3> HIDE DEF r
      <3> QED
        BY <3>1, <3>2 DEF TypeOK
    <2> QED
      BY <1>1, <2>1, <2>2, <2>3 DEF RecovererStep
  <1>2. ASSUME NEW u \in Ticks, PromoterStep(u) PROVE recoverer' = recoverer
    BY <1>2, Zenon DEF PromoterStep, ScanDue, RemoveDue, LoadPromoted, SavePromoted, PushPromoted
  <1>3. ASSUME FaultStep PROVE recoverer'[t] = IdleRecoverer \/ recoverer'[t] = recoverer[t]
    BY <1>3 DEF FaultStep, Crash, PromotionFails, RecoveryFails, FinishFails,
                SubmissionFails, CancellationFails, workerVars, TypeOK
  <1>4. ASSUME ApiStep PROVE recoverer' = recoverer
    BY <1>4, Zenon DEF ApiStep, CreateJob, EnqueueNewJob, ScheduleNewJob, LoadForCancel,
                RemoveJobFromQueue, RemoveJobFromDelayedQueue, SaveCancelled,
                SaveCancellationRequest, workerVars
  <1>5. ASSUME NEW l \in Lanes, LaneStep(l) PROVE recoverer' = recoverer
    BY <1>5, Zenon DEF LaneStep, ClaimNextJob, LoadClaimed, SaveClaim, CheckCancellation,
                FinishAttempt, FailAttempt, ScheduleRetry
  <1>6. ASSUME NEW k \in Jobs, TimePasses(k) PROVE recoverer' = recoverer
    BY <1>6 DEF TimePasses, BecomesDue, LockRunsOut, workerVars
  <1>7. IdleRecoverer.retry = NoJob
    BY DEF IdleRecoverer
  <1>8. \/ recoverer'[t].retry = recoverer[t].retry
        \/ recoverer'[t].retry = NoJob
        \/ \E s \in recoverer[t].stale :
              s.job = recoverer'[t].retry /\ db[s.job].lockedBy = s.lockedBy
    BY <1>1, <1>2, <1>3, <1>4, <1>5, <1>6, <1>7 DEF Next, vars
  <1> QED
    BY <1>8

LEMMA SchedulingComes ==
  ASSUME TypeOK, [Next]_vars, NEW l \in Lanes, lane'[l].pc = "scheduling"
  PROVE  \/ lane'[l] = lane[l]
         \/ lane[l].job \in Jobs /\ lane'[l].job = lane[l].job /\ db[lane[l].job].lockedBy = WorkerOf[l]
  <1>1. lane'[l] # IdleLane
    BY DEF IdleLane
  <1>2. ~LoadClaimed(l) /\ ~SaveClaim(l) /\ ~CheckCancellation(l)
    BY LaneRecord DEF Attempting
  <1>3. \A j \in Jobs : ~ClaimNextJob(l, j)
    BY LaneRecord
  <1>4. \A applied \in BOOLEAN : ~FinishFails(l, applied)
    BY LaneRecord DEF Attempting
  <1>5. ASSUME NEW nonRetryable \in BOOLEAN, FailAttempt(l, nonRetryable)
        PROVE  /\ lane[l].job \in Jobs /\ lane'[l].job = lane[l].job
               /\ db[lane[l].job].lockedBy = WorkerOf[l]
    <2> DEFINE r == [lane[l] EXCEPT !.pc = "scheduling"]
    <2>1. lane[l].job \in Jobs
      BY <1>5 DEF FailAttempt, TypeOK
    <2>2. \/ lane' = [lane EXCEPT ![l] = IdleLane]
          \/ /\ lane' = [lane EXCEPT ![l] = r]
             /\ db[lane[l].job].lockedBy = WorkerOf[l]
      BY <1>5 DEF FailAttempt, Lands
    <2>3. r.job = lane[l].job
      BY DEF TypeOK, LaneState
    <2> HIDE DEF r
    <2> QED
      BY <1>1, <2>1, <2>2, <2>3 DEF TypeOK
  <1> QED
    BY <1>1, <1>2, <1>3, <1>4, <1>5, LaneMoves

\* The claim is what starts an attempt: it opens it and counts it.
LEMMA ClaimStarts ==
  ASSUME IInv, NEW l \in Lanes, SaveClaim(l), NEW j, j = lane[l].job
  PROVE  /\ j \in Jobs /\ ~Open(j)
         /\ lane[l].seen.attempts = db[j].runs
         /\ db'[j].runs = db[j].runs + 1
         /\ \A k \in Jobs \ {j} : db'[k] = db[k]
  <1>1. j \in Jobs /\ db[j].lockedBy = NoWorker /\ lane[l].pc = "loaded"
    BY ClaimTakesLock, Zenon DEF SaveClaim
  <1>2. InLanes(j) = {<<"lane", l>>} /\ InRecoverers(j) = {}
    BY <1>1, LaneOnly DEF IInv
  <1>3. ~Open(j)
    <2>1. ASSUME NEW m \in Lanes, lane[m].pc = "scheduling", lane[m].job = j PROVE FALSE
      <3>1. <<"lane", m>> \in InLanes(j)
        BY <2>1 DEF InLanes
      <3>2. m = l
        BY <1>2, <3>1
      <3> QED
        BY <1>1, <2>1, <3>2
    <2>2. \A t \in Ticks : recoverer[t].retry # j
      BY <1>2 DEF InRecoverers
    <2> QED
      BY <1>1, <2>1, <2>2 DEF Open
  <1>4. lane[l].seen.attempts = db[j].runs
    BY <1>1 DEF IInv, LoadedIsCurrent, AttemptsCountRuns
  <1>5. db' = [db EXCEPT ![j] = ClaimWrite(db[j], lane[l].seen, WorkerOf[l])] /\ db \in [Jobs -> Doc]
    BY DEF SaveClaim, IInv, TypeOK
  <1>6. ClaimWrite(db[j], lane[l].seen, WorkerOf[l]).runs = db[j].runs + 1
    BY <1>1, <1>5 DEF ClaimWrite, Doc
  <1> HIDE DEF ClaimWrite
  <1> QED
    BY <1>1, <1>3, <1>4, <1>5, <1>6

LEMMA OpenComes ==
  ASSUME IInv, [Next]_vars, NEW j \in Jobs, db'[j].runs = db[j].runs, Open(j)'
  PROVE  Open(j)
  <1> USE PipelineAssumption, DocAssumption
  <1>t. TypeOK /\ db[j] \in Doc /\ StaleHasOwner
    BY DEF IInv, TypeOK
  <1>1. CASE db'[j].lockedBy # NoWorker
    <2>1. CASE OwnershipKept(j)
      BY <1>1, <2>1 DEF OwnershipKept, Open
    <2>2. CASE LockRunsOut(j)
      BY <1>1, <1>t, <2>2 DEF LockRunsOut, TypeOK, IInv, ProcessingIsLocked, Open
    <2>3. ASSUME NEW l \in Lanes, SaveClaim(l), lane[l].job = j PROVE FALSE
      BY <1>t, <2>3, ClaimStarts DEF Doc
    <2>4. db'[j] # NewDoc
      BY <1>1 DEF NewDoc, NoDoc
    <2>5. ASSUME NEW l \in Lanes, FinishedBy(l, j) PROVE FALSE
      BY <1>1, <1>t, <2>5, ReleaseFrees DEF FinishedBy
    <2>6. ASSUME NEW t \in Ticks, NEW s \in recoverer[t].stale, RecoveredBy(t, s, j) PROVE FALSE
      BY <1>1, <1>t, <2>6, ReleaseFrees DEF RecoveredBy
    <2> QED
      BY <1>t, <2>1, <2>2, <2>3, <2>4, <2>5, <2>6, DocWrites
  <1>2. ASSUME NEW l \in Lanes, lane'[l].pc = "scheduling", lane'[l].job = j PROVE Open(j)
    BY <1>t, <1>2, SchedulingComes DEF Open
  <1>3. ASSUME NEW t \in Ticks, recoverer'[t].retry = j PROVE Open(j)
    BY <1>t, <1>3, RetryComes DEF Open, StaleHasOwner
  <1> QED
    BY <1>1, <1>2, <1>3 DEF Open

LEMMA NoStartIf ==
  ASSUME TypeOK, NEW k, NEW doc, db' = [db EXCEPT ![k] = doc], doc.runs = db[k].runs
  PROVE  NoStart
  BY DEF TypeOK, NoStart

LEMMA UnchangedNoStart == UNCHANGED db => NoStart
  BY DEF NoStart

\* A finishing write leaves the count of attempts.
LEMMA FinalizeNoStart ==
  ASSUME TypeOK, NEW j \in Jobs, NEW owner, NEW status,
         db' = [db EXCEPT ![j] = Finalize(@, owner, status)]
  PROVE  NoStart
  <1>1. Finalize(db[j], owner, status).runs = db[j].runs
    BY DEF Finalize, Release, TypeOK, Doc
  <1>2. db' = [db EXCEPT ![j] = Finalize(db[j], owner, status)]
    OBVIOUS
  <1> HIDE DEF Finalize
  <1> QED
    BY <1>1, <1>2, NoStartIf

\* What is carried by nothing is not open either.
LEMMA NowhereIsClosed == ASSUME NEW j \in Jobs, Carriers(j)' = {} PROVE ~Open(j)'
  <1>1. Locks(j)' = {} /\ InLanes(j)' = {} /\ InRecoverers(j)' = {}
    BY DEF Carriers
  <1>2. \A l \in Lanes : ~(lane'[l].pc = "scheduling" /\ lane'[l].job = j)
    BY <1>1 DEF InLanes
  <1>3. \A t \in Ticks : recoverer'[t].retry # j
    BY <1>1 DEF InRecoverers
  <1>4. db'[j].lockedBy = NoWorker
    BY <1>1 DEF Locks
  <1> QED
    BY <1>2, <1>3, <1>4 DEF Open

\* An announced retry is off the ledger: its id is in jobs:delayed alone.
LEMMA PushCloses ==
  ASSUME IInv, [Next]_vars, NEW j \in Jobs, PushToDelayedQueue(j)
  PROVE  ~Open(j)'
  <1>1. AtMostOneCarrier'
    BY NextIInv DEF IInv
  <1>2. delayed'[j] # "absent"
    BY DEF PushToDelayedQueue, IInv, TypeOK
  <1>3. <<"delayed", j>> \in Carriers(j)'
    BY <1>2 DEF Carriers, InDelayed
  <1>4. \A x \in Carriers(j)' : x = <<"delayed", j>>
    BY <1>1, <1>3 DEF AtMostOneCarrier
  <1>5. db'[j].lockedBy = NoWorker
    BY <1>4 DEF Carriers, Locks
  <1>6. ASSUME NEW l \in Lanes, lane'[l].pc = "scheduling", lane'[l].job = j PROVE FALSE
    BY <1>4, <1>6 DEF Carriers, InLanes
  <1>7. ASSUME NEW t \in Ticks, recoverer'[t].retry = j PROVE FALSE
    BY <1>4, <1>7 DEF Carriers, InRecoverers
  <1> QED
    BY <1>5, <1>6, <1>7 DEF Open

-----------------------------------------------------------------------------
(* The calls a step makes *)

\* No call, but some may settle, and a fault may forestall some.
NoCall ==
    /\ UNCHANGED published
    /\ pending' \subseteq pending
    /\ topic' \subseteq topic \cup {p.event : p \in pending}
    /\ untold' \subseteq untold
    /\ untold' = untold \/ faults' # 0

Call(by, e) == by \in Workers \cup {Api} /\ e \in Event /\ Tell(by, e)

OtherCall(j) == NoStart /\ \E by, e : Call(by, e) /\ e \in Asides(j)

\* A claim without its call, and the call without its claim.
Claim(l) == l \notin untold /\ ClaimUntold(l)

StartCall(l) == TellStarted(l) /\ Started(lane[l].job, lane[l].seen.attempts) \in Event

RetryCall(j) ==
    /\ NoStart
    /\ Open(j) /\ ~Open(j)'
    /\ \E by : Call(by, Told("JOB_RETRYING", j))

EndCall(j) ==
    /\ NoStart
    /\ \E status \in Terminal :
          /\ Released(j, status)
          /\ \E by : Call(by, EndEvent(j, status))

EventSteps ==
    \/ NoStart /\ NoCall
    \/ \E j \in Jobs : OtherCall(j) \/ RetryCall(j) \/ EndCall(j)
    \/ \E l \in Lanes : Claim(l) \/ StartCall(l)

LEMMA ApiCalls ==
  ASSUME EInv,
         \/ RequestStep
         \/ \E j \in Jobs : PushAndTell(j)
         \/ \E c \in Cancels : CancelAndTell(c)
  PROVE  EventSteps /\ [Next]_vars
  <1> USE DEF EventSteps
  <1>t. TypeOK /\ IInv
    BY DEF EInv, IInv
  <1>s. Silent => NoCall
    BY DEF Silent, NoCall, eventVars
  <1>1. ASSUME NEW j \in Jobs, NEW scheduled \in BOOLEAN, CreateJob(j, scheduled), Silent
        PROVE  EventSteps /\ Next
    <2>1. db' = [db EXCEPT ![j] = NewDoc] /\ NewDoc.runs = 0 /\ db[j].runs = 0
      BY <1>1, <1>t DEF CreateJob, NewDoc, NoDoc, IInv, UnsubmittedIsNowhere
    <2>2. NoStart
      BY <1>t, <2>1, NoStartIf
    <2> QED
      BY <1>1, <1>s, <2>2 DEF Next, ApiStep
  <1>2. ASSUME NEW j \in Jobs, EnqueueNewJob(j) \/ ScheduleNewJob(j),
               Tell(Api, Told("JOB_CREATED", j))
        PROVE  EventSteps /\ Next
    <2>1. UNCHANGED db
      BY <1>2 DEF EnqueueNewJob, ScheduleNewJob
    <2>2. Call(Api, Told("JOB_CREATED", j))
      BY <1>2, EventTypes DEF Call, EventType
    <2>3. OtherCall(j)
      BY <2>1, <2>2, UnchangedNoStart DEF OtherCall, Asides
    <2> QED
      BY <1>2, <2>3 DEF Next, ApiStep
  <1>3. ASSUME NEW c \in Cancels, NEW j \in Jobs, LoadForCancel(c, j), Silent
        PROVE  EventSteps /\ Next
    BY <1>3, <1>s, UnchangedNoStart, Zenon DEF LoadForCancel, Next, ApiStep
  <1>4. ASSUME NEW c \in Cancels, RemoveJobFromQueue(c) \/ RemoveJobFromDelayedQueue(c), Silent
        PROVE  EventSteps /\ Next
    BY <1>4, <1>s, UnchangedNoStart, Zenon
       DEF RemoveJobFromQueue, RemoveJobFromDelayedQueue, Next, ApiStep
  <1>5. ASSUME NEW c \in Cancels, NEW j, j = cancel[c].job,
               \/ SaveCancelled(c) /\ Tell(Api, CancelledFrom(j, "QUEUED"))
               \/ /\ SaveCancellationRequest(c)
                  /\ Tell(Api, Told("JOB_CANCELLATION_REQUESTED", j))
        PROVE  EventSteps /\ Next
    <2>1. j \in Jobs /\ db[j] \in Doc
      BY <1>5, <1>t DEF SaveCancelled, SaveCancellationRequest, TypeOK
    <2>2. \/ db' = [db EXCEPT ![j] = [db[j] EXCEPT !.status = "CANCELLED"]]
          \/ db' = [db EXCEPT ![j] = [db[j] EXCEPT !.cancelRequested = TRUE]]
      BY <1>5 DEF SaveCancelled, SaveCancellationRequest
    <2>3. /\ [db[j] EXCEPT !.status = "CANCELLED"].runs = db[j].runs
          /\ [db[j] EXCEPT !.cancelRequested = TRUE].runs = db[j].runs
      BY <2>1 DEF Doc
    <2>4. NoStart
      BY <1>t, <2>2, <2>3, NoStartIf
    <2>5. /\ CancelledFrom(j, "QUEUED") \in Event \cap Asides(j)
          /\ Told("JOB_CANCELLATION_REQUESTED", j) \in Event \cap Asides(j)
      BY <2>1, EventTypes DEF Asides, EventType
    <2>6. OtherCall(j)
      BY <1>5, <2>4, <2>5 DEF OtherCall, Call
    <2> QED
      BY <1>5, <2>1, <2>6 DEF Next, ApiStep
  <1>6. ASSUME NEW c \in Cancels, CancelAndTell(c) PROVE EventSteps /\ Next
    BY <1>4, <1>5, <1>6 DEF CancelAndTell
  <1>7. ASSUME NEW j \in Jobs, PushAndTell(j) PROVE EventSteps /\ Next
    BY <1>2, <1>7 DEF PushAndTell
  <1>8. ASSUME RequestStep PROVE EventSteps /\ Next
    BY <1>1, <1>3, <1>8 DEF RequestStep
  <1> QED
    BY <1>6, <1>7, <1>8

LEMMA LaneCalls ==
  ASSUME EInv, NEW l \in Lanes, LaneAndTell(l)
  PROVE  EventSteps /\ [Next]_vars
  <1> USE PipelineAssumption, DocAssumption DEF EventSteps
  <1> PICK j : j = lane[l].job
    OBVIOUS
  <1> DEFINE w == WorkerOf[l]
             landed == j \in Jobs /\ Lands(db[j], w)
  <1>t. TypeOK /\ IInv /\ AtMostOneCarrier /\ w \in Workers
    BY DEF EInv, IInv
  <1>s. Silent => NoCall
    BY DEF Silent, NoCall, eventVars
  <1>u. l \notin untold
    BY DEF LaneAndTell
  <1>j. lane[l].pc # "idle" => j \in Jobs
    BY <1>t DEF TypeOK
  <1>n. LaneStep(l) => Next
    BY DEF Next
  <1>f. ASSUME NEW status \in Status, j \in Jobs,
               db' = [db EXCEPT ![j] = Finalize(@, w, status)]
        PROVE  /\ NoStart
               /\ landed => Released(j, status)
    BY <1>t, <1>f, FinalizeMoves, FinalizeNoStart
  <1>c. ASSUME NEW status \in Terminal, j \in Jobs, Tell(w, EndEvent(j, status))
        PROVE  Call(w, EndEvent(j, status))
    <2>1. EndEvent(j, status) \in Event
      BY <1>c, EventTypes DEF EndEvent, Terminal, EventType
    <2> QED
      BY <1>c, <1>t, <2>1 DEF Call
  <1>1. ASSUME LoadClaimed(l) \/ CheckCancellation(l) \/ \E k \in Jobs : ClaimNextJob(l, k), Silent
        PROVE  EventSteps /\ Next
    <2>1. UNCHANGED db
      BY <1>1, Zenon DEF LoadClaimed, CheckCancellation, ClaimNextJob
    <2>2. LaneStep(l)
      BY <1>1 DEF LaneStep
    <2> QED
      BY <1>1, <1>s, <1>n, <2>1, <2>2, UnchangedNoStart
  <1>2. ASSUME ClaimUntold(l) PROVE EventSteps /\ Next
    BY <1>2, <1>n, <1>u DEF Claim, ClaimUntold, LaneStep
  <1>3. ASSUME FinishAttempt(l),
               TellIf(landed, w, IF lane[l].pc = "cancelling"
                                    THEN CancelledFrom(j, "PROCESSING")
                                    ELSE Told("JOB_COMPLETED", j))
        PROVE  EventSteps /\ Next
    <2> DEFINE status == IF lane[l].pc = "cancelling" THEN "CANCELLED" ELSE "COMPLETED"
    <2>1. j \in Jobs /\ db' = [db EXCEPT ![j] = Finalize(@, w, status)]
      BY <1>3, <1>j DEF FinishAttempt, Finished
    <2>2. status \in Terminal /\ status \in Status
      BY DEF Terminal, Status
    <2>3. EndEvent(j, status) = IF lane[l].pc = "cancelling" THEN CancelledFrom(j, "PROCESSING")
                                ELSE Told("JOB_COMPLETED", j)
      BY DEF EndEvent
    <2> HIDE DEF status
    <2>4. NoStart /\ (landed => Released(j, status))
      BY <1>f, <2>1, <2>2
    <2>5. CASE landed
      <3>1. Tell(w, EndEvent(j, status))
        BY <1>3, <2>3, <2>5 DEF TellIf
      <3>2. EndCall(j)
        BY <1>c, <2>1, <2>2, <2>4, <2>5, <3>1 DEF EndCall
      <3> QED
        BY <1>3, <1>n, <2>1, <3>2 DEF LaneStep
    <2>6. CASE ~landed
      <3>1. Silent
        BY <1>3, <2>6 DEF TellIf
      <3> QED
        BY <1>3, <1>n, <1>s, <2>4, <3>1 DEF LaneStep
    <2> QED
      BY <2>5, <2>6
  <1>4. ASSUME NEW nonRetryable \in BOOLEAN, FailAttempt(l, nonRetryable),
               IF FailureStatus(lane[l].seen.attempts, nonRetryable) = "DEAD_LETTER"
               THEN TellIf(landed, w, Told("JOB_DLQ", j))
               ELSE Silent
        PROVE  EventSteps /\ Next
    <2> DEFINE status == FailureStatus(lane[l].seen.attempts, nonRetryable)
    <2>1. j \in Jobs /\ db' = [db EXCEPT ![j] = Finalize(@, w, status)]
      BY <1>4, <1>j DEF FailAttempt
    <2>2. status \in Status
      BY FailureStatusIsStatus DEF FailureStatus, Status
    <2>3. EndEvent(j, "DEAD_LETTER") = Told("JOB_DLQ", j) /\ "DEAD_LETTER" \in Terminal
      BY DEF EndEvent, Terminal
    <2>4. IF status = "DEAD_LETTER" THEN TellIf(landed, w, Told("JOB_DLQ", j)) ELSE Silent
      BY <1>4
    <2> HIDE DEF status
    <2>5. NoStart /\ (landed => Released(j, status))
      BY <1>f, <2>1, <2>2
    <2>6. CASE landed /\ status = "DEAD_LETTER"
      <3>1. Tell(w, EndEvent(j, "DEAD_LETTER"))
        BY <2>3, <2>4, <2>6 DEF TellIf
      <3>2. EndCall(j)
        BY <1>c, <2>1, <2>3, <2>5, <2>6, <3>1 DEF EndCall
      <3> QED
        BY <1>4, <1>n, <2>1, <3>2 DEF LaneStep
    <2>7. CASE ~(landed /\ status = "DEAD_LETTER")
      <3>1. Silent
        BY <2>4, <2>7 DEF TellIf
      <3> QED
        BY <1>4, <1>n, <1>s, <2>5, <3>1 DEF LaneStep
    <2> QED
      BY <2>6, <2>7
  <1>5. ASSUME ScheduleRetry(l), Tell(w, Told("JOB_RETRYING", j)) PROVE EventSteps /\ Next
    <2>1. j \in Jobs /\ lane[l].pc = "scheduling" /\ PushToDelayedQueue(j) /\ UNCHANGED db
      BY <1>5, <1>j DEF ScheduleRetry
    <2>2. Next
      BY <1>5, <1>n DEF LaneStep
    <2>o. Open(j)
      BY <2>1 DEF Open
    <2>3. Open(j) /\ ~Open(j)'
      BY <1>t, <2>1, <2>2, <2>o, PushCloses
    <2>4. Call(w, Told("JOB_RETRYING", j))
      BY <1>5, <1>t, <2>1, EventTypes DEF Call, EventType
    <2>5. RetryCall(j)
      BY <2>1, <2>3, <2>4, UnchangedNoStart DEF RetryCall
    <2> QED
      BY <2>1, <2>2, <2>5
  <1> HIDE DEF EventSteps, landed, w
  <1> QED
    BY <1>1, <1>2, <1>3, <1>4, <1>5 DEF LaneAndTell, landed, w

LEMMA RecovererCalls ==
  ASSUME EInv, NEW t \in Ticks, RecovererAndTell(t)
  PROVE  EventSteps /\ [Next]_vars
  <1> USE PipelineAssumption, DocAssumption DEF EventSteps
  <1> DEFINE w == WorkerOf[t]
  <1>t. TypeOK /\ IInv /\ AtMostOneCarrier /\ w \in Workers
    BY DEF EInv, IInv
  <1>s. Silent => NoCall
    BY DEF Silent, NoCall, eventVars
  <1>n. RecovererStep(t) => Next
    BY DEF Next
  <1>1. ASSUME ScanStale(t), Silent PROVE EventSteps /\ Next
    BY <1>1, <1>s, <1>n, UnchangedNoStart DEF ScanStale, RecovererStep
  <1>2. ASSUME NEW s \in recoverer[t].stale, RecoverJob(t, s),
               IF FailureStatus(s.attempts, FALSE) = "DEAD_LETTER"
               THEN TellIf(Lands(db[s.job], s.lockedBy), w, Told("JOB_DLQ", s.job))
               ELSE Silent
        PROVE  EventSteps /\ Next
    <2> DEFINE status == FailureStatus(s.attempts, FALSE)
               landed == Lands(db[s.job], s.lockedBy)
    <2>1. s.job \in Jobs /\ s.lockedBy \in Workers
      BY <1>t DEF TypeOK, RecovererState, StaleJob, IInv, StaleHasOwner
    <2>2. db' = [db EXCEPT ![s.job] = Finalize(@, s.lockedBy, status)]
      BY <1>2 DEF RecoverJob
    <2>3. status \in Status
      BY DEF FailureStatus, Status
    <2>4. EndEvent(s.job, "DEAD_LETTER") = Told("JOB_DLQ", s.job) /\ "DEAD_LETTER" \in Terminal
      BY DEF EndEvent, Terminal
    <2>5. IF status = "DEAD_LETTER" THEN TellIf(landed, w, Told("JOB_DLQ", s.job)) ELSE Silent
      BY <1>2
    <2> HIDE DEF status
    <2>6. NoStart /\ (landed => Released(s.job, status))
      BY <1>t, <2>1, <2>2, <2>3, FinalizeMoves, FinalizeNoStart
    <2>r. RecovererStep(t)
      BY <1>2 DEF RecovererStep
    <2>7. CASE landed /\ status = "DEAD_LETTER"
      <3>1. Tell(w, EndEvent(s.job, "DEAD_LETTER"))
        BY <2>4, <2>5, <2>7 DEF TellIf
      <3>2. EndEvent(s.job, "DEAD_LETTER") \in Event
        BY <2>1, <2>4, EventTypes DEF EventType
      <3>3. EndCall(s.job)
        BY <1>t, <2>4, <2>6, <2>7, <3>1, <3>2 DEF EndCall, Call
      <3> QED
        BY <1>n, <2>1, <2>r, <3>3
    <2>8. CASE ~(landed /\ status = "DEAD_LETTER")
      <3>1. Silent
        BY <2>5, <2>8 DEF TellIf
      <3> QED
        BY <1>n, <1>s, <2>6, <2>r, <3>1
    <2> QED
      BY <2>7, <2>8
  <1>3. ASSUME ScheduleRecovered(t), NEW j, j = recoverer[t].retry,
               Tell(w, Told("JOB_RETRYING", j))
        PROVE  EventSteps /\ Next
    <2>1. j \in Jobs /\ PushToDelayedQueue(j) /\ UNCHANGED db
      BY <1>3, <1>t DEF ScheduleRecovered, TypeOK, RecovererState
    <2>2. Next
      BY <1>3, <1>n DEF RecovererStep
    <2>o. Open(j)
      BY <1>3 DEF Open
    <2>3. Open(j) /\ ~Open(j)'
      BY <1>t, <2>1, <2>2, <2>o, PushCloses
    <2>4. Call(w, Told("JOB_RETRYING", j))
      BY <1>3, <1>t, <2>1, EventTypes DEF Call, EventType
    <2>5. RetryCall(j)
      BY <2>1, <2>3, <2>4, UnchangedNoStart DEF RetryCall
    <2> QED
      BY <2>1, <2>2, <2>5
  <1> HIDE DEF EventSteps, w
  <1> QED
    BY <1>1, <1>2, <1>3 DEF RecovererAndTell, w

LEMMA FaultCalls ==
  ASSUME EInv, FaultAndTell
  PROVE  EventSteps /\ [Next]_vars
  <1> USE DEF EventSteps
  <1>t. TypeOK
    BY DEF EInv, IInv
  <1>s. Silent => NoCall
    BY DEF Silent, NoCall, eventVars
  <1>1. ASSUME NEW w \in Workers, CrashAndTell(w) PROVE EventSteps /\ Next
    <2>f. faults' # 0
      BY <1>1, <1>t DEF CrashAndTell, Crash, Fault, TypeOK
    <2>1. NoCall /\ UNCHANGED db /\ Crash(w)
      BY <1>1, <2>f DEF NoCall, CrashAndTell, Crash
    <2> QED
      BY <1>1, <2>1, UnchangedNoStart DEF Next, FaultStep
  <1>2. ASSUME NEW l \in Lanes, NEW applied \in BOOLEAN, FinishFails(l, applied), Silent
        PROVE  EventSteps /\ Next
    <2>1. NoStart
      <3>1. CASE applied
        <4>1. PICK status : db' = [db EXCEPT ![lane[l].job] = Finalize(@, WorkerOf[l], status)]
          BY <1>2, <3>1 DEF FinishFails, Finished
        <4>2. lane[l].job \in Jobs
          BY <1>2, <1>t DEF FinishFails, TypeOK
        <4> QED
          BY <1>t, <4>1, <4>2, FinalizeNoStart
      <3>2. CASE ~applied
        BY <1>2, <3>2, UnchangedNoStart DEF FinishFails
      <3> QED
        BY <3>1, <3>2
    <2> QED
      BY <1>2, <1>s, <2>1 DEF Next, FaultStep
  <1>3. ASSUME \/ \E t \in Ticks : PromotionFails(t) \/ RecoveryFails(t)
               \/ \E j \in Jobs : SubmissionFails(j)
               \/ \E c \in Cancels : CancellationFails(c),
               Silent
        PROVE  EventSteps /\ Next
    <2>1. UNCHANGED db
      BY <1>3 DEF PromotionFails, RecoveryFails, SubmissionFails, CancellationFails
    <2>2. FaultStep
      BY <1>3 DEF FaultStep
    <2> QED
      BY <1>3, <1>s, <2>1, <2>2, UnchangedNoStart DEF Next
  <1> HIDE DEF EventSteps
  <1> QED
    BY <1>1, <1>2, <1>3 DEF FaultAndTell

\* The steps that call nothing.
LEMMA SilentCalls ==
  ASSUME EInv, Silent,
         \/ \E j \in Jobs : TimePasses(j)
         \/ \E t \in Ticks : PromoterStep(t)
  PROVE  EventSteps /\ [Next]_vars
  <1>t. TypeOK
    BY DEF EInv, IInv
  <1>s. NoCall
    BY DEF Silent, NoCall, eventVars
  <1>1. ASSUME NEW j \in Jobs, TimePasses(j) PROVE NoStart
    <2>1. CASE BecomesDue(j)
      BY <2>1, UnchangedNoStart DEF BecomesDue
    <2>2. CASE LockRunsOut(j)
      <3>1. db' = [db EXCEPT ![j] = [db[j] EXCEPT !.lock = "past"]]
        BY <2>2 DEF LockRunsOut
      <3>2. [db[j] EXCEPT !.lock = "past"].runs = db[j].runs
        BY <1>t DEF TypeOK, Doc
      <3> QED
        BY <1>t, <3>1, <3>2, NoStartIf
    <2> QED
      BY <1>1, <2>1, <2>2 DEF TimePasses
  <1>2. ASSUME NEW t \in Ticks, PromoterStep(t) PROVE NoStart
    <2>1. ASSUME SavePromoted(t) PROVE NoStart
      <3>1. PICK k : k = promoter[t].job
        OBVIOUS
      <3>2. k \in Jobs
        BY <2>1, <3>1, <1>t DEF SavePromoted, TypeOK, PromoterState
      <3>3. db' = [db EXCEPT ![k] = PromotionWrite(db[k], promoter[t].seen)]
        BY <2>1, <3>1 DEF SavePromoted
      <3>4. PromotionWrite(db[k], promoter[t].seen).runs = db[k].runs
        BY <1>t, <3>2 DEF PromotionWrite, TypeOK, Doc
      <3> HIDE DEF PromotionWrite
      <3> QED
        BY <1>t, <3>3, <3>4, NoStartIf
    <2>2. PromoterStep(t) => SavePromoted(t) \/ UNCHANGED db
      BY Zenon DEF PromoterStep, ScanDue, RemoveDue, LoadPromoted, PushPromoted
    <2> QED
      BY <1>2, <2>1, <2>2, UnchangedNoStart
  <1> QED
    BY <1>s, <1>1, <1>2 DEF EventSteps, Next

LEMMA StartCalls ==
  ASSUME EInv, NEW l \in Lanes, TellStarted(l)
  PROVE  EventSteps /\ [Next]_vars
  <1>1. lane[l].job \in Jobs /\ lane[l].seen.attempts \in Nat \ {0}
    <2>1. lane[l].pc = "running" /\ lane[l].seen.attempts \in 1 .. db[lane[l].job].runs
      BY DEF EInv, UntoldWait, TellStarted
    <2>2. lane[l].job \in Jobs
      BY <2>1 DEF EInv, IInv, TypeOK
    <2> QED
      BY <2>1, <2>2 DEF EInv, IInv, TypeOK, Doc
  <1>2. StartCall(l)
    BY <1>1, EventTypes DEF StartCall
  <1> QED
    BY <1>2 DEF EventSteps, TellStarted

LEMMA EventsCalls ==
  ASSUME EInv, [EventsNext]_allVars
  PROVE  (EventSteps /\ [Next]_vars) \/ \E p \in pending : Drop(p)
  <1>1. CASE UNCHANGED allVars
    <2>1. NoCall /\ UNCHANGED db /\ UNCHANGED vars
      BY <1>1 DEF NoCall, allVars, eventVars, vars
    <2> QED
      BY <2>1, UnchangedNoStart DEF EventSteps
  <1>2. ASSUME NEW p \in pending, Send(p) PROVE EventSteps /\ [Next]_vars
    <2>1. NoCall /\ UNCHANGED db /\ UNCHANGED vars
      BY <1>2 DEF NoCall, Send, vars
    <2> QED
      BY <2>1, UnchangedNoStart DEF EventSteps
  <1>3. ASSUME EventsNext PROVE (EventSteps /\ [Next]_vars) \/ \E p \in pending : Drop(p)
    BY <1>2, <1>3, ApiCalls, LaneCalls, StartCalls, RecovererCalls, FaultCalls, SilentCalls
       DEF EventsNext, Progress
  <1> QED
    BY <1>1, <1>3

-----------------------------------------------------------------------------
(* The invariant is preserved *)

LEMMA EndStays ==
  ASSUME IInv, [Next]_vars, NEW j \in Jobs, submit[j] # "new", Carriers(j) = {}
  PROVE  /\ submit'[j] # "new" /\ Carriers(j)' = {}
         /\ db'[j].status = db[j].status \/ db'[j].status = "CANCELLED"
  <1>t. JobSteps /\ db[j] \in Doc
    BY NextJobSteps DEF IInv, TypeOK
  <1>1. Stays(j) \/ Cancelled(j)
    BY <1>t, NowhereStays
  <1>2. submit'[j] # "new"
    BY <1>t, EachJob DEF Changes, Created, SubmitKept
  <1>3. db'[j].status = db[j].status \/ db'[j].status = "CANCELLED"
    BY <1>t, <1>1 DEF Stays, DocKept, Cancelled, Doc
  <1> QED
    BY <1>1, <1>2, <1>3 DEF Stays, Cancelled

LEMMA EndingEnds ==
  ASSUME IInv, [Next]_vars, NEW j \in Jobs, NEW status \in Terminal, Released(j, status)
  PROVE  /\ Open(j) /\ Carriers(j) # {}
         /\ submit'[j] # "new" /\ Carriers(j)' = {} /\ ~Open(j)'
         /\ db'[j].status = status
  <1> USE DocAssumption
  <1>t. JobSteps /\ db[j] \in Doc
    BY NextJobSteps DEF IInv, TypeOK
  <1>1. db[j].lockedBy \in Workers /\ db[j].lockedBy # NoWorker /\ Carriers(j) # {}
    BY LockedIsCarried DEF Released
  <1>2. db'[j].status = status /\ db'[j].lockedBy = NoWorker /\ status # "RETRYING"
    BY <1>t, ReleaseKeeps DEF Released, Terminal
  <1>3. submit[j] # "new"
    BY <1>1 DEF IInv, UnsubmittedIsNowhere
  <1>4. ~Stays(j) /\ ~Handed(j) /\ ~Dropped(j) /\ ~Promoted(j) /\ ~Begun(j) /\ ~Created(j)
    BY <1>1, <1>2, <1>3 DEF Stays, DocKept, Handed, Dropped, Promoted, Begun, Created
  <1>5. ~Cancelled(j)
    BY <1>t, <1>1, <1>2 DEF Cancelled, Doc
  <1>6. ~Retried(j)
    BY <1>t, <1>2, ReleaseKeeps DEF Retried, Released
  <1>7. SubmitKept(j) /\ Carriers(j)' = {}
    BY <1>t, <1>4, <1>5, <1>6, EachJob DEF Changes, EndedAs
  <1>8. ~Open(j)'
    BY <1>7, NowhereIsClosed
  <1> QED
    BY <1>1, <1>2, <1>3, <1>7, <1>8 DEF Open, SubmitKept

\* Different kinds of calls are for different events.
LEMMA EventsDiffer ==
  /\ \A j, k, n : \A status \in Terminal : Started(j, n) # EndEvent(k, status)
  /\ \A j, k, n : Started(j, n) # Told("JOB_RETRYING", k)
  /\ \A j, k : \A status \in Terminal : Told("JOB_RETRYING", j) # EndEvent(k, status)
  /\ \A j, k : \A e \in Asides(j) :
        /\ \A n : e # Started(k, n)
        /\ e # Told("JOB_RETRYING", k)
        /\ \A status \in Terminal : e # EndEvent(k, status)
  /\ \A j, k : j # k =>
        /\ \A n, m : Started(j, n) # Started(k, m)
        /\ Told("JOB_RETRYING", j) # Told("JOB_RETRYING", k)
        /\ \A r, s \in Terminal : EndEvent(j, r) # EndEvent(k, s)
  /\ \A j, n, m : n # m => Started(j, n) # Started(j, m)
  <1>1. \A k : \A status \in Terminal :
           /\ EndEvent(k, status).job = k
           /\ EndEvent(k, status).type \in {"JOB_COMPLETED", "JOB_DLQ", "JOB_CANCELLED"}
           /\ EndEvent(k, status).type = "JOB_CANCELLED" => EndEvent(k, status).from = "PROCESSING"
    BY EventShapes DEF EndEvent, Terminal
  <1>2. \A j, n : /\ Started(j, n).job = j /\ Started(j, n).attempt = n
                  /\ Started(j, n).type = "JOB_STARTED"
    BY EventShapes
  <1>3. \A j : Told("JOB_RETRYING", j).job = j /\ Told("JOB_RETRYING", j).type = "JOB_RETRYING"
    BY EventShapes
  <1>4. \A j : \A e \in Asides(j) :
           \/ e.type \in {"JOB_CREATED", "JOB_CANCELLATION_REQUESTED"}
           \/ e.type = "JOB_CANCELLED" /\ e.from = "QUEUED"
    BY EventShapes DEF Asides
  <1>5. \A j, k, n : \A status \in Terminal : Started(j, n) # EndEvent(k, status)
    BY <1>1, <1>2
  <1>6. \A j, k, n : Started(j, n) # Told("JOB_RETRYING", k)
    BY <1>2, <1>3
  <1>7. \A j, k : \A status \in Terminal : Told("JOB_RETRYING", j) # EndEvent(k, status)
    BY <1>1, <1>3
  <1>8. ASSUME NEW j, NEW k, NEW e \in Asides(j)
        PROVE  /\ \A n : e # Started(k, n)
               /\ e # Told("JOB_RETRYING", k)
               /\ \A status \in Terminal : e # EndEvent(k, status)
    <2>1. \A n : e # Started(k, n)
      BY <1>2, <1>4
    <2>2. e # Told("JOB_RETRYING", k)
      BY <1>3, <1>4
    <2>3. \A status \in Terminal : e # EndEvent(k, status)
      BY <1>1, <1>4
    <2> QED
      BY <2>1, <2>2, <2>3
  <1>9. \A j, k : j # k =>
           /\ \A n, m : Started(j, n) # Started(k, m)
           /\ Told("JOB_RETRYING", j) # Told("JOB_RETRYING", k)
           /\ \A r, s \in Terminal : EndEvent(j, r) # EndEvent(k, s)
    BY <1>1, <1>2, <1>3
  <1>10. \A j, n, m : n # m => Started(j, n) # Started(j, m)
    BY <1>2
  <1> QED
    BY <1>5, <1>6, <1>7, <1>8, <1>9, <1>10

RetriesKept(k) == Calls(Told("JOB_RETRYING", k))' = Calls(Told("JOB_RETRYING", k))
EndsKept(k) ==
    /\ Endings(k)' = Endings(k)
    /\ \A s \in Terminal : Calls(EndEvent(k, s))' = Calls(EndEvent(k, s))

LedgerKept(k) == db'[k].runs = db[k].runs /\ RetriesKept(k) /\ EndsKept(k)

StartBooked(k) ==
    ~Open(k) /\ db'[k].runs = db[k].runs + 1 /\ RetriesKept(k) /\ EndsKept(k)

RetryBooked(k) ==
    /\ Open(k) /\ ~Open(k)' /\ db'[k].runs = db[k].runs
    /\ Calls(Told("JOB_RETRYING", k))' = Calls(Told("JOB_RETRYING", k)) + 1
    /\ EndsKept(k)

EndBooked(k) ==
    /\ db'[k].runs = db[k].runs
    /\ \E status \in Terminal :
          /\ Released(k, status)
          /\ Endings(k)' = Endings(k) + 1
          /\ \A s \in Terminal \ {status} :
                 Calls(EndEvent(k, s))' = Calls(EndEvent(k, s))
    /\ RetriesKept(k)

Booked(k) == LedgerKept(k) \/ StartBooked(k) \/ RetryBooked(k) \/ EndBooked(k)

LEMMA NoCallBooks == ASSUME UNCHANGED published
                     PROVE  \A k : RetriesKept(k) /\ EndsKept(k)
  <1>1. \A e : Calls(e)' = Calls(e)
    BY DEF Calls
  <1> QED
    BY <1>1 DEF RetriesKept, EndsKept, Endings

LEMMA CallBooks ==
  ASSUME IsABag(published), NEW by, NEW e, Publish(by, e), NEW k
  PROVE  /\ e # Told("JOB_RETRYING", k) => RetriesKept(k)
         /\ (\A status \in Terminal : e # EndEvent(k, status)) => EndsKept(k)
         /\ \A status \in Terminal : e = EndEvent(k, status) =>
                /\ Endings(k)' = Endings(k) + 1
                /\ \A s \in Terminal \ {status} : Calls(EndEvent(k, s))' = Calls(EndEvent(k, s))
  <1>1. published' = published (+) SetToBag({e})
    BY DEF Publish
  <1>2. \A f : f # e => Calls(f)' = Calls(f)
    BY <1>1, OneMoreCall
  <1> QED
    BY <1>1, <1>2, Booking DEF RetriesKept, EndsKept

LEMMA Ledger ==
  ASSUME EInv, EventSteps, [Next]_vars, NEW k \in Jobs
  PROVE  Booked(k)
  <1> USE DEF Booked
  <1>t. IInv /\ IsABag(published)
    BY DEF EInv
  <1>1. CASE NoStart /\ NoCall
    BY <1>1, NoCallBooks DEF NoStart, NoCall, LedgerKept
  <1>2. ASSUME NEW j \in Jobs, OtherCall(j) PROVE LedgerKept(k)
    <2>1. PICK by, e : Publish(by, e) /\ e \in Asides(j)
      BY <1>2 DEF OtherCall, Call, Tell
    <2>2. RetriesKept(k) /\ EndsKept(k)
      BY <1>t, <2>1, CallBooks, EventsDiffer
    <2> QED
      BY <1>2, <2>2 DEF OtherCall, NoStart, LedgerKept
  <1>3. ASSUME NEW j \in Jobs, RetryCall(j) PROVE LedgerKept(k) \/ RetryBooked(k)
    <2>1. PICK by : Publish(by, Told("JOB_RETRYING", j))
      BY <1>3 DEF RetryCall, Call, Tell
    <2>2. EndsKept(k) /\ db'[k].runs = db[k].runs
      <3>1. \A status \in Terminal : Told("JOB_RETRYING", j) # EndEvent(k, status)
        BY EventsDiffer
      <3> QED
        BY <1>3, <1>t, <2>1, <3>1, CallBooks DEF RetryCall, NoStart
    <2>3. CASE j # k
      <3>1. RetriesKept(k)
        BY <1>t, <2>1, <2>3, CallBooks, EventsDiffer
      <3> QED
        BY <2>2, <3>1 DEF LedgerKept
    <2>4. CASE j = k
      <3>1. Calls(Told("JOB_RETRYING", k))' = Calls(Told("JOB_RETRYING", k)) + 1
        BY <1>t, <2>1, <2>4, OneMoreCall DEF Publish
      <3> QED
        BY <1>3, <2>2, <2>4, <3>1 DEF RetryBooked, RetryCall
    <2> QED
      BY <2>3, <2>4
  <1>4. ASSUME NEW j \in Jobs, EndCall(j) PROVE LedgerKept(k) \/ EndBooked(k)
    <2>1. PICK status \in Terminal :
             Released(j, status) /\ \E by : Publish(by, EndEvent(j, status))
      BY <1>4 DEF EndCall, Call, Tell
    <2>2. PICK by : Publish(by, EndEvent(j, status))
      BY <2>1
    <2>3. RetriesKept(k) /\ db'[k].runs = db[k].runs
      <3>1. EndEvent(j, status) # Told("JOB_RETRYING", k)
        BY EventsDiffer
      <3> QED
        BY <1>4, <1>t, <2>2, <3>1, CallBooks DEF EndCall, NoStart
    <2>4. CASE j # k
      <3>1. EndsKept(k)
        BY <1>t, <2>2, <2>4, CallBooks, EventsDiffer
      <3> QED
        BY <2>3, <3>1 DEF LedgerKept
    <2>5. CASE j = k
      <3>1. /\ Endings(k)' = Endings(k) + 1
            /\ \A s \in Terminal \ {status} : Calls(EndEvent(k, s))' = Calls(EndEvent(k, s))
        BY <1>t, <2>2, <2>5, CallBooks
      <3> QED
        BY <2>1, <2>3, <2>5, <3>1 DEF EndBooked
    <2> QED
      BY <2>4, <2>5
  <1>5. ASSUME NEW l \in Lanes, Claim(l) PROVE LedgerKept(k) \/ StartBooked(k)
    <2>1. PICK j : j = lane[l].job
      OBVIOUS
    <2>2. /\ j \in Jobs /\ ~Open(j)
          /\ db'[j].runs = db[j].runs + 1
          /\ \A i \in Jobs \ {j} : db'[i] = db[i]
      BY <1>5, <1>t, <2>1, ClaimStarts DEF Claim, ClaimUntold
    <2>3. RetriesKept(k) /\ EndsKept(k)
      BY <1>5, NoCallBooks DEF Claim, ClaimUntold
    <2> QED
      BY <2>2, <2>3 DEF LedgerKept, StartBooked
  <1>6. ASSUME NEW l \in Lanes, StartCall(l) PROVE LedgerKept(k)
    <2>1. PICK j, n : Publish(WorkerOf[l], Started(j, n))
      BY <1>6 DEF StartCall, TellStarted
    <2>2. Started(j, n) # Told("JOB_RETRYING", k)
      BY EventsDiffer
    <2>3. \A status \in Terminal : Started(j, n) # EndEvent(k, status)
      BY EventsDiffer
    <2>4. RetriesKept(k) /\ EndsKept(k)
      BY <1>t, <2>1, <2>2, <2>3, CallBooks
    <2>5. UNCHANGED db
      BY <1>6 DEF StartCall, TellStarted, vars
    <2> QED
      BY <2>4, <2>5 DEF LedgerKept
  <1> QED
    BY <1>1, <1>2, <1>3, <1>4, <1>5, <1>6 DEF EventSteps

\* A step that neither claims nor announces a claim.
StartsAside ==
    /\ NoStart
    /\ \A k, n : Calls(Started(k, n))' = Calls(Started(k, n))
    /\ untold' \subseteq untold
    /\ untold' = untold \/ faults' # 0

LEMMA StartSteps ==
  ASSUME EInv, EventSteps
  PROVE  StartsAside \/ \E l \in Lanes : Claim(l) \/ StartCall(l)
  <1>t. IsABag(published)
    BY DEF EInv
  <1>1. CASE NoStart /\ NoCall
    BY <1>1 DEF NoCall, StartsAside, Calls
  <1>2. ASSUME NoStart, NEW by, NEW e, Call(by, e), \A k, n : e # Started(k, n)
        PROVE  StartsAside
    <2>1. published' = published (+) SetToBag({e}) /\ untold' = untold
      BY <1>2 DEF Call, Tell, Publish
    <2>2. \A f : f # e => Calls(f)' = Calls(f)
      BY <1>t, <2>1, OneMoreCall
    <2> QED
      BY <1>2, <2>1, <2>2 DEF StartsAside
  <1>3. ASSUME NEW j \in Jobs, OtherCall(j) PROVE StartsAside
    <2>1. PICK by, e : Call(by, e) /\ e \in Asides(j)
      BY <1>3 DEF OtherCall
    <2> QED
      BY <1>2, <1>3, <2>1, EventsDiffer DEF OtherCall
  <1>4. ASSUME NEW j \in Jobs, RetryCall(j) PROVE StartsAside
    <2>1. PICK by : Call(by, Told("JOB_RETRYING", j))
      BY <1>4 DEF RetryCall
    <2> QED
      BY <1>2, <1>4, <2>1, EventsDiffer DEF RetryCall
  <1>5. ASSUME NEW j \in Jobs, EndCall(j) PROVE StartsAside
    <2>1. PICK status \in Terminal : \E by : Call(by, EndEvent(j, status))
      BY <1>5 DEF EndCall
    <2>2. PICK by : Call(by, EndEvent(j, status))
      BY <2>1
    <2> QED
      BY <1>2, <1>5, <2>2, EventsDiffer DEF EndCall
  <1> QED
    BY <1>1, <1>3, <1>4, <1>5 DEF EventSteps

\* A failure is never forgotten.
LEMMA FaultsGrow == ASSUME TypeOK, [Next]_vars, faults' = 0 PROVE faults = 0
  <1>1. FaultStep => faults' # 0
    BY DEF FaultStep, Crash, PromotionFails, RecoveryFails, FinishFails, SubmissionFails,
           CancellationFails, Fault, TypeOK
  <1>2. ApiStep => UNCHANGED faults
    BY Zenon DEF ApiStep, CreateJob, EnqueueNewJob, ScheduleNewJob, LoadForCancel, RemoveJobFromQueue,
           RemoveJobFromDelayedQueue, SaveCancelled, SaveCancellationRequest
  <1>3. \A l \in Lanes : LaneStep(l) => UNCHANGED faults
    BY Zenon DEF LaneStep, ClaimNextJob, LoadClaimed, SaveClaim, CheckCancellation, FinishAttempt,
           FailAttempt, ScheduleRetry
  <1>4. \A t \in Ticks : PromoterStep(t) \/ RecovererStep(t) => UNCHANGED faults
    BY Zenon DEF PromoterStep, ScanDue, RemoveDue, LoadPromoted, SavePromoted, PushPromoted,
           RecovererStep, ScanStale, RecoverJob, ScheduleRecovered
  <1>5. \A j \in Jobs : TimePasses(j) => UNCHANGED faults
    BY DEF TimePasses, BecomesDue, LockRunsOut
  <1> QED
    BY <1>1, <1>2, <1>3, <1>4, <1>5 DEF Next, vars

\* What waits for the answer to its save does nothing else.
LEMMA UntoldLanes ==
  ASSUME EInv, [EventsNext]_allVars, NEW l \in untold, l \in untold'
  PROVE  lane'[l] = lane[l]
  <1>t. TypeOK /\ l \in Lanes /\ lane[l].pc = "running"
    BY DEF EInv, IInv, EventsTypeOK, UntoldWait
  <1>1. ASSUME NEW m \in Lanes, NEW r, lane' = [lane EXCEPT ![m] = r], m # l
        PROVE  lane'[l] = lane[l]
    BY <1>1, <1>t DEF TypeOK
  <1>2. RequestStep \/ (\E j \in Jobs : PushAndTell(j)) \/ (\E c \in Cancels : CancelAndTell(c))
          => UNCHANGED lane
    BY Zenon DEF RequestStep, PushAndTell, CancelAndTell, CreateJob, EnqueueNewJob, ScheduleNewJob,
           LoadForCancel, RemoveJobFromQueue, RemoveJobFromDelayedQueue, SaveCancelled,
           SaveCancellationRequest, workerVars
  <1>3. (\E p \in pending : Send(p) \/ Drop(p)) \/ (\E m \in Lanes : TellStarted(m)) => UNCHANGED lane
    BY DEF Send, Drop, TellStarted, vars, workerVars
  <1>4. ASSUME NEW m \in Lanes, LaneAndTell(m) PROVE lane'[l] = lane[l]
    <2>1. m # l
      BY <1>4 DEF LaneAndTell
    <2>2. ASSUME NEW j \in Jobs, ClaimNextJob(m, j) PROVE lane'[l] = lane[l]
      BY <1>1, <2>1, <2>2 DEF ClaimNextJob
    <2>3. ASSUME NEW nonRetryable \in BOOLEAN, FailAttempt(m, nonRetryable)
          PROVE  lane'[l] = lane[l]
      BY <1>1, <2>1, <2>3 DEF FailAttempt
    <2>4. LoadClaimed(m) \/ SaveClaim(m) \/ CheckCancellation(m) => lane'[l] = lane[l]
      BY <1>1, <2>1 DEF LoadClaimed, SaveClaim, CheckCancellation
    <2>5. FinishAttempt(m) \/ ScheduleRetry(m) => lane'[l] = lane[l]
      BY <1>1, <2>1 DEF FinishAttempt, ScheduleRetry
    <2> QED
      BY <1>4, <2>2, <2>3, <2>4, <2>5 DEF LaneAndTell, ClaimUntold
  <1>5. ASSUME NEW t \in Ticks, PromoterStep(t) \/ RecovererAndTell(t) PROVE UNCHANGED lane
    BY <1>5, Zenon DEF PromoterStep, ScanDue, RemoveDue, LoadPromoted, SavePromoted, PushPromoted,
                RecovererAndTell, ScanStale, RecoverJob, ScheduleRecovered
  <1>6. \A j \in Jobs : TimePasses(j) => UNCHANGED lane
    BY DEF TimePasses, BecomesDue, LockRunsOut, workerVars
  <1>7. ASSUME FaultAndTell PROVE lane'[l] = lane[l]
    <2>1. ASSUME NEW w \in Workers, CrashAndTell(w) PROVE lane'[l] = lane[l]
      BY <1>t, <2>1 DEF CrashAndTell, Crash
    <2>2. ASSUME NEW m \in Lanes, NEW applied \in BOOLEAN, FinishFails(m, applied)
          PROVE  lane'[l] = lane[l]
      BY <1>t, <2>2 DEF FinishFails, TypeOK
    <2>3. \A t \in Ticks : PromotionFails(t) \/ RecoveryFails(t) => UNCHANGED lane
      BY DEF PromotionFails, RecoveryFails
    <2>4. /\ \A j \in Jobs : SubmissionFails(j) => UNCHANGED lane
          /\ \A c \in Cancels : CancellationFails(c) => UNCHANGED lane
      BY DEF SubmissionFails, CancellationFails, workerVars
    <2> QED
      BY <1>7, <2>1, <2>2, <2>3, <2>4 DEF FaultAndTell
  <1>8. CASE UNCHANGED allVars
    BY <1>8 DEF allVars, vars
  <1>9. CASE EventsNext
    BY <1>2, <1>3, <1>4, <1>5, <1>6, <1>7, <1>9 DEF EventsNext, Progress
  <1> QED
    BY <1>8, <1>9

LEMMA StartsStay ==
  ASSUME EInv, [EventsNext]_allVars, EventSteps, [Next]_vars
  PROVE  StartsTold' /\ UntoldWait' /\ NoneForgotten'
  <1>t. /\ IInv /\ TypeOK /\ IsABag(published) /\ untold \subseteq Lanes
        /\ \A l \in untold : lane[l].job \in Jobs
        /\ \A j \in Jobs : db[j].runs \in Nat
    <2>1. \A l \in untold : lane[l].pc = "running"
      BY DEF EInv, UntoldWait
    <2> QED
      BY <2>1 DEF EInv, IInv, TypeOK, EventsTypeOK, Doc
  <1>c. \A k, n : Calls(Started(k, n)) \in Nat
    BY <1>t, CallsIsNat
  <1>w. \A l \in untold : l \in untold' => lane'[l] = lane[l]
    BY UntoldLanes
  <1>f. faults' = 0 => faults = 0
    BY <1>t, FaultsGrow
  <1>1. CASE StartsAside
    <2>1. /\ \A j \in Jobs : db'[j].runs = db[j].runs
          /\ \A k, n : Calls(Started(k, n))' = Calls(Started(k, n))
          /\ \A l \in untold' : l \in untold /\ lane'[l] = lane[l]
          /\ faults' = 0 => untold' = untold
      BY <1>1, <1>w DEF StartsAside, NoStart
    <2>2. StartsTold'
      BY <2>1 DEF EInv, StartsTold
    <2>3. UntoldWait'
      BY <1>t, <2>1 DEF EInv, UntoldWait
    <2>4. NoneForgotten'
      BY <1>f, <2>1 DEF EInv, NoneForgotten
    <2> QED
      BY <2>2, <2>3, <2>4
  <1>2. ASSUME NEW l \in Lanes, Claim(l) PROVE StartsTold' /\ UntoldWait' /\ NoneForgotten'
    <2>1. PICK j : j = lane[l].job
      OBVIOUS
    <2>2. /\ j \in Jobs
          /\ lane[l].seen.attempts = db[j].runs
          /\ db'[j].runs = db[j].runs + 1
          /\ \A i \in Jobs \ {j} : db'[i] = db[i]
      BY <1>2, <1>t, <2>1, ClaimStarts DEF Claim, ClaimUntold
    <2>3. PICK n : n = db[j].runs + 1
      OBVIOUS
    <2>4. /\ lane'[l].pc = "running" /\ lane'[l].job = j /\ lane'[l].seen.attempts = n
          /\ l \notin untold /\ untold' = untold \cup {l}
          /\ \A m \in untold : lane'[m] = lane[m]
      <3>1. SaveClaim(l) /\ l \notin untold /\ untold' = untold \cup {l}
        BY <1>2 DEF Claim, ClaimUntold
      <3>2. /\ lane'[l].pc = "running" /\ lane'[l].job = lane[l].job
            /\ lane'[l].seen = Claimed(lane[l].seen, WorkerOf[l])
        BY <1>t, <3>1, LaneRecord
      <3>3. Claimed(lane[l].seen, WorkerOf[l]).attempts = lane[l].seen.attempts + 1
        BY DEF Claimed
      <3> QED
        BY <1>w, <2>1, <2>2, <2>3, <3>1, <3>2, <3>3
    <2>5. \A k, m : Calls(Started(k, m))' = Calls(Started(k, m))
      BY <1>2 DEF Claim, ClaimUntold, Calls
    <2>6. \A i \in Jobs : db'[i].runs = IF i = j THEN n ELSE db[i].runs
      BY <2>2, <2>3
    <2>7. StartsTold'
      BY <1>t, <2>2, <2>3, <2>5, <2>6 DEF EInv, StartsTold
    <2>8. Calls(Started(j, n)) = 0
      BY <1>t, <1>c, <2>2, <2>3 DEF EInv, StartsTold
    <2>9. UntoldWait'
      <3>1. \A o \in untold : lane[o].job = j => lane[o].seen.attempts # n
        BY <1>t, <2>2, <2>3 DEF EInv, UntoldWait
      <3>2. \A m \in untold' : m = l \/ (m \in untold /\ lane'[m] = lane[m])
        BY <2>4
      <3>3. \A m \in untold' :
               /\ lane'[m].pc = "running"
               /\ lane'[m].seen.attempts \in 1 .. db'[lane'[m].job].runs
        <4>1. n \in 1 .. db'[j].runs
          BY <1>t, <2>2, <2>3
        <4>2. ASSUME NEW m \in untold
              PROVE  /\ lane[m].pc = "running"
                     /\ lane[m].seen.attempts \in 1 .. db'[lane[m].job].runs
          BY <1>t, <2>2, <2>3, <2>6, <4>2 DEF EInv, UntoldWait
        <4> QED
          BY <2>4, <3>2, <4>1, <4>2
      <3>4. \A m \in untold' : \A o \in untold' \ {m} :
               lane'[o].job = lane'[m].job => lane'[o].seen.attempts # lane'[m].seen.attempts
        BY <2>4, <3>1, <3>2 DEF EInv, UntoldWait
      <3>5. \A m \in untold' : \A i \in Jobs : \A k \in Nat :
               lane'[m].job = i /\ lane'[m].seen.attempts = k => Calls(Started(i, k))' = 0
        BY <2>4, <2>5, <2>8, <3>2 DEF EInv, UntoldWait
      <3> QED
        BY <3>3, <3>4, <3>5 DEF UntoldWait
    <2>10. NoneForgotten'
      <3> SUFFICES ASSUME faults' = 0, NEW i \in Jobs, NEW m \in 1 .. db'[i].runs
                   PROVE  \/ Calls(Started(i, m))' = 1
                          \/ \E o \in untold' : lane'[o].job = i /\ lane'[o].seen.attempts = m
        BY DEF NoneForgotten
      <3>1. CASE i = j /\ m = n
        BY <2>4, <3>1
      <3>2. CASE ~(i = j /\ m = n)
        <4>1. m \in 1 .. db[i].runs
          <5>1. CASE i = j
            BY <1>t, <2>2, <2>3, <3>2, <5>1
          <5>2. CASE i # j
            BY <2>6, <5>2
          <5> QED
            BY <5>1, <5>2
        <4>2. \/ Calls(Started(i, m)) = 1
              \/ \E o \in untold : lane[o].job = i /\ lane[o].seen.attempts = m
          BY <1>f, <4>1 DEF EInv, NoneForgotten
        <4> QED
          BY <2>4, <2>5, <4>2
      <3> QED
        BY <3>1, <3>2
    <2> QED
      BY <2>7, <2>9, <2>10
  <1>3. ASSUME NEW l \in Lanes, StartCall(l) PROVE StartsTold' /\ UntoldWait' /\ NoneForgotten'
    <2>1. PICK j, n : j = lane[l].job /\ n = lane[l].seen.attempts
      OBVIOUS
    <2>2. /\ l \in untold /\ untold' = untold \ {l}
          /\ UNCHANGED <<db, lane, faults>>
          /\ published' = published (+) SetToBag({Started(j, n)})
      BY <1>3, <2>1 DEF StartCall, TellStarted, Publish, vars
    <2>3. /\ n \in 1 .. db[j].runs
          /\ Calls(Started(j, n)) = 0
          /\ \A m \in untold \ {l} : ~(lane[m].job = j /\ lane[m].seen.attempts = n)
      BY <1>t, <2>1, <2>2 DEF EInv, UntoldWait
    <2>4. /\ Calls(Started(j, n))' = 1
          /\ \A f : f # Started(j, n) => Calls(f)' = Calls(f)
      BY <1>t, <2>2, <2>3, OneMoreCall
    <2>5. \A k, m : ~(k = j /\ m = n) => Calls(Started(k, m))' = Calls(Started(k, m))
      BY <2>4, EventsDiffer
    <2>6. StartsTold'
      BY <2>2, <2>3, <2>4, <2>5 DEF EInv, StartsTold
    <2>7. UntoldWait'
      BY <2>2, <2>3, <2>5 DEF EInv, UntoldWait
    <2>8. NoneForgotten'
      <3> SUFFICES ASSUME faults = 0, NEW i \in Jobs, NEW m \in 1 .. db[i].runs
                   PROVE  \/ Calls(Started(i, m))' = 1
                          \/ \E o \in untold' : lane[o].job = i /\ lane[o].seen.attempts = m
        BY <2>2 DEF NoneForgotten
      <3>1. \/ Calls(Started(i, m)) = 1
            \/ \E o \in untold : lane[o].job = i /\ lane[o].seen.attempts = m
        BY DEF EInv, NoneForgotten
      <3> QED
        BY <2>1, <2>2, <2>4, <2>5, <3>1
    <2> QED
      BY <2>6, <2>7, <2>8
  <1> QED
    BY <1>1, <1>2, <1>3, StartSteps

LEMMA OutcomesStay ==
  ASSUME EInv, [Next]_vars, \A k \in Jobs : Booked(k)
  PROVE  OutcomesFit'
  <1> SUFFICES ASSUME NEW k \in Jobs
               PROVE  Calls(Told("JOB_RETRYING", k))' + Endings(k)'
                          + (IF Open(k)' THEN 1 ELSE 0) <= db'[k].runs
    BY DEF OutcomesFit
  <1> DEFINE r == Calls(Told("JOB_RETRYING", k))
             e == Endings(k)
  <1>1. /\ r + e + (IF Open(k) THEN 1 ELSE 0) <= db[k].runs
        /\ r \in Nat /\ e \in Nat /\ db[k].runs \in Nat
    BY CallsIsNat DEF EInv, OutcomesFit, IInv, TypeOK, Doc, Endings
  <1>2. CASE LedgerKept(k)
    <2>1. r' = r /\ e' = e /\ db'[k].runs = db[k].runs
      BY <1>2 DEF LedgerKept, RetriesKept, EndsKept
    <2>2. Open(k)' => Open(k)
      BY <2>1, OpenComes DEF EInv
    <2> HIDE DEF r, e
    <2> QED
      BY <1>1, <2>1, <2>2 DEF r, e
  <1>3. CASE StartBooked(k)
    <2>1. ~Open(k) /\ r' = r /\ e' = e /\ db'[k].runs = db[k].runs + 1
      BY <1>3 DEF StartBooked, RetriesKept, EndsKept
    <2> QED
      BY <1>1, <2>1
  <1>4. CASE RetryBooked(k)
    <2>1. Open(k) /\ ~Open(k)' /\ r' = r + 1 /\ e' = e /\ db'[k].runs = db[k].runs
      BY <1>4 DEF RetryBooked, EndsKept
    <2> QED
      BY <1>1, <2>1
  <1>5. CASE EndBooked(k)
    <2>1. r' = r /\ e' = e + 1 /\ db'[k].runs = db[k].runs
      BY <1>5 DEF EndBooked, RetriesKept
    <2>2. Open(k) /\ ~Open(k)'
      BY <1>5, EndingEnds DEF EndBooked, EInv
    <2> QED
      BY <1>1, <2>1, <2>2
  <1> QED
    BY <1>2, <1>3, <1>4, <1>5 DEF Booked

\* EndIsTrue, said of each kind of end.
LEMMA EndEvents ==
  ASSUME IsABag(published), NEW k
  PROVE  /\ Endings(k) \in Nat
         /\ \A s \in Terminal : Calls(EndEvent(k, s)) \in Nat /\ Calls(EndEvent(k, s)) <= Endings(k)
         /\ EndEvent(k, "COMPLETED") = Told("JOB_COMPLETED", k)
         /\ EndEvent(k, "DEAD_LETTER") = Told("JOB_DLQ", k)
         /\ EndEvent(k, "CANCELLED") = CancelledFrom(k, "PROCESSING")
  <1>1. /\ EndEvent(k, "COMPLETED") = Told("JOB_COMPLETED", k)
        /\ EndEvent(k, "DEAD_LETTER") = Told("JOB_DLQ", k)
        /\ EndEvent(k, "CANCELLED") = CancelledFrom(k, "PROCESSING")
    BY DEF EndEvent
  <1> QED
    BY <1>1, CallsIsNat DEF Endings, Terminal

LEMMA EndsStay ==
  ASSUME EInv, [Next]_vars, \A k \in Jobs : Booked(k), IsABag(published')
  PROVE  EndsTold' /\ EndIsTrue'
  <1>t. IInv /\ IsABag(published)
    BY DEF EInv
  <1>d. \A k \in Jobs : \A s \in Terminal :
           Calls(EndEvent(k, s)) > 0 => db[k].status \in {s, "CANCELLED"}
    BY <1>t, EndEvents DEF EInv, EndIsTrue, Terminal
  <1>1. ASSUME NEW k \in Jobs
        PROVE  /\ Endings(k)' <= 1
               /\ Endings(k)' > 0 => submit'[k] # "new" /\ Carriers(k)' = {}
               /\ \A s \in Terminal :
                      Calls(EndEvent(k, s))' > 0 => db'[k].status \in {s, "CANCELLED"}
    <2>1. /\ Endings(k) \in Nat /\ Endings(k) <= 1
          /\ Endings(k) > 0 => submit[k] # "new" /\ Carriers(k) = {}
          /\ \A s \in Terminal : Calls(EndEvent(k, s)) \in Nat /\ Calls(EndEvent(k, s)) <= Endings(k)
      BY <1>t, EndEvents DEF EInv, EndIsTrue, EndsTold
    <2>2. ASSUME Endings(k) > 0
          PROVE  /\ submit'[k] # "new" /\ Carriers(k)' = {}
                 /\ \A s \in Terminal :
                        Calls(EndEvent(k, s)) > 0 => db'[k].status \in {s, "CANCELLED"}
      BY <1>t, <1>d, <2>1, <2>2, EndStays
    <2>3. CASE LedgerKept(k) \/ StartBooked(k) \/ RetryBooked(k)
      <3>1. EndsKept(k)
        BY <2>3 DEF LedgerKept, StartBooked, RetryBooked
      <3> QED
        BY <2>1, <2>2, <3>1 DEF EndsKept
    <2>4. CASE EndBooked(k)
      <3>1. PICK status \in Terminal :
               /\ Released(k, status) /\ Endings(k)' = Endings(k) + 1
               /\ \A s \in Terminal \ {status} : Calls(EndEvent(k, s))' = Calls(EndEvent(k, s))
        BY <2>4 DEF EndBooked
      <3>2. /\ Carriers(k) # {} /\ submit'[k] # "new" /\ Carriers(k)' = {}
            /\ db'[k].status = status
        BY <1>t, <3>1, EndingEnds
      <3>3. Endings(k) = 0 /\ \A s \in Terminal : Calls(EndEvent(k, s)) = 0
        BY <2>1, <3>2
      <3> QED
        BY <3>1, <3>2, <3>3
    <2> QED
      BY <2>3, <2>4 DEF Booked
  <1>2. \A k \in Jobs :
           /\ Calls(Told("JOB_COMPLETED", k))' > 0 => db'[k].status \in {"COMPLETED", "CANCELLED"}
           /\ Calls(Told("JOB_DLQ", k))' > 0 => db'[k].status \in {"DEAD_LETTER", "CANCELLED"}
           /\ Calls(CancelledFrom(k, "PROCESSING"))' > 0 => db'[k].status = "CANCELLED"
    BY <1>t, <1>1, EndEvents DEF Terminal
  <1> QED
    BY <1>1, <1>2 DEF EndsTold, EndIsTrue

LEMMA EventTypesStay ==
  ASSUME EInv, EventSteps
  PROVE  EventsTypeOK' /\ IsABag(published')
  <1>t. /\ IsABag(published) /\ BagToSet(published) \subseteq Event
        /\ pending \subseteq [event : Event, by : Workers \cup {Api}]
        /\ topic \subseteq Event /\ untold \subseteq Lanes
    BY DEF EInv, EventsTypeOK
  <1>1. CASE NoCall
    <2>1. BagToSet(published') \subseteq Event /\ IsABag(published')
      BY <1>1, <1>t DEF NoCall
    <2>2. \A p \in pending : p.event \in Event
      BY <1>t
    <2> QED
      BY <1>1, <1>t, <2>1, <2>2 DEF NoCall, EventsTypeOK
  <1>2. ASSUME NEW by \in Workers \cup {Api}, NEW e \in Event, Publish(by, e), untold' \subseteq Lanes
        PROVE  EventsTypeOK' /\ IsABag(published')
    <2>1. /\ published' = published (+) SetToBag({e})
          /\ pending' = pending \cup {[event |-> e, by |-> by]}
          /\ topic' = topic
      BY <1>2 DEF Publish
    <2>2. IsABag(published') /\ BagToSet(published') \subseteq Event
      <3>1. IsABag(published') /\ BagToSet(published') = BagToSet(published) \cup {e}
        BY <1>t, <2>1, OneMoreCall
      <3> QED
        BY <1>t, <3>1
    <2>3. pending' \subseteq [event : Event, by : Workers \cup {Api}]
      BY <1>t, <2>1
    <2> QED
      BY <1>2, <1>t, <2>1, <2>2, <2>3 DEF EventsTypeOK
  <1>3. ASSUME NEW by, NEW e, Call(by, e) PROVE EventsTypeOK' /\ IsABag(published')
    BY <1>2, <1>3, <1>t DEF Call, Tell
  <1>4. ASSUME NEW l \in Lanes, StartCall(l) PROVE EventsTypeOK' /\ IsABag(published')
    <2>1. PICK e : /\ e = Started(lane[l].job, lane[l].seen.attempts)
                   /\ e \in Event /\ Publish(WorkerOf[l], e)
      BY <1>4 DEF StartCall, TellStarted
    <2>2. WorkerOf[l] \in Workers /\ untold' \subseteq Lanes
      BY <1>4, <1>t, PipelineAssumption DEF StartCall, TellStarted
    <2> QED
      BY <1>2, <2>1, <2>2
  <1>5. ASSUME NEW l \in Lanes, Claim(l) PROVE EventsTypeOK' /\ IsABag(published')
    BY <1>5, <1>t DEF Claim, ClaimUntold, EventsTypeOK
  <1> QED
    BY <1>1, <1>3, <1>4, <1>5 DEF EventSteps, OtherCall, RetryCall, EndCall

\* A call that is given up touches nothing of the pipeline.
LEMMA DropKeeps == ASSUME EInv, NEW p \in pending, Drop(p) PROVE EInv'
  <1>1. /\ UNCHANGED <<db, queue, delayed, submit, lane, promoter, recoverer, cancel, up, stalls>>
        /\ UNCHANGED <<untold, published, topic>> /\ pending' \subseteq pending
        /\ faults' \in 0 .. MaxFaults /\ faults' # 0
    <2>1. faults \in 0 .. MaxFaults /\ faults < MaxFaults /\ faults' = faults + 1
      BY DEF EInv, IInv, TypeOK, Drop, Fault
    <2>2. MaxFaults \in Nat
      BY PipelineAssumption
    <2> QED
      BY <2>1, <2>2 DEF Drop, workerVars
  <1>2. \A k : Carriers(k)' = Carriers(k)
    BY <1>1, Unmoved DEF Carriers
  <1>3. TypeOK'
    BY <1>1 DEF EInv, IInv, TypeOK
  <1>4. AtMostOneCarrier' /\ UnsubmittedIsNowhere' /\ FinishedIsNowhere' /\ RemovedIsNowhere'
    BY <1>1, <1>2 DEF EInv, IInv, AtMostOneCarrier, UnsubmittedIsNowhere, FinishedIsNowhere,
                      RemovedIsNowhere
  <1>5. AttemptsCountRuns' /\ ProcessingIsLocked' /\ LoadedIsCurrent' /\ StaleHasOwner'
          /\ CancelKnowsJob'
    BY <1>1 DEF EInv, IInv, AttemptsCountRuns, ProcessingIsLocked, LoadedIsCurrent,
                StaleHasOwner, CancelKnowsJob
  <1>6. \A e : Calls(e)' = Calls(e)
    BY <1>1 DEF Calls
  <1>7. \A k : Open(k)' = Open(k) /\ Endings(k)' = Endings(k)
    BY <1>1, <1>6 DEF Open, Endings
  <1>8. EventsTypeOK' /\ IsABag(published)'
    BY <1>1 DEF EInv, EventsTypeOK
  <1>s. StartsTold' /\ UntoldWait' /\ NoneForgotten'
    BY <1>1, <1>6 DEF EInv, StartsTold, UntoldWait, NoneForgotten
  <1>9. EndsTold'
    BY <1>2, <1>1, <1>7 DEF EInv, EndsTold
  <1>10. OutcomesFit' /\ EndIsTrue'
    BY <1>1, <1>6, <1>7 DEF EInv, OutcomesFit, EndIsTrue
  <1> QED
    BY <1>3, <1>4, <1>5, <1>s, <1>8, <1>9, <1>10 DEF EInv, IInv

LEMMA InitEInv == EventsInit => EInv
  <1> SUFFICES ASSUME EventsInit PROVE EInv
    OBVIOUS
  <1>1. IInv
    BY InitIInv DEF EventsInit
  <1>2. published = EmptyBag /\ DOMAIN published = {}
    BY DEF EventsInit, EmptyBag, SetToBag
  <1>3. IsABag(published) /\ EventsTypeOK
    BY <1>2 DEF EventsInit, EventsTypeOK, IsABag, BagToSet, EmptyBag, SetToBag
  <1>4. \A e : Calls(e) = 0
    BY <1>2 DEF Calls, BagIn, BagToSet
  <1>5. \A k : Endings(k) = 0
    BY <1>4 DEF Endings
  <1>6. \A k \in Jobs : db[k].runs = 0 /\ db[k].lockedBy = NoWorker
    BY DEF EventsInit, Init, NoDoc
  <1>7. \A k \in Jobs : ~Open(k)
    <2>1. \A l \in Lanes : lane[l].pc = "idle"
      BY DEF EventsInit, Init, IdleLane
    <2>2. \A t \in Ticks : recoverer[t].retry = NoJob
      BY DEF EventsInit, Init, IdleRecoverer
    <2> QED
      BY <1>6, <2>1, <2>2, PipelineAssumption DEF Open
  <1>8. /\ StartsTold /\ UntoldWait /\ NoneForgotten
        /\ EndsTold /\ EndIsTrue
    BY <1>4, <1>5, <1>6 DEF EventsInit, StartsTold, UntoldWait, NoneForgotten, EndsTold, EndIsTrue
  <1>9. OutcomesFit
    BY <1>4, <1>5, <1>6, <1>7 DEF OutcomesFit
  <1> QED
    BY <1>1, <1>3, <1>8, <1>9 DEF EInv

LEMMA NextEInv == EInv /\ [EventsNext]_allVars => EInv'
  <1> SUFFICES ASSUME EInv, [EventsNext]_allVars PROVE EInv'
    OBVIOUS
  <1>1. ASSUME EventSteps, [Next]_vars PROVE EInv'
    <2>1. IInv'
      BY <1>1, NextIInv DEF EInv
    <2>2. EventsTypeOK' /\ IsABag(published')
      BY <1>1, EventTypesStay
    <2>3. \A k \in Jobs : Booked(k)
      BY <1>1, Ledger
    <2> QED
      BY <1>1, <2>1, <2>2, <2>3, StartsStay, OutcomesStay, EndsStay DEF EInv
  <1> QED
    BY <1>1, EventsCalls, DropKeeps

-----------------------------------------------------------------------------
(* The theorems *)

\* Every reachable state of the pipeline with its events satisfies the
\* inductive invariant.
THEOREM EventsInvariance == EventsSpec => []EInv
  BY InitEInv, NextEInv, PTL DEF EventsSpec

\* The publisher is handed well-formed events of known jobs only.
THEOREM EventsTypeCorrectness == EventsSpec => []EventsTypeOK
  <1>1. EInv => EventsTypeOK
    BY DEF EInv
  <1> QED
    BY <1>1, EventsInvariance, PTL

\* A job's end is announced by a worker at most once, and truly: whatever is
\* late, doubled or retried, the document says the same, or CANCELLED where a
\* cancelJob had read it before.
THEOREM EndsAreTrue == EventsSpec => []EndIsTrue
  <1>1. EInv => EndIsTrue
    BY DEF EInv
  <1> QED
    BY <1>1, EventsInvariance, PTL

\* JOB_STARTED at most once for each attempt on record and for no other, once
\* or about to be while nothing failed, and no more outcomes than attempts,
\* whatever crashes and whatever locks run out.
THEOREM EventsAccountForAttempts == EventsSpec => []AttemptsAddUp
  <1>1. ASSUME EInv PROVE AttemptsAddUp
    <2> SUFFICES ASSUME NEW j \in Jobs
                 PROVE  /\ \A e \in BagToSet(published) :
                               e.job = j /\ e.type = "JOB_STARTED" =>
                                   e.attempt \in 1 .. db[j].runs /\ Calls(e) = 1
                        /\ faults = 0 =>
                               \A n \in 1 .. db[j].runs :
                                   \/ Calls(Started(j, n)) = 1
                                   \/ \E l \in untold :
                                         lane[l].job = j /\ lane[l].seen.attempts = n
                        /\ Calls(Told("JOB_RETRYING", j)) + Endings(j) <= db[j].runs
      BY DEF AttemptsAddUp
    <2>1. /\ db[j].runs \in Nat /\ Endings(j) \in Nat /\ Calls(Told("JOB_RETRYING", j)) \in Nat
      BY <1>1, CallsIsNat DEF EInv, IInv, TypeOK, Doc, Endings
    <2>2. ASSUME NEW e \in BagToSet(published), e.job = j, e.type = "JOB_STARTED"
          PROVE  e.attempt \in 1 .. db[j].runs /\ Calls(e) = 1
      <3>1. PICK n \in Nat : n = e.attempt /\ e = Started(j, n)
        BY <1>1, <2>2, EventShapes DEF EInv, EventsTypeOK, Event
      <3>2. Calls(e) > 0
        BY <1>1, <2>2 DEF EInv, IsABag, BagToSet, BagIn, Calls
      <3> QED
        BY <1>1, <3>1, <3>2 DEF EInv, StartsTold
    <2>3. Calls(Told("JOB_RETRYING", j)) + Endings(j) <= db[j].runs
      BY <1>1, <2>1 DEF EInv, OutcomesFit
    <2> QED
      BY <1>1, <2>2, <2>3 DEF EInv, NoneForgotten
  <1> QED
    BY <1>1, EventsInvariance, PTL
================================================================================
