------------------------------- MODULE JobEvents -------------------------------
(***************************************************************************)
(* The job pipeline with the events it publishes (src/kafka/producer.js).  *)
(* publishEvent is called by the code that follows a store command and is  *)
(* not awaited: every process has any number of calls under way, each of   *)
(* which connects, sends and may give up on its own.                       *)
(*                                                                         *)
(* A worker calls JOB_STARTED when the answer to the claim's save is       *)
(* there, and never if it dies before, or if the save rejects though it    *)
(* was applied.  Each other call is counted in the step of its command: a  *)
(* death in between loses it like any call under way, so that published    *)
(* bounds their number from above.                                         *)
(***************************************************************************)
EXTENDS JobPipelineProperties, Bags

CONSTANT Api    \* the API process

ASSUME EventsAssumption == Api \notin Workers

VARIABLES
    untold,     \* the lanes whose claim is saved and not yet announced
    published,  \* history: the calls of publishEvent so far, a bag
    pending,    \* the calls under way, with their process
    topic       \* the events on job-events; a resent one may be there twice

eventVars == <<untold, published, pending, topic>>
allVars == <<vars, eventVars>>

EventType == {"JOB_CREATED", "JOB_STARTED", "JOB_RETRYING", "JOB_COMPLETED", "JOB_DLQ",
              "JOB_CANCELLED", "JOB_CANCELLATION_REQUESTED"}

\* attempt is kept in JOB_STARTED only, previousStatus in JOB_CANCELLED only.
Event ==
    {e \in [type : EventType, job : Jobs, attempt : Nat, from : {"-", "QUEUED", "PROCESSING"}] :
        /\ e.attempt # 0 <=> e.type = "JOB_STARTED"
        /\ e.from # "-" <=> e.type = "JOB_CANCELLED"}

Told(type, j) == [type |-> type, job |-> j, attempt |-> 0, from |-> "-"]
Started(j, n) == [Told("JOB_STARTED", j) EXCEPT !.attempt = n]

\* Mutant of CancelledFrom: no previousStatus.
CancelledFromNothing(j, status) == [Told("JOB_CANCELLED", j) EXCEPT !.from = "undefined"]

CancelledFrom(j, status) == [Told("JOB_CANCELLED", j) EXCEPT !.from = status]

EventsTypeOK ==
    /\ untold \subseteq Lanes
    /\ BagToSet(published) \subseteq Event
    /\ pending \subseteq [event : Event, by : Workers \cup {Api}]
    /\ topic \subseteq Event

EventsInit ==
    /\ Init
    /\ untold = {}
    /\ published = EmptyBag
    /\ pending = {}
    /\ topic = {}

-----------------------------------------------------------------------------
(* publishEvent *)

Publish(by, event) ==
    /\ published' = published (+) SetToBag({event})
    /\ pending' = pending \cup {[event |-> event, by |-> by]}
    /\ UNCHANGED topic

Silent == UNCHANGED eventVars

Tell(by, event) == Publish(by, event) /\ UNCHANGED untold

\* Mutant of TellIf: the result of finalizeJob is not looked at.
TellAlways(landed, by, event) == Tell(by, event)

\* if (updated) publishEvent(...)
TellIf(landed, by, event) == IF landed THEN Tell(by, event) ELSE Silent

\* Mutant of Send: producer.connect is not awaited, the call rejects and the
\* error is swallowed.
SendUnconnected(p) ==
    /\ p \in pending
    /\ pending' = pending \ {p}
    /\ UNCHANGED <<vars, untold, published, topic>>

\* producer.send resolves.  An acknowledgement that is lost makes the client
\* send again, which leaves the set of events on the topic as it is.
Send(p) ==
    /\ p \in pending
    /\ topic' = topic \cup {p.event}
    /\ pending' = pending \ {p}
    /\ UNCHANGED <<vars, untold, published>>

\* connect or send rejects after its retries and the error is swallowed, or
\* the API process ends.
Drop(p) ==
    /\ Fault
    /\ p \in pending
    /\ pending' = pending \ {p}
    /\ UNCHANGED <<db, queue, delayed, submit, workerVars, cancel, up, stalls>>
    /\ UNCHANGED <<untold, published, topic>>

-----------------------------------------------------------------------------
(* The pipeline's actions with the calls they make *)

PushAndTell(j) ==
    (EnqueueNewJob(j) \/ ScheduleNewJob(j)) /\ Tell(Api, Told("JOB_CREATED", j))

\* previousStatus is "QUEUED" whatever it was.
CancelAndTell(c) ==
    \/ (RemoveJobFromQueue(c) \/ RemoveJobFromDelayedQueue(c)) /\ Silent
    \/ SaveCancelled(c) /\ Tell(Api, CancelledFrom(cancel[c].job, "QUEUED"))
    \/ SaveCancellationRequest(c)
         /\ Tell(Api, Told("JOB_CANCELLATION_REQUESTED", cancel[c].job))

\* The claim is applied; its answer is under way.
ClaimUntold(l) ==
    /\ SaveClaim(l)
    /\ untold' = untold \cup {l}
    /\ UNCHANGED <<published, pending, topic>>

\* job.save() has returned.
TellStarted(l) ==
    /\ l \in untold
    /\ Publish(WorkerOf[l], Started(lane[l].job, lane[l].seen.attempts))
    /\ untold' = untold \ {l}
    /\ UNCHANGED vars

LaneAndTell(l) ==
    LET j == lane[l].job
        w == WorkerOf[l]
        landed == j \in Jobs /\ Lands(db[j], w)
    IN  /\ l \notin untold
        /\ \/ /\ LoadClaimed(l) \/ CheckCancellation(l) \/ \E k \in Jobs : ClaimNextJob(l, k)
              /\ Silent
           \/ ClaimUntold(l)
           \/ FinishAttempt(l)
                /\ TellIf(landed, w, IF lane[l].pc = "cancelling"
                                     THEN CancelledFrom(j, "PROCESSING")
                                     ELSE Told("JOB_COMPLETED", j))
           \/ \E nonRetryable \in BOOLEAN :
                /\ FailAttempt(l, nonRetryable)
                /\ IF FailureStatus(lane[l].seen.attempts, nonRetryable) = "DEAD_LETTER"
                   THEN TellIf(landed, w, Told("JOB_DLQ", j))
                   ELSE Silent
           \/ ScheduleRetry(l) /\ Tell(w, Told("JOB_RETRYING", j))

RecovererAndTell(t) ==
    LET w == WorkerOf[t]
    IN  \/ ScanStale(t) /\ Silent
        \/ \E s \in recoverer[t].stale :
             /\ RecoverJob(t, s)
             /\ IF FailureStatus(s.attempts, FALSE) = "DEAD_LETTER"
                THEN TellIf(Lands(db[s.job], s.lockedBy), w, Told("JOB_DLQ", s.job))
                ELSE Silent
        \/ ScheduleRecovered(t) /\ Tell(w, Told("JOB_RETRYING", recoverer[t].retry))

\* A process that dies takes its calls with it, under way or yet to be made.
CrashAndTell(w) ==
    /\ Crash(w)
    /\ untold' = {l \in untold : WorkerOf[l] # w}
    /\ pending' = {p \in pending : p.by # w}
    /\ UNCHANGED <<published, topic>>

FaultAndTell ==
    \/ \E w \in Workers : CrashAndTell(w)
    \/ /\ \/ \E t \in Ticks : PromotionFails(t) \/ RecoveryFails(t)
          \/ \E l \in Lanes, applied \in BOOLEAN : FinishFails(l, applied)
          \/ \E j \in Jobs : SubmissionFails(j)
          \/ \E c \in Cancels : CancellationFails(c)
       /\ Silent

\* What clients do.
RequestStep ==
    /\ \/ \E j \in Jobs, scheduled \in BOOLEAN : CreateJob(j, scheduled)
       \/ \E c \in Cancels, j \in Jobs : LoadForCancel(c, j)
    /\ Silent

\* What goes on by itself.
Progress ==
    \/ \E p \in pending : Send(p)
    \/ \E l \in Lanes : TellStarted(l) \/ LaneAndTell(l)
    \/ \E t \in Ticks : (PromoterStep(t) /\ Silent) \/ RecovererAndTell(t)
    \/ \E j \in Jobs : PushAndTell(j) \/ (TimePasses(j) /\ Silent)
    \/ \E c \in Cancels : CancelAndTell(c)

EventsNext == RequestStep \/ Progress \/ FaultAndTell \/ \E p \in pending : Drop(p)

EventsSpec == EventsInit /\ [][EventsNext]_allVars

\* Processes, clock and Kafka do not all stop while something can go on.  That
\* is less than Fairness, and enough because no run goes round in a circle.
EventsFairSpec == EventsSpec /\ WF_allVars(Progress)

-----------------------------------------------------------------------------
(* Properties *)

\* The copies of `event' in the bag.
Calls(event) == IF BagIn(event, published) THEN published[event] ELSE 0

\* An attempt that a worker's own write ended.
Endings(j) == Calls(Told("JOB_COMPLETED", j)) + Calls(Told("JOB_DLQ", j))
                + Calls(CancelledFrom(j, "PROCESSING"))

\* A consumer may act on the end of a job: however late or doubled the writes
\* of lanes and scans are, a worker announces one end of a job at most, and
\* the document says the same, unless a cancelJob that read the job before
\* overwrites it.
EndIsTrue ==
    \A j \in Jobs :
        /\ Endings(j) <= 1
        /\ Calls(Told("JOB_COMPLETED", j)) > 0 => db[j].status \in {"COMPLETED", "CANCELLED"}
        /\ Calls(Told("JOB_DLQ", j)) > 0 => db[j].status \in {"DEAD_LETTER", "CANCELLED"}
        /\ Calls(CancelledFrom(j, "PROCESSING")) > 0 => db[j].status = "CANCELLED"

\* No attempt is announced twice or before its claim is on record, and each
\* has at most one outcome: JOB_RETRYING or an end.  While nothing failed, an
\* attempt that is on record is announced or its worker is about to do so; a
\* death between the claim's save and the call (worker.js:166 and 168) leaves
\* it unannounced.  So the events bound the attempts from below and, for AI
\* jobs, what was billed.
AttemptsAddUp ==
    \A j \in Jobs :
        /\ \A e \in BagToSet(published) :
               e.job = j /\ e.type = "JOB_STARTED" =>
                   e.attempt \in 1 .. db[j].runs /\ Calls(e) = 1
        /\ faults = 0 =>
               \A n \in 1 .. db[j].runs :
                   \/ Calls(Started(j, n)) = 1
                   \/ \E l \in untold : lane[l].job = j /\ lane[l].seen.attempts = n
        /\ Calls(Told("JOB_RETRYING", j)) + Endings(j) <= db[j].runs

Ending(j) ==
    CASE db[j].status = "COMPLETED"   -> {Told("JOB_COMPLETED", j)}
      [] db[j].status = "DEAD_LETTER" -> {Told("JOB_DLQ", j)}
      [] OTHER -> {CancelledFrom(j, "QUEUED"), CancelledFrom(j, "PROCESSING")}

\* If nothing fails and Kafka takes every event, a consumer of the topic can
\* tell in the end which jobs there are, every attempt of them, and how they
\* ended, though no call is awaited.
StoryIsTold ==
    <>[]( \/ faults > 0
          \/ \A j \in Jobs : submit[j] = "done" =>
                /\ Told("JOB_CREATED", j) \in topic
                /\ \A n \in 1 .. db[j].runs : Started(j, n) \in topic
                /\ Ending(j) \cap topic # {} )

\* producer.js: "keys by jobId so Kafka preserves per-job ordering".  No event
\* of a job comes before its JOB_CREATED on the topic.
CreatedComesFirst ==
    faults = 0 => \A e \in topic : Told("JOB_CREATED", e.job) \in topic
================================================================================
