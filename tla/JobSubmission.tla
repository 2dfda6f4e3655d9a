----------------------------- MODULE JobSubmission -----------------------------
(***************************************************************************)
(* Requests to POST /api/jobs that carry one idempotency key: a client     *)
(* that repeats itself, or several at once, before, after and while the    *)
(* first of them is handled.  JobPipeline starts from what this module     *)
(* shows: a job for each insert that was accepted, pushed at most once.    *)
(***************************************************************************)
EXTENDS Integers, FiniteSets

CONSTANTS
    Requests,   \* all with the same key
    MaxFaults   \* bound on failed commands, lost requests included

ASSUME SubmissionAssumption == MaxFaults \in Nat /\ IsFiniteSet(Requests)

VARIABLES
    request,    \* where submitJob is with a request, or what it answered
    future,     \* requests whose scheduledFor was still ahead
    created,    \* requests whose document is in MongoDB
    pushed,     \* requests whose job id was added to a sorted set
    index,      \* the unique index on idempotencyKey
    faults

vars == <<request, future, created, pushed, index, faults>>

UnderWay == {"pinging", "finding", "creating", "pushing"}
Answer == {"200", "201", "500", "503"}

TypeOK ==
    /\ request \in [Requests -> {"unsent", "lost"} \cup UnderWay \cup Answer]
    /\ pushed \subseteq created
    /\ created \cup future \subseteq Requests
    /\ index \in {"building", "built", "failed"}
    /\ faults \in 0 .. MaxFaults

\* The API listens as soon as it is connected; mongoose creates the indexes
\* of the schema in the background.
Init ==
    /\ request = [r \in Requests |-> "unsent"]
    /\ future = {}
    /\ created = {}
    /\ pushed = {}
    /\ index \in {"building", "built"}
    /\ faults = 0

-----------------------------------------------------------------------------
(* submitJob *)

Goes(r, from, to) == request[r] = from /\ request' = [request EXCEPT ![r] = to]

Fault == faults < MaxFaults /\ faults' = faults + 1

Receive(r) ==
    /\ Goes(r, "unsent", "pinging")
    /\ UNCHANGED <<future, created, pushed, index, faults>>

\* isRedisHealthy, which never rejects
RedisAnswers(r) ==
    /\ \/ Goes(r, "pinging", "finding") /\ UNCHANGED faults
       \/ Goes(r, "pinging", "503") /\ Fault
    /\ UNCHANGED <<future, created, pushed, index>>

\* Job.findOne, then whether the time asked for is still ahead.
FindExisting(r) ==
    /\ Goes(r, "finding", IF created # {} THEN "200" ELSE "creating")
    /\ \/ UNCHANGED future
       \/ created = {} /\ future' = future \cup {r}
    /\ UNCHANGED <<created, pushed, index, faults>>

\* Mutants of CreateJob: idempotencyKey without unique: true, and a create
\* whose rejection is not noticed.
CreateJobUnchecked(r) ==
    /\ Goes(r, "creating", "pushing")
    /\ created' = created \cup {r}
    /\ UNCHANGED <<future, pushed, index, faults>>

CreateJobNotAwaited(r) ==
    /\ Goes(r, "creating", "pushing")
    /\ created' = IF index = "built" /\ created # {} THEN created ELSE created \cup {r}
    /\ UNCHANGED <<future, pushed, index, faults>>

\* Job.create: the index rejects a second document (E11000, which Express
\* answers with a 500).  While it is being built it rejects nothing.
CreateJob(r) ==
    /\ IF index = "built" /\ created # {}
       THEN Goes(r, "creating", "500") /\ UNCHANGED created
       ELSE Goes(r, "creating", "pushing") /\ created' = created \cup {r}
    /\ UNCHANGED <<future, pushed, index, faults>>

\* Mutant of PushJob: the push of a scheduled job is left out.
PushUnlessScheduled(r) ==
    /\ Goes(r, "pushing", "201")
    /\ pushed' = IF r \in future THEN pushed ELSE pushed \cup {r}
    /\ UNCHANGED <<future, created, index, faults>>

\* pushToDelayedQueue or pushJobToQueue, and the answer.
PushJob(r) ==
    /\ Goes(r, "pushing", "201")
    /\ pushed' = pushed \cup {r}
    /\ UNCHANGED <<future, created, index, faults>>

\* A command rejects and Express answers 500, or the API dies and the client
\* hears nothing.  The insert or the ZADD under way may have been applied: an
\* insert that was is one in state "pushing".
RequestFails(r) ==
    /\ Fault
    /\ request[r] \in UnderWay
    /\ \/ request[r] # "pinging" /\ request' = [request EXCEPT ![r] = "500"]
       \/ request' = [request EXCEPT ![r] = "lost"]
    /\ \/ UNCHANGED pushed
       \/ request[r] = "pushing" /\ pushed' = pushed \cup {r}
    /\ UNCHANGED <<future, created, index>>

\* MongoDB finishes the index, unless it finds two documents with one key;
\* mongoose then emits an event that nobody listens to.
IndexEnds ==
    /\ index = "building"
    /\ index' = IF Cardinality(created) <= 1 THEN "built" ELSE "failed"
    /\ UNCHANGED <<request, future, created, pushed, faults>>

SubmitStep(r) == RedisAnswers(r) \/ FindExisting(r) \/ CreateJob(r) \/ PushJob(r)

Next == IndexEnds \/ \E r \in Requests : Receive(r) \/ SubmitStep(r) \/ RequestFails(r)

Spec == Init /\ [][Next]_vars

\* Every await of the API returns or rejects.
FairSpec == Spec /\ \A r \in Requests : WF_vars(SubmitStep(r))

-----------------------------------------------------------------------------
(* Properties *)

\* README.md: "`idempotencyKey` on job *submission* prevents duplicate job
\* creation from the client side (e.g. a retried HTTP request)".  The pre-check
\* cannot do that (findOne and create are two commands), the index does, from
\* the moment it is there: however many requests are between the two, whatever
\* failed before.  Two that meet before it is built leave two documents, and
\* then no index at all.
OneJobPerKey == index = "built" => Cardinality(created) <= 1

\* A client that is told 201 or 200 may rely on it without repeating itself:
\* if no command failed, the job is in a sorted set or will be, also when the
\* 200 came before the first request had pushed it.
AcceptedIsQueued ==
    \A r \in Requests : request[r] \in {"200", "201"} ~> (faults > 0 \/ pushed # {})

\* The API's part of JobPipeline, without workers and cancellations: one job
\* for each document.
NothingOf(value) == [x \in {} |-> value]

Doc == INSTANCE JobDoc WITH Workers <- {}, NoWorker <- "none", MaxAttempts <- 1

Pipeline == INSTANCE JobPipeline WITH
    Workers <- {}, NoWorker <- "none", NoJob <- "none", MaxAttempts <- 1, MaxStalls <- 0,
    Jobs <- Requests, Lanes <- {}, Ticks <- {}, Cancels <- {}, WorkerOf <- NothingOf(0),
    lane <- NothingOf(0), promoter <- NothingOf(0), recoverer <- NothingOf(0),
    cancel <- NothingOf(0), up <- NothingOf(TRUE), stalls <- 0,
    db <- [r \in Requests |-> IF r \in created THEN Doc!NewDoc ELSE Doc!NoDoc],
    queue <- pushed \ future,
    delayed <- [r \in Requests |-> IF r \in pushed \cap future THEN "waiting" ELSE "absent"],
    submit <- [r \in Requests |->
                  CASE r \notin created -> "new"
                    [] request[r] = "pushing" -> IF r \in future THEN "scheduling" ELSE "enqueueing"
                    [] OTHER -> "done"],
    faults <- Cardinality({r \in created \ pushed : request[r] # "pushing"})

\* What submitJob does to document and sorted sets is what JobPipeline says,
\* for every document: inserted, pushed once to the set its time asks for, or
\* left behind by a failure.  The requests that lose change nothing.
SubmitsAsPipeline == Pipeline!Spec
================================================================================
