------------------------------ MODULE AIFallback ------------------------------
(***************************************************************************)
(* One AI job: the attempts that processJob makes of it, and in each       *)
(* attempt the walk of generate (src/ai/llm.js) along the models, one call *)
(* of callClaude after the other.  Promise.race only stops waiting, so the *)
(* walk of an attempt that timed out goes on beside the next attempts.     *)
(*                                                                         *)
(* Time is discrete: a Tick is held back while a timer is due.  Locks,     *)
(* queues and cancellation are the business of JobPipeline.                *)
(***************************************************************************)
EXTENDS Integers, Sequences

CONSTANTS
    Models,         \* how many models AI_MODELS names; " , " names none
    MaxAttempts,    \* job.maxAttempts
    RequestTimeout, \* env.aiRequestTimeoutMs
    JobTimeout,     \* job.timeoutMs
    Codes,          \* the HTTP statuses the API may answer with
    BodyTime        \* how long a body takes at most after its headers, if prompt

ASSUME FallbackAssumption ==
    /\ {Models, BodyTime} \subseteq Nat
    /\ {MaxAttempts, RequestTimeout, JobTimeout} \subseteq Nat \ {0}
    /\ Codes \subseteq 200 .. 599

VARIABLES
    prompt,     \* bodies follow their headers; otherwise they may break or never end
    accepted,   \* the payload passes validation and an API key is configured
    attempt,    \* job.attempts
    status,     \* job.status
    timer,      \* time since the race of the current attempt began
    chain       \* per attempt: the call under way and the failures before it

vars == <<prompt, accepted, attempt, status, timer, chain>>

Attempts == 1 .. MaxAttempts

\* handleFailure's choice between RETRYING and DEAD_LETTER.
Doc == INSTANCE JobDoc WITH Workers <- {}, NoWorker <- "none"

\* The `retryable' flag of an error, and its `status' (0: none).
Failure == [retryable : {"true", "false", "unset"}, code : Codes \cup {0}]

\* The call under way is for model Len(failures) + 1.
Chain == [pc       : {"idle", "calling", "body", "done"},
          code     : Codes \cup {0},
          age      : Nat,      \* since the request was sent, or its headers came
          failures : Seq(Failure)]

Idle == [pc |-> "idle", code |-> 0, age |-> 0, failures |-> <<>>]

TypeOK ==
    /\ {prompt, accepted} \subseteq BOOLEAN
    /\ attempt \in 0 .. MaxAttempts
    /\ status \in {"QUEUED", "PROCESSING", "RETRYING", "COMPLETED", "DEAD_LETTER"}
    /\ timer \in 0 .. JobTimeout
    /\ chain \in [Attempts -> Chain]
    /\ \A a \in Attempts : Len(chain[a].failures) <= Models

Init ==
    /\ prompt \in BOOLEAN
    /\ accepted \in BOOLEAN
    /\ attempt = 0
    /\ status = "QUEUED"
    /\ timer = 0
    /\ chain = [a \in Attempts |-> Idle]

-----------------------------------------------------------------------------
(* The worker's side of the race *)

\* The handler of attempt a settles, or the timer rejects: it counts only if
\* the race of that attempt is still open.
Settle(a, s) ==
    IF attempt = a /\ status = "PROCESSING"
    THEN status' = s /\ timer' = 0
    ELSE UNCHANGED <<status, timer>>

\* Validation, the missing key and the empty chain fail before any request,
\* with retryable: false.
RejectInput ==
    /\ status \in {"QUEUED", "RETRYING"}
    /\ ~accepted \/ Models = 0
    /\ attempt' = attempt + 1
    /\ status' = Doc!FailureStatus(attempt + 1, TRUE)
    /\ UNCHANGED <<prompt, accepted, timer, chain>>

StartAttempt ==
    /\ status \in {"QUEUED", "RETRYING"}
    /\ accepted /\ Models > 0
    /\ attempt' = attempt + 1
    /\ status' = "PROCESSING"
    /\ timer' = 0
    /\ chain' = [chain EXCEPT ![attempt + 1] = [Idle EXCEPT !.pc = "calling"]]
    /\ UNCHANGED <<prompt, accepted>>

\* Mutant of JobTimesOut: the timer resolves nothing.
JobTimesOutUnseen ==
    /\ status = "PROCESSING"
    /\ timer = JobTimeout
    /\ timer' = 0
    /\ UNCHANGED <<prompt, accepted, attempt, status, chain>>

\* The job timer's error has no flag.  The chain is not told.
JobTimesOut ==
    /\ status = "PROCESSING"
    /\ timer = JobTimeout
    /\ Settle(attempt, Doc!FailureStatus(attempt, FALSE))
    /\ UNCHANGED <<prompt, accepted, attempt, chain>>

-----------------------------------------------------------------------------
(* generate and callClaude *)

IsRetryableStatus(code) == code \in {408, 429} \/ code >= 500

\* Mutant of AnyRetryable: every for some.
EveryRetryable(failures) ==
    \A i \in DOMAIN failures : failures[i].retryable = "true"

\* failures.some(f => f.retryable): a missing flag is falsy.
AnyRetryable(failures) ==
    \E i \in DOMAIN failures : failures[i].retryable = "true"

\* generate's catch: rethrow, go on to the next model, or give up.
CallFails(a, f) ==
    LET failures == Append(chain[a].failures, f)
        rethrown == f.retryable = "false" /\ f.code # 404
        over == rethrown \/ Len(failures) = Models
    IN  /\ chain' = [chain EXCEPT ![a] =
               [Idle EXCEPT !.pc = IF over THEN "done" ELSE "calling", !.failures = failures]]
        /\ IF over
           THEN Settle(a, Doc!FailureStatus(a, rethrown \/ ~AnyRetryable(failures)))
           ELSE UNCHANGED <<status, timer>>
        /\ UNCHANGED <<prompt, accepted, attempt>>

\* fetch resolves: clearTimeout, whatever the body still takes.
HeadersArrive(a, code) ==
    /\ chain[a].pc = "calling"
    /\ chain' = [chain EXCEPT ![a] = [@ EXCEPT !.pc = "body", !.code = code, !.age = 0]]
    /\ UNCHANGED <<prompt, accepted, attempt, status, timer>>

\* Mutant of RequestDue: a timer three times too long.
RequestDueLate(c) == c.pc = "calling" /\ c.age = 3 * RequestTimeout

RequestDue(c) == c.pc = "calling" /\ c.age = RequestTimeout

\* fetch rejects: a network error at any moment, or the abort timer.
FetchRejects(a) ==
    /\ chain[a].pc = "calling"
    /\ CallFails(a, [retryable |-> "true", code |-> 0])

Abort(a) == RequestDue(chain[a]) /\ FetchRejects(a)

\* A 200 answer becomes the handler's result, unless its text is useless (not
\* one of the labels, not JSON), which is retryable.
ResultArrives(a, useful) ==
    /\ chain[a].pc = "body"
    /\ chain[a].code = 200
    /\ chain' = [chain EXCEPT ![a] = [@ EXCEPT !.pc = "done", !.code = 0, !.age = 0]]
    /\ Settle(a, IF useful THEN "COMPLETED" ELSE Doc!FailureStatus(a, FALSE))
    /\ UNCHANGED <<prompt, accepted, attempt>>

\* An error status is classified once its body was read, or failed to be.
ErrorBodyEnds(a) ==
    /\ chain[a].pc = "body"
    /\ chain[a].code # 200
    /\ CallFails(a, [retryable |-> IF IsRetryableStatus(chain[a].code) THEN "true" ELSE "false",
                     code |-> chain[a].code])

\* response.json() of a 200 answer rejects with an error of its own.
BodyBreaks(a) ==
    /\ ~prompt
    /\ chain[a].pc = "body"
    /\ chain[a].code = 200
    /\ CallFails(a, [retryable |-> "unset", code |-> 0])

-----------------------------------------------------------------------------
(* Time *)

BodyDue(c) == c.pc = "body" /\ c.age = BodyTime /\ prompt

Older(c) ==
    IF c.pc \in {"calling", "body"} /\ (c.pc = "body" => c.age < BodyTime)
    THEN [c EXCEPT !.age = @ + 1] ELSE c

Tick ==
    /\ \/ status = "PROCESSING" /\ timer < JobTimeout
       \/ status # "PROCESSING" /\ \E a \in Attempts : Older(chain[a]) # chain[a]
    /\ \A a \in Attempts : ~RequestDue(chain[a]) /\ ~BodyDue(chain[a])
    /\ timer' = IF status = "PROCESSING" THEN timer + 1 ELSE timer
    /\ chain' = [a \in Attempts |-> Older(chain[a])]
    /\ UNCHANGED <<prompt, accepted, attempt, status>>

BodyEnds(a) ==
    \/ \E useful \in BOOLEAN : ResultArrives(a, useful)
    \/ ErrorBodyEnds(a)
    \/ BodyBreaks(a)

Next ==
    \/ RejectInput
    \/ StartAttempt
    \/ JobTimesOut
    \/ \E a \in Attempts :
          \/ \E code \in Codes : HeadersArrive(a, code)
          \/ FetchRejects(a)
          \/ BodyEnds(a)
    \/ Tick

Spec == Init /\ [][Next]_vars

\* Timers fire, a retry is carried out, and a body that cannot hang ends.
\* Nothing is assumed of the answers of the API.
Fairness ==
    /\ WF_vars(RejectInput \/ StartAttempt)
    /\ WF_vars(JobTimesOut)
    /\ WF_vars(Tick)
    /\ \A a \in Attempts : /\ WF_vars(Abort(a))
                           /\ WF_vars(BodyDue(chain[a]) /\ BodyEnds(a))

FairSpec == Spec /\ Fairness

-----------------------------------------------------------------------------
(* Properties *)

\* env.js and submitJob: the fallback chain fits inside the job's timeout.
\* When the job timer rejects an attempt whose chain is still at work, the
\* last model has had its turn.  The abort timer covers the headers only, so
\* this takes prompt bodies.
FallbackGetsItsTurn ==
    /\ prompt
    /\ status = "PROCESSING"
    /\ timer = JobTimeout
    /\ chain[attempt].pc \in {"calling", "body"}
    => Len(chain[attempt].failures) + 1 = Models

\* Retries do not pile up calls: with prompt bodies no request of an earlier
\* attempt is still open, and billed, when a later attempt has begun.
OneCallAtATime ==
    \A a, b \in Attempts :
        /\ prompt
        /\ chain[a].pc \in {"calling", "body"}
        /\ chain[b].pc \in {"calling", "body"}
        => a = b

Failures(a) == {chain[a].failures[i] : i \in DOMAIN chain[a].failures}

\* 400, 401, 403, 413: no model and no retry can fix the request.
Permanent(f) == f.code \in 400 .. 499 \ {404, 408, 429}

\* A network error, the abort timer, a rate limit, an overload.
Temporary(f) == IsRetryableStatus(f.code) \/ (f.code = 0 /\ f.retryable = "true")

EarlyDeadLetter == status = "DEAD_LETTER" /\ attempt < MaxAttempts /\ accepted

\* generate's comment: "if at least one failure was temporary, a later retry
\* can succeed".  Whatever failed before or after it in the chain, a temporary
\* failure keeps the job out of the dead letters, unless a model answered that
\* the request itself is at fault.
TemporaryIsRetried ==
    EarlyDeadLetter =>
        \/ \E f \in Failures(attempt) : Permanent(f)
        \/ \A f \in Failures(attempt) : ~Temporary(f)

\* README.md, "Non-retryable errors" and "Error classification": a job is
\* dead-lettered early only if no retry can help: a model answered with a
\* permanent error of the request, or none of the models exists.
DeadOnlyIfHopeless ==
    EarlyDeadLetter =>
        \/ \E f \in Failures(attempt) : Permanent(f)
        \/ \A f \in Failures(attempt) : f.code = 404

\* The job timer ends every attempt, and so the job, even if the API accepts
\* every request and the bodies of its answers never end.
JobEnds == <>[](status \in {"COMPLETED", "DEAD_LETTER"})
===============================================================================
