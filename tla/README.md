# Verification of the job platform

TLA+ models of the distributed job platform in `src/`, checked with TLC; every
safety property a passing run checks is also proved with TLAPS. Paths such as `worker.js:124` are relative to
`src/src/` (`worker.js` is `worker/worker.js`, and so on); `README.md:139` is the
platform's own README.

## The system

The platform has one API process (Express) and any number of worker processes.
They share a MongoDB (job documents), a Redis (two sorted sets, a counter per
client, a heartbeat key per worker) and, for events nobody reads back, a Kafka
topic. Every process is single-threaded: it can be interleaved with the others,
and with its own other tasks, exactly at its `await`s.

| Part | State it keeps | Operations | Talks to |
|---|---|---|---|
| Job document (`models/job.model.js`) | `status`, `attempts`, `maxAttempts`, `lockedBy`, `lockExpiresAt`, `cancellationRequested`, `history` | `create`, `findById`, `save` (unconditional), `findOneAndUpdate` (on `lockedBy`) | API and workers write it |
| Queues (`queue/queue.js`) | `jobs:queue` (by priority and time), `jobs:delayed` (by ready-at) | `ZADD`, `ZREM`, `BZPOPMIN`, `ZRANGEBYSCORE` | hold job ids only |
| Job API (`jobs.controller.js`) | none | `submitJob`, `getJobStatus`, `cancelJob` | document, queues |
| Worker lanes (`worker.js`) | the job in hand | `runLane`, `processJob`, `handleFailure`, `finalizeJob` | queues, document, handlers |
| Promotion loop (`worker.js`, `claim.js`) | the list of due ids of each run | `promoteDueDelayedJobs`, `promoteReadyJobs`, every second, runs may overlap | both queues, document |
| Recovery loop (`worker.js`) | the list of stale documents of each run | `recoverStaleJobs`, every five seconds, runs may overlap | document, delayed queue |
| AI calls (`ai/`, `jobHandlers/aiHandlers.js`) | failures so far of a walk along the models | `generate`, `callClaude`, three handlers | run inside an attempt, under the job timer |
| Rate limiter (`middlewares/rateLimiter.js`) | a counter with a TTL per client | `INCR`, `EXPIRE`, `TTL` | in front of the API's handlers |
| Kafka events (`kafka/`) | connection flag | `publishEvent`, a consumer that logs | not awaited by anybody |
| Heartbeat (`queue/heartbeat.js`) | a key with a TTL | `writeHeartbeat` | read by nobody: `isWorkerAlive` has no caller |
| Accounts (`modules/auth/`) | `refreshTokenHash` | register, login, refresh, logout | user document |
| Server, health checks, config, logger, swagger | none | wiring | |

### What is hard

- **Hand-overs between two stores.** A job is carried on by its id in a sorted
  set or by the lock on its document. Every move from one to the other is two
  commands, with a process in between that may die.
- **Unconditional writes.** `save()` sends the paths that changed since the
  document was loaded, filtered by `_id` alone. Only `finalizeJob` has a
  condition, and it compares the name of a process, not of an attempt.
- **Stale lists.** The two loops work down lists they read earlier, while other
  workers, other runs of the same loop, and cancellations move the same jobs.
- **Timers that do not stop anything.** A lock can run out under a live worker;
  `Promise.race` leaves the handler running; a request timer covers the headers
  only.
- **Cancellation** acts on a status it read one or more awaits ago.
- **Events that are not awaited.** `publishEvent` connects and sends on its own,
  while the code that called it goes on.
- **Requests that meet.** Two submissions with one key, two requests at the
  limit: check and act are two commands each.

`PROJECT.json` lists these as hazards, line by line, with the properties that
cover each.

## The modules

| Module | What it is |
|---|---|
| `JobDoc` | The job document and every write the code makes to it |
| `JobPipeline` | The API handlers, lanes, promotion and recovery loops over the documents and the sorted sets; crashes, failed commands, locks that run out too early |
| `JobPipelineProperties` | Its properties, and the refinement mapping to `JobCustody` |
| `JobCustody` | Abstract specification: what happens to a job, without processes |
| `JobEvents` | The pipeline composed with the Kafka events it publishes |
| `JobSubmission` | Requests that share an idempotency key; implements the pipeline's submission |
| `LockTiming` | One job against the clock: lock, job timer, backoff, the two intervals |
| `AIFallback` | The attempts of one AI job and their walks along the models, with timers |
| `RateLimiter` | The counter of one client |
| `MCJobPipeline`, `MCJobEvents`, `MCLockTiming`, `MCAIFallback` | Instances for TLC |
| `JobPipelineTypeProofs`, `JobPipelineProofs`, `JobAttemptsProofs` | Theorems about the pipeline, each extending the one before |
| `JobEventsProofs` | Theorems about the events, extending `JobAttemptsProofs` |
| `JobSubmissionProofs`, `LockTimingProofs`, `AIFallbackProofs`, `RateLimiterProofs` | Theorems about the others |

### JobDoc and JobPipeline

An action is one store command together with the code up to the next `await`;
the local variables that survive the `await` are the state of the lane, of the
run of a loop, or of the request (`lane`, `promoter`, `recoverer`, `cancel`,
`submit`). One to one:

| Code | Actions |
|---|---|
| `submitJob` | `CreateJob`, then `EnqueueNewJob` or `ScheduleNewJob` |
| `runLane`, `processJob` | `ClaimNextJob` (BZPOPMIN), `LoadClaimed`, `SaveClaim`, `CheckCancellation`, `FinishAttempt` |
| `handleFailure` of a lane | `FailAttempt` (up to the push), `ScheduleRetry` |
| `promoteDueDelayedJobs` | `ScanDue`, `RemoveDue` per id |
| `promoteReadyJobs` | `LoadPromoted`, `SavePromoted`, `PushPromoted` per id |
| `recoverStaleJobs`, `handleFailure` of it | `ScanStale`, `RecoverJob` per document, `ScheduleRecovered` |
| `cancelJob` | `LoadForCancel`, `RemoveJobFromQueue`, `RemoveJobFromDelayedQueue`, `SaveCancelled`, or `SaveCancellationRequest` |
| the clock | `BecomesDue` (ready-at passes), `LockRunsOut` (lockExpiresAt passes) |
| failures | `Crash` (a worker, with all its tasks), `FinishFails`, `PromotionFails`, `RecoveryFails`, `SubmissionFails`, `CancellationFails` |

`Saved(new, loaded, stored)` is what mongoose's `save()` does to a path: `new` is
sent only if it differs from what was loaded, otherwise the stored value stays,
whatever it is by then. `Lands` is `finalizeJob`'s filter. `runs`, the number of
PROCESSING entries of `history`, is what the counters are compared with.

What is abstracted:

- **Order.** Any member of `jobs:queue` may be popped, and the loops may take
  their lists in any order. This allows more than the code does, so invariants
  and action properties carry over; the order itself is not checked.
- **Time.** A ready-at and a lock are ahead or past. The lock of a dead worker
  may run out at any time; that of a live one at most `MaxStalls` times, which
  `stalls` counts, so that a property can say what holds as long as none has.
  `LockTiming` says when none does.
- **Ids of workers** are not reused: a crashed worker stays down under its name.
  In a container, host name and pid may well come back after a restart; the
  lanes that share a name are modelled, and run into the same hazard of the fence.
- **Redis commands** are applied once or not at all, and the answer to one that
  was applied arrives unless the process ends or the command rejects. This is an
  assumption: by default ioredis sends the commands that were unanswered again
  after a reconnect, and `config/redis.js` (lines 4-8) leaves that default on. A
  BZPOPMIN, ZREM or ZADD that is applied twice because of it (a popped id whose
  answer was lost, a ZREM that answers 0 the second time) is not covered.
- Each cancel request is tried once, by the owner of the job.

### JobCustody

A job is *waiting* (in a set, or in a process on its way), *running* (locked) or
*nowhere*. It is started only from waiting, ends or is retried only from running,
and never leaves nowhere. `JobPipelineProperties` maps the pipeline's state to
it: the lock decides, then any other carrier. A cancellation writes `CANCELLED`
whatever the custody, and a waiting job may be dropped (by a cancellation, or by
a fault): the abstract specification says what the platform does keep.

### JobEvents

Every action of the pipeline together with the call of `publishEvent` that
follows it in the code, or none. `JOB_STARTED` has a step of its own: the claim
is applied (`ClaimUntold`), which puts the lane into `untold`, and the call is
made when `save()` has returned (`TellStarted`). The worker may die in between,
or the save may reject though it was applied, which ends the process: the
attempt is then on record and never announced. The other calls are counted in
the step of their command (`TellIf` is `if (updated)` after `finalizeJob`); the
properties ask of them no more than an upper bound, or that nothing failed. A
call is an element of `pending` until it is sent or dropped, each on its own, in
any order, also across processes; a worker that dies takes its calls with it. `published` is the history of the calls (a
bag, so that a doubled event shows), `topic` what a consumer may find. An event
keeps its type, its job, the attempt number of `JOB_STARTED` and the
`previousStatus` of `JOB_CANCELLED`, which the properties tell apart. The
repository's consumer logs what it reads and keeps no state.

### JobSubmission

The requests of one idempotency key, each at one of `submitJob`'s commands:
Redis check, `findOne`, `create`, push, answer. The unique index is state: the
API listens while mongoose still builds it, and a build that finds duplicates
fails without anybody hearing. A failed command may have been applied. Mapped
to `JobPipeline` (a job per document, no workers) every step is one of the
pipeline's submission steps, or none: `SubmitsAsPipeline`. The pipeline's
`CreateJob` thus stands for the inserts that were accepted.

### LockTiming

One job with numbers for times. A store command, and a timer's delay in the
event loop, takes at most `Latency`; two clocks differ by at most `Skew`; a list
has at most `Batch` jobs. `lockLeft` and `readyIn` count against the deadline the
code writes; `Tick` cannot pass the deadline of the phase, of a scan or of a run.
`LockLength` is `max(LOCK_TTL_MS, timeoutMs + 5000)`, `TimerDelay` what
`setTimeout` makes of `timeoutMs`: 1 ms outside 1 .. 2^31 - 1. `timeoutMs` comes
from the client and may be any integer (a value that makes `lockExpiresAt` an
invalid date is not covered: that claim's `save()` rejects and ends the process,
a `Crash` of the pipeline).

### AIFallback

One AI job, `MaxAttempts` attempts, each with its own walk along the models.
The walk of an attempt whose timer fired is not stopped and goes on beside the
next one. Time is discrete, and `Tick` waits while a timer is due, so a timer
fires on time but the order among the things due at one moment is open. A
failure keeps the two facts the code looks at, `retryable` (with *unset* for an
error that is no `AIError`) and the status. The API may answer, refuse or be
silent; if `prompt`, the body of an answer takes at most `BodyTime` after its
headers, otherwise it may break off or never end.

### RateLimiter

The counter of one client, any number of concurrent requests, each at one of its
three commands. `admitted` is a history variable. A command may fail, applied or
not (the request fails open), and the API may restart.

## The runs

The runs of the pipeline have `MaxAttempts = 2` (one retry shows every path of
`handleFailure`: retried, and exhausted) and two ticks (two runs of each loop, of
different workers, or of one worker in `pipeline_overlap`); `events_told` has one.

| Run | Instance | Shows |
|---|---|---|
| `pipeline_faults` | 1 job, 3 lanes (two of one worker), a cancel, 1 fault, 2 early expiries of locks | the safety of the pipeline with everything that may go wrong; what needs locks that outlive attempts (one attempt at a time, the fence, no extra try); that only a fault can lose the job; that it implements `JobCustody` |
| `pipeline_ends` | 1 job, one lane per worker, a cancel, at most 1 fault, 2 early expiries, fair | every job ends if nothing fails; a dead worker's job is taken over |
| `pipeline_overlap` | 2 jobs, 1 worker, overlapping loops, 2 early expiries, fair | lists with two entries neither duplicate nor drop a job |
| `events_told` | 1 job, 2 workers, a cancel, 1 fault, 1 early expiry, fair | an end is announced once at most and is true; no attempt is announced twice, before it is on record or with two outcomes; without faults each is announced and the topic tells the whole story |
| `submission` | 3 requests with one key, 2 faults, index built or being built, fair | one document per key once the index is there; an accepted job is queued; the pipeline's submission is implemented |
| `lock_timing` | the code's times in units of 0.5 s, commands of 0.5 s, clocks 1 s apart, timeouts -1, 30 s, 60 s and beyond the timer's range (65 s here) | locks outlive attempts; a dead worker's job is taken over, a due retry promoted, within the intervals |
| `ai_fallback` | 2 models, 2 attempts, 25 s a call and 60 s the job in units of 2.5 s, fair | the fallback gets its turn and calls do not pile up (prompt bodies); a temporary failure keeps the job out of the dead letters; every job ends even if bodies hang |
| `limiter_faults` | 4 requests at once, limit 2, 2 faults, fair | exactly the limit passes, one more per fault; a block ends if nothing fails |

Actors are independent of the number of jobs except for the lists of the loops,
hence one job in most runs and two in `pipeline_overlap`. One fault is enough
for each single point of failure, two early expiries for a recovery scan to be
overtaken by another; what the proofs cover holds for any number. Three requests
with a key are the first, one that meets it, and one that comes after. TypeOK is
an invariant of one run per module.

Runs that find a disagreement between the code and what its documents say:

| Run | Property | In short |
|---|---|---|
| `lost_job` | `NoJobLost` | one crash or failed command between two stores, and nothing will carry the job on (`worker.js:124` and three more places; `README.md:139`) |
| `cancel_lost` | `CancellationHolds` | `cancelJob` ignores what its ZREMs return and the claim under way overwrites CANCELLED (`jobs.controller.js:152`, `queue.js:36`); an attempt that fails after a 202 is retried (`jobs.controller.js:179`) |
| `ai_broken_body` | `DeadOnlyIfHopeless` | a failed `response.json()` counts as not retryable (`anthropicClient.js:9`, `README.md:174`) |
| `event_order` | `CreatedComesFirst` | JOB_CREATED is published after the push, so a worker's JOB_STARTED may be before it on the topic (`producer.js:59`) |

More limits of the code are built into the passing properties rather than shown
by a run of their own:

- `OneAttemptAtATime` and `FenceIsPerAttempt` hold as long as no lock ran out
  under a live worker. After one has, two lanes may run one job, and lanes that
  share a `WORKER_ID` can pass each other's fence (`worker.js:13`, `worker.js:36`);
  `FenceOfSingleLane` is what is left.
- After one has, the recovery loop, which decides by the attempts of a copy it
  read earlier (`worker.js:62`, `worker.js:272`), can give a job a try more than
  `maxAttempts`; `ExtraAttemptsNeedStalls` bounds how many.
- `slowJobHandler`'s comment (`jobHandlers/index.js:30`) has the recovery scan
  fire on a job that is slow. With the default `timeoutMs` of 30 s the job timer
  fires first, and the lock is 35 s: `LockOutlivesAttempt`.
- "An explicit timeoutMs from the client still wins" (`jobs.controller.js:55`),
  but one outside `setTimeout`'s range makes every attempt time out at once
  (`TimerDelay`).
- A promotion run may remove an id that was delayed anew since its list was read
  (`claim.js:53`), and so promote it before its ready-at. It is still promoted
  once.
- A counter whose EXPIRE failed has no TTL, and no later request gives it one
  (`rateLimiter.js:28`): `BlockEndsUnlessFaulty` excludes it.
- `FallbackGetsItsTurn` and `OneCallAtATime` need prompt bodies: the abort timer
  is cleared when the headers are there (`anthropicClient.js:72`), so "models ×
  this value" (`env.js:37`) does not bound the chain.
- `OneJobPerKey` is about an index that has been built (`job.model.js:66`).
- `AttemptsAddUp` has every attempt announced only as long as nothing failed: a
  worker that dies between the claim's save and the call (`worker.js:166`, `168`)
  leaves an attempt on record that no event tells of.

Every property of a passing run has a mutant of the code that breaks it (the
definitions marked *Mutant of*).

`CHECK_DEADLOCK FALSE` everywhere: when all jobs have ended, all requests are
answered and no further submission comes, nothing happens any more, and the
number of jobs and requests of an instance is finite.

### Fairness

`JobPipeline.Fairness`: an `await` of a live process returns, the intervals keep
firing, and the clock runs. For a handler this is what the job timer of
`processJob` ensures (and `JobEnds` of `ai_fallback` shows for AI jobs). No
client must submit or cancel, and no process must crash. Weak fairness is
enough, because the next step of a lane or of a run stays enabled until it is
taken. `LockRunsOut` is fair because time passes: a dead worker's lock does run
out, a live one's only until `MaxStalls` is reached.

`EventsFairSpec` has weak fairness of `Progress` as a whole: processes, clock and
Kafka do not all stop while one of them can go on, where the pipeline's steps,
`TellStarted` and the sending of a call are steps of `Progress`. That is less than
the fairness above, and enough for `StoryIsTold`: the attempts, the intervals'
useful runs and the calls of an instance are finite in number, so no run can put
one of them off for ever by doing others. `JobSubmission.FairSpec`: an `await` of the API
returns; no client must send a request, and the index need not be finished.
`AIFallback.Fairness`: timers fire, a retry is carried out, a prompt body ends;
nothing is assumed of the API. `RateLimiter.FairSpec`: TTLs run, and a command
of a live process is answered.

## The proofs

### The pipeline

For every set of jobs, lanes, ticks, workers and cancel requests, every
`WorkerOf`, `MaxAttempts`, `MaxFaults` and `MaxStalls`; the only assumptions are
`DocAssumption` and `PipelineAssumption` (constants have their types, "no
worker" and "no job" are not among the workers and jobs). Only
`ExtraTriesAreBounded` counts lanes and ticks, and so needs `FiniteAssumption`:
there are finitely many, the lanes that `runWorker` starts once per process
(`worker.js:300`) and the runs of the scan that are under way.

- `TypeCorrectness` (`JobPipelineTypeProofs`): `Spec => []TypeOK`, one lemma per
  component.
- `Invariance` (`JobPipelineProofs`): `Spec => []IInv`. `AtMostOneCarrier` is not
  inductive: a claim may start a job only if nothing else holds it, so that must
  be known from the pop on (`AtMostOneCarrier` counts a lane between pop and save
  as a carrier), a promoted or recovered id must not be one that is held
  elsewhere, a stale copy must name a real owner (else `handleFailure` would
  match `lockedBy: null`: `StaleHasOwner`, from `ProcessingIsLocked`), and a job
  that was not submitted must be nowhere. `AttemptsCountRuns` needs
  `LoadedIsCurrent`: nothing but the status can change between a lane's
  `findById` and its `save()`.
- The proof does not go action by action through every conjunct. `JobSteps` says
  what any step does to the jobs: some waiting ones are dropped, or exactly one
  is created, handed over (one carrier for another), promoted, started, retried,
  ended or cancelled, the others keeping document and carriers. One lemma per
  component derives it from the actions (`ApiJobSteps`, `LaneJobSteps`,
  `PromoterJobSteps`, `RecovererJobSteps`, `TimeJobSteps`, `FaultJobSteps`); the
  invariants about jobs then follow from `JobSteps` alone (`JobKeepsCarriers`,
  `JobKeepsAttempts`, ...). What lanes, copies and cancellations know has its own
  lemmas (`LoadedStays`, `StaleStays`, `CancelKnowsStays`, `RemovedStays`).
- `OneCarrier`, `NoLostAttempt`: `AtMostOneCarrier` and `AttemptsCountRuns` are
  conjuncts of `IInv`.
- `NothingIsLost`: among the cases of `JobSteps` only a drop leaves a job without
  a carrier, and a drop takes a fault, the end of the job, or a cancellation that
  has the id (`NotLostStays`).
- `FinishedIsFinal`: from `FinishedIsNowhere`, no carrier, hence no start.
- `RemovalIsFinal`: from `RemovedIsNowhere`: a ZREM that removed the id took the
  only carrier.
- `Refinement`: `Spec => KeepsCustody`. Each case of `JobSteps` is a step of
  `JobCustody` or a stutter.

`JobAttemptsProofs` is about attempts, with the invariant `AInv`: `IInv`,
`BusyIsUp`, and as long as `stalls = 0`, `Punctual`. A lock in the past is then a
dead worker's (`PastIsDead`), so a copy of the recovery scan names a dead worker,
which can claim nothing more, and its attempts are those on record for as long
as `handleFailure`'s filter matches (`StaleIsDead`). An attempt under way
therefore still holds its lock, or has finished the job already
(`AttemptIsCurrent`), and a job that waits has a try left (`HasTryLeft`).

- `OneAtATime`, `FenceHolds`, `NoTryTooMany`: one attempt at a time, a fence that
  tells attempts apart, and no try beyond `maxAttempts`, all while `stalls = 0`.
- `SingleLaneFence` needs nothing of the locks: a worker with one lane cannot
  claim a job while the lane is in an attempt.
- `ExtraTriesAreBounded`, invariant `XInv`, is the general case, with stalls:
  `runs <= Tries + stalls * Cardinality(Ticks)`. That inequality is far from
  inductive. A lock that ran out early does no harm by itself; the harm is done
  later, by a run of the scan that copied the document (or still can), or by an
  attempt that was overtaken and puts the job back. `Rescuers` and `Strays` are
  these, and `WithinBudget` charges each of them to the budget
  `stalls * Cardinality(Ticks)` from the moment it can come about: an early expiry
  adds every tick to both sides, a scan turns a tick that may copy into one that
  has, `handleFailure` of a copy uses it up and leaves the attempt it overtook as
  a stray or the job with a start to make (`ToStart`), and a stray that puts the
  job back is a stray no more. For the exchange to be one for one, a list must have each job
  once (`OneCopy`) and no two attempts under way the same number (`Numbered`), so
  that only one of them can be the attempt on record.

- `HoldersAreFound`: `lockedBy`, `status` and `lockExpiresAt` are written
  together or not at all, whatever `save()` leaves out, so no dead worker's job
  is out of the sight of `recoverStaleJobs`. This is the safety in
  `DeadHolderIsReplaced`.

`JobEventsProofs` composes with the invariants above: `EInv` is `IInv` and a
ledger per job. `StartsTold` has each announced number among the first `runs` and
announced once; `UntoldWait` says what a lane in `untold` knows, that the attempt
it is about to announce is on record and has not been announced; `NoneForgotten`,
that while nothing failed every attempt is announced or such a lane's. `OutcomesFit` adds to the published outcomes the one still *open* (the document
is locked, or a retry is on its way to the delayed queue), and `EndsTold` says
that a job whose end was told has no carrier. `EventsCalls` reduces every action
to a step of the pipeline with one of four kinds of calls, so that what `JobSteps`
says of that step can be used; a dropped event changes nothing but the history
of faults.

- `EndsAreTrue`: an end is told once, because the job has no carrier after it
  and so can neither start nor end again; a later `CANCELLED` is the exception
  `EndIsTrue` names.
- `EventsAccountForAttempts`: no attempt told twice, and no more outcomes than
  attempts, with stalls and crashes; and each told, or about to be, until
  something fails. This needs no assumption on locks: of two attempts that
  overlap, `finalizeJob`'s filter lets one write land.
- `EventsTypeCorrectness`: `EventsTypeOK`.

### The other modules

- `LocksOutliveAttempts`, `DeadHolderIsReplacedInTime` (`LockTimingProofs`): from
  `TimingAssumption` alone, of which the conjunct that matters is
  `5 * Latency + Skew <= Buffer`: the claim, the timer's delay, the flag, the
  finishing write and that of the failure fit the five seconds. `LockCovers` says
  phase by phase what is left of them, `Searched` that a dead attempt is on the
  list of a run or ahead of a scan. This is when `stalls` stays 0.
- `RetriesArePromotedInTime`, `TimingTypes` (`LockTimingProofs`, invariant
  `PInv`): `Awaited` says that a delayed job is on the list of a promotion run
  that ends in time, or was not due when the scan last ran. That needs the job
  to be in the set before it is due, else a scan may have come between:
  `BackoffAssumption`, that a backoff covers the two commands from its
  computation to the ZADD. The code's shortest is `BASE_DELAY_MS`, 2 s, and the
  command bound of `TimingAssumption` is at most 1 s. It is assumed of the computed
  backoffs because the provers know nothing of powers; TLC evaluates it.
- `NoDuplicates` (`JobSubmissionProofs`): any number of requests and faults.
- `SubmissionInvariance`, `SubmissionTypes`: in `SInv`, where a request is tells
  what it did to the stores, and the documents that were left without a push
  number at most `faults` (`Abandoned`).
- `SubmissionRefinesPipeline`: `Spec => SubmitsAsPipeline`. An accepted insert is
  `CreateJob`, an applied ZADD `EnqueueNewJob` or `ScheduleNewJob` whatever the
  client hears, a request that ends between the two `SubmissionFails`, and
  everything else a stutter. The mapped `faults` is the number of abandoned
  documents, which is why `SInv` must bound it.
- `AcceptedJobsAreCarried`: who is told 201 or 200 can count on a request that
  has pushed or is about to, unless a command failed. This is the safety in
  `AcceptedIsQueued`; that the push under way ends is fairness, and TLC's.
- `LimiterTypes`, `LimitIsKept` (`RateLimiterProofs`): at most one request is
  between INCR and EXPIRE, the one that made the key, and until it is done the
  key does not end (`OneSetsExpiry`). `KeysWillEnd` is the safety in
  `BlockEndsUnlessFaulty`.
- `AIFallbackProofs`, invariant `WInv`: a call under way is for a model that is
  there and within its timer (`CallIsLegal`), the job timer has seen the calls
  before it and no more (`TimerIsCovered`), and a status that is worth a retry is
  flagged so (`FlagFits`). `TypeIsRight` holds as it stands. The others take a
  hypothesis on the constants, with `CallTime = RequestTimeout + BodyTime`:
  `LastModelGetsItsTurn` that `(Models - 1) * CallTime < JobTimeout`,
  `CallsDoNotPileUp` that `Models * CallTime < JobTimeout` (both hold of the
  defaults, 25 s and 60 s, for two models with bodies of under 5 s),
  `TemporaryFailuresAreRetried` that every status but 200 is one of the 400s or
  500s. Its invariant `DeadHasReason` says that an early dead letter's chain has
  settled, for a permanent error or without a temporary one.

### Only model-checked

- Liveness (`EveryJobEnds`, `DeadHolderIsReplaced`, `JobEnds`, `StoryIsTold`,
  `AcceptedIsQueued`, `BlockEndsUnlessFaulty`): fairness and ENABLED are out of
  the prover's reach.
- The four properties that runs show violated: a proof has nothing to add to a
  counterexample.
- `BackoffAssumption` for the code's formula (powers need an induction that the
  provers cannot instantiate): TLC evaluates it for the instance's constants.

## Not modelled

- The order of `jobs:queue` (priority, FIFO) and the arithmetic of its scores.
- Payloads, results, texts of errors and history entries, authorization.
- **Heartbeat**: a key nobody reads.
- **Accounts and sessions**: apart from the job platform, one user document per
  request. Which refresh token is accepted depends on how bcrypt compares two
  tokens; with tokens as distinct values a model would check another program.
- **Server, health checks, configuration, logger, swagger, deployment**: wiring
  and single reads, see the notes of the components in `PROJECT.json`.
- The commit of a MongoDB write is taken as atomic and durable.

## What is left

1. The safety behind the liveness properties that remain, as theorems: that a
   lane, a run or a request under way always has a next step (`EveryJobEnds`), and
   that a job under way has a timer that ends it (`JobEnds`).
2. `QueueScore`: the order of `computeScore` in doubles against (priority, time),
   as an operator checked over bounded inputs, and `BZPOPMIN` by score.
