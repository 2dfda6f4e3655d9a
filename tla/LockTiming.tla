------------------------------ MODULE LockTiming ------------------------------
(***************************************************************************)
(* One job against the clock: the lock and the job timer of an attempt     *)
(* (processJob), the backoff of a retry (handleFailure), and the two       *)
(* intervals of the workers that look for jobs whose lock ran out and for  *)
(* retries that are due.  JobPipeline leaves open when these times pass;   *)
(* here they are counted, down to the moment, in one discrete clock.       *)
(*                                                                         *)
(* A deadline is a number that Tick counts down and that Tick cannot take  *)
(* below zero: what it belongs to happens at that moment at the latest.    *)
(***************************************************************************)
EXTENDS Integers

CONSTANTS
    LockTtl, Buffer,                    \* LOCK_TTL_MS, the 5000 of lockExpiresAt
    BaseDelay, MaxDelay,                \* BASE_DELAY_MS, MAX_DELAY_MS
    PromoteInterval, RecoveryInterval,  \* PROMOTE_INTERVAL_MS, RECOVERY_INTERVAL_MS
    MaxTimer,      \* the longest delay setTimeout takes: 2^31 - 1 ms
    Timeouts,      \* values of job.timeoutMs: client-supplied, any integer
    MaxAttempts,
    Batch,         \* bound on the jobs of one list of an interval callback
    Latency,       \* bound on a store command, or a timer's delay in the event loop
    Skew           \* bound on the difference between two workers' clocks

\* The last conjunct is what makes a lock outlive its attempt: the five
\* commands and delays an attempt may need beside its handler fit the buffer.
ASSUME TimingAssumption ==
    /\ Timeouts \subseteq Int
    /\ {BaseDelay, MaxDelay, PromoteInterval, RecoveryInterval, MaxAttempts, Latency, Skew}
           \subseteq Nat
    /\ MaxTimer \in Nat \ {0} /\ Batch \in Nat \ {0}
    /\ Buffer \in Nat /\ LockTtl \in Nat /\ LockTtl > Buffer
    /\ 5 * Latency + Skew <= Buffer

VARIABLES
    timeoutMs,  \* of the job
    phase,      \* what is happening to the job
    left,       \* deadline of the phase
    attempts,
    lockLeft,   \* lockExpiresAt by its worker's clock, less the time
    readyIn,    \* the retry's readyAt, less the time
    scanIn,     \* deadline of the next recovery scan of a worker that stays up
    promoteIn,  \* deadline of its next promotion scan
    stale,      \* deadlines of the recovery runs that have the dead attempt on their list
    listed      \* deadlines of the promotion runs that have the job on their list

vars == <<timeoutMs, phase, left, attempts, lockLeft, readyIn, scanIn, promoteIn, stale, listed>>
loops == <<scanIn, promoteIn, stale, listed>>

\* The attempt holds the lock, its document says PROCESSING.
Locked == {"running", "reading", "finishing", "failing"}

Timed == Locked \cup {"claiming", "pushing", "promoting"}

Phase == Timed \cup {"queued", "abandoned", "delayed", "ended"}

\* find, then a finalizeJob and a ZADD for each job of the list.
RecoveryRun == Latency + 2 * Batch * Latency

\* ZRANGEBYSCORE and a ZREM for each id; then findById, save, ZADD for each.
RemovalRun == Latency + Batch * Latency
PromotionRun == 3 * Batch * Latency

TypeOK ==
    /\ timeoutMs \in Timeouts
    /\ phase \in Phase
    /\ left \in Nat
    /\ attempts \in Nat
    /\ lockLeft \in Int
    /\ readyIn \in Int
    /\ scanIn \in 0 .. RecoveryInterval + Latency
    /\ promoteIn \in 0 .. PromoteInterval + Latency
    /\ stale \subseteq 0 .. RecoveryRun
    /\ listed \subseteq 0 .. RemovalRun

\* A submitted job; the intervals began at some earlier time.
Init ==
    /\ timeoutMs \in Timeouts
    /\ phase = "queued"
    /\ left = 0
    /\ attempts = 0
    /\ lockLeft = 0
    /\ readyIn = 0
    /\ scanIn \in 0 .. RecoveryInterval
    /\ promoteIn \in 0 .. PromoteInterval
    /\ stale = {}
    /\ listed = {}

-----------------------------------------------------------------------------
(* Arithmetic of times *)

\* Mutants of LockLength: the fixed lock that processJob's comment describes,
\* and a lock without the buffer.
LockLengthFixed(timeout) == LockTtl

LockLengthBare(timeout) == IF timeout > LockTtl THEN timeout ELSE LockTtl

\* Math.max(LOCK_TTL_MS, job.timeoutMs + 5000)
LockLength(timeout) == IF timeout + Buffer > LockTtl THEN timeout + Buffer ELSE LockTtl

\* setTimeout takes a delay outside 1 .. 2^31 - 1 as 1.
TimerDelay(timeout) == IF timeout \in 1 .. MaxTimer THEN timeout ELSE 1

\* computeBackoffMs
ComputeBackoff(n) ==
    LET delay == BaseDelay * 2 ^ (n - 1) IN IF delay < MaxDelay THEN delay ELSE MaxDelay

\* handleFailure's total of attempts: one at least, and maxAttempts.
Tries == IF MaxAttempts < 1 THEN 1 ELSE MaxAttempts

\* A retry's readyAt is not past yet when handleFailure's two commands have put
\* it into the delayed queue: the shortest backoff is 2 s, and by
\* TimingAssumption a command takes at most 1 s.
ASSUME BackoffAssumption ==
    \A n \in 1 .. Tries : ComputeBackoff(n) \in Nat /\ ComputeBackoff(n) >= 2 * Latency

-----------------------------------------------------------------------------
(* The attempt: processJob, from the computation of lockExpiresAt on *)

Enter(next, time) == phase' = next /\ left' = time

ClaimJob ==
    /\ phase = "queued"
    /\ Enter("claiming", Latency)
    /\ attempts' = attempts + 1
    /\ lockLeft' = LockLength(timeoutMs)
    /\ UNCHANGED <<timeoutMs, readyIn, loops>>

\* The timer is set when the claim is saved.
ClaimSaved ==
    /\ phase = "claiming"
    /\ Enter("running", TimerDelay(timeoutMs) + Latency)
    /\ UNCHANGED <<timeoutMs, attempts, lockLeft, readyIn, loops>>

\* The handler resolves first: cancellationRequested is read again, then
\* finalizeJob is called.
HandlerResolves ==
    /\ phase = "running"
    /\ Enter("reading", Latency)
    /\ UNCHANGED <<timeoutMs, attempts, lockLeft, readyIn, loops>>

FlagRead ==
    /\ phase = "reading"
    /\ Enter("finishing", Latency)
    /\ UNCHANGED <<timeoutMs, attempts, lockLeft, readyIn, loops>>

FinishSaved ==
    /\ phase = "finishing"
    /\ Enter("ended", 0)
    /\ UNCHANGED <<timeoutMs, attempts, lockLeft, readyIn, loops>>

\* The timer wins, the handler rejects, or a command after it rejects: readyAt
\* is computed before handleFailure's finalizeJob is sent.
AttemptFails ==
    /\ phase \in {"running", "reading", "finishing"}
    /\ Enter("failing", Latency)
    /\ readyIn' = ComputeBackoff(attempts)
    /\ UNCHANGED <<timeoutMs, attempts, lockLeft, loops>>

FailureSaved ==
    /\ phase = "failing"
    /\ IF attempts >= MaxAttempts THEN Enter("ended", 0) ELSE Enter("pushing", Latency)
    /\ UNCHANGED <<timeoutMs, attempts, lockLeft, readyIn, loops>>

RetryPushed ==
    /\ phase = "pushing"
    /\ Enter("delayed", 0)
    /\ UNCHANGED <<timeoutMs, attempts, lockLeft, readyIn, loops>>

\* The worker dies.  (Dead before the claim is saved or between the last two
\* commands, it loses the job: JobPipeline.)
WorkerDies ==
    /\ phase \in Locked
    /\ Enter("abandoned", 0)
    /\ UNCHANGED <<timeoutMs, attempts, lockLeft, readyIn, loops>>

-----------------------------------------------------------------------------
(* The intervals.  Any worker may scan at any time; one stays up. *)

\* What a scan's clock may be ahead of another's.
Offsets == -Skew .. Skew

\* Mutant of NextScan: the scan runs between two claims only, each of which
\* blocks for up to 5 s and is followed by an attempt.
NextScanAfterClaim(mine) ==
    \/ mine /\ scanIn <= Latency
            /\ scanIn' = RecoveryInterval + LockTtl + Latency
    \/ ~mine /\ UNCHANGED scanIn

NextScan(mine) ==
    \/ mine /\ scanIn <= Latency /\ scanIn' = RecoveryInterval + Latency
    \/ ~mine /\ UNCHANGED scanIn

\* find({status: PROCESSING, lockExpiresAt: {$lt: now}}).  By
\* LockOutlivesAttempt it finds no attempt that is running.
RecoveryScan ==
    /\ \E mine \in BOOLEAN : NextScan(mine)
    /\ \E ahead \in Offsets :
          stale' = IF phase = "abandoned" /\ lockLeft < ahead
                   THEN stale \cup {RecoveryRun} ELSE stale
    /\ UNCHANGED <<timeoutMs, phase, left, attempts, lockLeft, readyIn, promoteIn, listed>>

\* handleFailure for the dead owner: the first write lands, and the fence
\* makes the other copies of this attempt worthless.  The write was sent, and
\* readyAt computed, up to a command's time ago.
TakeOver ==
    /\ stale # {}
    /\ IF attempts >= MaxAttempts THEN Enter("ended", 0) ELSE Enter("pushing", Latency)
    /\ \E sent \in 0 .. Latency : readyIn' = ComputeBackoff(attempts) - sent
    /\ stale' = {}
    /\ UNCHANGED <<timeoutMs, attempts, lockLeft, scanIn, promoteIn, listed>>

\* Mutant of NextPromotion, "a real bug we found": promotion runs between two
\* blocking claims of 5 s.
NextPromotionAfterClaim(mine) ==
    \/ mine /\ promoteIn <= Latency /\ promoteIn' = 5 * PromoteInterval + Latency
    \/ ~mine /\ UNCHANGED promoteIn

NextPromotion(mine) ==
    \/ mine /\ promoteIn <= Latency /\ promoteIn' = PromoteInterval + Latency
    \/ ~mine /\ UNCHANGED promoteIn

\* ZRANGEBYSCORE -inf now
PromotionScan ==
    /\ \E mine \in BOOLEAN : NextPromotion(mine)
    /\ \E ahead \in Offsets :
          listed' = IF phase = "delayed" /\ readyIn <= ahead
                    THEN listed \cup {RemovalRun} ELSE listed
    /\ UNCHANGED <<timeoutMs, phase, left, attempts, lockLeft, readyIn, scanIn, stale>>

\* ZREM by a run that has the id on its list, also if the entry is a newer one.
RemoveListed ==
    \E x \in listed :
        /\ listed' = listed \ {x}
        /\ IF phase = "delayed" THEN Enter("promoting", PromotionRun)
           ELSE UNCHANGED <<phase, left>>
        /\ UNCHANGED <<timeoutMs, attempts, lockLeft, readyIn, scanIn, promoteIn, stale>>

Promoted ==
    /\ phase = "promoting"
    /\ Enter("queued", 0)
    /\ UNCHANGED <<timeoutMs, attempts, lockLeft, readyIn, loops>>

-----------------------------------------------------------------------------
Holding == Locked \cup {"claiming", "abandoned"}
Waiting == {"failing", "pushing", "delayed"}

\* The time a job waits for a free lane is not counted.
Tick ==
    /\ phase \notin {"queued", "ended"}
    /\ phase \in Timed => left > 0
    /\ scanIn > 0 /\ promoteIn > 0
    /\ 0 \notin stale \cup listed
    /\ left' = IF phase \in Timed THEN left - 1 ELSE left
    /\ lockLeft' = IF phase \in Holding THEN lockLeft - 1 ELSE lockLeft
    /\ readyIn' = IF phase \in Waiting THEN readyIn - 1 ELSE readyIn
    /\ scanIn' = scanIn - 1
    /\ promoteIn' = promoteIn - 1
    /\ stale' = {x - 1 : x \in stale}
    /\ listed' = {x - 1 : x \in listed}
    /\ UNCHANGED <<timeoutMs, phase, attempts>>

Next ==
    \/ ClaimJob \/ ClaimSaved \/ HandlerResolves \/ FlagRead \/ FinishSaved
    \/ AttemptFails \/ FailureSaved \/ RetryPushed \/ WorkerDies
    \/ RecoveryScan \/ TakeOver \/ PromotionScan \/ RemoveListed \/ Promoted
    \/ Tick

Spec == Init /\ [][Next]_vars

-----------------------------------------------------------------------------
(* Properties *)

\* processJob: "The lock must outlive the job's own timeout", and the buffer
\* "covers the post-handler writes".  By no worker's clock is the lock of an
\* attempt past while its worker lives, whatever timeout the client asked for.
\* This is when JobPipeline's locks do not run out under a live worker.
LockOutlivesAttempt == phase \in Locked => lockLeft >= Skew

\* The job of a dead worker is taken over soon after its lock ran out: within
\* a recovery interval, the clocks' difference and the time of one run, also
\* if its turn is the last on the list.
TakenOverInTime ==
    phase = "abandoned" =>
        lockLeft >= -(Skew + RecoveryInterval + Latency + RecoveryRun)

\* promoteReadyJobs: "Runs on its own clock".  A retry that is due leaves the
\* delayed queue within a promotion interval, the clocks' difference and the
\* time of one run, whatever lists other runs hold and however long lanes block.
PromotedInTime ==
    phase = "delayed" =>
        readyIn >= -(Skew + PromoteInterval + Latency + RemovalRun)
===============================================================================
