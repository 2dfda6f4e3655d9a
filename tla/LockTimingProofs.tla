---------------------------- MODULE LockTimingProofs ----------------------------
(***************************************************************************)
(* That locks outlive attempts, that dead workers are replaced in time and *)
(* that due retries are promoted in time, for every length of the times,   *)
(* every timeout and every bound that TimingAssumption allows.  Only the   *)
(* last needs BackoffAssumption.                                           *)
(***************************************************************************)
EXTENDS LockTiming, TLAPS

TimesOK ==
    /\ timeoutMs \in Int
    /\ phase \in Phase
    /\ left \in Nat
    /\ attempts \in Nat
    /\ lockLeft \in Int
    /\ scanIn \in 0 .. RecoveryInterval + Latency
    /\ stale \subseteq 0 .. RecoveryRun

\* The lock still covers the deadline of the phase and the part of the buffer
\* that the phases before have not used.
Covers(p, rest) == phase = p => lockLeft >= left + rest

LockCovers ==
    /\ Covers("claiming", LockLength(timeoutMs) - Latency)
    /\ Covers("running", Buffer - 2 * Latency)
    /\ Covers("reading", Buffer - 3 * Latency)
    /\ Covers("finishing", Buffer - 4 * Latency)
    /\ Covers("failing", Buffer - 5 * Latency)

\* A dead attempt is on the list of a run that will come to it in time, or
\* its lock was not past, by the clock of the worker that stays up, when that
\* worker last scanned.
Searched ==
    /\ stale # {} => phase = "abandoned"
    /\ phase = "abandoned" =>
          \/ /\ stale = {}
             /\ lockLeft >= scanIn - (Skew + RecoveryInterval + Latency)
          \/ \E x \in stale :
                lockLeft >= x - (Skew + RecoveryInterval + Latency + RecoveryRun)

Inv == TimesOK /\ LockCovers /\ Searched

-----------------------------------------------------------------------------
\* What the assumption says, in the form the steps below cite.
LEMMA Constants ==
    /\ LockTtl \in Nat /\ Buffer \in Nat /\ RecoveryInterval \in Nat /\ MaxAttempts \in Nat
    /\ Latency \in Nat /\ Skew \in Nat /\ MaxTimer \in Nat \ {0}
    /\ LockTtl >= Buffer + 1
    /\ 5 * Latency + Skew <= Buffer
    /\ RecoveryRun \in Nat
<1>1. Batch \in Nat /\ Latency \in Nat
  BY TimingAssumption
<1>2. Batch * Latency \in Nat
  BY <1>1
<1>3. RecoveryRun \in Nat
  <2>1. 2 * Batch * Latency \in Nat
    BY <1>1
  <2> QED BY <2>1, <1>1 DEF RecoveryRun
<1> QED
  BY <1>3, TimingAssumption

\* A lock is as long as the job's timer, whatever setTimeout makes of the
\* timeout, and the buffer.
LEMMA LockLengthEnough ==
    ASSUME NEW t \in Int
    PROVE  /\ LockLength(t) \in Int
           /\ TimerDelay(t) \in Nat
           /\ LockLength(t) >= TimerDelay(t) + Buffer
BY Constants DEF LockLength, TimerDelay

LEMMA InitInv == Init => Inv
<1> SUFFICES ASSUME Init PROVE Inv
  OBVIOUS
<1>1. timeoutMs \in Int
  BY TimingAssumption DEF Init
<1>2. TimesOK
  BY <1>1, Constants DEF Init, TimesOK, Phase
<1>3. LockCovers /\ Searched
  BY DEF Init, LockCovers, Covers, Searched
<1> QED BY <1>2, <1>3 DEF Inv

\* Steps of the attempt: each moves the job to its next phase and takes its
\* deadline out of the lock.
LEMMA AttemptKeepsInv ==
    ASSUME Inv,
           ClaimJob \/ ClaimSaved \/ HandlerResolves \/ FlagRead \/ FinishSaved
             \/ AttemptFails \/ FailureSaved \/ RetryPushed \/ Promoted
    PROVE  Inv'
<1> USE Constants
<1>0. stale = {} /\ stale' = {} /\ scanIn' = scanIn /\ timeoutMs' = timeoutMs
  BY DEF Inv, Searched, ClaimJob, ClaimSaved, HandlerResolves, FlagRead, FinishSaved,
         AttemptFails, FailureSaved, RetryPushed, Promoted, Locked, loops
<1>1. CASE ClaimJob
  <2>1. LockLength(timeoutMs) \in Int
    BY LockLengthEnough DEF Inv, TimesOK
  <2> QED BY <1>0, <1>1, <2>1 DEF Inv, TimesOK, LockCovers, Covers, Searched, ClaimJob, Enter, Phase, Timed, Locked
<1>2. CASE ClaimSaved
  <2>1. /\ TimerDelay(timeoutMs) \in Nat /\ LockLength(timeoutMs) \in Int
        /\ LockLength(timeoutMs) >= TimerDelay(timeoutMs) + Buffer
    BY LockLengthEnough DEF Inv, TimesOK
  <2>2. lockLeft >= left + LockLength(timeoutMs) - Latency /\ left \in Nat /\ lockLeft \in Int
    BY <1>2 DEF Inv, TimesOK, LockCovers, Covers, ClaimSaved
  <2>3. phase' = "running" /\ left' = TimerDelay(timeoutMs) + Latency /\ lockLeft' = lockLeft /\ attempts' = attempts
    BY <1>2 DEF ClaimSaved, Enter
  <2>4. LockCovers'
    BY <2>1, <2>2, <2>3, <1>0 DEF LockCovers, Covers
  <2>5. TimesOK' /\ Searched'
    BY <1>0, <2>1, <2>2, <2>3 DEF Inv, TimesOK, Searched, Phase, Timed, Locked
  <2> QED BY <2>4, <2>5 DEF Inv
<1>3. CASE HandlerResolves \/ FlagRead \/ AttemptFails
  BY <1>0, <1>3 DEF Inv, TimesOK, LockCovers, Covers, Searched, HandlerResolves, FlagRead,
     AttemptFails, Enter, Phase, Timed, Locked
<1>4. CASE FinishSaved \/ FailureSaved \/ RetryPushed \/ Promoted
  BY <1>0, <1>4 DEF Inv, TimesOK, LockCovers, Covers, Searched, FinishSaved, FailureSaved,
     RetryPushed, Promoted, Enter, Phase, Timed, Locked
<1> QED BY <1>1, <1>2, <1>3, <1>4

\* When a worker dies, the lock of its attempt is not past by any clock.
LEMMA DeathKeepsInv ==
    ASSUME Inv, WorkerDies
    PROVE  Inv'
<1>1. lockLeft >= 0 /\ stale = {}
  BY Constants DEF Inv, TimesOK, LockCovers, Covers, Searched, WorkerDies, Locked
<1> QED
  BY <1>1, Constants DEF Inv, TimesOK, LockCovers, Covers, Searched, WorkerDies, Enter, loops, Phase

LEMMA RecoveryScanKeepsInv ==
    ASSUME Inv, RecoveryScan
    PROVE  Inv'
<1> USE Constants
<1>1. PICK mine \in BOOLEAN : NextScan(mine)
  BY DEF RecoveryScan
<1>2. PICK ahead \in Offsets :
         stale' = IF phase = "abandoned" /\ lockLeft < ahead
                  THEN stale \cup {RecoveryRun} ELSE stale
  BY DEF RecoveryScan
<1>3. scanIn' \in 0 .. RecoveryInterval + Latency
  BY <1>1 DEF NextScan, Inv, TimesOK
<1>4. TimesOK' /\ LockCovers'
  BY <1>2, <1>3 DEF Inv, TimesOK, LockCovers, Covers, RecoveryScan
<1>5. Searched'
  <2>1. CASE phase = "abandoned" /\ lockLeft < ahead
    <3>1. stale' = stale \cup {RecoveryRun} /\ phase' = phase /\ lockLeft' = lockLeft
      BY <2>1, <1>2 DEF RecoveryScan
    <3>2. CASE stale = {}
      <4>1. lockLeft >= RecoveryRun - (Skew + RecoveryInterval + Latency + RecoveryRun)
        BY <2>1, <3>2 DEF Inv, TimesOK, Searched
      <4> QED BY <2>1, <3>1, <4>1 DEF Searched
    <3>3. CASE stale # {}
      <4>1. PICK x \in stale :
               lockLeft >= x - (Skew + RecoveryInterval + Latency + RecoveryRun)
        BY <2>1, <3>3 DEF Inv, Searched
      <4> QED BY <2>1, <3>1, <4>1 DEF Searched
    <3> QED BY <3>2, <3>3
  <2>2. CASE phase = "abandoned" /\ ~(lockLeft < ahead)
    BY <2>2, <1>1, <1>2 DEF Inv, TimesOK, Searched, RecoveryScan, NextScan, Offsets
  <2>3. CASE phase # "abandoned"
    BY <2>3, <1>2 DEF Inv, Searched, RecoveryScan
  <2> QED BY <2>1, <2>2, <2>3
<1> QED BY <1>4, <1>5 DEF Inv

LEMMA OtherLoopsKeepInv ==
    ASSUME Inv, TakeOver \/ PromotionScan \/ RemoveListed
    PROVE  Inv'
<1> USE Constants
<1>1. CASE TakeOver
  BY <1>1 DEF Inv, TimesOK, LockCovers, Covers, Searched, TakeOver, Enter, Phase, Timed, Locked
<1>2. CASE PromotionScan
  BY <1>2 DEF Inv, TimesOK, LockCovers, Covers, Searched, PromotionScan
<1>3. CASE RemoveListed
  <2>1. PromotionRun \in Nat
    <3>1. Batch \in Nat /\ Latency \in Nat
      BY TimingAssumption
    <3>2. 3 * Batch * Latency \in Nat
      BY <3>1
    <3> QED BY <3>2 DEF PromotionRun
  <2> QED
    BY <1>3, <2>1 DEF Inv, TimesOK, LockCovers, Covers, Searched, RemoveListed, Enter, Phase, Timed
<1> QED BY <1>1, <1>2, <1>3

\* Time takes the same from the lock and from the deadlines.
LEMMA TickKeepsInv ==
    ASSUME Inv, Tick
    PROVE  Inv'
<1> USE Constants
<1>1. /\ phase' = phase /\ timeoutMs' = timeoutMs /\ attempts' = attempts
      /\ scanIn' = scanIn - 1 /\ scanIn' \in 0 .. RecoveryInterval + Latency
      /\ stale' = {x - 1 : x \in stale}
  BY DEF Tick, Inv, TimesOK
<1>2. stale' \subseteq 0 .. RecoveryRun
  BY DEF Tick, Inv, TimesOK
<1>3. left' \in Nat /\ lockLeft' \in Int
  BY DEF Tick, Inv, TimesOK
<1>4. LockCovers'
  <2>1. LockLength(timeoutMs) \in Int
    BY LockLengthEnough DEF Inv, TimesOK
  <2> QED
    BY <2>1, <1>1 DEF Inv, TimesOK, LockCovers, Covers, Tick, Timed, Holding, Locked
<1>5. Searched'
  <2>1. CASE phase = "abandoned" /\ stale = {}
    BY <2>1, <1>1 DEF Inv, TimesOK, Searched, Tick, Holding
  <2>2. CASE phase = "abandoned" /\ stale # {}
    <3>1. PICK x \in stale :
             lockLeft >= x - (Skew + RecoveryInterval + Latency + RecoveryRun)
      BY <2>2 DEF Inv, Searched
    <3>2. x \in Nat /\ lockLeft \in Int /\ lockLeft' = lockLeft - 1
      BY <2>2, <3>1 DEF Inv, TimesOK, Tick, Holding
    <3>3. x - 1 \in stale'
      BY <1>1, <3>1
    <3>4. lockLeft' >= (x - 1) - (Skew + RecoveryInterval + Latency + RecoveryRun)
      BY <3>1, <3>2
    <3> QED BY <2>2, <3>3, <3>4, <1>1 DEF Searched
  <2>3. CASE phase # "abandoned"
    BY <2>3, <1>1 DEF Inv, Searched
  <2> QED BY <2>1, <2>2, <2>3
<1> QED BY <1>1, <1>2, <1>3, <1>4, <1>5 DEF Inv, TimesOK

LEMMA NextKeepsInv == Inv /\ [Next]_vars => Inv'
<1> SUFFICES ASSUME Inv, [Next]_vars PROVE Inv'
  OBVIOUS
<1>1. CASE UNCHANGED vars
  BY <1>1 DEF vars, Inv, TimesOK, LockCovers, Covers, Searched
<1>2. CASE Next
  BY <1>2, AttemptKeepsInv, DeathKeepsInv, RecoveryScanKeepsInv, OtherLoopsKeepInv,
     TickKeepsInv DEF Next
<1> QED BY <1>1, <1>2

\* The inductive invariant holds in every state: locks cover what is left of
\* their attempts, and a job to be found is on a list or ahead of a scan.
THEOREM TimingInvariance == Spec => []Inv
<1> QED BY InitInv, NextKeepsInv, PTL DEF Spec

\* Whatever timeout a client asks for, an attempt ends, or is given up by its
\* own worker, before any other worker can take its lock for stale: as long as
\* five commands and the difference of the clocks fit the five seconds' buffer.
THEOREM LocksOutliveAttempts == Spec => []LockOutlivesAttempt
<1>1. Inv => LockOutlivesAttempt
  BY Constants DEF Inv, TimesOK, LockCovers, Covers, LockOutlivesAttempt, Locked
<1> QED BY <1>1, TimingInvariance, PTL

\* The job of a dead worker never waits longer than a recovery interval and
\* one run of the loop after its lock ran out.
THEOREM DeadHolderIsReplacedInTime == Spec => []TakenOverInTime
<1>1. Inv => TakenOverInTime
  <2> SUFFICES ASSUME Inv, phase = "abandoned"
               PROVE  lockLeft >= -(Skew + RecoveryInterval + Latency + RecoveryRun)
    BY DEF TakenOverInTime
  <2>1. CASE stale = {}
    BY <2>1, Constants DEF Inv, TimesOK, Searched
  <2>2. CASE stale # {}
    <3>1. PICK x \in stale :
             lockLeft >= x - (Skew + RecoveryInterval + Latency + RecoveryRun)
      BY <2>2 DEF Inv, Searched
    <3>2. x \in Nat /\ lockLeft \in Int
      BY <3>1 DEF Inv, TimesOK
    <3> QED BY <3>1, <3>2, Constants
  <2> QED BY <2>1, <2>2
<1> QED BY <1>1, TimingInvariance, PTL

-----------------------------------------------------------------------------
(* Promotion *)

\* The attempts on record.  A job that is put back has a try left.
AttemptsCounted ==
    /\ attempts <= Tries
    /\ phase \in Holding => attempts >= 1
    /\ phase \in {"pushing", "delayed", "promoting"} => attempts < MaxAttempts
    /\ phase = "queued" => attempts = 0 \/ attempts < MaxAttempts

RetryTimesOK ==
    /\ timeoutMs \in Timeouts
    /\ readyIn \in Int
    /\ promoteIn \in 0 .. PromoteInterval + Latency
    /\ listed \subseteq 0 .. RemovalRun

\* The backoff still covers the commands that bring the retry to the queue.
BackoffCovers ==
    /\ phase = "failing" => readyIn >= left + Latency
    /\ phase = "pushing" => readyIn >= left

\* A retry was not due yet when the worker that stays up last scanned, or its
\* turn comes in time in a run that has its id on the list, be it from an
\* earlier retry.
Awaited ==
    phase = "delayed" =>
        \/ readyIn >= promoteIn - (Skew + PromoteInterval + Latency)
        \/ \E x \in listed :
              readyIn >= x - (Skew + PromoteInterval + Latency + RemovalRun)

PInv == Inv /\ AttemptsCounted /\ RetryTimesOK /\ BackoffCovers /\ Awaited

LEMMA PromotionConstants ==
    /\ PromoteInterval \in Nat /\ Latency \in Nat /\ Skew \in Nat /\ MaxAttempts \in Nat
    /\ RemovalRun \in Nat /\ PromotionRun \in Nat
    /\ Tries \in Nat /\ Tries >= 1 /\ MaxAttempts <= Tries
    /\ \A n \in Nat : n < MaxAttempts => n + 1 <= Tries
<1>1. Batch \in Nat /\ Latency \in Nat
  BY TimingAssumption
<1>2. Batch * Latency \in Nat /\ 3 * Batch * Latency \in Nat
  BY <1>1
<1>3. RemovalRun \in Nat /\ PromotionRun \in Nat
  BY <1>1, <1>2 DEF RemovalRun, PromotionRun
<1>4. PromoteInterval \in Nat /\ Skew \in Nat /\ MaxAttempts \in Nat
  BY TimingAssumption
<1>5. /\ Tries \in Nat /\ Tries >= 1 /\ MaxAttempts <= Tries
      /\ \A n \in Nat : n < MaxAttempts => n + 1 <= Tries
  BY <1>4 DEF Tries
<1> QED
  BY <1>1, <1>3, <1>4, <1>5

\* The backoff an attempt is given.
LEMMA BackoffEnough ==
    ASSUME TimesOK, AttemptsCounted, phase \in Holding
    PROVE  ComputeBackoff(attempts) \in Nat /\ ComputeBackoff(attempts) >= 2 * Latency
<1>1. attempts \in 1 .. Tries
  BY PromotionConstants DEF TimesOK, AttemptsCounted
<1> QED BY <1>1, BackoffAssumption

LEMMA InitPInv == Init => PInv
<1> SUFFICES ASSUME Init PROVE PInv
  OBVIOUS
<1>1. Inv
  BY InitInv
<1>2. AttemptsCounted /\ RetryTimesOK
  BY PromotionConstants DEF Init, AttemptsCounted, RetryTimesOK, Holding, Locked
<1>3. BackoffCovers /\ Awaited
  BY DEF Init, BackoffCovers, Awaited
<1> QED BY <1>1, <1>2, <1>3 DEF PInv

LEMMA AttemptsStayCounted ==
    ASSUME PInv, Next
    PROVE  AttemptsCounted'
<1>0. /\ attempts \in Nat /\ MaxAttempts \in Nat /\ Tries \in Nat /\ Tries >= 1 /\ AttemptsCounted
      /\ \A n \in Nat : n < MaxAttempts => n + 1 <= Tries
  BY PromotionConstants DEF PInv, Inv, TimesOK
<1>1. CASE ClaimJob
  BY <1>0, <1>1 DEF AttemptsCounted, ClaimJob, Enter, Holding, Locked
<1>2. CASE ClaimSaved \/ HandlerResolves \/ FlagRead \/ AttemptFails \/ WorkerDies
  BY <1>0, <1>2 DEF AttemptsCounted, ClaimSaved, HandlerResolves, FlagRead, AttemptFails,
     WorkerDies, Enter, Holding, Locked
<1>3. CASE FinishSaved \/ FailureSaved
  BY <1>0, <1>3 DEF AttemptsCounted, FinishSaved, FailureSaved, Enter, Holding, Locked
<1>4. CASE RetryPushed \/ Promoted
  BY <1>0, <1>4 DEF AttemptsCounted, RetryPushed, Promoted, Enter, Holding, Locked
<1>5. CASE TakeOver
  BY <1>0, <1>5 DEF AttemptsCounted, TakeOver, Enter, Holding, Locked
<1>6. CASE RemoveListed
  BY <1>0, <1>6 DEF AttemptsCounted, RemoveListed, Enter, Holding, Locked
<1>7. CASE RecoveryScan \/ PromotionScan \/ Tick
  BY <1>0, <1>7 DEF AttemptsCounted, RecoveryScan, PromotionScan, Tick
<1> QED BY <1>1, <1>2, <1>3, <1>4, <1>5, <1>6, <1>7 DEF Next

\* A failing attempt computes its backoff; the two commands after it take no
\* longer than that.
LEMMA AttemptKeepsPromotion ==
    ASSUME PInv,
           ClaimJob \/ ClaimSaved \/ HandlerResolves \/ FlagRead \/ FinishSaved
             \/ AttemptFails \/ FailureSaved \/ RetryPushed \/ Promoted \/ WorkerDies \/ TakeOver
    PROVE  RetryTimesOK' /\ BackoffCovers' /\ Awaited'
<1>0. /\ PromoteInterval \in Nat /\ Latency \in Nat /\ Skew \in Nat
      /\ promoteIn \in 0 .. PromoteInterval + Latency /\ readyIn \in Int /\ left \in Nat
  BY PromotionConstants DEF PInv, Inv, TimesOK, RetryTimesOK
<1>1. promoteIn' = promoteIn /\ listed' = listed /\ timeoutMs' = timeoutMs
  BY DEF ClaimJob, ClaimSaved, HandlerResolves, FlagRead, FinishSaved, AttemptFails, FailureSaved,
         RetryPushed, Promoted, WorkerDies, TakeOver, loops
<1>2. CASE AttemptFails \/ TakeOver
  <2>1. phase \in Holding
    BY <1>2 DEF PInv, Inv, Searched, AttemptFails, TakeOver, Holding, Locked
  <2>2. ComputeBackoff(attempts) \in Nat /\ ComputeBackoff(attempts) >= 2 * Latency
    BY <2>1, BackoffEnough DEF PInv, Inv
  <2>3. \/ /\ readyIn' = ComputeBackoff(attempts)
           /\ phase' = "failing" /\ left' = Latency
        \/ /\ \E sent \in 0 .. Latency : readyIn' = ComputeBackoff(attempts) - sent
           /\ (phase' = "pushing" /\ left' = Latency) \/ phase' = "ended"
    BY <1>2 DEF AttemptFails, TakeOver, Enter
  <2>4. /\ readyIn' \in Int /\ readyIn' >= Latency
        /\ \/ phase' = "failing" /\ left' = Latency /\ readyIn' >= 2 * Latency
           \/ phase' = "pushing" /\ left' = Latency
           \/ phase' = "ended"
    BY <1>0, <2>2, <2>3
  <2> QED
    BY <1>0, <1>1, <2>4 DEF PInv, RetryTimesOK, BackoffCovers, Awaited
<1>3. CASE FailureSaved
  <2>1. readyIn' = readyIn /\ readyIn >= left + Latency
    BY <1>3 DEF PInv, BackoffCovers, FailureSaved
  <2>2. (phase' = "pushing" /\ left' = Latency) \/ phase' = "ended"
    BY <1>3 DEF FailureSaved, Enter
  <2> QED
    BY <1>0, <1>1, <2>1, <2>2 DEF PInv, RetryTimesOK, BackoffCovers, Awaited
<1>4. CASE RetryPushed
  <2>1. readyIn' = readyIn /\ readyIn >= 0 /\ phase' = "delayed"
    BY <1>0, <1>4 DEF PInv, BackoffCovers, RetryPushed, Enter
  <2> QED
    BY <1>0, <1>1, <2>1 DEF PInv, RetryTimesOK, BackoffCovers, Awaited
<1>5. CASE ClaimJob \/ ClaimSaved \/ HandlerResolves \/ FlagRead \/ FinishSaved \/ Promoted \/ WorkerDies
  BY <1>1, <1>5 DEF PInv, RetryTimesOK, BackoffCovers, Awaited, ClaimJob, ClaimSaved,
     HandlerResolves, FlagRead, FinishSaved, Promoted, WorkerDies, Enter
<1> QED BY <1>2, <1>3, <1>4, <1>5

\* The worker that stays up puts a retry that is due, by its clock, on a list;
\* one that is not becomes due by every clock within the clocks' difference.
LEMMA PromotionScanKeepsPromotion ==
    ASSUME PInv, PromotionScan
    PROVE  RetryTimesOK' /\ BackoffCovers' /\ Awaited'
<1>0. /\ PromoteInterval \in Nat /\ Latency \in Nat /\ Skew \in Nat /\ RemovalRun \in Nat
      /\ promoteIn \in 0 .. PromoteInterval + Latency /\ readyIn \in Int
      /\ listed \subseteq 0 .. RemovalRun
  BY PromotionConstants DEF PInv, RetryTimesOK
<1>1. PICK mine \in BOOLEAN : NextPromotion(mine)
  BY DEF PromotionScan
<1>2. PICK ahead \in Offsets :
         listed' = IF phase = "delayed" /\ readyIn <= ahead
                   THEN listed \cup {RemovalRun} ELSE listed
  BY DEF PromotionScan
<1>3. phase' = phase /\ left' = left /\ readyIn' = readyIn /\ timeoutMs' = timeoutMs
  BY DEF PromotionScan
<1>4. promoteIn' \in 0 .. PromoteInterval + Latency /\ (promoteIn' = promoteIn \/ mine)
  BY <1>0, <1>1 DEF NextPromotion
<1>5. RetryTimesOK' /\ BackoffCovers'
  BY <1>0, <1>2, <1>3, <1>4 DEF PInv, RetryTimesOK, BackoffCovers
<1>6. ASSUME phase = "delayed"
      PROVE  \/ readyIn >= promoteIn' - (Skew + PromoteInterval + Latency)
             \/ \E x \in listed' :
                   readyIn >= x - (Skew + PromoteInterval + Latency + RemovalRun)
  <2>1. CASE \E x \in listed : readyIn >= x - (Skew + PromoteInterval + Latency + RemovalRun)
    BY <1>2, <2>1
  <2>2. CASE /\ readyIn >= promoteIn - (Skew + PromoteInterval + Latency)
             /\ readyIn <= ahead
    <3>1. RemovalRun \in listed'
      BY <1>2, <1>6, <2>2
    <3>2. readyIn >= RemovalRun - (Skew + PromoteInterval + Latency + RemovalRun)
      BY <1>0, <2>2
    <3> QED BY <3>1, <3>2
  <2>3. CASE /\ readyIn >= promoteIn - (Skew + PromoteInterval + Latency)
             /\ ~(readyIn <= ahead)
    <3>1. readyIn + Skew >= 0
      BY <1>0, <2>3 DEF Offsets
    <3>2. \A i \in Int : i <= PromoteInterval + Latency
                           => readyIn >= i - (Skew + PromoteInterval + Latency)
      BY <1>0, <3>1
    <3>3. promoteIn' \in Int /\ promoteIn' <= PromoteInterval + Latency
      BY <1>0, <1>4
    <3> QED BY <3>2, <3>3
  <2> QED BY <1>6, <2>1, <2>2, <2>3 DEF PInv, Awaited
<1> QED BY <1>3, <1>5, <1>6 DEF Awaited

LEMMA TickKeepsPromotion ==
    ASSUME PInv, Tick
    PROVE  RetryTimesOK' /\ BackoffCovers' /\ Awaited'
<1>0. /\ PromoteInterval \in Nat /\ Latency \in Nat /\ Skew \in Nat /\ RemovalRun \in Nat
      /\ promoteIn \in 0 .. PromoteInterval + Latency /\ readyIn \in Int /\ left \in Nat
      /\ listed \subseteq 0 .. RemovalRun
  BY PromotionConstants DEF PInv, Inv, TimesOK, RetryTimesOK
<1>1. /\ phase' = phase /\ timeoutMs' = timeoutMs /\ promoteIn > 0 /\ promoteIn' = promoteIn - 1
      /\ listed' = {x - 1 : x \in listed} /\ 0 \notin listed
      /\ readyIn' = IF phase \in Waiting THEN readyIn - 1 ELSE readyIn
      /\ left' = IF phase \in Timed THEN left - 1 ELSE left
  BY DEF Tick
<1>2. RetryTimesOK'
  <2>1. listed' \subseteq 0 .. RemovalRun
    BY <1>0, <1>1
  <2> QED BY <1>0, <1>1, <2>1 DEF PInv, RetryTimesOK
<1>3. BackoffCovers'
  BY <1>0, <1>1 DEF PInv, BackoffCovers, Waiting, Timed, Locked
<1>4. ASSUME phase = "delayed"
      PROVE  \/ readyIn' >= promoteIn' - (Skew + PromoteInterval + Latency)
             \/ \E x \in listed' :
                   readyIn' >= x - (Skew + PromoteInterval + Latency + RemovalRun)
  <2>0. readyIn' = readyIn - 1
    BY <1>1, <1>4 DEF Waiting
  <2>1. CASE readyIn >= promoteIn - (Skew + PromoteInterval + Latency)
    BY <1>0, <1>1, <2>0, <2>1
  <2>2. CASE \E x \in listed : readyIn >= x - (Skew + PromoteInterval + Latency + RemovalRun)
    <3>1. PICK x \in listed : readyIn >= x - (Skew + PromoteInterval + Latency + RemovalRun)
      BY <2>2
    <3>2. x - 1 \in listed' /\ x \in Nat
      BY <1>0, <1>1, <3>1
    <3>3. readyIn' >= (x - 1) - (Skew + PromoteInterval + Latency + RemovalRun)
      BY <1>0, <2>0, <3>1, <3>2
    <3> QED BY <3>2, <3>3
  <2> QED BY <1>4, <2>1, <2>2 DEF PInv, Awaited
<1> QED BY <1>1, <1>2, <1>3, <1>4 DEF Awaited

LEMMA NextPInv == PInv /\ [Next]_vars => PInv'
<1> SUFFICES ASSUME PInv, [Next]_vars PROVE PInv'
  OBVIOUS
<1>1. Inv'
  BY NextKeepsInv DEF PInv
<1>2. CASE UNCHANGED vars
  BY <1>1, <1>2 DEF vars, PInv, AttemptsCounted, RetryTimesOK, BackoffCovers, Awaited
<1>3. ASSUME RecoveryScan PROVE RetryTimesOK' /\ BackoffCovers' /\ Awaited'
  BY <1>3 DEF PInv, RetryTimesOK, BackoffCovers, Awaited, RecoveryScan
<1>4. ASSUME RemoveListed PROVE RetryTimesOK' /\ BackoffCovers' /\ Awaited'
  <2>1. RetryTimesOK'
    BY <1>4 DEF PInv, RetryTimesOK, RemoveListed
  <2>2. phase' # "delayed"
    BY <1>4 DEF RemoveListed, Enter
  <2>3. BackoffCovers' /\ Awaited'
    BY <1>4, <2>2 DEF PInv, BackoffCovers, Awaited, RemoveListed, Enter
  <2> QED BY <2>1, <2>3
<1>5. CASE Next
  <2>1. RetryTimesOK' /\ BackoffCovers' /\ Awaited'
    BY <1>3, <1>4, <1>5, AttemptKeepsPromotion, PromotionScanKeepsPromotion, TickKeepsPromotion
       DEF Next, PInv
  <2> QED BY <1>1, <1>5, <2>1, AttemptsStayCounted DEF PInv
<1> QED BY <1>2, <1>5

\* The inductive invariant of promotion holds in every state: a retry is ahead of
\* a scan or on a list, also on one made for an earlier retry of the job.
THEOREM PromotionInvariance == Spec => []PInv
<1> QED BY InitPInv, NextPInv, PTL DEF Spec

\* The variables of the clocked model have their types; the lists hold no
\* deadline that is past.
THEOREM TimingTypes == Spec => []TypeOK
<1>1. PInv => TypeOK
  BY DEF PInv, Inv, TimesOK, RetryTimesOK, TypeOK
<1> QED BY <1>1, PromotionInvariance, PTL

\* promoteReadyJobs "on its own clock": a retry that is due is out of the delayed
\* queue within one promotion interval and one run, however long the lanes block.
THEOREM RetriesArePromotedInTime == Spec => []PromotedInTime
<1>1. PInv => PromotedInTime
  <2> SUFFICES ASSUME PInv, phase = "delayed"
               PROVE  readyIn >= -(Skew + PromoteInterval + Latency + RemovalRun)
    BY DEF PromotedInTime
  <2>0. /\ PromoteInterval \in Nat /\ Latency \in Nat /\ Skew \in Nat /\ RemovalRun \in Nat
        /\ promoteIn \in Nat /\ readyIn \in Int /\ listed \subseteq 0 .. RemovalRun
    BY PromotionConstants DEF PInv, RetryTimesOK
  <2>1. CASE readyIn >= promoteIn - (Skew + PromoteInterval + Latency)
    BY <2>0, <2>1
  <2>2. CASE \E x \in listed : readyIn >= x - (Skew + PromoteInterval + Latency + RemovalRun)
    <3>1. PICK x \in listed : readyIn >= x - (Skew + PromoteInterval + Latency + RemovalRun)
      BY <2>2
    <3>2. x \in Nat
      BY <2>0, <3>1
    <3> QED BY <2>0, <3>1, <3>2
  <2> QED BY <2>1, <2>2 DEF PInv, Awaited
<1> QED BY <1>1, PromotionInvariance, PTL
=================================================================================
