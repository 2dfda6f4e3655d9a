--------------------------- MODULE AIFallbackProofs ---------------------------
(***************************************************************************)
(* What holds of an AI job for any number of models and attempts, any      *)
(* timeouts and any answers of the API.                                    *)
(***************************************************************************)
EXTENDS AIFallback, TLAPS

Busy(c) == c.pc \in {"calling", "body"}

\* The longest a call may take: its request, and a prompt body.
CallTime == RequestTimeout + BodyTime

-----------------------------------------------------------------------------
(* The inductive invariant *)

\* A job that waits for an attempt has one left.
AttemptLeft ==
    /\ status \in {"QUEUED", "RETRYING"} => attempt < MaxAttempts
    /\ status # "QUEUED" => attempt >= 1

\* A call under way is for a model that is there, and its abort timer is ahead.
CallIsLegal ==
    \A a \in Attempts : Busy(chain[a]) =>
        /\ a <= attempt
        /\ Len(chain[a].failures) < Models
        /\ chain[a].pc = "calling" => chain[a].age <= RequestTimeout
        /\ chain[a].pc = "body" => chain[a].code \in Codes
        /\ prompt /\ chain[a].pc = "body" => chain[a].age <= BodyTime

\* What the call under way has taken.
Spent(c) == IF c.pc = "body" THEN RequestTimeout + c.age ELSE c.age

\* The job timer has seen the calls before the one under way, and that one.
TimerIsCovered ==
    prompt /\ status = "PROCESSING" =>
        \A a \in Attempts : a = attempt /\ Busy(chain[a]) =>
            timer <= Len(chain[a].failures) * CallTime + Spent(chain[a])

\* A status that is worth a retry is flagged so.
FlagFits ==
    \A a \in Attempts : \A i \in DOMAIN chain[a].failures :
        IsRetryableStatus(chain[a].failures[i].code) => chain[a].failures[i].retryable = "true"

WInv == TypeOK /\ AttemptLeft /\ CallIsLegal /\ TimerIsCovered /\ FlagFits

-----------------------------------------------------------------------------
(* Records *)

LEMMA NoFailures == <<>> \in Seq(Failure) /\ Len(<<>>) = 0 /\ DOMAIN <<>> = {}
  OBVIOUS

LEMMA IdleIsChain == Idle \in Chain /\ ~Busy(Idle) /\ Idle.failures = <<>>
  BY NoFailures DEF Idle, Chain, Busy

LEMMA AnsweredIsChain ==
  ASSUME NEW c \in Chain, NEW pc \in {"body", "done"}, NEW code \in Codes \cup {0}
  PROVE  LET r == [c EXCEPT !.pc = pc, !.code = code, !.age = 0]
         IN  r \in Chain /\ r.pc = pc /\ r.code = code /\ r.age = 0 /\ r.failures = c.failures
  BY DEF Chain

\* The chain as a call that failed leaves it.
NextCall(pc, failures) == [Idle EXCEPT !.pc = pc, !.failures = failures]

LEMMA NextCallIsChain ==
  ASSUME NEW pc \in {"calling", "done"}, NEW failures \in Seq(Failure)
  PROVE  /\ NextCall(pc, failures) \in Chain
         /\ NextCall(pc, failures).pc = pc
         /\ NextCall(pc, failures).age = 0
         /\ NextCall(pc, failures).failures = failures
  BY DEF Chain, Idle, NextCall

LEMMA FirstCallIsChain ==
  LET r == [Idle EXCEPT !.pc = "calling"]
  IN  r \in Chain /\ r.pc = "calling" /\ r.age = 0 /\ r.failures = <<>>
  BY NoFailures DEF Chain, Idle

LEMMA OlderIsChain ==
  ASSUME NEW c \in Chain
  PROVE  /\ Older(c) \in Chain /\ Older(c).pc = c.pc /\ Older(c).code = c.code
         /\ Older(c).failures = c.failures
         /\ Older(c).age \in {c.age, c.age + 1}
         /\ Busy(c) /\ (c.pc = "body" => c.age < BodyTime) => Older(c).age = c.age + 1
         /\ c.pc = "body" /\ ~(c.age < BodyTime) => Older(c).age = c.age
  <1>1. c.age + 1 \in Nat
    BY DEF Chain
  <1>2. /\ [c EXCEPT !.age = c.age + 1] \in Chain
        /\ [c EXCEPT !.age = c.age + 1].pc = c.pc
        /\ [c EXCEPT !.age = c.age + 1].code = c.code
        /\ [c EXCEPT !.age = c.age + 1].failures = c.failures
        /\ [c EXCEPT !.age = c.age + 1].age = c.age + 1
    BY <1>1 DEF Chain
  <1> QED
    BY <1>2 DEF Older, Busy

LEMMA OneMore ==
  ASSUME NEW s \in Seq(Failure), NEW f \in Failure
  PROVE  /\ Append(s, f) \in Seq(Failure)
         /\ Len(Append(s, f)) = Len(s) + 1 /\ Len(s) \in Nat
         /\ \A i \in DOMAIN Append(s, f) : (i \in DOMAIN s /\ Append(s, f)[i] = s[i])
                                           \/ Append(s, f)[i] = f
         /\ \A i \in DOMAIN s : i \in DOMAIN Append(s, f) /\ Append(s, f)[i] = s[i]
         /\ Len(s) + 1 \in DOMAIN Append(s, f) /\ Append(s, f)[Len(s) + 1] = f
  OBVIOUS

\* One call more takes one CallTime more at most.
LEMMA Calls ==
  ASSUME NEW n \in Nat
  PROVE  /\ CallTime \in Nat /\ n * CallTime \in Nat
         /\ (n + 1) * CallTime = n * CallTime + CallTime
         /\ \A m \in Nat : n <= m => n * CallTime <= m * CallTime
  <1>1. CallTime \in Nat
    BY FallbackAssumption DEF CallTime
  <1> HIDE DEF CallTime
  <1>2. n * CallTime \in Nat /\ (n + 1) * CallTime = n * CallTime + CallTime
    BY <1>1
  <1>3. ASSUME NEW m \in Nat, n <= m PROVE n * CallTime <= m * CallTime
    <2>1. PICK d \in Nat : m = n + d
      <3>1. m - n \in Nat /\ m = n + (m - n)
        BY <1>3
      <3> QED
        BY <3>1
    <2>2. m * CallTime = n * CallTime + d * CallTime /\ d * CallTime \in Nat
      BY <1>1, <2>1
    <2> QED
      BY <1>2, <2>2
  <1> QED
    BY <1>1, <1>2, <1>3

-----------------------------------------------------------------------------
(* The worker's side of the race *)

\* How a settled attempt leaves the job.
LEMMA Settled ==
  ASSUME WInv, NEW a \in Attempts, NEW s, Settle(a, s), attempt' = attempt,
         s \in {"COMPLETED", "DEAD_LETTER"} \/ (s = "RETRYING" /\ a < MaxAttempts)
  PROVE  /\ status' \in {"QUEUED", "PROCESSING", "RETRYING", "COMPLETED", "DEAD_LETTER"}
         /\ timer' \in 0 .. JobTimeout
         /\ AttemptLeft'
         /\ status' = "PROCESSING" => attempt # a /\ UNCHANGED <<status, timer>>
  <1>1. 0 \in 0 .. JobTimeout
    BY FallbackAssumption
  <1> QED
    BY <1>1 DEF Settle, WInv, TypeOK, AttemptLeft, Attempts

LEMMA RejectKeeps == ASSUME WInv, RejectInput PROVE WInv'
  <1>1. attempt + 1 \in 1 .. MaxAttempts /\ attempt \in Int
    BY FallbackAssumption DEF RejectInput, WInv, TypeOK, AttemptLeft
  <1>2. status' = "DEAD_LETTER"
    BY DEF RejectInput, Doc!FailureStatus
  <1>3. attempt' = attempt + 1 /\ UNCHANGED <<prompt, accepted, timer, chain>>
    BY DEF RejectInput
  <1>4. TypeOK' /\ AttemptLeft'
    BY <1>1, <1>2, <1>3 DEF WInv, TypeOK, AttemptLeft
  <1>5. CallIsLegal'
    BY <1>1, <1>3 DEF WInv, CallIsLegal, Attempts
  <1>6. TimerIsCovered' /\ FlagFits'
    BY <1>2, <1>3 DEF WInv, TimerIsCovered, FlagFits
  <1> QED
    BY <1>4, <1>5, <1>6 DEF WInv

LEMMA StartKeeps == ASSUME WInv, StartAttempt PROVE WInv'
  <1> DEFINE b == attempt + 1
             r == [Idle EXCEPT !.pc = "calling"]
  <1>1. b \in Attempts /\ b >= 1 /\ attempt \in Int
    BY FallbackAssumption DEF StartAttempt, WInv, TypeOK, AttemptLeft, Attempts
  <1>2. r \in Chain /\ r.pc = "calling" /\ r.age = 0 /\ r.failures = <<>> /\ Len(r.failures) = 0
    BY FirstCallIsChain, NoFailures
  <1> HIDE DEF r
  <1>3. /\ chain \in [Attempts -> Chain] /\ chain' = [chain EXCEPT ![b] = r]
        /\ attempt' = b /\ status' = "PROCESSING" /\ timer' = 0 /\ prompt' = prompt
        /\ accepted' = accepted
    BY DEF StartAttempt, r, WInv, TypeOK
  <1> HIDE DEF b
  <1>4. /\ chain'[b] = r
        /\ \A a \in Attempts : a # b => chain'[a] = chain[a]
        /\ chain' \in [Attempts -> Chain]
    BY <1>1, <1>2, <1>3
  <1>5. TypeOK'
    <2>1. \A a \in Attempts : Len(chain'[a].failures) <= Models
      BY <1>2, <1>4, FallbackAssumption DEF WInv, TypeOK
    <2>2. attempt' \in 0 .. MaxAttempts /\ timer' \in 0 .. JobTimeout
      BY <1>1, <1>3, FallbackAssumption DEF Attempts
    <2> QED
      BY <1>3, <1>4, <2>1, <2>2 DEF WInv, TypeOK
  <1>6. AttemptLeft'
    BY <1>1, <1>3 DEF AttemptLeft
  <1>7. CallIsLegal'
    <2> SUFFICES ASSUME NEW a \in Attempts, Busy(chain'[a])
                 PROVE  /\ a <= attempt' /\ Len(chain'[a].failures) < Models
                        /\ chain'[a].pc = "calling" => chain'[a].age <= RequestTimeout
                        /\ chain'[a].pc = "body" => chain'[a].code \in Codes
                        /\ prompt' /\ chain'[a].pc = "body" => chain'[a].age <= BodyTime
      BY DEF CallIsLegal, Busy
    <2>1. CASE a = b
      <3>1. Models \in Nat /\ 0 < Models /\ 0 <= RequestTimeout /\ a <= b
        BY <2>1, <1>1, FallbackAssumption DEF Attempts, StartAttempt
      <3> QED
        BY <2>1, <3>1, <1>2, <1>3, <1>4
    <2>2. CASE a # b
      <3>1. a <= attempt'
        BY <2>2, <1>1, <1>3, <1>4 DEF WInv, CallIsLegal, Attempts, b
      <3> QED
        BY <3>1, <2>2, <1>3, <1>4 DEF WInv, CallIsLegal
    <2> QED
      BY <2>1, <2>2
  <1>8. TimerIsCovered'
    <2>1. 0 <= Len(chain'[b].failures) * CallTime + Spent(chain'[b])
      <3>1. Len(chain'[b].failures) = 0 /\ Spent(chain'[b]) = 0
        BY <1>2, <1>4 DEF Spent
      <3>2. 0 * CallTime \in Nat
        BY Calls
      <3> QED
        BY <3>1, <3>2
    <2> QED
      BY <1>3, <2>1 DEF TimerIsCovered, Busy, Spent
  <1>9. FlagFits'
    BY <1>2, <1>4, NoFailures DEF WInv, FlagFits
  <1> QED
    BY <1>5, <1>6, <1>7, <1>8, <1>9 DEF WInv

LEMMA JobTimesOutKeeps == ASSUME WInv, JobTimesOut PROVE WInv'
  <1>1. attempt \in Attempts /\ attempt' = attempt
    BY FallbackAssumption DEF JobTimesOut, WInv, TypeOK, AttemptLeft, Attempts
  <1> DEFINE s == Doc!FailureStatus(attempt, FALSE)
  <1>2. s = "DEAD_LETTER" \/ (s = "RETRYING" /\ attempt < MaxAttempts)
    BY <1>1, FallbackAssumption DEF Attempts, Doc!FailureStatus
  <1>3. Settle(attempt, s)
    BY DEF JobTimesOut
  <1> HIDE DEF s
  <1>4. /\ status' \in {"QUEUED", "PROCESSING", "RETRYING", "COMPLETED", "DEAD_LETTER"}
        /\ timer' \in 0 .. JobTimeout /\ AttemptLeft' /\ status' # "PROCESSING"
    BY <1>1, <1>2, <1>3, Settled
  <1>5. UNCHANGED <<prompt, accepted, attempt, chain>>
    BY DEF JobTimesOut
  <1> QED
    BY <1>4, <1>5 DEF WInv, TypeOK, CallIsLegal, TimerIsCovered, FlagFits

-----------------------------------------------------------------------------
(* The calls *)

LEMMA HeadersKeep ==
  ASSUME WInv, NEW a \in Attempts, NEW code \in Codes, HeadersArrive(a, code)
  PROVE  WInv'
  <1> DEFINE r == [chain[a] EXCEPT !.pc = "body", !.code = code, !.age = 0]
  <1>1. /\ chain \in [Attempts -> Chain] /\ chain' = [chain EXCEPT ![a] = r]
        /\ chain[a].pc = "calling"
        /\ UNCHANGED <<prompt, accepted, attempt, status, timer>>
    BY DEF HeadersArrive, WInv, TypeOK
  <1>2. r \in Chain /\ r.pc = "body" /\ r.code = code /\ r.age = 0 /\ r.failures = chain[a].failures
    BY <1>1, AnsweredIsChain
  <1> HIDE DEF r
  <1>3. /\ chain'[a] = r
        /\ \A b \in Attempts : b # a => chain'[b] = chain[b]
        /\ \A b \in Attempts : chain'[b].failures = chain[b].failures
        /\ \A b \in Attempts : Busy(chain'[b]) <=> Busy(chain[b])
        /\ chain' \in [Attempts -> Chain]
    BY <1>1, <1>2 DEF Busy
  <1>4. TypeOK' /\ AttemptLeft' /\ FlagFits'
    BY <1>1, <1>3 DEF WInv, TypeOK, AttemptLeft, FlagFits
  <1>5. CallIsLegal'
    <2>1. chain'[a].pc = "body" /\ chain'[a].code \in Codes /\ chain'[a].age <= BodyTime
      BY <1>2, <1>3, FallbackAssumption
    <2> QED
      BY <1>1, <1>3, <2>1 DEF WInv, CallIsLegal, Busy
  <1>6. TimerIsCovered'
    <2>1. Spent(chain[a]) <= Spent(chain'[a]) /\ {Spent(chain[a]), Spent(chain'[a])} \subseteq Nat
      BY <1>1, <1>2, <1>3, FallbackAssumption DEF Spent, WInv, CallIsLegal, Busy, Chain
    <2>2. timer \in Int /\ Len(chain[a].failures) \in Nat
      BY <1>1 DEF WInv, TypeOK, Chain
    <2>3. Len(chain[a].failures) * CallTime \in Nat
      BY <2>2, Calls
    <2> SUFFICES ASSUME prompt, status = "PROCESSING", NEW b \in Attempts, b = attempt,
                        Busy(chain[b])
                 PROVE  timer <= Len(chain[b].failures) * CallTime + Spent(chain'[b])
      BY <1>1, <1>3 DEF TimerIsCovered, Busy, Spent
    <2>4. timer <= Len(chain[b].failures) * CallTime + Spent(chain[b])
      BY DEF WInv, TimerIsCovered
    <2> QED
      BY <1>3, <2>1, <2>2, <2>3, <2>4
  <1> QED
    BY <1>4, <1>5, <1>6 DEF WInv

\* With prompt bodies, a call under way has taken no more than a call may.
LEMMA SpentIsBounded ==
  ASSUME WInv, prompt, NEW a \in Attempts, Busy(chain[a])
  PROVE  Spent(chain[a]) \in Nat /\ Spent(chain[a]) <= CallTime
  <1>1. /\ chain[a].age \in Nat
        /\ chain[a].pc = "calling" => chain[a].age <= RequestTimeout
        /\ chain[a].pc = "body" => chain[a].age <= BodyTime
    BY DEF WInv, TypeOK, CallIsLegal, Chain
  <1>2. RequestTimeout \in Nat /\ BodyTime \in Nat
    BY FallbackAssumption
  <1> QED
    BY <1>1, <1>2 DEF Spent, CallTime, Busy

\* What an error of a call can be: a status worth a retry is flagged so.
FitsFlag(f) == f \in Failure /\ (IsRetryableStatus(f.code) => f.retryable = "true")

LEMMA FailureKeeps ==
  ASSUME WInv, NEW a \in Attempts, Busy(chain[a]), NEW f, FitsFlag(f), CallFails(a, f)
  PROVE  WInv'
  <1> DEFINE failures == Append(chain[a].failures, f)
             rethrown == f.retryable = "false" /\ f.code # 404
             over == rethrown \/ Len(failures) = Models
             pc == IF over THEN "done" ELSE "calling"
             r == NextCall(pc, failures)
             s == Doc!FailureStatus(a, rethrown \/ ~AnyRetryable(failures))
  <1>1. /\ chain \in [Attempts -> Chain] /\ chain[a] \in Chain
        /\ chain[a].failures \in Seq(Failure) /\ f \in Failure
        /\ a \in Int /\ a <= attempt /\ attempt \in Int
        /\ Len(chain[a].failures) < Models /\ Models \in Nat
    BY FallbackAssumption DEF WInv, TypeOK, CallIsLegal, Chain, FitsFlag, Attempts
  <1>2. /\ failures \in Seq(Failure)
        /\ Len(failures) = Len(chain[a].failures) + 1 /\ Len(chain[a].failures) \in Nat
        /\ \A i \in DOMAIN failures :
              \/ i \in DOMAIN chain[a].failures /\ failures[i] = chain[a].failures[i]
              \/ failures[i] = f
    BY <1>1, OneMore
  <1>3. /\ chain' = [chain EXCEPT ![a] = r]
        /\ IF over THEN Settle(a, s) ELSE UNCHANGED <<status, timer>>
        /\ UNCHANGED <<prompt, accepted, attempt>>
    BY DEF CallFails, NextCall
  <1>4. s = "DEAD_LETTER" \/ (s = "RETRYING" /\ a < MaxAttempts)
    BY <1>1, FallbackAssumption DEF Attempts, Doc!FailureStatus
  <1> HIDE DEF s
  <1>5. pc \in {"calling", "done"} /\ (pc = "calling" <=> ~over)
    OBVIOUS
  <1>6. ~over => Len(failures) < Models
    BY <1>1, <1>2
  <1> HIDE DEF over, failures, pc
  <1>7. r \in Chain /\ r.pc = pc /\ r.age = 0 /\ r.failures = failures
    <2>1. failures \in Seq(Failure)
      BY <1>2
    <2> QED
      BY <2>1, <1>5, NextCallIsChain
  <1> HIDE DEF r
  <1>8. /\ chain'[a] = r
        /\ \A b \in Attempts : b # a => chain'[b] = chain[b]
        /\ chain' \in [Attempts -> Chain]
        /\ Busy(r) <=> ~over
        /\ prompt' = prompt /\ accepted' = accepted /\ attempt' = attempt
    BY <1>1, <1>3, <1>5, <1>7 DEF Busy
  <1>9. /\ status' \in {"QUEUED", "PROCESSING", "RETRYING", "COMPLETED", "DEAD_LETTER"}
        /\ timer' \in 0 .. JobTimeout
        /\ AttemptLeft'
        /\ status' = "PROCESSING" =>
              /\ UNCHANGED <<status, timer>>
              /\ over => attempt # a
    <2>1. CASE over
      BY <2>1, <1>3, <1>4, <1>8, Settled
    <2>2. CASE ~over
      BY <2>2, <1>3, <1>8 DEF WInv, TypeOK, AttemptLeft
    <2> QED
      BY <2>1, <2>2
  <1>10. TypeOK'
    <2>1. \A b \in Attempts : Len(chain'[b].failures) <= Models
      BY <1>1, <1>2, <1>7, <1>8 DEF WInv, TypeOK
    <2> QED
      BY <1>8, <1>9, <2>1 DEF WInv, TypeOK
  <1>11. CallIsLegal'
    <2>1. Busy(r) => /\ a <= attempt /\ Len(r.failures) < Models
                     /\ r.pc = "calling" /\ r.age <= RequestTimeout
      BY <1>1, <1>5, <1>6, <1>7, <1>8, FallbackAssumption
    <2> QED
      BY <1>8, <2>1 DEF WInv, CallIsLegal
  <1>12. TimerIsCovered'
    <2> SUFFICES ASSUME prompt, status' = "PROCESSING", NEW b \in Attempts, b = attempt,
                        Busy(chain'[b])
                 PROVE  timer' <= Len(chain'[b].failures) * CallTime + Spent(chain'[b])
      BY <1>8 DEF TimerIsCovered, Busy, Spent
    <2>1. status = "PROCESSING" /\ timer' = timer
      BY <1>9
    <2>2. CASE b # a
      BY <2>1, <2>2, <1>8 DEF WInv, TimerIsCovered
    <2>3. CASE b = a
      <3> DEFINE n == Len(chain[a].failures)
      <3>1. n \in Nat /\ Len(chain'[b].failures) = n + 1 /\ Spent(chain'[b]) = 0
        BY <2>3, <1>2, <1>5, <1>7, <1>8 DEF Spent
      <3>2. timer <= n * CallTime + Spent(chain[a])
        BY <2>1, <2>3 DEF WInv, TimerIsCovered
      <3>3. Spent(chain[a]) \in Nat /\ Spent(chain[a]) <= CallTime
        BY SpentIsBounded
      <3>4. timer \in Int
        BY DEF WInv, TypeOK
      <3> HIDE DEF n
      <3>5. n * CallTime \in Nat /\ (n + 1) * CallTime = n * CallTime + CallTime /\ CallTime \in Nat
        BY <3>1, Calls
      <3>6. timer <= (n + 1) * CallTime
        BY <3>2, <3>3, <3>4, <3>5
      <3> QED
        BY <2>1, <3>1, <3>5, <3>6
    <2> QED
      BY <2>2, <2>3
  <1>13. FlagFits'
    <2>1. \A i \in DOMAIN failures :
              IsRetryableStatus(failures[i].code) => failures[i].retryable = "true"
      BY <1>2 DEF WInv, FlagFits, FitsFlag
    <2> QED
      BY <1>7, <1>8, <2>1 DEF WInv, FlagFits
  <1> QED
    BY <1>10, <1>9, <1>11, <1>12, <1>13 DEF WInv

\* The error an answer with an error status becomes.
StatusError(code) ==
    [retryable |-> IF IsRetryableStatus(code) THEN "true" ELSE "false", code |-> code]

\* The three errors a call can end with.
LEMMA ErrorsFitFlag ==
  /\ FitsFlag([retryable |-> "true", code |-> 0])
  /\ FitsFlag([retryable |-> "unset", code |-> 0])
  /\ \A code \in Codes \cup {0} : FitsFlag(StatusError(code))
  BY DEF FitsFlag, Failure, IsRetryableStatus, StatusError

LEMMA ErrorKeeps ==
  ASSUME WInv, NEW a \in Attempts, FetchRejects(a) \/ ErrorBodyEnds(a) \/ BodyBreaks(a)
  PROVE  WInv'
  <1>1. CASE FetchRejects(a)
    BY <1>1, ErrorsFitFlag, FailureKeeps DEF FetchRejects, Busy
  <1>2. CASE ErrorBodyEnds(a)
    <2>1. chain[a].code \in Codes \cup {0}
      BY DEF WInv, TypeOK, Chain
    <2> QED
      BY <1>2, <2>1, ErrorsFitFlag, FailureKeeps DEF ErrorBodyEnds, Busy, StatusError
  <1>3. CASE BodyBreaks(a)
    BY <1>3, ErrorsFitFlag, FailureKeeps DEF BodyBreaks, Busy
  <1> QED
    BY <1>1, <1>2, <1>3

LEMMA ResultKeeps ==
  ASSUME WInv, NEW a \in Attempts, NEW useful \in BOOLEAN, ResultArrives(a, useful)
  PROVE  WInv'
  <1> DEFINE r == [chain[a] EXCEPT !.pc = "done", !.code = 0, !.age = 0]
             s == IF useful THEN "COMPLETED" ELSE Doc!FailureStatus(a, FALSE)
  <1>1. /\ chain \in [Attempts -> Chain] /\ chain' = [chain EXCEPT ![a] = r]
        /\ Settle(a, s) /\ UNCHANGED <<prompt, accepted, attempt>>
    BY DEF ResultArrives, WInv, TypeOK
  <1>2. r \in Chain /\ r.pc = "done" /\ r.failures = chain[a].failures
    BY <1>1, AnsweredIsChain
  <1>3. s \in {"COMPLETED", "DEAD_LETTER"} \/ (s = "RETRYING" /\ a < MaxAttempts)
    BY FallbackAssumption DEF Attempts, Doc!FailureStatus
  <1> HIDE DEF r, s
  <1>4. /\ chain'[a] = r /\ ~Busy(r)
        /\ \A b \in Attempts : b # a => chain'[b] = chain[b]
        /\ \A b \in Attempts : chain'[b].failures = chain[b].failures
        /\ chain' \in [Attempts -> Chain]
    BY <1>1, <1>2 DEF Busy
  <1>5. /\ status' \in {"QUEUED", "PROCESSING", "RETRYING", "COMPLETED", "DEAD_LETTER"}
        /\ timer' \in 0 .. JobTimeout
        /\ AttemptLeft'
        /\ status' = "PROCESSING" => attempt # a /\ UNCHANGED <<status, timer>>
    BY <1>1, <1>3, Settled
  <1>6. TypeOK' /\ FlagFits'
    BY <1>1, <1>4, <1>5 DEF WInv, TypeOK, FlagFits
  <1>7. CallIsLegal'
    BY <1>1, <1>4 DEF WInv, CallIsLegal, Busy
  <1>8. TimerIsCovered'
    BY <1>1, <1>4, <1>5 DEF WInv, TimerIsCovered, Busy, Spent
  <1> QED
    BY <1>5, <1>6, <1>7, <1>8 DEF WInv

LEMMA TickKeeps == ASSUME WInv, Tick PROVE WInv'
  <1>1. /\ chain \in [Attempts -> Chain] /\ chain' = [a \in Attempts |-> Older(chain[a])]
        /\ timer' = IF status = "PROCESSING" THEN timer + 1 ELSE timer
        /\ \A a \in Attempts : ~RequestDue(chain[a]) /\ ~BodyDue(chain[a])
        /\ UNCHANGED <<prompt, accepted, attempt, status>>
    BY DEF Tick, WInv, TypeOK
  <1>2. ASSUME NEW a \in Attempts
        PROVE  /\ chain'[a] \in Chain /\ chain'[a].pc = chain[a].pc
               /\ chain'[a].code = chain[a].code
               /\ chain'[a].failures = chain[a].failures
               /\ chain'[a].age \in {chain[a].age, chain[a].age + 1}
               /\ Busy(chain[a]) /\ (chain[a].pc = "body" => chain[a].age < BodyTime)
                     => chain'[a].age = chain[a].age + 1
               /\ chain[a].age \in Nat
    <2>1. chain[a] \in Chain /\ chain'[a] = Older(chain[a])
      BY <1>1
    <2>2. chain[a].age \in Nat
      BY <2>1 DEF Chain
    <2> QED
      BY <2>1, <2>2, OlderIsChain
  <1>3. timer' \in 0 .. JobTimeout
    BY <1>1, FallbackAssumption DEF Tick, WInv, TypeOK
  <1>4. chain' \in [Attempts -> Chain]
    BY <1>1, <1>2
  <1>5. TypeOK' /\ AttemptLeft' /\ FlagFits'
    BY <1>1, <1>2, <1>3, <1>4 DEF WInv, TypeOK, AttemptLeft, FlagFits
  <1>6. ASSUME NEW a \in Attempts, Busy(chain[a])
        PROVE  /\ chain[a].pc = "calling" => chain[a].age < RequestTimeout
               /\ prompt /\ chain[a].pc = "body" => chain[a].age < BodyTime
    BY <1>1, <1>2, <1>6, FallbackAssumption DEF WInv, CallIsLegal, RequestDue, BodyDue
  <1>7. CallIsLegal'
    <2> SUFFICES ASSUME NEW a \in Attempts, Busy(chain'[a])
                 PROVE  /\ a <= attempt' /\ Len(chain'[a].failures) < Models
                        /\ chain'[a].pc = "calling" => chain'[a].age <= RequestTimeout
                        /\ chain'[a].pc = "body" => chain'[a].code \in Codes
                        /\ prompt' /\ chain'[a].pc = "body" => chain'[a].age <= BodyTime
      BY DEF CallIsLegal, Busy
    <2>1. Busy(chain[a])
      BY <1>2 DEF Busy
    <2>2. /\ a <= attempt' /\ Len(chain'[a].failures) < Models
          /\ chain'[a].pc = "body" => chain'[a].code \in Codes
      BY <1>1, <1>2, <2>1 DEF WInv, CallIsLegal
    <2>3. /\ chain[a].pc = "calling" => chain[a].age + 1 <= RequestTimeout
          /\ prompt /\ chain[a].pc = "body" => chain[a].age + 1 <= BodyTime
      BY <1>2, <1>6, <2>1, FallbackAssumption
    <2> QED
      BY <1>1, <1>2, <1>6, <2>1, <2>2, <2>3
  <1>8. TimerIsCovered'
    <2> SUFFICES ASSUME prompt, status = "PROCESSING", NEW a \in Attempts, a = attempt,
                        Busy(chain'[a])
                 PROVE  timer' <= Len(chain'[a].failures) * CallTime + Spent(chain'[a])
      BY <1>1 DEF TimerIsCovered, Busy, Spent
    <2>1. Busy(chain[a])
      BY <1>2 DEF Busy
    <2>2. chain'[a].age = chain[a].age + 1
      BY <1>2, <1>6, <2>1
    <2>3. Spent(chain'[a]) = Spent(chain[a]) + 1 /\ Spent(chain[a]) \in Nat
      BY <1>2, <2>2, FallbackAssumption DEF Spent
    <2>4. timer <= Len(chain[a].failures) * CallTime + Spent(chain[a])
      BY <2>1 DEF WInv, TimerIsCovered
    <2>5. Len(chain[a].failures) * CallTime \in Nat /\ timer \in Int
      <3>1. Len(chain[a].failures) \in Nat
        BY <1>1 DEF Chain
      <3>2. timer \in Int
        BY DEF WInv, TypeOK
      <3> QED
        BY <3>1, <3>2, Calls
    <2>6. timer' = timer + 1 /\ chain'[a].failures = chain[a].failures
      BY <1>1, <1>2
    <2> QED
      BY <2>3, <2>4, <2>5, <2>6
  <1> QED
    BY <1>5, <1>7, <1>8 DEF WInv

-----------------------------------------------------------------------------
(* The invariant *)

LEMMA InitHolds == Init => WInv
  <1> SUFFICES ASSUME Init PROVE WInv
    OBVIOUS
  <1>1. chain \in [Attempts -> Chain] /\ \A a \in Attempts : chain[a] = Idle
    BY IdleIsChain DEF Init
  <1>2. 0 \in 0 .. MaxAttempts /\ 0 \in 0 .. JobTimeout /\ 0 < MaxAttempts /\ 0 <= Models
    BY FallbackAssumption
  <1> QED
    BY <1>1, <1>2, IdleIsChain, NoFailures
    DEF Init, WInv, TypeOK, AttemptLeft, CallIsLegal, TimerIsCovered, FlagFits

LEMMA NextKeeps == WInv /\ [Next]_vars => WInv'
  <1> SUFFICES ASSUME WInv, [Next]_vars PROVE WInv'
    OBVIOUS
  <1>1. CASE RejectInput
    BY <1>1, RejectKeeps
  <1>2. CASE StartAttempt
    BY <1>2, StartKeeps
  <1>3. CASE JobTimesOut
    BY <1>3, JobTimesOutKeeps
  <1>4. ASSUME NEW a \in Attempts, NEW code \in Codes, HeadersArrive(a, code) PROVE WInv'
    BY <1>4, HeadersKeep
  <1>5. ASSUME NEW a \in Attempts, FetchRejects(a) \/ BodyEnds(a) PROVE WInv'
    BY <1>5, ErrorKeeps, ResultKeeps DEF BodyEnds
  <1>6. CASE Tick
    BY <1>6, TickKeeps
  <1>7. CASE UNCHANGED vars
    BY <1>7 DEF vars, WInv, TypeOK, AttemptLeft, CallIsLegal, TimerIsCovered, FlagFits
  <1> QED
    BY <1>1, <1>2, <1>3, <1>4, <1>5, <1>6, <1>7 DEF Next

\* The invariant holds in every state, whatever the API answers and when.
THEOREM WalkIsLegal == Spec => []WInv
  BY InitHolds, NextKeeps, PTL DEF Spec

\* Every action keeps every variable in its type, for any number of models and
\* attempts, any times and any statuses.
THEOREM TypeIsRight == Spec => []TypeOK
  BY WalkIsLegal, PTL DEF WInv

-----------------------------------------------------------------------------
(* The chain fits inside the job's timeout *)

\* The model that has its turn is not the last one.
LEMMA NotTheLast ==
  ASSUME NEW n \in Nat, n < Models, n + 1 # Models
  PROVE  n + 1 <= Models - 1 /\ Models - 1 \in Nat /\ n + 1 \in Nat /\ JobTimeout \in Int
  BY FallbackAssumption

\* env.js's sizing of the request timeout, with the time a body takes: if the
\* calls of all models but the last fit inside the job's timeout, the job timer
\* never cuts the chain off before the last model had its turn.
THEOREM LastModelGetsItsTurn ==
  ASSUME (Models - 1) * CallTime < JobTimeout
  PROVE  Spec => []FallbackGetsItsTurn
  <1>1. ASSUME WInv PROVE FallbackGetsItsTurn
    <2> SUFFICES ASSUME prompt, status = "PROCESSING", timer = JobTimeout,
                        Busy(chain[attempt]), Len(chain[attempt].failures) + 1 # Models
                 PROVE  FALSE
      BY DEF FallbackGetsItsTurn, Busy
    <2> DEFINE n == Len(chain[attempt].failures)
    <2>1. attempt \in Attempts
      BY <1>1, FallbackAssumption DEF WInv, TypeOK, AttemptLeft, Attempts
    <2>2. n \in Nat /\ n < Models /\ chain[attempt] \in Chain
      BY <1>1, <2>1 DEF WInv, TypeOK, CallIsLegal, Chain
    <2>3. JobTimeout <= n * CallTime + Spent(chain[attempt])
      BY <1>1, <2>1 DEF WInv, TimerIsCovered
    <2>4. Spent(chain[attempt]) \in Nat /\ Spent(chain[attempt]) <= CallTime
      BY <1>1, <2>1, SpentIsBounded
    <2>5. n + 1 <= Models - 1 /\ Models - 1 \in Nat /\ n + 1 \in Nat /\ JobTimeout \in Int
      BY <2>2, NotTheLast
    <2> HIDE DEF n
    <2>6. /\ CallTime \in Nat /\ n * CallTime \in Nat /\ (n + 1) * CallTime \in Nat
          /\ (n + 1) * CallTime = n * CallTime + CallTime
      BY <2>2, <2>5, Calls
    <2>7. /\ (n + 1) * CallTime <= (Models - 1) * CallTime
          /\ (Models - 1) * CallTime \in Nat
      BY <2>5, Calls
    <2> QED
      BY <2>3, <2>4, <2>5, <2>6, <2>7
  <1> QED
    BY <1>1, WalkIsLegal, PTL

-----------------------------------------------------------------------------
(* No call outlives its attempt *)

\* With prompt bodies, a call under way belongs to the attempt that runs.
CallsAreCurrent ==
    prompt => \A a \in Attempts : Busy(chain[a]) => a = attempt /\ status = "PROCESSING"

\* If the calls of all models fit inside the job's timeout, the timer finds no
\* call under way, and the calls of two attempts never overlap.
THEOREM CallsDoNotPileUp ==
  ASSUME Models * CallTime < JobTimeout
  PROVE  Spec => []OneCallAtATime
  <1>1. Init => CallsAreCurrent
    BY IdleIsChain DEF Init, CallsAreCurrent
  <1>2. ASSUME WInv, prompt, status = "PROCESSING", timer = JobTimeout,
               NEW a \in Attempts, a = attempt, Busy(chain[a])
        PROVE  FALSE
    <2> DEFINE n == Len(chain[a].failures)
    <2>1. n \in Nat /\ n < Models /\ chain[a] \in Chain
      BY <1>2 DEF WInv, TypeOK, CallIsLegal, Chain
    <2>2. JobTimeout <= n * CallTime + Spent(chain[a])
      BY <1>2 DEF WInv, TimerIsCovered
    <2>3. Spent(chain[a]) \in Nat /\ Spent(chain[a]) <= CallTime
      BY <1>2, SpentIsBounded
    <2>4. n + 1 <= Models /\ Models \in Nat /\ n + 1 \in Nat /\ JobTimeout \in Int
      BY <2>1, FallbackAssumption
    <2> HIDE DEF n
    <2>5. /\ CallTime \in Nat /\ n * CallTime \in Nat /\ (n + 1) * CallTime \in Nat
          /\ (n + 1) * CallTime = n * CallTime + CallTime
      BY <2>1, <2>4, Calls
    <2>6. (n + 1) * CallTime <= Models * CallTime /\ Models * CallTime \in Nat
      BY <2>4, Calls
    <2> QED
      BY <2>2, <2>3, <2>4, <2>5, <2>6
  <1>3. ASSUME WInv, CallsAreCurrent, [Next]_vars PROVE CallsAreCurrent'
    <2> SUFFICES ASSUME prompt PROVE CallsAreCurrent'
      BY <1>3 DEF CallsAreCurrent, Next, vars, RejectInput, StartAttempt, JobTimesOut, Tick,
           HeadersArrive, FetchRejects, BodyEnds, ResultArrives, ErrorBodyEnds, BodyBreaks, CallFails
    <2>1. CASE RejectInput
      BY <2>1, <1>3 DEF RejectInput, CallsAreCurrent
    <2>2. CASE StartAttempt
      <3>1. \A a \in Attempts : ~Busy(chain[a])
        BY <2>2, <1>3 DEF StartAttempt, CallsAreCurrent
      <3>2. \A a \in Attempts : a # attempt + 1 => chain'[a] = chain[a]
        BY <2>2, <1>3 DEF StartAttempt, WInv, TypeOK
      <3> QED
        BY <2>2, <3>1, <3>2 DEF StartAttempt, CallsAreCurrent, Busy
    <2>3. CASE JobTimesOut
      BY <2>3, <1>2, <1>3 DEF JobTimesOut, CallsAreCurrent
    <2>4. CASE Tick
      <3>1. \A a \in Attempts : chain'[a].pc = chain[a].pc
        BY <2>4, <1>3, OlderIsChain DEF Tick, WInv, TypeOK
      <3> QED
        BY <2>4, <3>1, <1>3 DEF Tick, CallsAreCurrent, Busy
    <2>5. ASSUME NEW a \in Attempts, NEW r, chain' = [chain EXCEPT ![a] = r],
                 Busy(chain[a]), attempt' = attempt,
                 ~Busy(r) \/ UNCHANGED <<status, timer>>
          PROVE  CallsAreCurrent'
      <3>1. chain'[a] = r /\ \A b \in Attempts : b # a => chain'[b] = chain[b]
        BY <2>5, <1>3 DEF WInv, TypeOK
      <3>2. a = attempt /\ status = "PROCESSING"
        BY <2>5, <1>3 DEF CallsAreCurrent
      <3> QED
        BY <2>5, <3>1, <3>2, <1>3 DEF CallsAreCurrent, Busy
    <2>6. ASSUME NEW a \in Attempts, NEW code \in Codes, HeadersArrive(a, code)
          PROVE  CallsAreCurrent'
      <3> DEFINE r == [chain[a] EXCEPT !.pc = "body", !.code = code, !.age = 0]
      <3>1. chain' = [chain EXCEPT ![a] = r] /\ Busy(chain[a]) /\ attempt' = attempt
            /\ UNCHANGED <<status, timer>>
        BY <2>6 DEF HeadersArrive, Busy
      <3> HIDE DEF r
      <3> QED
        BY <2>5, <3>1
    <2>7. ASSUME NEW a \in Attempts, NEW f, CallFails(a, f), Busy(chain[a])
          PROVE  CallsAreCurrent'
      <3> DEFINE failures == Append(chain[a].failures, f)
                 over == (f.retryable = "false" /\ f.code # 404) \/ Len(failures) = Models
                 r == [Idle EXCEPT !.pc = IF over THEN "done" ELSE "calling",
                                   !.failures = failures]
      <3>1. chain' = [chain EXCEPT ![a] = r] /\ attempt' = attempt
            /\ (over \/ UNCHANGED <<status, timer>>)
        BY <2>7 DEF CallFails
      <3>2. r.pc = IF over THEN "done" ELSE "calling"
        BY DEF Idle
      <3> HIDE DEF over, r
      <3> QED
        BY <2>5, <2>7, <3>1, <3>2 DEF Busy
    <2>8. ASSUME NEW a \in Attempts, NEW useful \in BOOLEAN, ResultArrives(a, useful)
          PROVE  CallsAreCurrent'
      <3> DEFINE r == [chain[a] EXCEPT !.pc = "done", !.code = 0, !.age = 0]
      <3>1. chain' = [chain EXCEPT ![a] = r] /\ Busy(chain[a]) /\ attempt' = attempt
        BY <2>8 DEF ResultArrives, Busy
      <3>2. r.pc = "done"
        BY <1>3, AnsweredIsChain DEF WInv, TypeOK
      <3> HIDE DEF r
      <3> QED
        BY <2>5, <3>1, <3>2 DEF Busy
    <2>9. ASSUME NEW a \in Attempts, FetchRejects(a) \/ BodyEnds(a) PROVE CallsAreCurrent'
      BY <2>7, <2>8, <2>9 DEF FetchRejects, BodyEnds, ErrorBodyEnds, BodyBreaks, Busy
    <2>10. CASE UNCHANGED vars
      BY <2>10, <1>3 DEF vars, CallsAreCurrent
    <2> QED
      BY <1>3, <2>1, <2>2, <2>3, <2>4, <2>6, <2>9, <2>10 DEF Next
  <1>4. CallsAreCurrent => OneCallAtATime
    BY DEF CallsAreCurrent, OneCallAtATime, Busy
  <1> QED
    BY <1>1, <1>3, <1>4, WalkIsLegal, PTL DEF Spec

-----------------------------------------------------------------------------
(* What a job is dead-lettered for *)

NoHope(failures) ==
    \/ \E i \in DOMAIN failures : Permanent(failures[i])
    \/ \A i \in DOMAIN failures : ~Temporary(failures[i])

\* A job that is dead-lettered early has had its last attempt's chain settled,
\* and for a reason that stays.
DeadHasReason ==
    EarlyDeadLetter => ~Busy(chain[attempt]) /\ NoHope(chain[attempt].failures)

\* An error that ends the chain on its own says that the request is at fault.
OnlyPermanentRethrown(f) ==
    f.retryable = "false" /\ f.code # 404 => Permanent(f)

\* The errors of calls, if every status but 200 is one of the 400s or 500s.
LEMMA RethrownIsPermanent ==
  ASSUME Codes \subseteq {200} \cup 400 .. 599, NEW code \in Codes, code # 200
  PROVE  OnlyPermanentRethrown(StatusError(code))
  <1>1. code \in 400 .. 599
    OBVIOUS
  <1>2. CASE IsRetryableStatus(code)
    BY <1>2 DEF OnlyPermanentRethrown, StatusError
  <1>3. CASE ~IsRetryableStatus(code)
    <2>1. code < 500 /\ code # 408 /\ code # 429
      BY <1>1, <1>3 DEF IsRetryableStatus
    <2> QED
      BY <1>1, <1>3, <2>1 DEF OnlyPermanentRethrown, Permanent, StatusError
  <1> QED
    BY <1>2, <1>3

\* Failures that are all not worth a retry hold nothing temporary.
LEMMA NothingTemporary ==
  ASSUME NEW failures, ~AnyRetryable(failures),
         \A i \in DOMAIN failures :
            IsRetryableStatus(failures[i].code) => failures[i].retryable = "true"
  PROVE  NoHope(failures)
  BY DEF NoHope, AnyRetryable, Temporary

\* DeadHasReason after a step of the same attempt.
LEMMA ReasonNow ==
  ASSUME attempt' = attempt,
         EarlyDeadLetter' => ~Busy(chain'[attempt]) /\ NoHope(chain'[attempt].failures)
  PROVE  DeadHasReason'
  BY DEF DeadHasReason, NoHope, Busy

LEMMA FailureHasReason ==
  ASSUME WInv, DeadHasReason, NEW a \in Attempts, Busy(chain[a]),
         NEW f, FitsFlag(f), OnlyPermanentRethrown(f), CallFails(a, f)
  PROVE  DeadHasReason'
  <1> DEFINE failures == Append(chain[a].failures, f)
             rethrown == f.retryable = "false" /\ f.code # 404
             over == rethrown \/ Len(failures) = Models
             r == [Idle EXCEPT !.pc = IF over THEN "done" ELSE "calling", !.failures = failures]
             s == Doc!FailureStatus(a, rethrown \/ ~AnyRetryable(failures))
  <1>1. /\ chain' = [chain EXCEPT ![a] = r]
        /\ IF over THEN Settle(a, s) ELSE UNCHANGED <<status, timer>>
        /\ UNCHANGED <<prompt, accepted, attempt>>
    BY DEF CallFails
  <1>2. s = "DEAD_LETTER" => a >= MaxAttempts \/ rethrown \/ ~AnyRetryable(failures)
    BY DEF Doc!FailureStatus
  <1>3. WInv'
    BY FailureKeeps
  <1>4. r.failures = failures /\ r.pc = IF over THEN "done" ELSE "calling"
    BY DEF Idle
  <1>5. rethrown => NoHope(failures)
    <2>1. chain[a].failures \in Seq(Failure) /\ f \in Failure
      BY DEF WInv, TypeOK, Chain, FitsFlag
    <2>2. /\ Len(chain[a].failures) + 1 \in DOMAIN failures
          /\ failures[Len(chain[a].failures) + 1] = f
      BY <2>1, OneMore
    <2> HIDE DEF failures
    <2> QED
      BY <2>2 DEF NoHope, OnlyPermanentRethrown
  <1> HIDE DEF failures, r, s
  <1>6. chain'[a] = r /\ \A b \in Attempts : b # a => chain'[b] = chain[b]
    BY <1>1 DEF WInv, TypeOK
  <1>7. ~AnyRetryable(failures) => NoHope(failures)
    <2>1. \A i \in DOMAIN failures :
             IsRetryableStatus(failures[i].code) => failures[i].retryable = "true"
      BY <1>3, <1>4, <1>6 DEF WInv, FlagFits
    <2> QED
      BY <2>1, NothingTemporary
  <1> SUFFICES ASSUME EarlyDeadLetter'
               PROVE  ~Busy(chain'[attempt]) /\ NoHope(chain'[attempt].failures)
    BY <1>1, ReasonNow
  <1>8. attempt \in Attempts /\ attempt < MaxAttempts
    BY <1>1, <1>3, FallbackAssumption DEF WInv, TypeOK, AttemptLeft, EarlyDeadLetter, Attempts
  <1>9. CASE status = "DEAD_LETTER"
    <2>1. EarlyDeadLetter
      BY <1>9, <1>1 DEF EarlyDeadLetter
    <2> QED
      BY <2>1, <1>6, <1>8 DEF DeadHasReason
  <1>10. CASE status # "DEAD_LETTER"
    <2>1. over /\ attempt = a /\ s = "DEAD_LETTER"
      BY <1>10, <1>1 DEF EarlyDeadLetter, Settle
    <2>2. rethrown \/ ~AnyRetryable(failures)
      BY <2>1, <1>2, <1>8, FallbackAssumption DEF Attempts
    <2> QED
      BY <2>1, <2>2, <1>4, <1>5, <1>6, <1>7 DEF Busy
  <1> QED
    BY <1>9, <1>10

\* A temporary failure keeps the job out of the dead letters, for any mix of
\* failures along a chain of any length.
THEOREM TemporaryFailuresAreRetried ==
  ASSUME Codes \subseteq {200} \cup 400 .. 599
  PROVE  Spec => []TemporaryIsRetried
  <1>1. Init => DeadHasReason
    BY DEF Init, DeadHasReason, EarlyDeadLetter
  <1>2. ASSUME WInv, DeadHasReason, [Next]_vars PROVE DeadHasReason'
    <2>1. CASE RejectInput
      <3>1. WInv' /\ UNCHANGED <<accepted, chain>> /\ status # "DEAD_LETTER"
        BY <2>1, <1>2, RejectKeeps DEF RejectInput
      <3>2. ASSUME EarlyDeadLetter'
            PROVE  ~Busy(chain'[attempt']) /\ NoHope(chain'[attempt'].failures)
        <4>1. attempt' \in Attempts
          BY <3>1, <3>2, FallbackAssumption DEF WInv, TypeOK, AttemptLeft, EarlyDeadLetter, Attempts
        <4>2. Models = 0
          BY <2>1, <3>1, <3>2 DEF RejectInput, EarlyDeadLetter
        <4>3. /\ chain'[attempt'].failures \in Seq(Failure)
              /\ Len(chain'[attempt'].failures) <= 0
              /\ ~Busy(chain'[attempt'])
          BY <3>1, <4>1, <4>2 DEF WInv, TypeOK, CallIsLegal, Busy, Chain
        <4>4. DOMAIN chain'[attempt'].failures = {}
          BY <4>3
        <4> QED
          BY <4>3, <4>4 DEF NoHope
      <3> QED
        BY <3>2 DEF DeadHasReason, NoHope, Busy
    <2>2. CASE StartAttempt
      BY <2>2 DEF StartAttempt, DeadHasReason, EarlyDeadLetter
    <2>3. CASE JobTimesOut
      <3>1. status' = "DEAD_LETTER" => attempt >= MaxAttempts
        BY <2>3 DEF JobTimesOut, Settle, Doc!FailureStatus
      <3>2. attempt' = attempt /\ attempt \in Int
        BY <2>3, <1>2 DEF JobTimesOut, WInv, TypeOK
      <3> QED
        BY <3>1, <3>2, FallbackAssumption DEF DeadHasReason, EarlyDeadLetter
    <2>4. ASSUME NEW a \in Attempts, NEW r, chain' = [chain EXCEPT ![a] = r], Busy(chain[a]),
                 UNCHANGED <<accepted, attempt>>,
                 status' = "DEAD_LETTER" => status = "DEAD_LETTER" \/ attempt >= MaxAttempts
          PROVE  DeadHasReason'
      <3>1. \A b \in Attempts : b # a => chain'[b] = chain[b]
        BY <2>4, <1>2 DEF WInv, TypeOK
      <3> SUFFICES ASSUME EarlyDeadLetter'
                   PROVE  ~Busy(chain'[attempt]) /\ NoHope(chain'[attempt].failures)
        BY <2>4, ReasonNow
      <3>2. EarlyDeadLetter
        BY <2>4, <1>2, FallbackAssumption DEF EarlyDeadLetter, WInv, TypeOK
      <3>3. attempt \in Attempts
        BY <3>2, <1>2, FallbackAssumption
        DEF EarlyDeadLetter, WInv, TypeOK, AttemptLeft, Attempts
      <3> QED
        BY <2>4, <3>1, <3>2, <3>3, <1>2 DEF DeadHasReason
    <2>5. ASSUME NEW a \in Attempts, NEW code \in Codes, HeadersArrive(a, code)
          PROVE  DeadHasReason'
      <3> DEFINE r == [chain[a] EXCEPT !.pc = "body", !.code = code, !.age = 0]
      <3>1. /\ chain' = [chain EXCEPT ![a] = r] /\ Busy(chain[a])
            /\ UNCHANGED <<accepted, attempt, status>>
        BY <2>5 DEF HeadersArrive, Busy
      <3> HIDE DEF r
      <3> QED
        BY <2>4, <3>1
    <2>6. ASSUME NEW a \in Attempts, NEW useful \in BOOLEAN, ResultArrives(a, useful)
          PROVE  DeadHasReason'
      <3> DEFINE r == [chain[a] EXCEPT !.pc = "done", !.code = 0, !.age = 0]
      <3>1. /\ chain' = [chain EXCEPT ![a] = r] /\ Busy(chain[a])
            /\ UNCHANGED <<accepted, attempt>>
        BY <2>6 DEF ResultArrives, Busy
      <3>2. status' = "DEAD_LETTER" => status = "DEAD_LETTER" \/ attempt >= MaxAttempts
        BY <2>6 DEF ResultArrives, Settle, Doc!FailureStatus
      <3> HIDE DEF r
      <3> QED
        BY <2>4, <3>1, <3>2
    <2>7. ASSUME NEW a \in Attempts, FetchRejects(a) PROVE DeadHasReason'
      <3>1. OnlyPermanentRethrown([retryable |-> "true", code |-> 0])
        BY DEF OnlyPermanentRethrown
      <3> QED
        BY <2>7, <3>1, <1>2, ErrorsFitFlag, FailureHasReason DEF FetchRejects, Busy
    <2>8. ASSUME NEW a \in Attempts, ErrorBodyEnds(a) PROVE DeadHasReason'
      <3>1. chain[a].code \in Codes /\ chain[a].code # 200 /\ Busy(chain[a])
        BY <2>8, <1>2 DEF ErrorBodyEnds, WInv, CallIsLegal, Busy
      <3>2. FitsFlag(StatusError(chain[a].code)) /\ OnlyPermanentRethrown(StatusError(chain[a].code))
        <4>1. FitsFlag(StatusError(chain[a].code))
          BY <3>1, ErrorsFitFlag
        <4>2. OnlyPermanentRethrown(StatusError(chain[a].code))
          BY <3>1, RethrownIsPermanent
        <4> QED
          BY <4>1, <4>2
      <3>3. CallFails(a, StatusError(chain[a].code))
        BY <2>8 DEF ErrorBodyEnds, StatusError
      <3> QED
        BY <3>1, <3>2, <3>3, <1>2, FailureHasReason
    <2>9. ASSUME NEW a \in Attempts, BodyBreaks(a) PROVE DeadHasReason'
      <3>1. OnlyPermanentRethrown([retryable |-> "unset", code |-> 0])
        BY DEF OnlyPermanentRethrown
      <3> QED
        BY <2>9, <3>1, <1>2, ErrorsFitFlag, FailureHasReason DEF BodyBreaks, Busy
    <2>10. CASE Tick
      <3>1. UNCHANGED <<accepted, attempt, status>>
        BY <2>10 DEF Tick
      <3>2. ASSUME EarlyDeadLetter'
            PROVE  ~Busy(chain'[attempt]) /\ NoHope(chain'[attempt].failures)
        <4>1. EarlyDeadLetter /\ attempt \in Attempts
          BY <3>1, <3>2, <1>2, FallbackAssumption
          DEF EarlyDeadLetter, WInv, TypeOK, AttemptLeft, Attempts
        <4>2. chain'[attempt] = Older(chain[attempt]) /\ chain[attempt] \in Chain
          BY <2>10, <4>1, <1>2 DEF Tick, WInv, TypeOK
        <4> QED
          BY <4>1, <4>2, <1>2, OlderIsChain DEF DeadHasReason, Busy
      <3> QED
        BY <3>1, <3>2, ReasonNow
    <2>11. CASE UNCHANGED vars
      <3>1. EarlyDeadLetter' <=> EarlyDeadLetter
        BY <2>11 DEF vars, EarlyDeadLetter
      <3> QED
        BY <2>11, <3>1, <1>2, ReasonNow DEF vars, DeadHasReason
    <2> QED
      BY <1>2, <2>1, <2>2, <2>3, <2>5, <2>6, <2>7, <2>8, <2>9, <2>10, <2>11 DEF Next, BodyEnds
  <1>3. DeadHasReason => TemporaryIsRetried
    BY DEF DeadHasReason, TemporaryIsRetried, NoHope, Failures
  <1> QED
    BY <1>1, <1>2, <1>3, WalkIsLegal, PTL DEF Spec

================================================================================
