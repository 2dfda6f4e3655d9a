------------------------------ MODULE RateLimiter ------------------------------
(***************************************************************************)
(* The fixed-window limiter (src/middlewares/rateLimiter.js) for one       *)
(* identifier: concurrent requests over one Redis counter and its TTL.     *)
(***************************************************************************)
EXTENDS Integers

CONSTANTS
    Requests,     \* requests that may be in the middleware at the same time
    MaxRequests,
    MaxCount,     \* bound on the counter, past the limit: it stays there
    MaxFaults     \* bound on failed commands and crashes

ASSUME LimiterAssumption ==
    /\ MaxRequests \in Nat \ {0} /\ MaxFaults \in Nat
    /\ MaxCount \in Nat /\ MaxCount > MaxRequests + 1

VARIABLES
    count,      \* ratelimit:<identifier>; 0: the key does not exist
    expiring,   \* does the key have a TTL?
    pc,         \* what each request awaits next
    admitted,   \* history: calls of next() since the key last came into being
    faults

vars == <<count, expiring, pc, admitted, faults>>

TypeOK ==
    /\ count \in 0 .. MaxCount
    /\ expiring \in BOOLEAN
    /\ pc \in [Requests -> {"incr", "expire", "ttl"}]
    /\ admitted \in Nat
    /\ faults \in 0 .. MaxFaults

Init ==
    /\ count = 0
    /\ expiring = FALSE
    /\ pc = [r \in Requests |-> "incr"]
    /\ admitted = 0
    /\ faults = 0

\* Mutant of OverLimit: >= for >.
OverLimitFrom(n) == n >= MaxRequests

OverLimit(n) == n > MaxRequests

\* A request that is through leaves its place to another one.
Await(r, step) == pc' = [pc EXCEPT ![r] = step]

\* What INCR leaves in the counter.
Incremented == IF count < MaxCount THEN count + 1 ELSE count

\* INCR: the request that created the key goes on to EXPIRE.
Incr(r) ==
    /\ pc[r] = "incr"
    /\ count' = Incremented
    /\ Await(r, CASE count = 0 -> "expire" [] OverLimit(count') -> "ttl" [] OTHER -> "incr")
    /\ admitted' = CASE count = 0 -> 0 [] OverLimit(count') -> admitted [] OTHER -> admitted + 1
    /\ UNCHANGED <<expiring, faults>>

\* Mutant of Expire: the TTL is never set.
ExpireLost(r) ==
    /\ pc[r] = "expire"
    /\ admitted' = admitted + 1
    /\ Await(r, "incr")
    /\ UNCHANGED <<count, expiring, faults>>

\* EXPIRE, for the request whose count is 1; then next().
Expire(r) ==
    /\ pc[r] = "expire"
    /\ expiring' = (count > 0)
    /\ admitted' = admitted + 1
    /\ Await(r, "incr")
    /\ UNCHANGED <<count, faults>>

\* Mutant of Refuse: a refused request takes its increment back.
RefuseTakesBack(r) ==
    /\ pc[r] = "ttl"
    /\ count' = count - 1
    /\ Await(r, "incr")
    /\ UNCHANGED <<expiring, admitted, faults>>

\* TTL, for the answer 429.
Refuse(r) ==
    /\ pc[r] = "ttl"
    /\ Await(r, "incr")
    /\ UNCHANGED <<count, expiring, admitted, faults>>

\* Redis deletes the key.
WindowEnds ==
    /\ expiring
    /\ count' = 0
    /\ expiring' = FALSE
    /\ UNCHANGED <<pc, admitted, faults>>

\* A command rejects, applied or not: the request fails open.
FailsOpen(r, applied) ==
    /\ faults < MaxFaults
    /\ faults' = faults + 1
    /\ count' = IF applied /\ pc[r] = "incr" THEN Incremented ELSE count
    /\ expiring' = (expiring \/ (applied /\ pc[r] = "expire" /\ count > 0))
    /\ admitted' = IF count = 0 /\ count' = 1 THEN 1 ELSE admitted + 1
    /\ Await(r, "incr")

\* The API process dies with its requests, and another takes its place.
Restart ==
    /\ faults < MaxFaults
    /\ faults' = faults + 1
    /\ pc' = [r \in Requests |-> "incr"]
    /\ UNCHANGED <<count, expiring, admitted>>

Next ==
    \/ \E r \in Requests :
          \/ Incr(r) \/ Expire(r) \/ Refuse(r)
          \/ \E applied \in BOOLEAN : FailsOpen(r, applied)
    \/ WindowEnds
    \/ Restart

Spec == Init /\ [][Next]_vars

\* The await of a live process returns, and TTLs run.
FairSpec == Spec /\ WF_vars(WindowEnds) /\ \A r \in Requests : WF_vars(Expire(r) \/ Refuse(r))

-----------------------------------------------------------------------------
\* README.md, "Fixed-window rate limiting": however the requests interleave
\* within a window, exactly those under the limit pass (one may still be
\* between INCR and EXPIRE), and a fault lets at most one more pass.
LimitHolds ==
    LET passing == IF \E r \in Requests : pc[r] = "expire" THEN 1 ELSE 0
        limit == IF OverLimit(count) THEN MaxRequests ELSE count
    IN  count > 0 => /\ admitted + passing <= limit + faults
                     /\ faults = 0 => admitted + passing = limit

\* The 429 answer's retryAfterSeconds, and "rather than blocking every user":
\* a client over the limit is let in again some time later, as long as nothing
\* fails between INCR and EXPIRE: every key that ever counts past the limit
\* has been given its TTL, or will be.  (After a failure there the key has no
\* TTL, and no later request gives it one.)
BlockEndsUnlessFaulty == OverLimit(count) ~> (~OverLimit(count) \/ faults > 0)
===============================================================================
