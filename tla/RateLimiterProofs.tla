--------------------------- MODULE RateLimiterProofs ---------------------------
(***************************************************************************)
(* The limit holds for any number of concurrent requests and of failures.  *)
(***************************************************************************)
EXTENDS RateLimiter, TLAPS

\* At most one request is between INCR and EXPIRE, the one that made the key,
\* and until it is done the key does not end.
OneSetsExpiry ==
    /\ count = 0 => ~expiring
    /\ \A r \in Requests : pc[r] = "expire" =>
          /\ count > 0 /\ ~expiring
          /\ \A q \in Requests : pc[q] = "expire" => q = r

\* LimitHolds, with its local definitions named.
Passing == IF \E r \in Requests : pc[r] = "expire" THEN 1 ELSE 0
Limit(n) == IF n > MaxRequests THEN MaxRequests ELSE n

LimitKept ==
    count > 0 => /\ admitted + Passing <= Limit(count) + faults
                 /\ faults = 0 => admitted + Passing = Limit(count)

Inv == TypeOK /\ OneSetsExpiry /\ LimitKept

LEMMA InitInv == Init => Inv
<1> SUFFICES ASSUME Init PROVE Inv
  OBVIOUS
<1>1. OneSetsExpiry
  BY DEF Init, OneSetsExpiry
<1>2. LimitKept
  BY DEF Init, LimitKept
<1>3. count \in 0 .. MaxCount /\ admitted \in Nat /\ faults \in 0 .. MaxFaults
  BY LimiterAssumption DEF Init
<1>4. expiring \in BOOLEAN /\ pc \in [Requests -> {"incr", "expire", "ttl"}]
  BY DEF Init
<1> QED BY <1>1, <1>2, <1>3, <1>4 DEF Inv, TypeOK

\* An INCR makes the key, or admits its request, or finds the limit reached.
LEMMA IncrKeepsInv ==
    ASSUME Inv, NEW r \in Requests, Incr(r)
    PROVE  Inv'
<1> USE LimiterAssumption
<1>1. TypeOK'
  BY DEF Inv, TypeOK, Incr, Await, Incremented, OverLimit
<1>2. faults' = faults /\ expiring' = expiring /\ count' = Incremented
  BY DEF Incr
<1>3. CASE count = 0
  <2>1. /\ count' = 1 /\ pc' = [pc EXCEPT ![r] = "expire"] /\ admitted' = 0 /\ ~expiring
        /\ \A q \in Requests : pc[q] # "expire"
    <3>1. count' = 1
      BY <1>3 DEF Inv, TypeOK, Incr, Incremented
    <3>2. pc' = [pc EXCEPT ![r] = "expire"] /\ admitted' = 0
      <4>1. ~OverLimit(count')
        BY <3>1 DEF OverLimit
      <4> QED BY <4>1, <1>3 DEF Incr, Await
    <3>3. ~expiring /\ \A q \in Requests : pc[q] # "expire"
      BY <1>3 DEF Inv, TypeOK, OneSetsExpiry
    <3> QED BY <3>1, <3>2, <3>3
  <2>2. \A q \in Requests : pc'[q] = "expire" <=> q = r
    BY <2>1 DEF Inv, TypeOK
  <2>3. OneSetsExpiry'
    BY <2>1, <2>2, <1>2 DEF OneSetsExpiry
  <2>4. Passing' = 1
    BY <2>2 DEF Passing
  <2>5. LimitKept'
    BY <2>1, <2>4, <1>2 DEF LimitKept, Limit, Inv, TypeOK
  <2> QED BY <1>1, <2>3, <2>5 DEF Inv
<1>4. CASE count > 0
  <2>1. /\ pc[r] = "incr" /\ pc' = [pc EXCEPT ![r] = IF OverLimit(count') THEN "ttl" ELSE "incr"]
        /\ admitted' = IF OverLimit(count') THEN admitted ELSE admitted + 1
    <3>1. count # 0
      BY <1>4 DEF Inv, TypeOK
    <3>2. CASE OverLimit(count')
      BY <3>1, <3>2 DEF Incr, Await
    <3>3. CASE ~OverLimit(count')
      BY <3>1, <3>3 DEF Incr, Await
    <3> QED BY <3>2, <3>3
  <2>2. \A q \in Requests : pc'[q] = "expire" <=> pc[q] = "expire"
    BY <2>1 DEF Inv, TypeOK
  <2>3. Passing' = Passing
    BY <2>2 DEF Passing
  <2>4. count' \in Nat /\ count' > 0 /\ (count' = count + 1 \/ (count' = count /\ count > MaxRequests))
    BY <1>2, <1>4 DEF Incremented, Inv, TypeOK
  <2>5. OneSetsExpiry'
    BY <2>2, <2>4, <1>2, <1>4 DEF OneSetsExpiry, Inv
  <2>6. LimitKept'
    BY <2>1, <2>3, <2>4, <1>2, <1>4 DEF LimitKept, Limit, OverLimit, Inv, TypeOK, Passing
  <2> QED BY <1>1, <2>5, <2>6 DEF Inv
<1> QED BY <1>3, <1>4 DEF Inv, TypeOK

\* EXPIRE admits the request that was passing.
LEMMA ExpireKeepsInv ==
    ASSUME Inv, NEW r \in Requests, Expire(r)
    PROVE  Inv'
<1> USE LimiterAssumption
<1>1. /\ count > 0 /\ count' = count /\ expiring' = TRUE /\ faults' = faults
      /\ admitted' = admitted + 1 /\ pc' = [pc EXCEPT ![r] = "incr"]
      /\ \A q \in Requests : pc'[q] # "expire"
  BY DEF Inv, TypeOK, OneSetsExpiry, Expire, Await
<1>2. Passing = 1 /\ Passing' = 0
  BY <1>1 DEF Expire, Passing
<1>3. TypeOK' /\ OneSetsExpiry'
  BY <1>1 DEF Inv, TypeOK, OneSetsExpiry
<1>4. LimitKept'
  BY <1>1, <1>2 DEF Inv, TypeOK, LimitKept, Limit
<1> QED BY <1>3, <1>4 DEF Inv

LEMMA RefuseKeepsInv ==
    ASSUME Inv, NEW r \in Requests, Refuse(r)
    PROVE  Inv'
<1>1. /\ pc' = [pc EXCEPT ![r] = "incr"] /\ pc[r] = "ttl"
      /\ UNCHANGED <<count, expiring, admitted, faults>>
  BY DEF Refuse, Await
<1>2. \A q \in Requests : pc'[q] = "expire" <=> pc[q] = "expire"
  BY <1>1 DEF Inv, TypeOK
<1>3. Passing' = Passing
  BY <1>2 DEF Passing
<1> QED
  BY <1>1, <1>2, <1>3 DEF Inv, TypeOK, OneSetsExpiry, LimitKept

\* The key ends only when no request is about to give it its TTL.
LEMMA WindowKeepsInv ==
    ASSUME Inv, WindowEnds
    PROVE  Inv'
<1>1. /\ count' = 0 /\ expiring' = FALSE /\ \A q \in Requests : pc[q] # "expire"
      /\ UNCHANGED <<pc, admitted, faults>>
  BY DEF Inv, OneSetsExpiry, WindowEnds
<1>2. count' \in 0 .. MaxCount
  BY <1>1, LimiterAssumption
<1>3. TypeOK'
  BY <1>1, <1>2 DEF Inv, TypeOK
<1>4. OneSetsExpiry' /\ LimitKept'
  BY <1>1 DEF OneSetsExpiry, LimitKept
<1> QED BY <1>3, <1>4 DEF Inv

\* A failed command admits at most one request too many.
LEMMA FailureKeepsInv ==
    ASSUME Inv, NEW r \in Requests, NEW applied \in BOOLEAN, FailsOpen(r, applied)
    PROVE  Inv'
<1> USE LimiterAssumption
<1>1. TypeOK'
  BY DEF Inv, TypeOK, FailsOpen, Await, Incremented
<1>2. /\ faults' = faults + 1 /\ pc' = [pc EXCEPT ![r] = "incr"]
      /\ admitted' = IF count = 0 /\ count' = 1 THEN 1 ELSE admitted + 1
      /\ count' \in Nat
      /\ \/ count' = count
         \/ pc[r] = "incr" /\ count' = count + 1
  BY DEF Inv, TypeOK, FailsOpen, Await, Incremented
<1>3. \A q \in Requests : pc'[q] = "expire" <=> pc[q] = "expire" /\ q # r
  BY <1>2 DEF Inv, TypeOK
<1>4. OneSetsExpiry'
  <2>1. expiring' => expiring \/ (pc[r] = "expire" /\ count > 0)
    BY DEF FailsOpen
  <2>2. count' = 0 => ~expiring'
    BY <1>2, <2>1 DEF Inv, TypeOK, OneSetsExpiry
  <2>3. \A q \in Requests : pc'[q] = "expire" => count' > 0 /\ ~expiring'
    BY <1>2, <1>3, <2>1 DEF Inv, TypeOK, OneSetsExpiry
  <2> QED BY <1>3, <2>2, <2>3 DEF Inv, OneSetsExpiry
<1>5. LimitKept'
  <2>1. Passing' <= Passing /\ Passing' \in 0 .. 1 /\ Passing \in 0 .. 1
    BY <1>3 DEF Passing
  <2>2. CASE count = 0
    <3>1. Passing' = 0
      BY <2>2, <1>3 DEF Inv, OneSetsExpiry, Passing
    <3>2. CASE count' = 0
      BY <3>2 DEF LimitKept
    <3>3. CASE count' = 1
      <4>1. admitted' = 1 /\ Limit(count') = 1
        BY <2>2, <3>3, <1>2 DEF Limit
      <4>2. faults \in Nat /\ faults' = faults + 1
        BY <1>2 DEF Inv, TypeOK
      <4> QED BY <3>1, <4>1, <4>2 DEF LimitKept
    <3> QED BY <2>2, <3>2, <3>3, <1>2
  <2>3. CASE count > 0
    <3>1. Limit(count') >= Limit(count) /\ Limit(count) \in Nat /\ Limit(count') \in Nat
      BY <1>2 DEF Inv, TypeOK, Limit
    <3> QED BY <2>1, <2>3, <3>1, <1>2 DEF Inv, TypeOK, LimitKept
  <2> QED BY <2>2, <2>3 DEF Inv, TypeOK
<1> QED BY <1>1, <1>4, <1>5 DEF Inv

LEMMA RestartKeepsInv ==
    ASSUME Inv, Restart
    PROVE  Inv'
<1> USE LimiterAssumption
<1>1. /\ faults' = faults + 1 /\ count' = count /\ expiring' = expiring /\ admitted' = admitted
      /\ \A q \in Requests : pc'[q] # "expire"
  BY DEF Restart
<1>2. TypeOK' /\ OneSetsExpiry'
  BY <1>1 DEF Inv, TypeOK, OneSetsExpiry, Restart
<1>3. Passing' = 0 /\ Passing \in 0 .. 1 /\ Limit(count) \in Nat
  BY <1>1 DEF Passing, Limit, Inv, TypeOK
<1>4. LimitKept'
  BY <1>1, <1>3 DEF Inv, TypeOK, LimitKept, Limit
<1> QED BY <1>2, <1>4 DEF Inv

LEMMA NextKeepsInv == Inv /\ [Next]_vars => Inv'
<1> SUFFICES ASSUME Inv, [Next]_vars PROVE Inv'
  OBVIOUS
<1>1. CASE UNCHANGED vars
  BY <1>1 DEF vars, Inv, TypeOK, OneSetsExpiry, LimitKept, Passing
<1> QED
  BY <1>1, IncrKeepsInv, ExpireKeepsInv, RefuseKeepsInv, WindowKeepsInv, FailureKeepsInv,
     RestartKeepsInv DEF Next

\* Every action keeps every variable in its type; the counter stays in its bound.
THEOREM LimiterTypes == Spec => []TypeOK
<1>1. Inv => TypeOK
  BY DEF Inv
<1> QED BY <1>1, InitInv, NextKeepsInv, PTL DEF Spec

\* However many requests count at once, and whatever fails, the limiter admits
\* as many as the limit says and at most one more for each failure.
THEOREM LimitIsKept == Spec => []LimitHolds
<1>1. Inv => LimitHolds
  BY LimiterAssumption DEF Inv, TypeOK, LimitKept, LimitHolds, Passing, Limit, OverLimit
<1> QED BY <1>1, InitInv, NextKeepsInv, PTL DEF Spec

\* The safety behind BlockEndsUnlessFaulty: a counter without a TTL is one that
\* a request is about to give its TTL, or something failed.
KeyWillEnd ==
    count > 0 => expiring \/ (\E r \in Requests : pc[r] = "expire") \/ faults > 0

\* No client is blocked by a counter that nothing will ever end, as long as no
\* command fails and the API lives, however many requests meet at the key.
THEOREM KeysWillEnd == Spec => []KeyWillEnd
<1>1. Init => KeyWillEnd
  BY DEF Init, KeyWillEnd
<1>2. Inv /\ KeyWillEnd /\ [Next]_vars => KeyWillEnd'
  <2> SUFFICES ASSUME Inv, KeyWillEnd, [Next]_vars PROVE KeyWillEnd'
    OBVIOUS
  <2> USE DEF Inv, TypeOK, KeyWillEnd
  <2>1. ASSUME NEW r \in Requests, Incr(r) PROVE KeyWillEnd'
    <3>1. CASE count = 0
      <4>1. count' = 1 /\ ~OverLimit(count')
        BY <2>1, <3>1, LimiterAssumption DEF Incr, Incremented, OverLimit
      <4>2. pc'[r] = "expire"
        BY <2>1, <3>1, <4>1 DEF Incr, Await
      <4> QED BY <4>2
    <3>2. CASE count > 0
      <4>1. pc[r] = "incr" /\ \A q \in Requests \ {r} : pc'[q] = pc[q]
        BY <2>1 DEF Incr, Await
      <4> QED BY <2>1, <3>2, <4>1 DEF Incr
    <3> QED BY <3>1, <3>2
  <2>2. ASSUME NEW r \in Requests, Expire(r) PROVE KeyWillEnd'
    BY <2>2 DEF Expire
  <2>3. ASSUME NEW r \in Requests, Refuse(r) PROVE KeyWillEnd'
    <3>1. /\ pc[r] = "ttl" /\ \A q \in Requests \ {r} : pc'[q] = pc[q]
          /\ UNCHANGED <<count, expiring, faults>>
      BY <2>3 DEF Refuse, Await
    <3> QED BY <3>1
  <2>4. CASE WindowEnds \/ UNCHANGED vars
    BY <2>4 DEF WindowEnds, vars
  <2>5. CASE Restart \/ \E r \in Requests, applied \in BOOLEAN : FailsOpen(r, applied)
    BY <2>5, LimiterAssumption DEF Restart, FailsOpen
  <2> QED BY <2>1, <2>2, <2>3, <2>4, <2>5 DEF Next
<1> QED BY <1>1, <1>2, InitInv, NextKeepsInv, PTL DEF Spec
================================================================================
