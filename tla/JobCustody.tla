------------------------------ MODULE JobCustody ------------------------------
(***************************************************************************)
(* What the platform does with a job, seen without its processes: a job is *)
(* waiting (in one of the sorted sets, or on its way from one store to     *)
(* another), running (locked by an attempt), or nowhere.  A job is started *)
(* only from waiting, ends or is retried only from running, and, once      *)
(* nowhere, stays there.                                                   *)
(***************************************************************************)
EXTENDS Integers

CONSTANT Jobs

VARIABLES
    status,    \* as in the job document
    custody,   \* "waiting", "running" or "nowhere"
    runs       \* attempts started

vars == <<status, custody, runs>>

Ended == {"COMPLETED", "DEAD_LETTER", "CANCELLED"}

Init ==
    /\ status = [j \in Jobs |-> "ABSENT"]
    /\ custody = [j \in Jobs |-> "nowhere"]
    /\ runs = [j \in Jobs |-> 0]

Submit(j) ==
    /\ status[j] = "ABSENT"
    /\ status' = [status EXCEPT ![j] = "QUEUED"]
    /\ custody' = [custody EXCEPT ![j] = "waiting"]
    /\ UNCHANGED runs

\* A scheduled or retried job becomes ready.
Promote(j) ==
    /\ custody[j] = "waiting"
    /\ status' = [status EXCEPT ![j] = "QUEUED"]
    /\ UNCHANGED <<custody, runs>>

Start(j) ==
    /\ custody[j] = "waiting"
    /\ status' = [status EXCEPT ![j] = "PROCESSING"]
    /\ custody' = [custody EXCEPT ![j] = "running"]
    /\ runs' = [runs EXCEPT ![j] = @ + 1]

Retry(j) ==
    /\ custody[j] = "running"
    /\ status' = [status EXCEPT ![j] = "RETRYING"]
    /\ custody' = [custody EXCEPT ![j] = "waiting"]
    /\ UNCHANGED runs

End(j, s) ==
    /\ custody[j] = "running"
    /\ status' = [status EXCEPT ![j] = s]
    /\ custody' = [custody EXCEPT ![j] = "nowhere"]
    /\ UNCHANGED runs

\* The write of a cancellation, at any time: it does not look at custody.
Cancel(j) ==
    /\ status[j] # "ABSENT"
    /\ status' = [status EXCEPT ![j] = "CANCELLED"]
    /\ UNCHANGED <<custody, runs>>

\* Waiting jobs are taken out by a cancellation, or lost by a fault.
Drop(js) ==
    /\ \A j \in js : custody[j] = "waiting"
    /\ custody' = [j \in Jobs |-> IF j \in js THEN "nowhere" ELSE custody[j]]
    /\ UNCHANGED <<status, runs>>

Next ==
    \/ \E j \in Jobs :
          \/ Submit(j) \/ Promote(j) \/ Start(j) \/ Retry(j) \/ Cancel(j)
          \/ \E s \in Ended : End(j, s)
    \/ \E js \in SUBSET Jobs : Drop(js)

Spec == Init /\ [][Next]_vars
================================================================================
