----------------------------- MODULE MCLockTiming -----------------------------
(* An instance of LockTiming for TLC, in units of half a second. *)
EXTENDS LockTiming

\* Half a minute, a minute, and values setTimeout does not take.
SomeTimeouts == {-1, 60, 120, MaxTimer + 1}
===============================================================================
