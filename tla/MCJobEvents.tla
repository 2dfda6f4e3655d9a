------------------------------ MODULE MCJobEvents ------------------------------
(* Instances of the pipeline with its events for TLC. *)
EXTENDS JobEvents, TLC

CONSTANTS w1, w2, l1, l2, t1

\* Two workers of one lane each; the second runs the interval callbacks.
TwoWorkers == (l1 :> w1) @@ (l2 :> w2) @@ (t1 :> w2)
===============================================================================
