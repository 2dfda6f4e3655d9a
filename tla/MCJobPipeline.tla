----------------------------- MODULE MCJobPipeline -----------------------------
(* Instances of the job pipeline for TLC. *)
EXTENDS JobPipelineProperties, TLC

CONSTANTS w1, w2, l1, l2, l3, t1, t2

\* One lane per worker (WORKER_CONCURRENCY unset).
OneLaneEach == (l1 :> w1) @@ (l2 :> w2) @@ (t1 :> w1) @@ (t2 :> w2)

\* Worker w1 runs two lanes, as docker-compose.yml configures.
TwoLanesAndOne ==
    (l1 :> w1) @@ (l2 :> w1) @@ (l3 :> w2) @@ (t1 :> w1) @@ (t2 :> w2)

\* A single worker whose interval callbacks overlap.
OneWorker == (l1 :> w1) @@ (t1 :> w1) @@ (t2 :> w1)
===============================================================================
