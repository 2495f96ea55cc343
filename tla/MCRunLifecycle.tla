--------------------------- MODULE MCRunLifecycle ----------------------------
(* Instances of RunLifecycle for TLC. *)
EXTENDS RunLifecycle

CONSTANTS w1, w2, r1, r2, shared

\* Each worker process has its own settings.worker_id.
DistinctIds == [w \in {w1, w2} |-> w]

\* Both run with the default, "worker-local".
SharedIds == [w \in {w1, w2} |-> shared]
=============================================================================
