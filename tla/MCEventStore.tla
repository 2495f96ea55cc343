---------------------------- MODULE MCEventStore -----------------------------
(* Coroutines that append to one session's log.                              *)
EXTENDS EventStore
=============================================================================
