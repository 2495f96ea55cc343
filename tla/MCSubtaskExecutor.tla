-------------------------- MODULE MCSubtaskExecutor --------------------------
(* A wave of tasks, then one that needs two of them.                         *)
EXTENDS SubtaskExecutor, TLC

CONSTANTS a, b, c, d

\* a, b and d are ready at once; c waits for a and b.
Join == [t \in Task |-> IF t = c THEN {a, b} ELSE {}]

\* a and d may be tried twice; b and c once.
Attempts == [t \in Task |-> IF t \in {a, d} THEN 2 ELSE 1]
=============================================================================
