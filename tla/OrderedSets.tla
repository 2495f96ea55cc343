---------------------------- MODULE OrderedSets ----------------------------
(***************************************************************************)
(* Finite sets of numbers, counted from below.                             *)
(***************************************************************************)
EXTENDS Integers, FiniteSets

\* the i-th element of a set of numbers, from below
Ith(S, i) == CHOOSE d \in S : Cardinality({e \in S : e <= d}) = i
=============================================================================
