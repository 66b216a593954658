------------------------------ MODULE MCStream ------------------------------
(* Instances of Stream for TLC: a set of N streams whose capacities cycle  *)
(* through 1 and 2, so that a buffer both fills up and wraps around.       *)
EXTENDS Stream

MCCapacity == [s \in 0 .. N - 1 |-> 1 + (s % 2)]
=============================================================================
