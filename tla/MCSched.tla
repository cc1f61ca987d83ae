------------------------------ MODULE MCSched -------------------------------
(* Sched with a few tasks and CPUs, for TLC. *)
EXTENDS Sched, TLC

\* The tasks other than the first are interchangeable.
Symmetry == Permutations(Task \ {InitTask})
=============================================================================
