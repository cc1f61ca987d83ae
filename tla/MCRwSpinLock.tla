---------------------------- MODULE MCRwSpinLock ----------------------------
(* RwSpinLock with small sets of CPUs, for TLC. *)
EXTENDS RwSpinLock, TLC

Symmetry == Permutations(CPU)
=============================================================================
