------------------------------ MODULE MCRbTree ------------------------------
(* RbTree with ten nodes in pairs of equal keys, for TLC. *)
EXTENDS RbTree

MCNode == 1..10
MCvruntime == [n \in MCNode |-> n \div 2]
=============================================================================
