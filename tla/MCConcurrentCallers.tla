------------------------- MODULE MCConcurrentCallers -------------------------
(* A small instance of ConcurrentCallers for TLC. *)
EXTENDS ConcurrentCallers, TLC

Symmetry == Permutations(Callers)
=============================================================================
