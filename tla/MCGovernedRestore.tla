-------------------------- MODULE MCGovernedRestore --------------------------
(* A small instance of GovernedRestore for TLC. *)
EXTENDS GovernedRestore, TLC

Symmetry == Permutations(Ids)
=============================================================================
