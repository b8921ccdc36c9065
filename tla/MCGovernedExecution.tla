------------------------- MODULE MCGovernedExecution -------------------------
(* Small instances of GovernedExecution for TLC. *)
EXTENDS GovernedExecution, TLC

Symmetry == Permutations(Ids) \cup Permutations(Drivers)
=============================================================================
