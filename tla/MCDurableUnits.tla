--------------------------- MODULE MCDurableUnits ---------------------------
(* Two store groups over two records for TLC. *)
EXTENDS DurableUnits, TLC

Symmetry == Permutations(Groups)
=============================================================================
