--------------------------- MODULE MCGroundedRuns ---------------------------
(* Two runs over one source for TLC: its contents state another claim each time. *)
EXTENDS GroundedRuns, TLC

Restates(k) == IF k.content = 1 THEN "yes" ELSE "no"

Symmetry == Permutations(Runs)
=============================================================================
