------------------------- MODULE MCOperatorSessions -------------------------
(* Operator sessions for TLC. *)
EXTENDS OperatorSessions, TLC

Symmetry == Permutations(Operators) \cup Permutations(Tokens) \cup Permutations(Workers)
=============================================================================
