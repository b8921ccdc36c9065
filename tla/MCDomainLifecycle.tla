-------------------------- MODULE MCDomainLifecycle --------------------------
(* Small instances of DomainLifecycle for TLC. *)
EXTENDS DomainRefinement, TLC

Symmetry ==
  Permutations(Workspaces) \cup Permutations(Goals) \cup Permutations(Tasks)
    \cup Permutations(Executions) \cup Permutations(Attempts)
=============================================================================
