----------------------------- MODULE MCHandoffs ------------------------------
(* Handoffs of one task between agents, for TLC. *)
EXTENDS Handoffs, OrchestrationRefinement, TLC

AloneOnly == {[t \in {"t1"} |-> {}]}
Parallel  == {[t \in {"t1", "t2"} |-> {}]}
AgentSymmetry == Permutations(Agents)
=============================================================================
