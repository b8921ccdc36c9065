--------------------------- MODULE MCOrchestration ---------------------------
(* Plans over two tasks, for TLC: one task, a chain, and two independent tasks. *)
EXTENDS Orchestration

Alone    == [t \in {"t1"} |-> {}]
Chained  == [t \in {"t1", "t2"} |-> IF t = "t2" THEN {"t1"} ELSE {}]
Parallel == [t \in {"t1", "t2"} |-> {}]

SomePlans    == {Alone, Chained, Parallel}
AloneOnly    == {Alone}
=============================================================================
