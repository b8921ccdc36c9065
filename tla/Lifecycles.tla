----------------------------- MODULE Lifecycles -----------------------------
(***************************************************************************)
(* The status machines of the canonical entities, read from the _ALLOWED   *)
(* tables of the domain classes.  "ABSENT" stands for an identifier the    *)
(* store does not hold yet; no command leads out of it except creation,    *)
(* and none leads back to it.                                              *)
(***************************************************************************)

Absent == "ABSENT"

\* domain/goal.py: Goal._ALLOWED
GoalAllowed ==
  [ABSENT             |-> {},
   DRAFT              |-> {"ACTIVE", "CANCELLED"},
   ACTIVE             |-> {"SATISFIED", "CLOSED_UNSATISFIED", "CANCELLED"},
   SATISFIED          |-> {},
   CLOSED_UNSATISFIED |-> {},
   CANCELLED          |-> {}]

\* domain/task.py: Task._ALLOWED
TaskAllowed ==
  [ABSENT      |-> {},
   PROPOSED    |-> {"READY", "CANCELLED"},
   READY       |-> {"IN_PROGRESS", "CANCELLED"},
   IN_PROGRESS |-> {"COMPLETED", "READY", "BLOCKED", "FAILED", "CANCELLED"},
   BLOCKED     |-> {"READY", "FAILED", "CANCELLED"},
   COMPLETED   |-> {},
   FAILED      |-> {},
   CANCELLED   |-> {}]

\* domain/execution.py: Execution._ALLOWED
ExecutionAllowed ==
  [ABSENT    |-> {},
   CREATED   |-> {"RUNNING", "CANCELLED"},
   RUNNING   |-> {"WAITING", "SUCCEEDED", "FAILED", "CANCELLED"},
   WAITING   |-> {"RUNNING", "FAILED", "CANCELLED"},
   SUCCEEDED |-> {},
   FAILED    |-> {},
   CANCELLED |-> {}]

\* domain/task_attempt.py: TaskAttempt._ALLOWED
AttemptAllowed ==
  [ABSENT    |-> {},
   CREATED   |-> {"RUNNING", "CANCELLED"},
   RUNNING   |-> {"SUCCEEDED", "FAILED", "CANCELLED"},
   SUCCEEDED |-> {},
   FAILED    |-> {},
   CANCELLED |-> {}]

\* domain/agent.py: AgentRun.evolve
RunAllowed ==
  [ABSENT    |-> {},
   RUNNING   |-> {"RUNNING", "WAITING", "SUCCEEDED", "FAILED", "CANCELLED"},
   WAITING   |-> {"RUNNING", "FAILED", "CANCELLED"},
   SUCCEEDED |-> {},
   FAILED    |-> {},
   CANCELLED |-> {}]

\* terminal_statuses() of the attempt, execution and run classes.
Terminal == {"SUCCEEDED", "FAILED", "CANCELLED"}
=============================================================================
