-------------------------- MODULE DomainRefinement --------------------------
(***************************************************************************)
(* DomainLifecycle implements GoalPromise: executions, attempts, versions, *)
(* retries and blocked or ready tasks are invisible to the promise.        *)
(***************************************************************************)
EXTENDS DomainLifecycle

outcomeBar == [g \in Goals |->
  CASE goals[g].status \in {Absent, "DRAFT"} -> "draft"
    [] goals[g].status = "ACTIVE"            -> "open"
    [] goals[g].status = "SATISFIED"         -> "delivered"
    [] OTHER                                 -> "closed"]

workBar == [g \in Goals |-> TasksForGoal(g)]

fateBar == [t \in Tasks |->
  CASE tasks[t].status = "COMPLETED"              -> "done"
    [] tasks[t].status \in {"FAILED", "CANCELLED"} -> "dropped"
    [] OTHER                                       -> "todo"]

evidenceBar == {t \in Tasks :
  \E a \in AttemptsForTask(t) : attempts[a].status = "SUCCEEDED"}

Promise == INSTANCE GoalPromise
  WITH outcome <- outcomeBar, work <- workBar, fate <- fateBar, evidence <- evidenceBar

\* The service keeps the promise of a goal: every command is one step of
\* GoalPromise or invisible to it (satisfy_goal, complete_task, create_task).
ImplementsPromise == Promise!Spec
=============================================================================
