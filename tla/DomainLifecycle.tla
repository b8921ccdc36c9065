--------------------------- MODULE DomainLifecycle ---------------------------
(***************************************************************************)
(* The canonical entities - Workspace, Goal, Task, Execution, TaskAttempt  *)
(* - as application/service.py (DomainService) changes them over           *)
(* adapters/in_memory.py (InMemoryDomainStore; the SQLite store inherits   *)
(* its checks).  A service command runs in one store transaction, so it is *)
(* one action; a command the code refuses changes nothing and is no step.  *)
(*                                                                         *)
(* A versioned command takes the version v its caller expects.  Here the   *)
(* caller may name any version; ConcurrentCallers restricts it to versions *)
(* callers really read.                                                    *)
(***************************************************************************)
EXTENDS Lifecycles, Naturals, FiniteSets

CONSTANTS
  Workspaces, Goals, Tasks, Executions, Attempts,  \* identifiers that may be issued
  Bounds,      \* the max_task_attempts values a caller may ask for
  MaxVersion,  \* bound of the model: no entity is saved beyond this version
  None         \* the absent reference

ASSUME DomainAssumption ==
  /\ Bounds \subseteq Nat \ {0}
  /\ MaxVersion \in Nat
  /\ None \notin Workspaces \cup Goals \cup Tasks \cup Executions \cup Attempts
  /\ IsFiniteSet(Attempts)

VARIABLES
  workspaces,  \* workspaces that exist
  goals,       \* Goal: status, version, workspace
  tasks,       \* Task: status, version, workspace, goal
  executions,  \* Execution: status, version, workspace, goal, bound, retry_of
  attempts     \* TaskAttempt: status, version, workspace, task, execution,
               \*              ordinal, previous

vars == <<workspaces, goals, tasks, executions, attempts>>

NoGoal == [status |-> Absent, version |-> 0, workspace |-> None]
NoTask == [status |-> Absent, version |-> 0, workspace |-> None, goal |-> None]
NoExecution == [status |-> Absent, version |-> 0, workspace |-> None,
                goal |-> None, bound |-> 0, retry_of |-> None]
NoAttempt == [status |-> Absent, version |-> 0, workspace |-> None, task |-> None,
              execution |-> None, ordinal |-> 0, previous |-> None]

Init ==
  /\ workspaces = {}
  /\ goals      = [g \in Goals      |-> NoGoal]
  /\ tasks      = [t \in Tasks      |-> NoTask]
  /\ executions = [e \in Executions |-> NoExecution]
  /\ attempts   = [a \in Attempts   |-> NoAttempt]

-----------------------------------------------------------------------------
(* What the store answers.                                                 *)

TasksForGoal(g)          == {t \in Tasks : tasks[t].goal = g}
AttemptsForTask(t)       == {a \in Attempts : attempts[a].task = t}
AttemptsForExecution(e)  == {a \in Attempts : attempts[a].execution = e}

\* An attempt or an execution that exists and has not ended.
Live(entity) == entity.status \notin Terminal \cup {Absent}

\* Mutant: "all completed" also holds for a goal without tasks.
AllTasksCompletedVacuously(g) == \A t \in TasksForGoal(g) : tasks[t].status = "COMPLETED"

AllTasksCompleted(g) ==
  /\ TasksForGoal(g) # {}
  /\ \A t \in TasksForGoal(g) : tasks[t].status = "COMPLETED"

\* Mutant: the expected version is not compared.
CanSaveBlindly(entity, allowed, target, expected) ==
  target \in allowed[entity.status] /\ entity.version < MaxVersion

\* _expect_version, the entity's transition table and the store's _save:
\* a save is legal from the version the caller expects, along the table.
CanSave(entity, allowed, target, expected) ==
  /\ entity.version = expected
  /\ target \in allowed[entity.status]
  /\ entity.version < MaxVersion

NextVersion(entity) == [entity EXCEPT !.version = @ + 1]
Saved(entity, target) == NextVersion([entity EXCEPT !.status = target])

-----------------------------------------------------------------------------
CreateWorkspace(w) ==
  /\ w \notin workspaces
  /\ workspaces' = workspaces \cup {w}
  /\ UNCHANGED <<goals, tasks, executions, attempts>>

CreateGoal(g, w) ==
  /\ goals[g].status = Absent
  /\ w \in workspaces
  /\ goals' = [goals EXCEPT ![g] = [status |-> "DRAFT", version |-> 1, workspace |-> w]]
  /\ UNCHANGED <<workspaces, tasks, executions, attempts>>

SaveGoal(g, target, v) ==
  /\ CanSave(goals[g], GoalAllowed, target, v)
  /\ goals' = [goals EXCEPT ![g] = Saved(@, target)]
  /\ UNCHANGED <<workspaces, tasks, executions, attempts>>

ActivateGoal(g, v)         == SaveGoal(g, "ACTIVE", v)
SatisfyGoal(g, v)          == AllTasksCompleted(g) /\ SaveGoal(g, "SATISFIED", v)
CloseGoalUnsatisfied(g, v) == SaveGoal(g, "CLOSED_UNSATISFIED", v)
CancelGoal(g, v)           == SaveGoal(g, "CANCELLED", v)

\* Tasks and executions are created only for an active goal of the workspace.
OpenGoal(g, w) == goals[g].status = "ACTIVE" /\ goals[g].workspace = w

CreateTask(t, w, g) ==
  /\ tasks[t].status = Absent
  /\ w \in workspaces
  /\ OpenGoal(g, w)
  /\ tasks' = [tasks EXCEPT ![t] =
                 [status |-> "PROPOSED", version |-> 1, workspace |-> w, goal |-> g]]
  /\ UNCHANGED <<workspaces, goals, executions, attempts>>

SaveTask(t, target, v) ==
  /\ CanSave(tasks[t], TaskAllowed, target, v)
  /\ tasks' = [tasks EXCEPT ![t] = Saved(@, target)]
  /\ UNCHANGED <<workspaces, goals, executions, attempts>>

ReadyTask(t, v)  == SaveTask(t, "READY", v)
StartTask(t, v)  == SaveTask(t, "IN_PROGRESS", v)
FailTask(t, v)   == SaveTask(t, "FAILED", v)
CancelTask(t, v) == SaveTask(t, "CANCELLED", v)

\* Mutant: any attempt of the task that ended completes it.
CompleteTaskByEnd(t, a, v) ==
  /\ attempts[a].status \in Terminal /\ attempts[a].task = t
  /\ attempts[a].workspace = tasks[t].workspace
  /\ SaveTask(t, "COMPLETED", v)

\* The caller names the attempt whose outcome it accepts.
CompleteTask(t, a, v) ==
  /\ attempts[a].status = "SUCCEEDED"
  /\ attempts[a].task = t
  /\ attempts[a].workspace = tasks[t].workspace
  /\ SaveTask(t, "COMPLETED", v)

MayRetry(r, w, g) ==
  /\ executions[r].workspace = w /\ executions[r].goal = g
  /\ executions[r].status \in Terminal

CreateExecution(e, w, g, bound, r) ==
  /\ executions[e].status = Absent
  /\ w \in workspaces
  /\ OpenGoal(g, w)
  /\ r # None => MayRetry(r, w, g)
  /\ executions' = [executions EXCEPT ![e] =
                      [status |-> "CREATED", version |-> 1, workspace |-> w,
                       goal |-> g, bound |-> bound, retry_of |-> r]]
  /\ UNCHANGED <<workspaces, goals, tasks, attempts>>

SaveExecution(e, target, v) ==
  /\ CanSave(executions[e], ExecutionAllowed, target, v)
  /\ executions' = [executions EXCEPT ![e] = Saved(@, target)]
  /\ UNCHANGED <<workspaces, goals, tasks, attempts>>

\* StartExecution and ResumeExecution share the target RUNNING; the table tells
\* them apart by the status they leave.
StartExecution(e, v)  == SaveExecution(e, "RUNNING", v)
WaitExecution(e, v)   == SaveExecution(e, "WAITING", v)
FailExecution(e, v)   == SaveExecution(e, "FAILED", v)
CancelExecution(e, v) == SaveExecution(e, "CANCELLED", v)

SucceedExecution(e, v) ==
  /\ AllTasksCompleted(executions[e].goal)
  /\ \A a \in AttemptsForExecution(e) : attempts[a].status \in Terminal
  /\ SaveExecution(e, "SUCCEEDED", v)

\* attempts_for_task sorts by ordinal: its last element is the latest attempt.
IsLatestAttempt(t, a) ==
  IF AttemptsForTask(t) = {} THEN a = None
  ELSE /\ a \in AttemptsForTask(t)
       /\ \A b \in AttemptsForTask(t) : attempts[b].ordinal <= attempts[a].ordinal

\* Mutant: an attempt that was not started yet does not count as live.
NoneRunning(t) == \A a \in AttemptsForTask(t) : attempts[a].status \in Terminal \cup {"CREATED"}

AllEnded(t) == \A a \in AttemptsForTask(t) : attempts[a].status \in Terminal

\* Mutant: off by one.
HasRoomForOneMore(e) == Cardinality(AttemptsForExecution(e)) <= executions[e].bound

HasRoom(e) == Cardinality(AttemptsForExecution(e)) < executions[e].bound

\* The service's checks, repeated by the store's _references.
CreateTaskAttempt(a, w, t, e) ==
  /\ attempts[a].status = Absent
  /\ w \in workspaces
  /\ tasks[t].workspace = w /\ executions[e].workspace = w
  /\ tasks[t].goal = executions[e].goal
  /\ tasks[t].status = "IN_PROGRESS"
  /\ executions[e].status = "RUNNING"
  /\ AllEnded(t)
  /\ HasRoom(e)
  /\ \E p \in Attempts \cup {None} :
       /\ IsLatestAttempt(t, p)
       /\ attempts' = [attempts EXCEPT ![a] =
                         [status |-> "CREATED", version |-> 1, workspace |-> w,
                          task |-> t, execution |-> e,
                          ordinal |-> Cardinality(AttemptsForTask(t)) + 1,
                          previous |-> p]]
  /\ UNCHANGED <<workspaces, goals, tasks, executions>>

SaveAttempt(a, target, v) ==
  /\ CanSave(attempts[a], AttemptAllowed, target, v)
  /\ attempts' = [attempts EXCEPT ![a] = Saved(@, target)]
  /\ UNCHANGED <<workspaces, goals, tasks, executions>>

StartTaskAttempt(a, v)   == SaveAttempt(a, "RUNNING", v)
SucceedTaskAttempt(a, v) == SaveAttempt(a, "SUCCEEDED", v)
FailTaskAttempt(a, v)    == SaveAttempt(a, "FAILED", v)
CancelTaskAttempt(a, v)  == SaveAttempt(a, "CANCELLED", v)

-----------------------------------------------------------------------------
Create ==
  \E w \in Workspaces :
    \/ CreateWorkspace(w)
    \/ \E g \in Goals : CreateGoal(g, w)
    \/ \E t \in Tasks, g \in Goals : CreateTask(t, w, g)
    \/ \E e \in Executions, g \in Goals, b \in Bounds, r \in Executions \cup {None} :
         CreateExecution(e, w, g, b, r)
    \/ \E a \in Attempts, t \in Tasks, e \in Executions : CreateTaskAttempt(a, w, t, e)

GoalCommand(g, v) ==
  \/ ActivateGoal(g, v)
  \/ SatisfyGoal(g, v)
  \/ CloseGoalUnsatisfied(g, v)
  \/ CancelGoal(g, v)

TaskCommand(t, v) ==
  \/ ReadyTask(t, v)
  \/ StartTask(t, v)
  \/ \E a \in Attempts : CompleteTask(t, a, v)
  \/ FailTask(t, v)
  \/ CancelTask(t, v)

ExecutionCommand(e, v) ==
  \/ StartExecution(e, v)
  \/ WaitExecution(e, v)
  \/ SucceedExecution(e, v)
  \/ FailExecution(e, v)
  \/ CancelExecution(e, v)

AttemptCommand(a, v) ==
  \/ StartTaskAttempt(a, v)
  \/ SucceedTaskAttempt(a, v)
  \/ FailTaskAttempt(a, v)
  \/ CancelTaskAttempt(a, v)

Versions == 0 .. MaxVersion

Next ==
  \/ Create
  \/ \E v \in Versions :
       \/ \E g \in Goals : GoalCommand(g, v)
       \/ \E t \in Tasks : TaskCommand(t, v)
       \/ \E e \in Executions : ExecutionCommand(e, v)
       \/ \E a \in Attempts : AttemptCommand(a, v)

Spec == Init /\ [][Next]_vars

-----------------------------------------------------------------------------
(* Properties.                                                             *)

GoalType == [status : DOMAIN GoalAllowed, version : Nat, workspace : Workspaces \cup {None}]
TaskType == [status : DOMAIN TaskAllowed, version : Nat, workspace : Workspaces \cup {None},
             goal : Goals \cup {None}]
ExecutionType == [status : DOMAIN ExecutionAllowed, version : Nat,
                  workspace : Workspaces \cup {None}, goal : Goals \cup {None},
                  bound : Nat, retry_of : Executions \cup {None}]
AttemptType == [status : DOMAIN AttemptAllowed, version : Nat,
                workspace : Workspaces \cup {None}, task : Tasks \cup {None},
                execution : Executions \cup {None}, ordinal : Nat,
                previous : Attempts \cup {None}]

\* Every stored entity is a record of its class with a status of its table.
TypeOK ==
  /\ workspaces \in SUBSET Workspaces
  /\ goals      \in [Goals -> GoalType]
  /\ tasks      \in [Tasks -> TaskType]
  /\ executions \in [Executions -> ExecutionType]
  /\ attempts   \in [Attempts -> AttemptType]

\* A satisfied goal has work, all of it completed, for as long as it exists:
\* satisfy_goal checks once, and no later command may add or reopen a task.
SatisfiedGoalIsDone ==
  \A g \in Goals : goals[g].status = "SATISFIED" => AllTasksCompleted(g)

\* A completed task always rests on a succeeded attempt of its own
\* (complete_task), and every attempt of a succeeded execution has ended,
\* however the entities change afterwards (succeed_execution,
\* create_task_attempt).
OutcomesHaveEvidence ==
  /\ \A t \in Tasks : tasks[t].status = "COMPLETED" =>
       \E a \in AttemptsForTask(t) : attempts[a].status = "SUCCEEDED"
  /\ \A e \in Executions : executions[e].status = "SUCCEEDED" =>
       \A a \in AttemptsForExecution(e) : attempts[a].status \in Terminal

\* Retries of a task form one chain: ordinals 1..n, each attempt linked to the
\* one before it, and only the last may still be live (create_task_attempt, the
\* store's attempt_lineage check).
AttemptLineage ==
  \A t \in Tasks :
    /\ {attempts[a].ordinal : a \in AttemptsForTask(t)} = 1 .. Cardinality(AttemptsForTask(t))
    /\ \A a \in AttemptsForTask(t) :
         /\ Live(attempts[a]) => IsLatestAttempt(t, a)
         /\ IF attempts[a].ordinal = 1 THEN attempts[a].previous = None
            ELSE /\ attempts[a].previous \in AttemptsForTask(t)
                 /\ attempts[attempts[a].previous].ordinal = attempts[a].ordinal - 1

\* An execution never owns more attempts than max_task_attempts, and an
\* attempt is made only by an execution of the goal of its task.
ExecutionBounds ==
  /\ \A e \in Executions : Cardinality(AttemptsForExecution(e)) <= executions[e].bound
  /\ \A a \in Attempts : attempts[a].status # Absent =>
       /\ tasks[attempts[a].task].goal = executions[attempts[a].execution].goal
       /\ tasks[attempts[a].task].workspace = attempts[a].workspace
       /\ executions[attempts[a].execution].workspace = attempts[a].workspace

\* An execution is retried only after it ended, inside its own goal, so a
\* retry chain never has two running members (create_execution).
RetryAfterTerminal ==
  \A e \in Executions : executions[e].retry_of # None =>
    LET r == executions[e].retry_of IN
      /\ executions[r].status \in Terminal
      /\ executions[r].goal = executions[e].goal
      /\ executions[r].retry_of # e
=============================================================================
