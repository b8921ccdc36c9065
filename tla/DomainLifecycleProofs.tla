------------------------ MODULE DomainLifecycleProofs ------------------------
(***************************************************************************)
(* Theorems about DomainLifecycle for every set of identifiers, and that   *)
(* it implements GoalPromise.                                              *)
(*                                                                         *)
(* Every command saves one entity along its table.  The lemmas reduce Next *)
(* to the five creations and the four saves; each theorem then looks at    *)
(* the saves that touch the entities it is about.                          *)
(*                                                                         *)
(* The last part is about its concurrent callers: no update is lost, since *)
(* a version never comes back, so a snapshot whose version is still the    *)
(* entity's has seen its status.                                           *)
(***************************************************************************)
EXTENDS DomainRefinement, ConcurrentCallers, FiniteSetTheorems, TLAPS

\* Guards of the creating commands that have names of their own.
USE DEF OpenGoal, MayRetry, AllEnded, HasRoom


\* The saves of the commands, with the check each command adds to its save.
GoalSave ==
  \E g \in Goals, s \in DOMAIN GoalAllowed, v \in Versions :
    SaveGoal(g, s, v) /\ (s = "SATISFIED" => AllTasksCompleted(g))

TaskSave ==
  \E t \in Tasks, s \in DOMAIN TaskAllowed, v \in Versions :
    /\ SaveTask(t, s, v)
    /\ s = "COMPLETED" =>
         \E a \in Attempts : attempts[a].status = "SUCCEEDED" /\ attempts[a].task = t

ExecutionSave ==
  \E e \in Executions, s \in DOMAIN ExecutionAllowed, v \in Versions :
    /\ SaveExecution(e, s, v)
    /\ s = "SUCCEEDED" => \A a \in AttemptsForExecution(e) : attempts[a].status \in Terminal

AttemptSave ==
  \E a \in Attempts, s \in DOMAIN AttemptAllowed, v \in Versions : SaveAttempt(a, s, v)

\* Every command is one of the four saves (the commands of DomainService).
LEMMA CommandsSave ==
  Next => Create \/ GoalSave \/ TaskSave \/ ExecutionSave \/ AttemptSave
<1> SUFFICES ASSUME Next, ~Create
             PROVE  GoalSave \/ TaskSave \/ ExecutionSave \/ AttemptSave
  OBVIOUS
<1>1. PICK v \in Versions :
        \/ \E g \in Goals : GoalCommand(g, v)
        \/ \E t \in Tasks : TaskCommand(t, v)
        \/ \E e \in Executions : ExecutionCommand(e, v)
        \/ \E a \in Attempts : AttemptCommand(a, v)
  BY DEF Next
<1>2. ASSUME NEW g \in Goals, GoalCommand(g, v) PROVE GoalSave
  <2>1. {"ACTIVE", "SATISFIED", "CLOSED_UNSATISFIED", "CANCELLED"} \subseteq DOMAIN GoalAllowed
    BY DEF GoalAllowed
  <2> QED
    BY <1>2, <2>1
    DEF GoalSave, GoalCommand, ActivateGoal, SatisfyGoal, CloseGoalUnsatisfied, CancelGoal
<1>3. ASSUME NEW t \in Tasks, TaskCommand(t, v) PROVE TaskSave
  <2>1. {"READY", "IN_PROGRESS", "COMPLETED", "FAILED", "CANCELLED"} \subseteq DOMAIN TaskAllowed
    BY DEF TaskAllowed
  <2> QED
    BY <1>3, <2>1
    DEF TaskSave, TaskCommand, ReadyTask, StartTask, CompleteTask, FailTask, CancelTask
<1>4. ASSUME NEW e \in Executions, ExecutionCommand(e, v) PROVE ExecutionSave
  <2>1. {"RUNNING", "WAITING", "SUCCEEDED", "FAILED", "CANCELLED"} \subseteq DOMAIN ExecutionAllowed
    BY DEF ExecutionAllowed
  <2> QED
    BY <1>4, <2>1
    DEF ExecutionSave, ExecutionCommand, StartExecution, WaitExecution, SucceedExecution,
        FailExecution, CancelExecution
<1>5. ASSUME NEW a \in Attempts, AttemptCommand(a, v) PROVE AttemptSave
  <2>1. {"RUNNING", "SUCCEEDED", "FAILED", "CANCELLED"} \subseteq DOMAIN AttemptAllowed
    BY DEF AttemptAllowed
  <2> QED
    BY <1>5, <2>1
    DEF AttemptSave, AttemptCommand, StartTaskAttempt, SucceedTaskAttempt, FailTaskAttempt,
        CancelTaskAttempt
<1> QED
  BY <1>1, <1>2, <1>3, <1>4, <1>5

\* Goals, tasks, executions and attempts change only by their own creation and
\* their own save: no command touches two kinds of entities.
LEMMA OneKindAtATime ==
  ASSUME [Next]_vars
  PROVE  /\ GoalSave \/ goals' = goals
              \/ \E w \in Workspaces, g \in Goals : CreateGoal(g, w)
         /\ TaskSave \/ tasks' = tasks
              \/ \E w \in Workspaces, t \in Tasks, g \in Goals : CreateTask(t, w, g)
         /\ ExecutionSave \/ executions' = executions
              \/ \E w \in Workspaces, e \in Executions, g \in Goals, b \in Bounds,
                    r \in Executions \cup {None} : CreateExecution(e, w, g, b, r)
         /\ AttemptSave \/ attempts' = attempts
              \/ \E w \in Workspaces, a \in Attempts, t \in Tasks, e \in Executions :
                   CreateTaskAttempt(a, w, t, e)
BY CommandsSave DEF
   Create, CreateWorkspace, CreateGoal, CreateTask, CreateExecution, CreateTaskAttempt,
   GoalSave, SaveGoal, TaskSave, SaveTask, ExecutionSave, SaveExecution,
   AttemptSave, SaveAttempt, vars

\* What the tables allow: no save starts from or leads to an absent entity, and
\* none leaves a final status (Goal, Task, Execution, TaskAttempt _ALLOWED).
LEMMA TablesAreFinal ==
  /\ \A s \in DOMAIN GoalAllowed :
       GoalAllowed[s] \subseteq DOMAIN GoalAllowed \ {Absent, "DRAFT"}
  /\ \A s \in DOMAIN TaskAllowed : TaskAllowed[s] \subseteq DOMAIN TaskAllowed \ {Absent}
  /\ \A s \in DOMAIN ExecutionAllowed :
       ExecutionAllowed[s] \subseteq DOMAIN ExecutionAllowed \ {Absent, "CREATED"}
  /\ \A s \in DOMAIN AttemptAllowed :
       AttemptAllowed[s] \subseteq DOMAIN AttemptAllowed \ {Absent, "CREATED"}
  /\ GoalAllowed[Absent] = {} /\ GoalAllowed["SATISFIED"] = {}
  /\ TaskAllowed[Absent] = {} /\ TaskAllowed["COMPLETED"] = {}
  /\ \A s \in Terminal \cup {Absent} : ExecutionAllowed[s] = {} /\ AttemptAllowed[s] = {}
BY DEF GoalAllowed, TaskAllowed, ExecutionAllowed, AttemptAllowed, Absent, Terminal

\* A save changes the status and the version of an entity and nothing else
\* (the evolve and replace calls of the entity classes).
LEMMA SavedGoal ==
  ASSUME NEW x \in GoalType, NEW s \in DOMAIN GoalAllowed
  PROVE  /\ Saved(x, s) \in GoalType
         /\ Saved(x, s).status = s
         /\ Saved(x, s).workspace = x.workspace
<1>1. PICK y : y = [x EXCEPT !.status = s]
  OBVIOUS
<1>2. y \in GoalType /\ y.status = s /\ y.workspace = x.workspace
  BY <1>1 DEF GoalType
<1>3. NextVersion(y) \in GoalType /\ NextVersion(y).status = y.status
      /\ NextVersion(y).workspace = y.workspace
  BY <1>2 DEF GoalType, NextVersion
<1> QED
  BY <1>1, <1>2, <1>3 DEF Saved

LEMMA SavedTask ==
  ASSUME NEW x \in TaskType, NEW s \in DOMAIN TaskAllowed
  PROVE  /\ Saved(x, s) \in TaskType
         /\ Saved(x, s).status = s
         /\ Saved(x, s).workspace = x.workspace
         /\ Saved(x, s).goal = x.goal
<1>1. PICK y : y = [x EXCEPT !.status = s]
  OBVIOUS
<1>2. y \in TaskType /\ y.status = s /\ y.workspace = x.workspace /\ y.goal = x.goal
  BY <1>1 DEF TaskType
<1>3. NextVersion(y) \in TaskType /\ NextVersion(y).status = y.status
      /\ NextVersion(y).workspace = y.workspace /\ NextVersion(y).goal = y.goal
  BY <1>2 DEF TaskType, NextVersion
<1> QED
  BY <1>1, <1>2, <1>3 DEF Saved

LEMMA SavedExecution ==
  ASSUME NEW x \in ExecutionType, NEW s \in DOMAIN ExecutionAllowed
  PROVE  /\ Saved(x, s) \in ExecutionType
         /\ Saved(x, s).status = s
         /\ Saved(x, s).workspace = x.workspace
         /\ Saved(x, s).goal = x.goal
         /\ Saved(x, s).bound = x.bound
         /\ Saved(x, s).retry_of = x.retry_of
<1>1. PICK y : y = [x EXCEPT !.status = s]
  OBVIOUS
<1>2. y \in ExecutionType /\ y.status = s /\ y.workspace = x.workspace /\ y.goal = x.goal /\ y.bound = x.bound /\ y.retry_of = x.retry_of
  BY <1>1 DEF ExecutionType
<1>3. NextVersion(y) \in ExecutionType /\ NextVersion(y).status = y.status
      /\ NextVersion(y).workspace = y.workspace /\ NextVersion(y).goal = y.goal /\ NextVersion(y).bound = y.bound /\ NextVersion(y).retry_of = y.retry_of
  BY <1>2 DEF ExecutionType, NextVersion
<1> QED
  BY <1>1, <1>2, <1>3 DEF Saved

LEMMA SavedAttempt ==
  ASSUME NEW x \in AttemptType, NEW s \in DOMAIN AttemptAllowed
  PROVE  /\ Saved(x, s) \in AttemptType
         /\ Saved(x, s).status = s
         /\ Saved(x, s).workspace = x.workspace
         /\ Saved(x, s).task = x.task
         /\ Saved(x, s).execution = x.execution
         /\ Saved(x, s).ordinal = x.ordinal
         /\ Saved(x, s).previous = x.previous
<1>1. PICK y : y = [x EXCEPT !.status = s]
  OBVIOUS
<1>2. y \in AttemptType /\ y.status = s /\ y.workspace = x.workspace /\ y.task = x.task /\ y.execution = x.execution /\ y.ordinal = x.ordinal /\ y.previous = x.previous
  BY <1>1 DEF AttemptType
<1>3. NextVersion(y) \in AttemptType /\ NextVersion(y).status = y.status
      /\ NextVersion(y).workspace = y.workspace /\ NextVersion(y).task = y.task /\ NextVersion(y).execution = y.execution /\ NextVersion(y).ordinal = y.ordinal /\ NextVersion(y).previous = y.previous
  BY <1>2 DEF AttemptType, NextVersion
<1> QED
  BY <1>1, <1>2, <1>3 DEF Saved

-----------------------------------------------------------------------------
(* Type correctness.                                                       *)

\* What is absent is well-formed as well.
LEMMA TypeInitially == Init => TypeOK
BY DEF Init, TypeOK, GoalType, TaskType, ExecutionType, AttemptType, NoGoal, NoTask, NoExecution,
       NoAttempt, Absent, GoalAllowed, TaskAllowed, ExecutionAllowed, AttemptAllowed

\* Each kind of save keeps the entities well-formed.
LEMMA TypeKept ==
  ASSUME TypeOK, [Next]_vars
  PROVE  TypeOK'
<1> USE DEF TypeOK
<1>1. ASSUME NEW w \in Workspaces, CreateWorkspace(w) PROVE TypeOK'
  BY <1>1 DEF CreateWorkspace
<1>2. ASSUME NEW w \in Workspaces, NEW g \in Goals, CreateGoal(g, w) PROVE TypeOK'
  <2>1. "DRAFT" \in DOMAIN GoalAllowed
    BY DEF GoalAllowed
  <2> QED
    BY <1>2, <2>1 DEF CreateGoal, GoalType
<1>3. ASSUME NEW w \in Workspaces, NEW t \in Tasks, NEW g \in Goals, CreateTask(t, w, g)
      PROVE  TypeOK'
  <2>1. "PROPOSED" \in DOMAIN TaskAllowed
    BY DEF TaskAllowed
  <2> QED
    BY <1>3, <2>1 DEF CreateTask, TaskType
<1>4. ASSUME NEW w \in Workspaces, NEW e \in Executions, NEW g \in Goals,
             NEW b \in Bounds, NEW r \in Executions \cup {None},
             CreateExecution(e, w, g, b, r)
      PROVE  TypeOK'
  <2>1. "CREATED" \in DOMAIN ExecutionAllowed /\ b \in Nat
    BY DomainAssumption DEF ExecutionAllowed
  <2> QED
    BY <1>4, <2>1 DEF CreateExecution, ExecutionType
<1>5. ASSUME NEW w \in Workspaces, NEW a \in Attempts, NEW t \in Tasks, NEW e \in Executions,
             CreateTaskAttempt(a, w, t, e)
      PROVE  TypeOK'
  <2>1. "CREATED" \in DOMAIN AttemptAllowed
    BY DEF AttemptAllowed
  <2>2. Cardinality(AttemptsForTask(t)) + 1 \in Nat
    <3>1. IsFiniteSet(AttemptsForTask(t))
      BY DomainAssumption, FS_Subset DEF AttemptsForTask
    <3> QED
      BY <3>1, FS_CardinalityType
  <2> QED
    BY <1>5, <2>1, <2>2 DEF CreateTaskAttempt, AttemptType
<1>6. CASE GoalSave
  <2>1. PICK g \in Goals, s \in DOMAIN GoalAllowed, v \in Versions : SaveGoal(g, s, v)
    BY <1>6 DEF GoalSave
  <2> QED
    BY <2>1, SavedGoal DEF SaveGoal
<1>7. CASE TaskSave
  <2>1. PICK t \in Tasks, s \in DOMAIN TaskAllowed, v \in Versions : SaveTask(t, s, v)
    BY <1>7 DEF TaskSave
  <2> QED
    BY <2>1, SavedTask DEF SaveTask
<1>8. CASE ExecutionSave
  <2>1. PICK e \in Executions, s \in DOMAIN ExecutionAllowed, v \in Versions : SaveExecution(e, s, v)
    BY <1>8 DEF ExecutionSave
  <2> QED
    BY <2>1, SavedExecution DEF SaveExecution
<1>9. CASE AttemptSave
  <2>1. PICK a \in Attempts, s \in DOMAIN AttemptAllowed, v \in Versions : SaveAttempt(a, s, v)
    BY <1>9 DEF AttemptSave
  <2> QED
    BY <2>1, SavedAttempt DEF SaveAttempt
<1>10. CASE UNCHANGED vars
  BY <1>10 DEF vars
<1> QED
  BY <1>1, <1>2, <1>3, <1>4, <1>5, <1>6, <1>7, <1>8, <1>9, <1>10, CommandsSave DEF Create

\* The store only ever holds well-formed entities of the issued identifiers
\* (the entity classes' __post_init__ and the store's _add and _save).
THEOREM TypeCorrect == Spec => []TypeOK
<1>1. Init => TypeOK
  BY TypeInitially
<1>2. TypeOK /\ [Next]_vars => TypeOK'
  BY TypeKept
<1> QED
  BY <1>1, <1>2, PTL DEF Spec

-----------------------------------------------------------------------------
(* What is settled stays settled.                                          *)

\* Entities are never removed, never change the parents they were created
\* under, and never leave a final status (the store's _save and the tables).
LEMMA EntitiesPersist ==
  ASSUME TypeOK, [Next]_vars
  PROVE  /\ \A t \in Tasks : tasks[t].status # Absent =>
              /\ tasks'[t].status # Absent
              /\ tasks'[t].goal = tasks[t].goal /\ tasks'[t].workspace = tasks[t].workspace
              /\ tasks[t].status = "COMPLETED" => tasks'[t].status = "COMPLETED"
         /\ \A e \in Executions : executions[e].status # Absent =>
              /\ executions'[e].status # Absent
              /\ executions'[e].goal = executions[e].goal
              /\ executions'[e].workspace = executions[e].workspace
              /\ executions'[e].bound = executions[e].bound
              /\ executions'[e].retry_of = executions[e].retry_of
              /\ executions[e].status \in Terminal =>
                   executions'[e].status = executions[e].status
         /\ \A a \in Attempts : attempts[a].status # Absent =>
              /\ attempts'[a].status # Absent
              /\ attempts'[a].task = attempts[a].task
              /\ attempts'[a].execution = attempts[a].execution
              /\ attempts'[a].workspace = attempts[a].workspace
              /\ attempts[a].status \in Terminal => attempts'[a].status = attempts[a].status
<1> USE DEF TypeOK
<1>1. CASE Create
  BY <1>1 DEF Create, CreateWorkspace, CreateGoal, CreateTask, CreateExecution,
              CreateTaskAttempt
<1>2. CASE GoalSave
  BY <1>2 DEF GoalSave, SaveGoal
<1>3. CASE TaskSave
  <2>1. PICK t \in Tasks, s \in DOMAIN TaskAllowed, v \in Versions : SaveTask(t, s, v)
    BY <1>3 DEF TaskSave
  <2>2. tasks[t].status \in DOMAIN TaskAllowed /\ s \in TaskAllowed[tasks[t].status]
    BY <2>1 DEF SaveTask, CanSave, TaskType
  <2>3. s # Absent /\ tasks[t].status # "COMPLETED"
    BY <2>2, TablesAreFinal
  <2> QED
    BY <2>1, <2>3, SavedTask DEF SaveTask
<1>4. CASE ExecutionSave
  <2>1. PICK e \in Executions, s \in DOMAIN ExecutionAllowed, v \in Versions :
          SaveExecution(e, s, v)
    BY <1>4 DEF ExecutionSave
  <2>2. executions[e].status \in DOMAIN ExecutionAllowed
        /\ s \in ExecutionAllowed[executions[e].status]
    BY <2>1 DEF SaveExecution, CanSave, ExecutionType
  <2>3. s # Absent /\ executions[e].status \notin Terminal
    BY <2>2, TablesAreFinal
  <2> QED
    BY <2>1, <2>3, SavedExecution DEF SaveExecution
<1>5. CASE AttemptSave
  <2>1. PICK a \in Attempts, s \in DOMAIN AttemptAllowed, v \in Versions : SaveAttempt(a, s, v)
    BY <1>5 DEF AttemptSave
  <2>2. attempts[a].status \in DOMAIN AttemptAllowed
        /\ s \in AttemptAllowed[attempts[a].status]
    BY <2>1 DEF SaveAttempt, CanSave, AttemptType
  <2>3. s # Absent /\ attempts[a].status \notin Terminal
    BY <2>2, TablesAreFinal
  <2> QED
    BY <2>1, <2>3, SavedAttempt DEF SaveAttempt
<1>6. CASE UNCHANGED vars
  BY <1>6 DEF vars
<1> QED
  BY <1>1, <1>2, <1>3, <1>4, <1>5, <1>6, CommandsSave

-----------------------------------------------------------------------------
(* A satisfied goal.                                                       *)

\* No command adds a task to a satisfied goal or reopens one of its tasks.
LEMMA SatisfiedStep ==
  ASSUME TypeOK, SatisfiedGoalIsDone, [Next]_vars
  PROVE  SatisfiedGoalIsDone'
<1> SUFFICES ASSUME NEW g \in Goals, goals'[g].status = "SATISFIED"
             PROVE  AllTasksCompleted(g)'
  BY DEF SatisfiedGoalIsDone
<1> USE DEF TypeOK, AllTasksCompleted, TasksForGoal
<1>1. ASSUME goals[g].status = "SATISFIED",
             NEW w \in Workspaces, NEW t \in Tasks, NEW h \in Goals, CreateTask(t, w, h)
      PROVE  AllTasksCompleted(g)'
  <2>1. AllTasksCompleted(g)
    BY <1>1 DEF SatisfiedGoalIsDone
  <2>2. h # g /\ tasks[t].status # "COMPLETED"
    BY <1>1 DEF CreateTask, Absent
  <2>3. TasksForGoal(g)' = TasksForGoal(g)
    BY <1>1, <2>1, <2>2 DEF CreateTask
  <2> QED
    BY <1>1, <2>1, <2>2, <2>3 DEF CreateTask
<1>2. ASSUME goals[g].status = "SATISFIED", TaskSave
      PROVE  AllTasksCompleted(g)'
  <2>1. PICK t \in Tasks, s \in DOMAIN TaskAllowed, v \in Versions : SaveTask(t, s, v)
    BY <1>2 DEF TaskSave
  <2>2. tasks' = [tasks EXCEPT ![t] = Saved(@, s)] /\ Saved(tasks[t], s).goal = tasks[t].goal
    BY <2>1, SavedTask DEF SaveTask
  <2>3. TasksForGoal(g)' = TasksForGoal(g)
    BY <2>2
  <2>4. AllTasksCompleted(g)
    BY <1>2 DEF SatisfiedGoalIsDone
  <2>5. \A u \in TasksForGoal(g) : tasks'[u].status = "COMPLETED"
    BY <2>4, EntitiesPersist DEF Absent
  <2> QED
    BY <2>3, <2>4, <2>5
<1>3. ASSUME GoalSave PROVE AllTasksCompleted(g)'
  <2>1. PICK h \in Goals, s \in DOMAIN GoalAllowed, v \in Versions :
          SaveGoal(h, s, v) /\ (s = "SATISFIED" => AllTasksCompleted(h))
    BY <1>3 DEF GoalSave
  <2>2. goals' = [goals EXCEPT ![h] = Saved(@, s)] /\ Saved(goals[h], s).status = s
        /\ tasks' = tasks
    BY <2>1, SavedGoal DEF SaveGoal
  <2>3. AllTasksCompleted(g)
    BY <2>1, <2>2 DEF SatisfiedGoalIsDone
  <2> QED
    BY <2>2, <2>3
<1>4. ASSUME tasks' = tasks, goals[g].status = "SATISFIED" PROVE AllTasksCompleted(g)'
  BY <1>4 DEF SatisfiedGoalIsDone
<1>5. ASSUME ~GoalSave, [Next]_vars PROVE goals[g].status = "SATISFIED"
  BY <1>5, OneKindAtATime DEF CreateGoal
<1>6. ASSUME ~TaskSave,
             ~\E w \in Workspaces, t \in Tasks, h \in Goals : CreateTask(t, w, h)
      PROVE  tasks' = tasks
  BY <1>6, OneKindAtATime
<1> QED
  BY <1>1, <1>2, <1>3, <1>4, <1>5, <1>6

\* A satisfied goal has tasks and all of them are completed, in every state of
\* every history of commands (satisfy_goal).
THEOREM SatisfiedGoalsAreDone == Spec => []SatisfiedGoalIsDone
<1>1. Init => SatisfiedGoalIsDone
  BY DEF Init, SatisfiedGoalIsDone, NoGoal, Absent
<1>2. TypeOK /\ SatisfiedGoalIsDone /\ [Next]_vars => SatisfiedGoalIsDone'
  BY SatisfiedStep
<1> QED
  BY <1>1, <1>2, TypeCorrect, PTL DEF Spec

-----------------------------------------------------------------------------
(* Retries of executions.                                                  *)

\* An execution names as its predecessor only one that had ended, in the same
\* goal, and never one that names it back (create_execution).
THEOREM RetriesFollowTheEnd == Spec => []RetryAfterTerminal
<1>1. Init => RetryAfterTerminal
  BY DEF Init, RetryAfterTerminal, NoExecution
<1>2. TypeOK /\ RetryAfterTerminal /\ [Next]_vars => RetryAfterTerminal'
  <2> SUFFICES ASSUME TypeOK, RetryAfterTerminal, [Next]_vars,
                      NEW e \in Executions, executions'[e].retry_of # None
               PROVE  LET r == executions'[e].retry_of IN
                        /\ executions'[r].status \in Terminal
                        /\ executions'[r].goal = executions'[e].goal
                        /\ executions'[r].retry_of # e
    BY DEF RetryAfterTerminal
  <2>1. \A x \in Executions : executions[x].status \in DOMAIN ExecutionAllowed
                              /\ executions[x].retry_of \in Executions \cup {None}
    BY DEF TypeOK, ExecutionType
  <2>2. Absent \notin Terminal
    BY DEF Absent, Terminal
  <2>3. ASSUME NEW x \in Executions, NEW w \in Workspaces, NEW g \in Goals,
               NEW b \in Bounds, NEW r \in Executions \cup {None},
               CreateExecution(x, w, g, b, r)
        PROVE  LET q == executions'[e].retry_of IN
                 /\ executions'[q].status \in Terminal
                 /\ executions'[q].goal = executions'[e].goal
                 /\ executions'[q].retry_of # e
    <3>1. CASE e = x
      <4>1. executions'[e].retry_of = r /\ r \in Executions /\ r # e
            /\ executions'[e].goal = g
        BY <2>2, <2>3, <3>1 DEF CreateExecution, TypeOK
      <4>2. executions'[r] = executions[r] /\ executions[r].status \in Terminal
            /\ executions[r].goal = g
        BY <2>3, <3>1, <4>1 DEF CreateExecution, TypeOK
      <4>3. executions[r].retry_of # e
        BY <2>2, <2>3, <3>1, <4>1, DomainAssumption DEF CreateExecution, RetryAfterTerminal
      <4> QED
        BY <4>1, <4>2, <4>3
    <3>2. CASE e # x
      <4>1. executions'[e] = executions[e]
        BY <2>3, <3>2 DEF CreateExecution, TypeOK
      <4>2. executions[e].retry_of \in Executions /\ executions[e].retry_of # x
            /\ executions[executions[e].retry_of].status \in Terminal
        BY <2>1, <2>2, <2>3, <4>1 DEF RetryAfterTerminal, CreateExecution
      <4>3. executions'[executions[e].retry_of] = executions[executions[e].retry_of]
        BY <2>3, <4>2 DEF CreateExecution, TypeOK
      <4> QED
        BY <4>1, <4>3 DEF RetryAfterTerminal
    <3> QED
      BY <3>1, <3>2
  <2>4. ASSUME ExecutionSave
        PROVE  \A x \in Executions : /\ executions'[x].retry_of = executions[x].retry_of
                                     /\ executions'[x].goal = executions[x].goal
    BY <2>4, SavedExecution DEF ExecutionSave, SaveExecution, TypeOK
  <2>5. CASE ExecutionSave
    <3>1. executions[e].retry_of \in Executions
          /\ executions[executions[e].retry_of].status \in Terminal
      BY <2>1, <2>4, <2>5 DEF RetryAfterTerminal
    <3>2. executions'[executions[e].retry_of].status \in Terminal
      BY <2>2, <3>1, EntitiesPersist
    <3> QED
      BY <2>4, <2>5, <3>1, <3>2 DEF RetryAfterTerminal
  <2>6. CASE executions' = executions
    BY <2>6 DEF RetryAfterTerminal
  <2> QED
    BY <2>3, <2>5, <2>6, OneKindAtATime
<1> QED
  BY <1>1, <1>2, TypeCorrect, PTL DEF Spec

-----------------------------------------------------------------------------
(* Evidence.                                                               *)

\* A completed task keeps the succeeded attempt it was completed with, and a
\* succeeded execution never gains a live attempt (complete_task,
\* succeed_execution, create_task_attempt).
THEOREM OutcomesKeepEvidence == Spec => []OutcomesHaveEvidence
<1>1. Init => OutcomesHaveEvidence
  BY DEF Init, OutcomesHaveEvidence, NoTask, NoExecution, Absent
<1>2. TypeOK /\ OutcomesHaveEvidence /\ [Next]_vars => OutcomesHaveEvidence'
  <2> SUFFICES ASSUME TypeOK, OutcomesHaveEvidence, [Next]_vars
               PROVE  OutcomesHaveEvidence'
    OBVIOUS
  <2> USE DEF TypeOK, AttemptsForTask, AttemptsForExecution
  <2>1. ASSUME NEW a \in Attempts, attempts[a].status \in Terminal
        PROVE  /\ attempts'[a].status = attempts[a].status
               /\ attempts'[a].task = attempts[a].task
    BY <2>1, EntitiesPersist DEF Absent, Terminal
  <2>2. ASSUME NEW t \in Tasks, tasks'[t].status = "COMPLETED"
        PROVE  \E a \in AttemptsForTask(t)' : attempts'[a].status = "SUCCEEDED"
    <3>1. CASE tasks[t].status = "COMPLETED"
      <4>1. PICK a \in AttemptsForTask(t) : attempts[a].status = "SUCCEEDED"
        BY <3>1 DEF OutcomesHaveEvidence
      <4> QED
        BY <2>1, <4>1 DEF Terminal
    <3>2. CASE tasks[t].status # "COMPLETED"
      <4>1. TaskSave
        BY <2>2, <3>2, OneKindAtATime DEF CreateTask
      <4>2. PICK u \in Tasks, s \in DOMAIN TaskAllowed, v \in Versions :
              /\ SaveTask(u, s, v)
              /\ s = "COMPLETED" =>
                   \E a \in Attempts : attempts[a].status = "SUCCEEDED" /\ attempts[a].task = u
        BY <4>1 DEF TaskSave
      <4>3. tasks' = [tasks EXCEPT ![u] = Saved(@, s)] /\ Saved(tasks[u], s).status = s
        BY <4>2, SavedTask DEF SaveTask
      <4>4. PICK a \in Attempts : attempts[a].status = "SUCCEEDED" /\ attempts[a].task = t
        BY <2>2, <3>2, <4>2, <4>3
      <4> QED
        BY <2>1, <4>4 DEF Terminal
    <3> QED
      BY <3>1, <3>2
  <2>3. ASSUME NEW e \in Executions, executions'[e].status = "SUCCEEDED",
               NEW a \in AttemptsForExecution(e)'
        PROVE  attempts'[a].status \in Terminal
    <3>1. CASE ExecutionSave
      <4>1. PICK x \in Executions, s \in DOMAIN ExecutionAllowed, v \in Versions :
              /\ SaveExecution(x, s, v)
              /\ s = "SUCCEEDED" =>
                   \A b \in AttemptsForExecution(x) : attempts[b].status \in Terminal
        BY <3>1 DEF ExecutionSave
      <4>2. executions' = [executions EXCEPT ![x] = Saved(@, s)] /\ attempts' = attempts
            /\ Saved(executions[x], s).status = s
        BY <4>1, SavedExecution DEF SaveExecution
      <4> QED
        BY <2>3, <4>1, <4>2 DEF OutcomesHaveEvidence
    <3>2. CASE ~ExecutionSave
      <4>1. executions[e].status = "SUCCEEDED"
        BY <2>3, <3>2, OneKindAtATime DEF CreateExecution
      <4>2. a \in AttemptsForExecution(e)
        <5>1. CASE AttemptSave
          BY <2>3, <5>1, SavedAttempt DEF AttemptSave, SaveAttempt
        <5>2. CASE ~AttemptSave
          <6>1. ASSUME NEW w \in Workspaces, NEW b \in Attempts, NEW t \in Tasks,
                       NEW x \in Executions, CreateTaskAttempt(b, w, t, x)
                PROVE  a \in AttemptsForExecution(e)
            <7>1. x # e
              BY <4>1, <6>1 DEF CreateTaskAttempt
            <7> QED
              BY <2>3, <6>1, <7>1 DEF CreateTaskAttempt
          <6> QED
            BY <2>3, <5>2, <6>1, OneKindAtATime
        <5> QED
          BY <5>1, <5>2
      <4>3. attempts[a].status \in Terminal
        BY <4>1, <4>2 DEF OutcomesHaveEvidence
      <4> QED
        BY <2>1, <4>2, <4>3
    <3> QED
      BY <3>1, <3>2
  <2> QED
    BY <2>2, <2>3 DEF OutcomesHaveEvidence
<1> QED
  BY <1>1, <1>2, TypeCorrect, PTL DEF Spec

-----------------------------------------------------------------------------
(* Bounds and isolation.                                                   *)

\* The records an attempt refers to exist; without it CreateTask could move a
\* task that an attempt already names.
AttemptsHaveParents ==
  \A a \in Attempts :
    IF attempts[a].status = Absent THEN attempts[a].execution = None
    ELSE /\ attempts[a].task \in Tasks /\ tasks[attempts[a].task].status # Absent
         /\ attempts[a].execution \in Executions
         /\ executions[attempts[a].execution].status # Absent

\* Only its creation makes an attempt count for an execution.
LEMMA AttemptCountStep ==
  ASSUME TypeOK, AttemptsHaveParents, [Next]_vars, NEW e \in Executions,
         Cardinality(AttemptsForExecution(e)) <= executions[e].bound
  PROVE  Cardinality(AttemptsForExecution(e)') <= executions'[e].bound
<1> USE DEF TypeOK
<1>1. IsFiniteSet(AttemptsForExecution(e)) /\ Cardinality(AttemptsForExecution(e)) \in Nat
  BY DomainAssumption, FS_Subset, FS_CardinalityType DEF AttemptsForExecution
<1>2. ASSUME NEW a \in Attempts, NEW w \in Workspaces, NEW t \in Tasks, NEW x \in Executions,
             CreateTaskAttempt(a, w, t, x)
      PROVE  Cardinality(AttemptsForExecution(e)') <= executions'[e].bound
  <2>1. attempts[a].execution = None /\ None \notin Executions
    BY <1>2, DomainAssumption DEF CreateTaskAttempt, AttemptsHaveParents
  <2>2. CASE x = e
    <3>1. AttemptsForExecution(e)' = AttemptsForExecution(e) \cup {a}
      BY <1>2, <2>1, <2>2 DEF CreateTaskAttempt, AttemptsForExecution
    <3>2. Cardinality(AttemptsForExecution(e)') = Cardinality(AttemptsForExecution(e)) + 1
      BY <1>1, <2>1, <3>1, FS_AddElement DEF AttemptsForExecution
    <3>3. Cardinality(AttemptsForExecution(e)) < executions[e].bound
          /\ executions[e].bound \in Nat /\ executions' = executions
      BY <1>2, <2>2 DEF CreateTaskAttempt, ExecutionType
    <3> QED
      BY <1>1, <3>2, <3>3
  <2>3. CASE x # e
    <3>1. AttemptsForExecution(e)' = AttemptsForExecution(e)
      BY <1>2, <2>1, <2>3 DEF CreateTaskAttempt, AttemptsForExecution
    <3> QED
      BY <1>2, <3>1 DEF CreateTaskAttempt
  <2> QED
    BY <2>2, <2>3
<1>3. CASE AttemptSave
  <2>1. AttemptsForExecution(e)' = AttemptsForExecution(e)
    BY <1>3, SavedAttempt DEF AttemptSave, SaveAttempt, AttemptsForExecution
  <2> QED
    BY <1>3, <2>1 DEF AttemptSave, SaveAttempt
<1>4. ASSUME NEW w \in Workspaces, NEW x \in Executions, NEW g \in Goals, NEW b \in Bounds,
             NEW r \in Executions \cup {None}, CreateExecution(x, w, g, b, r)
      PROVE  Cardinality(AttemptsForExecution(e)') <= executions'[e].bound
  <2>1. AttemptsForExecution(e)' = AttemptsForExecution(e)
    BY <1>4 DEF CreateExecution, AttemptsForExecution
  <2>2. CASE x = e
    <3>1. AttemptsForExecution(e) = {}
      BY <1>4, <2>2, DomainAssumption
         DEF CreateExecution, AttemptsForExecution, AttemptsHaveParents
    <3>2. executions'[e].bound \in Nat
      BY <1>4, <2>2, DomainAssumption DEF CreateExecution
    <3> QED
      BY <2>1, <3>1, <3>2, FS_EmptySet
  <2> QED
    BY <1>4, <2>1, <2>2 DEF CreateExecution
<1>5. CASE ExecutionSave
  BY <1>5, SavedExecution DEF ExecutionSave, SaveExecution, AttemptsForExecution
<1>6. ASSUME executions' = executions, attempts' = attempts
      PROVE  Cardinality(AttemptsForExecution(e)') <= executions'[e].bound
  BY <1>6 DEF AttemptsForExecution
<1> QED
  BY <1>2, <1>3, <1>4, <1>5, <1>6, CommandsSave
     DEF Create, CreateWorkspace, CreateGoal, CreateTask,
         GoalSave, SaveGoal, TaskSave, SaveTask, vars

\* No attempt outlives or precedes the records it names (create_task_attempt).
LEMMA ParentsStep ==
  ASSUME TypeOK, AttemptsHaveParents, [Next]_vars
  PROVE  AttemptsHaveParents'
<1> USE DEF TypeOK
<1> SUFFICES ASSUME NEW a \in Attempts
             PROVE  IF attempts'[a].status = Absent THEN attempts'[a].execution = None
                    ELSE /\ attempts'[a].task \in Tasks
                         /\ tasks'[attempts'[a].task].status # Absent
                         /\ attempts'[a].execution \in Executions
                         /\ executions'[attempts'[a].execution].status # Absent
  BY DEF AttemptsHaveParents
<1>1. CASE attempts[a].status # Absent
  BY <1>1, EntitiesPersist DEF AttemptsHaveParents
<1>2. CASE attempts[a].status = Absent
  <2>1. CASE AttemptSave
    <3>1. PICK b \in Attempts, s \in DOMAIN AttemptAllowed, v \in Versions :
            SaveAttempt(b, s, v)
      BY <2>1 DEF AttemptSave
    <3>2. attempts[b].status # Absent
      BY <3>1, TablesAreFinal DEF SaveAttempt, CanSave
    <3> QED
      BY <1>2, <3>1, <3>2 DEF SaveAttempt, AttemptsHaveParents
  <2>2. ASSUME NEW w \in Workspaces, NEW b \in Attempts, NEW t \in Tasks, NEW e \in Executions,
               CreateTaskAttempt(b, w, t, e)
        PROVE  IF attempts'[a].status = Absent THEN attempts'[a].execution = None
               ELSE /\ attempts'[a].task \in Tasks
                    /\ tasks'[attempts'[a].task].status # Absent
                    /\ attempts'[a].execution \in Executions
                    /\ executions'[attempts'[a].execution].status # Absent
    BY <1>2, <2>2 DEF CreateTaskAttempt, AttemptsHaveParents, Absent
  <2> QED
    BY <1>2, <2>1, <2>2, OneKindAtATime DEF AttemptsHaveParents
<1> QED
  BY <1>1, <1>2

\* An execution stays within its max_task_attempts, and attempt, task and
\* execution agree on goal and workspace (create_task_attempt, _references).
THEOREM ExecutionsStayBounded == Spec => []ExecutionBounds
<1>1. Init => ExecutionBounds /\ AttemptsHaveParents
  <2> SUFFICES ASSUME Init PROVE ExecutionBounds /\ AttemptsHaveParents
    OBVIOUS
  <2>1. \A e \in Executions : AttemptsForExecution(e) = {}
    BY DomainAssumption DEF Init, AttemptsForExecution, NoAttempt
  <2> QED
    BY <2>1, FS_EmptySet DEF Init, ExecutionBounds, AttemptsHaveParents, NoAttempt, NoExecution
<1>2. TypeOK /\ ExecutionBounds /\ AttemptsHaveParents /\ [Next]_vars
        => ExecutionBounds' /\ AttemptsHaveParents'
  <2> SUFFICES ASSUME TypeOK, ExecutionBounds, AttemptsHaveParents, [Next]_vars
               PROVE  ExecutionBounds'
    BY ParentsStep
  <2>1. \A e \in Executions :
          Cardinality(AttemptsForExecution(e)') <= executions'[e].bound
    BY AttemptCountStep DEF ExecutionBounds
  <2>2. ASSUME NEW a \in Attempts, attempts'[a].status # Absent
        PROVE  /\ tasks'[attempts'[a].task].goal = executions'[attempts'[a].execution].goal
               /\ tasks'[attempts'[a].task].workspace = attempts'[a].workspace
               /\ executions'[attempts'[a].execution].workspace = attempts'[a].workspace
    <3>1. CASE attempts[a].status # Absent
      <4>1. /\ attempts'[a].task = attempts[a].task
            /\ attempts'[a].execution = attempts[a].execution
            /\ attempts'[a].workspace = attempts[a].workspace
        BY <3>1, EntitiesPersist
      <4>2. /\ attempts[a].task \in Tasks /\ tasks[attempts[a].task].status # Absent
            /\ attempts[a].execution \in Executions
            /\ executions[attempts[a].execution].status # Absent
        BY <3>1 DEF AttemptsHaveParents
      <4>3. /\ tasks'[attempts[a].task].goal = tasks[attempts[a].task].goal
            /\ tasks'[attempts[a].task].workspace = tasks[attempts[a].task].workspace
            /\ executions'[attempts[a].execution].goal = executions[attempts[a].execution].goal
            /\ executions'[attempts[a].execution].workspace
                 = executions[attempts[a].execution].workspace
        BY <4>2, EntitiesPersist
      <4> QED
        BY <3>1, <4>1, <4>3 DEF ExecutionBounds
    <3>2. CASE attempts[a].status = Absent
      <4>1. ASSUME AttemptSave PROVE FALSE
        <5>1. PICK b \in Attempts, s \in DOMAIN AttemptAllowed, v \in Versions :
                SaveAttempt(b, s, v)
          BY <4>1 DEF AttemptSave
        <5>2. attempts[b].status # Absent
          BY <5>1, TablesAreFinal DEF SaveAttempt, CanSave
        <5> QED
          BY <2>2, <3>2, <5>1, <5>2 DEF SaveAttempt, TypeOK
      <4>2. PICK w \in Workspaces, t \in Tasks, e \in Executions : CreateTaskAttempt(a, w, t, e)
        BY <2>2, <3>2, <4>1, OneKindAtATime DEF CreateTaskAttempt, TypeOK
      <4> QED
        BY <4>2 DEF CreateTaskAttempt, TypeOK
    <3> QED
      BY <3>1, <3>2
  <2> QED
    BY <2>1, <2>2 DEF ExecutionBounds
<1> QED
  BY <1>1, <1>2, TypeCorrect, PTL DEF Spec

-----------------------------------------------------------------------------
(* The chain of retries of a task.                                         *)

\* An attempt belongs to a task exactly from its creation on.
AttemptsHaveTasks ==
  \A a \in Attempts : attempts[a].status = Absent <=> attempts[a].task = None

\* AttemptLineage of one task; the theorem is about all of them.
LineageOf(t) ==
  /\ {attempts[a].ordinal : a \in AttemptsForTask(t)} = 1 .. Cardinality(AttemptsForTask(t))
  /\ \A a \in AttemptsForTask(t) :
       /\ Live(attempts[a]) => IsLatestAttempt(t, a)
       /\ IF attempts[a].ordinal = 1 THEN attempts[a].previous = None
          ELSE /\ attempts[a].previous \in AttemptsForTask(t)
               /\ attempts[attempts[a].previous].ordinal = attempts[a].ordinal - 1

\* Creating an attempt appends it to the chain of its task.
LEMMA CreationAppends ==
  ASSUME TypeOK, AttemptsHaveTasks,
         NEW a \in Attempts, NEW w \in Workspaces, NEW t \in Tasks, NEW e \in Executions,
         CreateTaskAttempt(a, w, t, e), LineageOf(t)
  PROVE  LineageOf(t)'
<1> DEFINE A == AttemptsForTask(t)
           n == Cardinality(A)
<1> USE DEF TypeOK
<1>1. IsFiniteSet(A) /\ n \in Nat
  BY DomainAssumption, FS_Subset, FS_CardinalityType DEF AttemptsForTask
<1>2. a \notin A /\ A \subseteq Attempts
  BY DomainAssumption DEF CreateTaskAttempt, AttemptsHaveTasks, AttemptsForTask
<1>3. PICK p \in Attempts \cup {None} :
        /\ IsLatestAttempt(t, p)
        /\ attempts' = [attempts EXCEPT ![a] =
                         [status |-> "CREATED", version |-> 1, workspace |-> w,
                          task |-> t, execution |-> e, ordinal |-> n + 1, previous |-> p]]
  BY DEF CreateTaskAttempt
<1>4. AttemptsForTask(t)' = A \cup {a}
  BY <1>2, <1>3 DEF AttemptsForTask
<1>5. Cardinality(AttemptsForTask(t)') = n + 1
  BY <1>1, <1>2, <1>4, FS_AddElement
<1>6. attempts'[a].ordinal = n + 1 /\ attempts'[a].previous = p
      /\ \A b \in A : attempts'[b] = attempts[b]
  BY <1>2, <1>3
<1>7. {attempts[b].ordinal : b \in A} = 1 .. n
  BY DEF LineageOf
<1>8. {attempts'[b].ordinal : b \in AttemptsForTask(t)'} = 1 .. (n + 1)
  <2>1. {attempts'[b].ordinal : b \in AttemptsForTask(t)'}
          = {attempts[b].ordinal : b \in A} \cup {n + 1}
    BY <1>4, <1>6
  <2>2. (1 .. n) \cup {n + 1} = 1 .. (n + 1)
    <3> HIDE DEF n
    <3> QED
      BY <1>1
  <2> HIDE DEF n, A
  <2> QED
    BY <1>7, <2>1, <2>2
<1>9. \A b \in A : attempts[b].status \in Terminal
  BY DEF CreateTaskAttempt
<1>10. IsLatestAttempt(t, a)'
  <2>1. \A b \in A : attempts'[b].ordinal \in 1 .. n
    BY <1>6, <1>7
  <2> QED
    BY <1>1, <1>4, <1>6, <2>1 DEF IsLatestAttempt
<1>11. IF attempts'[a].ordinal = 1 THEN attempts'[a].previous = None
       ELSE /\ attempts'[a].previous \in AttemptsForTask(t)'
            /\ attempts'[attempts'[a].previous].ordinal = attempts'[a].ordinal - 1
  <2>1. CASE A = {}
    BY <1>3, <1>6, <2>1, FS_EmptySet DEF IsLatestAttempt
  <2>2. CASE A # {}
    <3>1. n # 0
      BY <1>1, <2>2, FS_EmptySet
    <3>2. p \in A /\ \A b \in A : attempts[b].ordinal <= attempts[p].ordinal
      BY <1>3, <2>2 DEF IsLatestAttempt
    <3>3. attempts[p].ordinal \in 1 .. n
      BY <1>7, <3>2
    <3>4. PICK b \in A : attempts[b].ordinal = n
      BY <1>1, <1>7, <3>1
    <3>5. attempts[p].ordinal = n
      BY <1>1, <3>2, <3>3, <3>4
    <3> QED
      BY <1>1, <1>4, <1>6, <3>1, <3>2, <3>5
  <2> QED
    BY <2>1, <2>2
<1>12. ASSUME NEW b \in A
       PROVE  /\ ~Live(attempts'[b])
              /\ IF attempts'[b].ordinal = 1 THEN attempts'[b].previous = None
                 ELSE /\ attempts'[b].previous \in AttemptsForTask(t)'
                      /\ attempts'[attempts'[b].previous].ordinal = attempts'[b].ordinal - 1
  BY <1>4, <1>6, <1>9 DEF LineageOf, Live
<1> QED
  BY <1>4, <1>5, <1>8, <1>10, <1>11, <1>12 DEF LineageOf

\* What leaves task, ordinal and predecessor of every attempt of a task alone,
\* and revives none of them, keeps the chain.
LEMMA LineageKept ==
  ASSUME NEW t \in Tasks, LineageOf(t),
         AttemptsForTask(t)' = AttemptsForTask(t),
         \A a \in AttemptsForTask(t) :
           /\ attempts'[a].ordinal = attempts[a].ordinal
           /\ attempts'[a].previous = attempts[a].previous
           /\ Live(attempts'[a]) => Live(attempts[a])
  PROVE  LineageOf(t)'
<1>1. {attempts'[a].ordinal : a \in AttemptsForTask(t)'}
        = {attempts[a].ordinal : a \in AttemptsForTask(t)}
  OBVIOUS
<1>2. ASSUME NEW a \in AttemptsForTask(t), IsLatestAttempt(t, a) PROVE IsLatestAttempt(t, a)'
  BY <1>2 DEF IsLatestAttempt
<1> QED
  BY <1>1, <1>2 DEF LineageOf

\* Retries of a task are numbered without gaps, each names the one before it,
\* and only the last may be live (create_task_attempt, attempt_lineage).
THEOREM RetriesFormAChain == Spec => []AttemptLineage
<1> DEFINE Inv == AttemptsHaveTasks /\ \A t \in Tasks : LineageOf(t)
<1>1. Init => Inv
  <2> SUFFICES ASSUME Init PROVE Inv
    OBVIOUS
  <2>1. \A t \in Tasks : AttemptsForTask(t) = {}
    BY DomainAssumption DEF Init, AttemptsForTask, NoAttempt
  <2>2. Cardinality({}) = 0 /\ 1 .. 0 = {}
    BY FS_EmptySet
  <2> QED
    BY <2>1, <2>2 DEF Init, AttemptsHaveTasks, NoAttempt, LineageOf
<1>2. TypeOK /\ Inv /\ [Next]_vars => Inv'
  <2> SUFFICES ASSUME TypeOK, AttemptsHaveTasks, \A t \in Tasks : LineageOf(t), [Next]_vars
               PROVE  AttemptsHaveTasks' /\ \A t \in Tasks : LineageOf(t)'
    OBVIOUS
  <2> USE DEF TypeOK
  <2>1. CASE AttemptSave
    <3>1. PICK a \in Attempts, s \in DOMAIN AttemptAllowed, v \in Versions :
            SaveAttempt(a, s, v)
      BY <2>1 DEF AttemptSave
    <3>2. attempts[a].status \in DOMAIN AttemptAllowed
          /\ s \in AttemptAllowed[attempts[a].status]
      BY <3>1 DEF SaveAttempt, CanSave, AttemptType
    <3>3. s # Absent /\ Live(attempts[a])
      BY <3>2, TablesAreFinal DEF Live
    <3>4. /\ attempts' = [attempts EXCEPT ![a] = Saved(@, s)]
          /\ Saved(attempts[a], s).task = attempts[a].task
          /\ Saved(attempts[a], s).ordinal = attempts[a].ordinal
          /\ Saved(attempts[a], s).previous = attempts[a].previous
          /\ Saved(attempts[a], s).status = s
      BY <3>1, SavedAttempt DEF SaveAttempt
    <3>5. AttemptsHaveTasks'
      BY <3>3, <3>4 DEF AttemptsHaveTasks, Live
    <3>6. ASSUME NEW t \in Tasks PROVE LineageOf(t)'
      <4>1. AttemptsForTask(t)' = AttemptsForTask(t)
        BY <3>4 DEF AttemptsForTask
      <4>2. \A b \in AttemptsForTask(t) :
              /\ attempts'[b].ordinal = attempts[b].ordinal
              /\ attempts'[b].previous = attempts[b].previous
              /\ Live(attempts'[b]) => Live(attempts[b])
        BY <3>3, <3>4 DEF AttemptsForTask
      <4> QED
        BY <4>1, <4>2, LineageKept
    <3> QED
      BY <3>5, <3>6
  <2>2. ASSUME NEW w \in Workspaces, NEW a \in Attempts, NEW t \in Tasks, NEW e \in Executions,
               CreateTaskAttempt(a, w, t, e)
        PROVE  AttemptsHaveTasks' /\ \A u \in Tasks : LineageOf(u)'
    <3>1. AttemptsHaveTasks'
      BY <2>2, DomainAssumption DEF CreateTaskAttempt, AttemptsHaveTasks, Absent
    <3>2. ASSUME NEW u \in Tasks, u # t PROVE LineageOf(u)'
      <4>1. a \notin AttemptsForTask(u)
        BY <2>2, DomainAssumption DEF CreateTaskAttempt, AttemptsHaveTasks, AttemptsForTask
      <4>2. AttemptsForTask(u)' = AttemptsForTask(u)
        BY <2>2, <3>2, <4>1 DEF CreateTaskAttempt, AttemptsForTask
      <4>3. \A b \in AttemptsForTask(u) : attempts'[b] = attempts[b]
        BY <2>2, <4>1 DEF CreateTaskAttempt, AttemptsForTask
      <4> QED
        BY <4>2, <4>3, LineageKept
    <3> QED
      BY <2>2, <3>1, <3>2, CreationAppends
  <2>3. CASE attempts' = attempts
    <3>1. \A t \in Tasks : AttemptsForTask(t)' = AttemptsForTask(t)
      BY <2>3 DEF AttemptsForTask
    <3> QED
      BY <2>3, <3>1, LineageKept DEF AttemptsHaveTasks
  <2> QED
    BY <2>1, <2>2, <2>3, OneKindAtATime
<1>3. Inv => AttemptLineage
  BY DEF LineageOf, AttemptLineage
<1> QED
  BY <1>1, <1>2, <1>3, TypeCorrect, PTL DEF Spec

-----------------------------------------------------------------------------
\* The refinement: each kind of save is one step of the promise or invisible to it.

\* Nothing refers to what does not exist: an absent task belongs to no goal and an
\* absent attempt to no task, a stored task has a goal and a stored attempt a stored task.
References ==
  /\ \A t \in Tasks : IF tasks[t].status = Absent THEN tasks[t].goal = None
                                                  ELSE tasks[t].goal \in Goals
  /\ \A a \in Attempts : attempts[a].status # Absent =>
       attempts[a].task \in Tasks /\ tasks[attempts[a].task].status # Absent

ReferenceInv == TypeOK /\ References

LEMMA ReferencesKept ==
  ASSUME ReferenceInv, [Next]_vars
  PROVE  References'
<1> USE DEF ReferenceInv
<1>1. ASSUME NEW t \in Tasks
      PROVE  IF tasks'[t].status = Absent THEN tasks'[t].goal = None ELSE tasks'[t].goal \in Goals
  <2>1. CASE TaskSave
    <3>1. PICK u \in Tasks, s \in DOMAIN TaskAllowed, v \in Versions : SaveTask(u, s, v)
      BY <2>1 DEF TaskSave
    <3>2. tasks[u] \in TaskType /\ s \in TaskAllowed[tasks[u].status]
      BY <3>1 DEF SaveTask, CanSave, TypeOK
    <3>3. s # Absent /\ tasks[u].status # Absent
      BY <3>2, TablesAreFinal DEF TaskType
    <3>4. tasks'[u].status = s /\ tasks'[u].goal = tasks[u].goal
          /\ (t # u => tasks'[t] = tasks[t])
      BY <3>1, <3>2, SavedTask DEF SaveTask, TypeOK
    <3> QED
      BY <3>3, <3>4 DEF References
  <2>2. ASSUME NEW w \in Workspaces, NEW u \in Tasks, NEW g \in Goals, CreateTask(u, w, g)
        PROVE  IF tasks'[t].status = Absent THEN tasks'[t].goal = None ELSE tasks'[t].goal \in Goals
    <3>1. tasks'[u].goal = g /\ tasks'[u].status = "PROPOSED" /\ (t # u => tasks'[t] = tasks[t])
      BY <2>2 DEF CreateTask, TypeOK
    <3> QED
      BY <3>1 DEF References, Absent
  <2> QED
    BY <2>1, <2>2, OneKindAtATime DEF References
<1>2. ASSUME NEW a \in Attempts, attempts'[a].status # Absent
      PROVE  attempts'[a].task \in Tasks /\ tasks'[attempts'[a].task].status # Absent
  <2>1. CASE attempts[a].status # Absent
    BY <2>1, EntitiesPersist DEF References
  <2>2. CASE attempts[a].status = Absent
    <3>1. ~ AttemptSave
      <4> SUFFICES ASSUME AttemptSave PROVE FALSE
        OBVIOUS
      <4>1. PICK b \in Attempts, s \in DOMAIN AttemptAllowed, v \in Versions : SaveAttempt(b, s, v)
        BY DEF AttemptSave
      <4>2. s \in AttemptAllowed[attempts[b].status]
        BY <4>1 DEF SaveAttempt, CanSave
      <4>3. b # a
        BY <2>2, <4>2, TablesAreFinal
      <4> QED
        BY <1>2, <2>2, <4>1, <4>3 DEF SaveAttempt
    <3>2. PICK w \in Workspaces, b \in Attempts, t \in Tasks, e \in Executions :
            CreateTaskAttempt(b, w, t, e)
      BY <1>2, <2>2, <3>1, OneKindAtATime
    <3>3. a = b /\ attempts'[b].task = t
      BY <1>2, <2>2, <3>2 DEF CreateTaskAttempt, TypeOK
    <3>4. tasks' = tasks /\ tasks[t].status # Absent
      BY <3>2 DEF CreateTaskAttempt, Absent
    <3> QED
      BY <3>3, <3>4
  <2> QED
    BY <2>1, <2>2
<1> QED
  BY <1>1, <1>2 DEF References

-----------------------------------------------------------------------------
promiseVars == <<outcomeBar, workBar, fateBar, evidenceBar>>

\* A goal that is saved is opened, delivered or closed.
LEMMA GoalSavePromised ==
  ASSUME ReferenceInv, GoalSave
  PROVE  Promise!Next
<1> USE DEF ReferenceInv
<1>1. PICK g \in Goals, s \in DOMAIN GoalAllowed, v \in Versions :
        SaveGoal(g, s, v) /\ (s = "SATISFIED" => AllTasksCompleted(g))
  BY DEF GoalSave
<1>2. /\ goals[g] \in GoalType /\ goals[g].status \in DOMAIN GoalAllowed
      /\ s \in GoalAllowed[goals[g].status]
      /\ goals' = [goals EXCEPT ![g] = Saved(@, s)] /\ Saved(goals[g], s).status = s
      /\ UNCHANGED <<tasks, attempts>>
  BY <1>1, SavedGoal DEF SaveGoal, CanSave, TypeOK, GoalType
<1>3. UNCHANGED <<workBar, fateBar, evidenceBar>>
  BY <1>2 DEF workBar, fateBar, evidenceBar, TasksForGoal, AttemptsForTask
<1>4. \/ goals[g].status = "DRAFT" /\ s \in {"ACTIVE", "CANCELLED"}
      \/ goals[g].status = "ACTIVE" /\ s \in {"SATISFIED", "CLOSED_UNSATISFIED", "CANCELLED"}
  BY <1>2 DEF GoalAllowed
<1>5. outcomeBar[g] = IF goals[g].status = "DRAFT" THEN "draft" ELSE "open"
  BY <1>4 DEF outcomeBar, Absent
<1>6. outcomeBar' = [outcomeBar EXCEPT ![g] = CASE s = "ACTIVE" -> "open"
                                                [] s = "SATISFIED" -> "delivered"
                                                [] OTHER -> "closed"]
  <2>1. \A h \in Goals : h # g => goals'[h] = goals[h]
    BY <1>2 DEF TypeOK
  <2>2. goals'[g].status = s
    BY <1>2 DEF TypeOK
  <2> QED
    BY <1>4, <2>1, <2>2 DEF outcomeBar, Absent
<1>7. CASE s = "ACTIVE"
  BY <1>3, <1>4, <1>5, <1>6, <1>7 DEF Promise!Next, Promise!Open
<1>8. CASE s = "SATISFIED"
  <2>1. workBar[g] # {} /\ \A t \in workBar[g] : fateBar[t] = "done"
    BY <1>1, <1>8 DEF AllTasksCompleted, workBar, fateBar, TasksForGoal
  <2> QED
    BY <1>3, <1>4, <1>5, <1>6, <1>8, <2>1 DEF Promise!Next, Promise!Deliver
<1>9. CASE s \in {"CLOSED_UNSATISFIED", "CANCELLED"}
  BY <1>3, <1>4, <1>5, <1>6, <1>9 DEF Promise!Next, Promise!Close
<1> QED
  BY <1>4, <1>7, <1>8, <1>9

\* A task that is saved is finished, on the attempt it was completed with, or
\* dropped, or remains to be done.
LEMMA TaskSavePromised ==
  ASSUME ReferenceInv, TaskSave
  PROVE  Promise!Next \/ UNCHANGED promiseVars
<1> USE DEF ReferenceInv
<1>1. PICK t \in Tasks, s \in DOMAIN TaskAllowed, v \in Versions :
        /\ SaveTask(t, s, v)
        /\ s = "COMPLETED" =>
             \E a \in Attempts : attempts[a].status = "SUCCEEDED" /\ attempts[a].task = t
  BY DEF TaskSave
<1>2. /\ tasks[t] \in TaskType /\ tasks[t].status \in DOMAIN TaskAllowed
      /\ s \in TaskAllowed[tasks[t].status]
      /\ tasks' = [tasks EXCEPT ![t] = Saved(@, s)]
      /\ Saved(tasks[t], s).status = s /\ Saved(tasks[t], s).goal = tasks[t].goal
      /\ UNCHANGED <<goals, attempts>>
  BY <1>1, SavedTask DEF SaveTask, CanSave, TypeOK, TaskType
<1>3. /\ tasks'[t].status = s /\ tasks'[t].goal = tasks[t].goal
      /\ \A u \in Tasks : u # t => tasks'[u] = tasks[u]
  BY <1>2 DEF TypeOK
<1>4. UNCHANGED <<outcomeBar, workBar, evidenceBar>>
  <2>1. UNCHANGED workBar
    BY <1>3 DEF workBar, TasksForGoal
  <2> QED
    BY <1>2, <2>1 DEF outcomeBar, evidenceBar, AttemptsForTask
<1>5. tasks[t].status \in {"PROPOSED", "READY", "IN_PROGRESS", "BLOCKED"}
  BY <1>2 DEF TaskAllowed
<1>6. fateBar[t] = "todo"
  BY <1>5 DEF fateBar
<1>7. fateBar' = [fateBar EXCEPT ![t] = CASE s = "COMPLETED" -> "done"
                                          [] s \in {"FAILED", "CANCELLED"} -> "dropped"
                                          [] OTHER -> "todo"]
  BY <1>3 DEF fateBar
<1>8. CASE s = "COMPLETED"
  <2>1. t \in evidenceBar
    BY <1>1, <1>8 DEF evidenceBar, AttemptsForTask
  <2> QED
    BY <1>4, <1>6, <1>7, <1>8, <2>1 DEF Promise!Next, Promise!Finish
<1>9. CASE s \in {"FAILED", "CANCELLED"}
  <2>1. tasks[t].goal \in Goals
    BY <1>5 DEF References, Absent
  <2>2. \E g \in Goals : t \in workBar[g]
    BY <2>1 DEF workBar, TasksForGoal
  <2>3. Promise!Drop(t)
    BY <1>4, <1>6, <1>7, <1>9, <2>2 DEF Promise!Drop
  <2> QED
    BY <2>3 DEF Promise!Next
<1>10. CASE s \notin {"COMPLETED", "FAILED", "CANCELLED"}
  <2>1. fateBar' = fateBar
    BY <1>6, <1>7, <1>10 DEF fateBar
  <2> QED
    BY <1>4, <2>1 DEF promiseVars
<1> QED
  BY <1>8, <1>9, <1>10

\* An attempt that succeeds is evidence for its task; no other save of one shows.
LEMMA AttemptSavePromised ==
  ASSUME ReferenceInv, AttemptSave
  PROVE  Promise!Next \/ UNCHANGED promiseVars
<1> USE DEF ReferenceInv
<1>1. PICK a \in Attempts, s \in DOMAIN AttemptAllowed, v \in Versions : SaveAttempt(a, s, v)
  BY DEF AttemptSave
<1>2. /\ attempts[a] \in AttemptType /\ attempts[a].status \in DOMAIN AttemptAllowed
      /\ s \in AttemptAllowed[attempts[a].status]
      /\ attempts' = [attempts EXCEPT ![a] = Saved(@, s)]
      /\ Saved(attempts[a], s).status = s /\ Saved(attempts[a], s).task = attempts[a].task
      /\ UNCHANGED <<goals, tasks>>
  BY <1>1, SavedAttempt DEF SaveAttempt, CanSave, TypeOK, AttemptType
<1>3. /\ attempts'[a].status = s /\ attempts'[a].task = attempts[a].task
      /\ \A b \in Attempts : b # a => attempts'[b] = attempts[b]
      /\ attempts[a].status # "SUCCEEDED" /\ attempts[a].status # Absent
  BY <1>2, TablesAreFinal DEF TypeOK, Terminal
<1>4. UNCHANGED <<outcomeBar, workBar, fateBar>>
  BY <1>2 DEF outcomeBar, workBar, fateBar, TasksForGoal
<1>5. CASE s = "SUCCEEDED"
  <2> DEFINE t == attempts[a].task
  <2>1. t \in Tasks /\ tasks[t].goal \in Goals
    BY <1>3 DEF References
  <2>2. \E g \in Goals : t \in workBar[g]
    BY <2>1 DEF workBar, TasksForGoal
  <2>3. evidenceBar' = evidenceBar \cup {t}
    BY <1>3, <1>5, <2>1 DEF evidenceBar, AttemptsForTask
  <2>4. Promise!Prove(t)
    BY <1>4, <2>2, <2>3 DEF Promise!Prove
  <2> QED
    BY <2>1, <2>4 DEF Promise!Next
<1>6. CASE s # "SUCCEEDED"
  <2>1. evidenceBar' = evidenceBar
    BY <1>3, <1>6 DEF evidenceBar, AttemptsForTask
  <2> QED
    BY <1>4, <2>1 DEF promiseVars
<1> QED
  BY <1>5, <1>6

\* A new task is accepted work; other new entities do not show.
LEMMA CreationPromised ==
  ASSUME ReferenceInv, Create
  PROVE  Promise!Next \/ UNCHANGED promiseVars
<1> USE DEF ReferenceInv
<1>1. ASSUME UNCHANGED <<goals, tasks, attempts>>
      PROVE  UNCHANGED promiseVars
  BY <1>1 DEF promiseVars, outcomeBar, workBar, fateBar, evidenceBar, TasksForGoal, AttemptsForTask
<1>2. ASSUME NEW w \in Workspaces, NEW g \in Goals, CreateGoal(g, w)
      PROVE  UNCHANGED promiseVars
  <2>1. /\ goals[g].status = Absent /\ goals'[g].status = "DRAFT"
        /\ \A h \in Goals : h # g => goals'[h] = goals[h]
        /\ UNCHANGED <<tasks, attempts>>
    BY <1>2 DEF CreateGoal, TypeOK
  <2>2. outcomeBar' = outcomeBar
    BY <2>1 DEF outcomeBar, Absent
  <2> QED
    BY <2>1, <2>2 DEF promiseVars, workBar, fateBar, evidenceBar, TasksForGoal, AttemptsForTask
<1>3. ASSUME NEW w \in Workspaces, NEW t \in Tasks, NEW g \in Goals, CreateTask(t, w, g)
      PROVE  Promise!Next
  <2>1. /\ tasks[t].goal = None /\ tasks[t].status = Absent /\ goals[g].status = "ACTIVE"
        /\ tasks'[t].goal = g /\ tasks'[t].status = "PROPOSED"
        /\ \A u \in Tasks : u # t => tasks'[u] = tasks[u]
        /\ UNCHANGED <<goals, attempts>>
    <3>1. tasks[t].status = Absent /\ goals[g].status = "ACTIVE" /\ UNCHANGED <<goals, attempts>>
      BY <1>3 DEF CreateTask, OpenGoal
    <3>2. tasks[t].goal = None
      BY <3>1 DEF References
    <3>3. /\ tasks'[t].goal = g /\ tasks'[t].status = "PROPOSED"
          /\ \A u \in Tasks : u # t => tasks'[u] = tasks[u]
      BY <1>3 DEF CreateTask, TypeOK
    <3> QED
      BY <3>1, <3>2, <3>3
  <2>2. outcomeBar[g] = "open"
    BY <2>1 DEF outcomeBar, Absent
  <2>3. \A h \in Goals : t \notin workBar[h]
    BY <2>1, DomainAssumption DEF workBar, TasksForGoal, DomainAssumption
  <2>4. workBar' = [workBar EXCEPT ![g] = @ \cup {t}]
    <3>1. \A h \in Goals : TasksForGoal(h)' =
                             IF h = g THEN TasksForGoal(g) \cup {t} ELSE TasksForGoal(h)
      BY <2>1, <2>3 DEF workBar, TasksForGoal
    <3> QED
      BY <3>1 DEF workBar
  <2>5. UNCHANGED <<outcomeBar, fateBar, evidenceBar>>
    <3>1. fateBar' = fateBar
      BY <2>1 DEF fateBar, Absent
    <3> QED
      BY <2>1, <3>1 DEF outcomeBar, evidenceBar, AttemptsForTask
  <2>6. Promise!Accept(g, t)
    BY <2>2, <2>3, <2>4, <2>5 DEF Promise!Accept
  <2> QED
    BY <2>6 DEF Promise!Next
<1>4. ASSUME NEW w \in Workspaces, NEW a \in Attempts, NEW t \in Tasks, NEW e \in Executions,
             CreateTaskAttempt(a, w, t, e)
      PROVE  UNCHANGED promiseVars
  <2>1. /\ attempts[a].status = Absent /\ attempts'[a].status = "CREATED"
        /\ \A b \in Attempts : b # a => attempts'[b] = attempts[b]
        /\ UNCHANGED <<goals, tasks>>
    BY <1>4 DEF CreateTaskAttempt, TypeOK
  <2>2. evidenceBar' = evidenceBar
    BY <2>1 DEF evidenceBar, AttemptsForTask, Absent
  <2> QED
    BY <2>1, <2>2 DEF promiseVars, outcomeBar, workBar, fateBar, TasksForGoal
<1>5. ASSUME NEW w \in Workspaces,
             CreateWorkspace(w) \/ \E e \in Executions, g \in Goals, b \in Bounds,
                                      r \in Executions \cup {None} : CreateExecution(e, w, g, b, r)
      PROVE  UNCHANGED <<goals, tasks, attempts>>
  BY <1>5 DEF CreateWorkspace, CreateExecution
<1> QED
  BY <1>1, <1>2, <1>3, <1>4, <1>5 DEF Create

LEMMA StepPromised ==
  ASSUME ReferenceInv, [Next]_vars
  PROVE  Promise!Next \/ UNCHANGED promiseVars
<1>1. CASE ExecutionSave \/ UNCHANGED vars
  <2>1. UNCHANGED <<goals, tasks, attempts>>
    BY <1>1 DEF ExecutionSave, SaveExecution, vars
  <2> QED
    BY <2>1 DEF promiseVars, outcomeBar, workBar, fateBar, evidenceBar, TasksForGoal, AttemptsForTask
<1> QED
  BY <1>1, CommandsSave, GoalSavePromised, TaskSavePromised, AttemptSavePromised, CreationPromised

\* Every behaviour of the service is one of the promise (satisfy_goal,
\* complete_task, create_task and all other commands).
THEOREM ServiceKeepsPromise == Spec => ImplementsPromise
<1>1. Init => Promise!Init
  <2> SUFFICES ASSUME Init PROVE Promise!Init
    OBVIOUS
  <2>1. outcomeBar = [g \in Goals |-> "draft"]
    BY DEF Init, outcomeBar, NoGoal, Absent
  <2>2. workBar = [g \in Goals |-> {}]
    <3>1. \A g \in Goals : TasksForGoal(g) = {}
      BY DomainAssumption DEF Init, TasksForGoal, NoTask, DomainAssumption
    <3> QED
      BY <3>1 DEF workBar
  <2>3. fateBar = [t \in Tasks |-> "todo"]
    BY DEF Init, fateBar, NoTask, Absent
  <2>4. evidenceBar = {}
    BY DEF Init, evidenceBar, AttemptsForTask, NoAttempt, Absent
  <2> QED
    BY <2>1, <2>2, <2>3, <2>4 DEF Promise!Init
<1>2. Init => References
  BY DEF Init, References, NoTask, NoAttempt, Absent
<1>3. TypeOK /\ References /\ [Next]_vars => References'
  BY ReferencesKept DEF ReferenceInv
<1>4. TypeOK /\ References /\ [Next]_vars => [Promise!Next]_Promise!vars
  BY StepPromised DEF ReferenceInv, promiseVars, Promise!vars
<1> QED
  BY <1>1, <1>2, <1>3, <1>4, TypeCorrect, PTL DEF Spec, ImplementsPromise, Promise!Spec

-----------------------------------------------------------------------------
\* A save raises the version of an entity by one.
LEMMA SavedVersion ==
  ASSUME NEW x \in GoalType \cup TaskType \cup ExecutionType \cup AttemptType, NEW s
  PROVE  Saved(x, s).version = x.version + 1
<1> DEFINE y == [x EXCEPT !.status = s]
<1>1. y.version = x.version /\ "version" \in DOMAIN y
  BY DEF GoalType, TaskType, ExecutionType, AttemptType
<1> HIDE DEF y
<1>2. NextVersion(y).version = y.version + 1
  BY <1>1 DEF NextVersion
<1> QED
  BY <1>1, <1>2 DEF Saved, y

\* A command is the save of one entity, which exists, under the version expected.
LEMMA CommandIsSave ==
  ASSUME TypeOK, NEW v
  PROVE  /\ \A g \in Goals : GoalCommand(g, v) =>
              /\ goals[g].status # Absent /\ goals[g].version = v /\ v < MaxVersion
              /\ goals'[g].status # Absent /\ goals'[g].version = v + 1
              /\ UNCHANGED <<tasks, executions, attempts>>
              /\ \A h \in Goals : h # g => goals'[h] = goals[h]
         /\ \A t \in Tasks : TaskCommand(t, v) =>
              /\ tasks[t].status # Absent /\ tasks[t].version = v /\ v < MaxVersion
              /\ tasks'[t].status # Absent /\ tasks'[t].version = v + 1
              /\ UNCHANGED <<goals, executions, attempts>>
              /\ \A h \in Tasks : h # t => tasks'[h] = tasks[h]
         /\ \A e \in Executions : ExecutionCommand(e, v) =>
              /\ executions[e].status # Absent /\ executions[e].version = v /\ v < MaxVersion
              /\ executions'[e].status # Absent /\ executions'[e].version = v + 1
              /\ UNCHANGED <<goals, tasks, attempts>>
              /\ \A h \in Executions : h # e => executions'[h] = executions[h]
         /\ \A a \in Attempts : AttemptCommand(a, v) =>
              /\ attempts[a].status # Absent /\ attempts[a].version = v /\ v < MaxVersion
              /\ attempts'[a].status # Absent /\ attempts'[a].version = v + 1
              /\ UNCHANGED <<goals, tasks, executions>>
              /\ \A h \in Attempts : h # a => attempts'[h] = attempts[h]
<1> USE DEF TypeOK
<1>1. ASSUME NEW g \in Goals, GoalCommand(g, v)
      PROVE  \E s \in DOMAIN GoalAllowed : SaveGoal(g, s, v)
  <2>1. {"ACTIVE", "SATISFIED", "CLOSED_UNSATISFIED", "CANCELLED"} \subseteq DOMAIN GoalAllowed
    BY DEF GoalAllowed
  <2> QED
    BY <1>1, <2>1 DEF GoalCommand, ActivateGoal, SatisfyGoal, CloseGoalUnsatisfied, CancelGoal
<1>2. ASSUME NEW t \in Tasks, TaskCommand(t, v)
      PROVE  \E s \in DOMAIN TaskAllowed : SaveTask(t, s, v)
  <2>1. {"READY", "IN_PROGRESS", "COMPLETED", "FAILED", "CANCELLED"} \subseteq DOMAIN TaskAllowed
    BY DEF TaskAllowed
  <2> QED
    BY <1>2, <2>1 DEF TaskCommand, ReadyTask, StartTask, CompleteTask, FailTask, CancelTask
<1>3. ASSUME NEW e \in Executions, ExecutionCommand(e, v)
      PROVE  \E s \in DOMAIN ExecutionAllowed : SaveExecution(e, s, v)
  <2>1. {"RUNNING", "WAITING", "SUCCEEDED", "FAILED", "CANCELLED"} \subseteq DOMAIN ExecutionAllowed
    BY DEF ExecutionAllowed
  <2> QED
    BY <1>3, <2>1 DEF ExecutionCommand, StartExecution, WaitExecution, SucceedExecution,
                      FailExecution, CancelExecution
<1>4. ASSUME NEW a \in Attempts, AttemptCommand(a, v)
      PROVE  \E s \in DOMAIN AttemptAllowed : SaveAttempt(a, s, v)
  <2>1. {"RUNNING", "SUCCEEDED", "FAILED", "CANCELLED"} \subseteq DOMAIN AttemptAllowed
    BY DEF AttemptAllowed
  <2> QED
    BY <1>4, <2>1 DEF AttemptCommand, StartTaskAttempt, SucceedTaskAttempt, FailTaskAttempt,
                      CancelTaskAttempt
<1>5. ASSUME NEW g \in Goals, NEW s \in DOMAIN GoalAllowed, SaveGoal(g, s, v)
      PROVE  /\ goals[g].status # Absent /\ goals[g].version = v /\ v < MaxVersion
             /\ goals'[g].status # Absent /\ goals'[g].version = v + 1
             /\ UNCHANGED <<tasks, executions, attempts>>
             /\ \A h \in Goals : h # g => goals'[h] = goals[h]
  <2>1. goals[g].status \in DOMAIN GoalAllowed /\ s \in GoalAllowed[goals[g].status]
    BY <1>5 DEF SaveGoal, CanSave, GoalType
  <2>2. goals[g].status # Absent /\ s # Absent
    BY <2>1, TablesAreFinal
  <2>3. goals[g] \in GoalType /\ goals'[g] = Saved(goals[g], s)
    BY <1>5, SavedGoal DEF SaveGoal
  <2> QED
    BY <1>5, <2>2, <2>3, SavedGoal, SavedVersion DEF SaveGoal, CanSave
<1>6. ASSUME NEW t \in Tasks, NEW s \in DOMAIN TaskAllowed, SaveTask(t, s, v)
      PROVE  /\ tasks[t].status # Absent /\ tasks[t].version = v /\ v < MaxVersion
             /\ tasks'[t].status # Absent /\ tasks'[t].version = v + 1
             /\ UNCHANGED <<goals, executions, attempts>>
             /\ \A h \in Tasks : h # t => tasks'[h] = tasks[h]
  <2>1. tasks[t].status \in DOMAIN TaskAllowed /\ s \in TaskAllowed[tasks[t].status]
    BY <1>6 DEF SaveTask, CanSave, TaskType
  <2>2. tasks[t].status # Absent /\ s # Absent
    BY <2>1, TablesAreFinal
  <2>3. tasks[t] \in TaskType /\ tasks'[t] = Saved(tasks[t], s)
    BY <1>6, SavedTask DEF SaveTask
  <2> QED
    BY <1>6, <2>2, <2>3, SavedTask, SavedVersion DEF SaveTask, CanSave
<1>7. ASSUME NEW e \in Executions, NEW s \in DOMAIN ExecutionAllowed, SaveExecution(e, s, v)
      PROVE  /\ executions[e].status # Absent /\ executions[e].version = v /\ v < MaxVersion
             /\ executions'[e].status # Absent /\ executions'[e].version = v + 1
             /\ UNCHANGED <<goals, tasks, attempts>>
             /\ \A h \in Executions : h # e => executions'[h] = executions[h]
  <2>1. executions[e].status \in DOMAIN ExecutionAllowed
        /\ s \in ExecutionAllowed[executions[e].status]
    BY <1>7 DEF SaveExecution, CanSave, ExecutionType
  <2>2. executions[e].status # Absent /\ s # Absent
    BY <2>1, TablesAreFinal
  <2>3. executions[e] \in ExecutionType /\ executions'[e] = Saved(executions[e], s)
    BY <1>7, SavedExecution DEF SaveExecution
  <2> QED
    BY <1>7, <2>2, <2>3, SavedExecution, SavedVersion DEF SaveExecution, CanSave
<1>8. ASSUME NEW a \in Attempts, NEW s \in DOMAIN AttemptAllowed, SaveAttempt(a, s, v)
      PROVE  /\ attempts[a].status # Absent /\ attempts[a].version = v /\ v < MaxVersion
             /\ attempts'[a].status # Absent /\ attempts'[a].version = v + 1
             /\ UNCHANGED <<goals, tasks, executions>>
             /\ \A h \in Attempts : h # a => attempts'[h] = attempts[h]
  <2>1. attempts[a].status \in DOMAIN AttemptAllowed /\ s \in AttemptAllowed[attempts[a].status]
    BY <1>8 DEF SaveAttempt, CanSave, AttemptType
  <2>2. attempts[a].status # Absent /\ s # Absent
    BY <2>1, TablesAreFinal
  <2>3. attempts[a] \in AttemptType /\ attempts'[a] = Saved(attempts[a], s)
    BY <1>8, SavedAttempt DEF SaveAttempt
  <2> QED
    BY <1>8, <2>2, <2>3, SavedAttempt, SavedVersion DEF SaveAttempt, CanSave
<1> QED
  BY <1>1, <1>2, <1>3, <1>4, <1>5, <1>6, <1>7, <1>8

\* Whatever the callers do, the entities see a command or nothing.
LEMMA CallersCommand ==
  ASSUME TypeOK, [CallersNext]_callerVars
  PROVE  [Next]_vars
<1>1. ASSUME NEW c \in Callers, Command(c) PROVE Next
  <2> DEFINE v == snapshot[c].version
  <2>1. ASSUME NEW n, n < MaxVersion, n \in Nat PROVE n \in Versions
    BY <2>1, DomainAssumption DEF Versions, DomainAssumption
  <2>2. ASSUME NEW g \in Goals, GoalCommand(g, v) PROVE v \in Versions
    <3>1. goals[g].version = v /\ v < MaxVersion
      BY <2>2, CommandIsSave
    <3>2. goals[g].version \in Nat
      BY DEF TypeOK, GoalType
    <3> QED
      BY <2>1, <3>1, <3>2
  <2>3. ASSUME NEW t \in Tasks, TaskCommand(t, v) PROVE v \in Versions
    <3>1. tasks[t].version = v /\ v < MaxVersion
      BY <2>3, CommandIsSave
    <3>2. tasks[t].version \in Nat
      BY DEF TypeOK, TaskType
    <3> QED
      BY <2>1, <3>1, <3>2
  <2>4. ASSUME NEW e \in Executions, ExecutionCommand(e, v) PROVE v \in Versions
    <3>1. executions[e].version = v /\ v < MaxVersion
      BY <2>4, CommandIsSave
    <3>2. executions[e].version \in Nat
      BY DEF TypeOK, ExecutionType
    <3> QED
      BY <2>1, <3>1, <3>2
  <2>5. ASSUME NEW a \in Attempts, AttemptCommand(a, v) PROVE v \in Versions
    <3>1. attempts[a].version = v /\ v < MaxVersion
      BY <2>5, CommandIsSave
    <3>2. attempts[a].version \in Nat
      BY DEF TypeOK, AttemptType
    <3> QED
      BY <2>1, <3>1, <3>2
  <2> QED
    BY <1>1, <2>2, <2>3, <2>4, <2>5 DEF Command, Next
<1>2. ASSUME NEW c \in Callers, Read(c) PROVE UNCHANGED vars
  BY <1>2 DEF Read
<1>3. CASE UNCHANGED callerVars
  BY <1>3 DEF callerVars
<1> QED
  BY <1>1, <1>2, <1>3 DEF CallersNext, Next

\* A stored entity that changes gets the next version.
Moved(old, new) ==
  old.status # Absent => new.status # Absent /\ (new = old \/ new.version = old.version + 1)

LEMMA EntitiesMove ==
  ASSUME TypeOK, [Next]_vars
  PROVE  /\ \A g \in Goals : Moved(goals[g], goals'[g])
         /\ \A t \in Tasks : Moved(tasks[t], tasks'[t])
         /\ \A e \in Executions : Moved(executions[e], executions'[e])
         /\ \A a \in Attempts : Moved(attempts[a], attempts'[a])
<1> USE DEF TypeOK, Moved
<1>1. CASE GoalSave
  <2>1. PICK g \in Goals, s \in DOMAIN GoalAllowed, v \in Versions : SaveGoal(g, s, v)
    BY <1>1 DEF GoalSave
  <2>2. s # Absent
    BY <2>1, TablesAreFinal DEF SaveGoal, CanSave, GoalType
  <2> QED
    BY <2>1, <2>2, SavedGoal, SavedVersion DEF SaveGoal
<1>2. CASE TaskSave
  <2>1. PICK t \in Tasks, s \in DOMAIN TaskAllowed, v \in Versions : SaveTask(t, s, v)
    BY <1>2 DEF TaskSave
  <2>2. s # Absent
    BY <2>1, TablesAreFinal DEF SaveTask, CanSave, TaskType
  <2> QED
    BY <2>1, <2>2, SavedTask, SavedVersion DEF SaveTask
<1>3. CASE ExecutionSave
  <2>1. PICK e \in Executions, s \in DOMAIN ExecutionAllowed, v \in Versions : SaveExecution(e, s, v)
    BY <1>3 DEF ExecutionSave
  <2>2. s # Absent
    BY <2>1, TablesAreFinal DEF SaveExecution, CanSave, ExecutionType
  <2> QED
    BY <2>1, <2>2, SavedExecution, SavedVersion DEF SaveExecution
<1>4. CASE AttemptSave
  <2>1. PICK a \in Attempts, s \in DOMAIN AttemptAllowed, v \in Versions : SaveAttempt(a, s, v)
    BY <1>4 DEF AttemptSave
  <2>2. s # Absent
    BY <2>1, TablesAreFinal DEF SaveAttempt, CanSave, AttemptType
  <2> QED
    BY <2>1, <2>2, SavedAttempt, SavedVersion DEF SaveAttempt
<1>5. CASE Create
  BY <1>5 DEF Create, CreateWorkspace, CreateGoal, CreateTask, CreateExecution, CreateTaskAttempt
<1>6. CASE UNCHANGED vars
  BY <1>6 DEF vars
<1> QED
  BY <1>1, <1>2, <1>3, <1>4, <1>5, <1>6, CommandsSave

-----------------------------------------------------------------------------
\* A snapshot of an entity is not newer than it, as new only with its status, and older
\* if somebody changed the entity since.
Seen(c, kind, id, entity) ==
  Holds(c, kind, id) =>
    /\ entity.status # Absent
    /\ snapshot[c].version \in Nat /\ snapshot[c].version <= entity.version
    /\ snapshot[c].version = entity.version => snapshot[c].status = entity.status
    /\ c \in outdated => snapshot[c].version < entity.version

SeenBy(c) ==
  /\ \A g \in Goals : Seen(c, "goal", g, goals[g])
  /\ \A t \in Tasks : Seen(c, "task", t, tasks[t])
  /\ \A e \in Executions : Seen(c, "execution", e, executions[e])
  /\ \A a \in Attempts : Seen(c, "attempt", a, attempts[a])

SnapshotInv == DOMAIN snapshot = Callers /\ \A c \in Callers : SeenBy(c)

\* Whoever becomes outdated holds an entity that has just got a new version.
LEMMA OthersBecomeOutdated ==
  ASSUME TypeOK, [CallersNext]_callerVars, NEW c \in Callers, c \in outdated', c \notin outdated
  PROVE  /\ \A g \in Goals : Holds(c, "goal", g) => goals'[g].version = goals[g].version + 1
         /\ \A t \in Tasks : Holds(c, "task", t) => tasks'[t].version = tasks[t].version + 1
         /\ \A e \in Executions :
              Holds(c, "execution", e) => executions'[e].version = executions[e].version + 1
         /\ \A a \in Attempts :
              Holds(c, "attempt", a) => attempts'[a].version = attempts[a].version + 1
<1>1. PICK d \in Callers : Command(d)
  BY DEF CallersNext, callerVars, Read
<1>2. Holds(c, snapshot[d].kind, snapshot[d].id)
  BY <1>1 DEF Command
<1>3. ASSUME NEW g \in Goals, Holds(d, "goal", g), GoalCommand(g, snapshot[d].version)
      PROVE  Holds(c, "goal", g) /\ goals'[g].version = goals[g].version + 1
  BY <1>2, <1>3, CommandIsSave DEF Holds
<1>4. ASSUME NEW t \in Tasks, Holds(d, "task", t), TaskCommand(t, snapshot[d].version)
      PROVE  Holds(c, "task", t) /\ tasks'[t].version = tasks[t].version + 1
  BY <1>2, <1>4, CommandIsSave DEF Holds
<1>5. ASSUME NEW e \in Executions, Holds(d, "execution", e),
             ExecutionCommand(e, snapshot[d].version)
      PROVE  Holds(c, "execution", e) /\ executions'[e].version = executions[e].version + 1
  BY <1>2, <1>5, CommandIsSave DEF Holds
<1>6. ASSUME NEW a \in Attempts, Holds(d, "attempt", a), AttemptCommand(a, snapshot[d].version)
      PROVE  Holds(c, "attempt", a) /\ attempts'[a].version = attempts[a].version + 1
  BY <1>2, <1>6, CommandIsSave DEF Holds
<1>7. \A k, l, i, j : Holds(c, k, i) /\ Holds(c, l, j) => k = l /\ i = j
  BY DEF Holds
<1>8. \/ \E g \in Goals : Holds(d, "goal", g) /\ GoalCommand(g, snapshot[d].version)
      \/ \E t \in Tasks : Holds(d, "task", t) /\ TaskCommand(t, snapshot[d].version)
      \/ \E e \in Executions :
           Holds(d, "execution", e) /\ ExecutionCommand(e, snapshot[d].version)
      \/ \E a \in Attempts : Holds(d, "attempt", a) /\ AttemptCommand(a, snapshot[d].version)
  BY <1>1 DEF Command
<1> QED
  BY <1>3, <1>4, <1>5, <1>6, <1>7, <1>8

\* What a caller does not look at again grows old with its entity.
LEMMA SnapshotsAge ==
  ASSUME NEW c, NEW kind, NEW id, NEW old, NEW new, Seen(c, kind, id, old), Moved(old, new),
         old.version \in Nat, snapshot'[c] = snapshot[c],
         c \in outdated' /\ c \notin outdated /\ Holds(c, kind, id) =>
           new.version = old.version + 1
  PROVE  Holds(c, kind, id)' =>
           /\ new.status # Absent
           /\ snapshot'[c].version \in Nat /\ snapshot'[c].version <= new.version
           /\ snapshot'[c].version = new.version => snapshot'[c].status = new.status
           /\ c \in outdated' => snapshot'[c].version < new.version
BY DEF Seen, Moved, Holds

\* The caller that moves has read or saved one stored entity and is up to date with it.
LEMMA CallersRemember ==
  ASSUME TypeOK, [CallersNext]_callerVars, snapshot' # snapshot
  PROVE  \E d \in Callers :
           /\ d \notin outdated'
           /\ \/ \E g \in Goals : Remember(d, "goal", g, goals'[g]) /\ goals'[g].status # Absent
              \/ \E t \in Tasks : Remember(d, "task", t, tasks'[t]) /\ tasks'[t].status # Absent
              \/ \E e \in Executions :
                   Remember(d, "execution", e, executions'[e]) /\ executions'[e].status # Absent
              \/ \E a \in Attempts :
                   Remember(d, "attempt", a, attempts'[a]) /\ attempts'[a].status # Absent
<1>1. PICK d \in Callers : Read(d) \/ Command(d)
  BY DEF CallersNext, callerVars
<1>2. CASE Read(d)
  BY <1>2 DEF Read, vars
<1>3. CASE Command(d)
  <2>1. d \notin outdated'
    BY <1>3 DEF Command
  <2>2. ASSUME NEW g \in Goals, GoalCommand(g, snapshot[d].version)
        PROVE  goals'[g].status # Absent
    BY <2>2, CommandIsSave
  <2>3. ASSUME NEW t \in Tasks, TaskCommand(t, snapshot[d].version)
        PROVE  tasks'[t].status # Absent
    BY <2>3, CommandIsSave
  <2>4. ASSUME NEW e \in Executions, ExecutionCommand(e, snapshot[d].version)
        PROVE  executions'[e].status # Absent
    BY <2>4, CommandIsSave
  <2>5. ASSUME NEW a \in Attempts, AttemptCommand(a, snapshot[d].version)
        PROVE  attempts'[a].status # Absent
    BY <2>5, CommandIsSave
  <2> QED
    BY <1>3, <2>1, <2>2, <2>3, <2>4, <2>5 DEF Command
<1> QED
  BY <1>1, <1>2, <1>3

LEMMA SnapshotsKept ==
  ASSUME TypeOK, SnapshotInv, [CallersNext]_callerVars
  PROVE  SnapshotInv'
<1>1. [Next]_vars
  BY CallersCommand
<1>2. TypeOK'
  BY <1>1, TypeKept
<1>3. /\ \A g \in Goals : Moved(goals[g], goals'[g]) /\ goals[g].version \in Nat
                            /\ goals'[g].version \in Nat
      /\ \A t \in Tasks : Moved(tasks[t], tasks'[t]) /\ tasks[t].version \in Nat
                            /\ tasks'[t].version \in Nat
      /\ \A e \in Executions : Moved(executions[e], executions'[e])
                            /\ executions[e].version \in Nat /\ executions'[e].version \in Nat
      /\ \A a \in Attempts : Moved(attempts[a], attempts'[a])
                            /\ attempts[a].version \in Nat /\ attempts'[a].version \in Nat
  <2>1. /\ \A g \in Goals : Moved(goals[g], goals'[g])
        /\ \A t \in Tasks : Moved(tasks[t], tasks'[t])
        /\ \A e \in Executions : Moved(executions[e], executions'[e])
        /\ \A a \in Attempts : Moved(attempts[a], attempts'[a])
    BY <1>1, EntitiesMove
  <2>2. \A g \in Goals : goals[g].version \in Nat /\ goals'[g].version \in Nat
    BY <1>2 DEF TypeOK, GoalType
  <2>3. \A t \in Tasks : tasks[t].version \in Nat /\ tasks'[t].version \in Nat
    BY <1>2 DEF TypeOK, TaskType
  <2>4. \A e \in Executions : executions[e].version \in Nat /\ executions'[e].version \in Nat
    BY <1>2 DEF TypeOK, ExecutionType
  <2>5. \A a \in Attempts : attempts[a].version \in Nat /\ attempts'[a].version \in Nat
    BY <1>2 DEF TypeOK, AttemptType
  <2> QED
    BY <2>1, <2>2, <2>3, <2>4, <2>5
<1>4. ASSUME NEW c \in Callers, snapshot'[c] = snapshot[c]
      PROVE  SeenBy(c)'
  <2>1. \A g \in Goals : Seen(c, "goal", g, goals[g])'
    BY <1>3, <1>4, SnapshotsAge, OthersBecomeOutdated DEF SnapshotInv, SeenBy, Seen
  <2>2. \A t \in Tasks : Seen(c, "task", t, tasks[t])'
    BY <1>3, <1>4, SnapshotsAge, OthersBecomeOutdated DEF SnapshotInv, SeenBy, Seen
  <2>3. \A e \in Executions : Seen(c, "execution", e, executions[e])'
    BY <1>3, <1>4, SnapshotsAge, OthersBecomeOutdated DEF SnapshotInv, SeenBy, Seen
  <2>4. \A a \in Attempts : Seen(c, "attempt", a, attempts[a])'
    BY <1>3, <1>4, SnapshotsAge, OthersBecomeOutdated DEF SnapshotInv, SeenBy, Seen
  <2> QED
    BY <2>1, <2>2, <2>3, <2>4 DEF SeenBy
<1>5. ASSUME NEW d \in Callers, NEW k, NEW i, NEW entity, Remember(d, k, i, entity)
      PROVE  /\ DOMAIN snapshot' = Callers
             /\ \A c \in Callers : c # d => SeenBy(c)'
             /\ \A kind, id : Holds(d, kind, id)' => kind = k /\ id = i
             /\ snapshot'[d].version = entity.version /\ snapshot'[d].status = entity.status
  <2>1. /\ DOMAIN snapshot' = Callers
        /\ \A c \in Callers : c # d => snapshot'[c] = snapshot[c]
        /\ snapshot'[d] = [kind |-> k, id |-> i, version |-> entity.version,
                           status |-> entity.status]
    BY <1>5 DEF Remember, SnapshotOf, SnapshotInv
  <2> QED
    BY <1>4, <2>1 DEF Holds
<1>6. ASSUME NEW d \in Callers, NEW g \in Goals,
             Remember(d, "goal", g, goals'[g]), goals'[g].status # Absent, d \notin outdated'
      PROVE  SnapshotInv'
  <2>1. \A kind, id : Holds(d, kind, id)' => kind = "goal" /\ id = g
    BY <1>5, <1>6
  <2>2. DOMAIN snapshot' = Callers /\ \A c \in Callers : c # d => SeenBy(c)'
    BY <1>5, <1>6
  <2>3. snapshot'[d].version = goals'[g].version /\ snapshot'[d].status = goals'[g].status
    BY <1>5, <1>6
  <2>4. SeenBy(d)'
    BY <1>3, <1>6, <2>1, <2>3 DEF SeenBy, Seen
  <2> QED
    BY <2>2, <2>4 DEF SnapshotInv
<1>7. ASSUME NEW d \in Callers, NEW t \in Tasks,
             Remember(d, "task", t, tasks'[t]), tasks'[t].status # Absent, d \notin outdated'
      PROVE  SnapshotInv'
  <2>1. \A kind, id : Holds(d, kind, id)' => kind = "task" /\ id = t
    BY <1>5, <1>7
  <2>2. DOMAIN snapshot' = Callers /\ \A c \in Callers : c # d => SeenBy(c)'
    BY <1>5, <1>7
  <2>3. snapshot'[d].version = tasks'[t].version /\ snapshot'[d].status = tasks'[t].status
    BY <1>5, <1>7
  <2>4. SeenBy(d)'
    BY <1>3, <1>7, <2>1, <2>3 DEF SeenBy, Seen
  <2> QED
    BY <2>2, <2>4 DEF SnapshotInv
<1>8. ASSUME NEW d \in Callers, NEW e \in Executions,
             Remember(d, "execution", e, executions'[e]), executions'[e].status # Absent, d \notin outdated'
      PROVE  SnapshotInv'
  <2>1. \A kind, id : Holds(d, kind, id)' => kind = "execution" /\ id = e
    BY <1>5, <1>8
  <2>2. DOMAIN snapshot' = Callers /\ \A c \in Callers : c # d => SeenBy(c)'
    BY <1>5, <1>8
  <2>3. snapshot'[d].version = executions'[e].version /\ snapshot'[d].status = executions'[e].status
    BY <1>5, <1>8
  <2>4. SeenBy(d)'
    BY <1>3, <1>8, <2>1, <2>3 DEF SeenBy, Seen
  <2> QED
    BY <2>2, <2>4 DEF SnapshotInv
<1>9. ASSUME NEW d \in Callers, NEW a \in Attempts,
             Remember(d, "attempt", a, attempts'[a]), attempts'[a].status # Absent, d \notin outdated'
      PROVE  SnapshotInv'
  <2>1. \A kind, id : Holds(d, kind, id)' => kind = "attempt" /\ id = a
    BY <1>5, <1>9
  <2>2. DOMAIN snapshot' = Callers /\ \A c \in Callers : c # d => SeenBy(c)'
    BY <1>5, <1>9
  <2>3. snapshot'[d].version = attempts'[a].version /\ snapshot'[d].status = attempts'[a].status
    BY <1>5, <1>9
  <2>4. SeenBy(d)'
    BY <1>3, <1>9, <2>1, <2>3 DEF SeenBy, Seen
  <2> QED
    BY <2>2, <2>4 DEF SnapshotInv
<1>10. CASE snapshot' = snapshot
  BY <1>4, <1>10 DEF SnapshotInv
<1> QED
  BY <1>6, <1>7, <1>8, <1>9, <1>10, CallersRemember

\* What is created was absent; nothing else changes.
LEMMA CreationIsNoUpdate ==
  ASSUME TypeOK, Create
  PROVE  /\ \A g \in Goals : goals[g].status # Absent => goals'[g] = goals[g]
         /\ \A t \in Tasks : tasks[t].status # Absent => tasks'[t] = tasks[t]
         /\ \A e \in Executions : executions[e].status # Absent => executions'[e] = executions[e]
         /\ \A a \in Attempts : attempts[a].status # Absent => attempts'[a] = attempts[a]
<1> USE DEF TypeOK
<1>1. ASSUME NEW w \in Workspaces, CreateWorkspace(w)
      PROVE  UNCHANGED <<goals, tasks, executions, attempts>>
  BY <1>1 DEF CreateWorkspace
<1>2. ASSUME NEW w \in Workspaces, NEW g \in Goals, CreateGoal(g, w)
      PROVE  /\ \A h \in Goals : goals[h].status # Absent => goals'[h] = goals[h]
             /\ UNCHANGED <<tasks, executions, attempts>>
  BY <1>2 DEF CreateGoal
<1>3. ASSUME NEW w \in Workspaces, NEW t \in Tasks, NEW g \in Goals, CreateTask(t, w, g)
      PROVE  /\ \A h \in Tasks : tasks[h].status # Absent => tasks'[h] = tasks[h]
             /\ UNCHANGED <<goals, executions, attempts>>
  BY <1>3 DEF CreateTask
<1>4. ASSUME NEW w \in Workspaces, NEW e \in Executions, NEW g \in Goals, NEW b \in Bounds,
             NEW r \in Executions \cup {None}, CreateExecution(e, w, g, b, r)
      PROVE  /\ \A h \in Executions : executions[h].status # Absent =>
                                          executions'[h] = executions[h]
             /\ UNCHANGED <<goals, tasks, attempts>>
  BY <1>4 DEF CreateExecution
<1>5. ASSUME NEW w \in Workspaces, NEW a \in Attempts, NEW t \in Tasks, NEW e \in Executions,
             CreateTaskAttempt(a, w, t, e)
      PROVE  /\ \A h \in Attempts : attempts[h].status # Absent => attempts'[h] = attempts[h]
             /\ UNCHANGED <<goals, tasks, executions>>
  BY <1>5 DEF CreateTaskAttempt
<1> HIDE DEF TypeOK
<1> QED
  BY <1>1, <1>2, <1>3, <1>4, <1>5 DEF Create

\* Whoever changes a stored entity knows it as it is: in its version, in its status, and
\* with no change by anybody else since it was read (DOMAIN_MODEL invariant 18, the
\* expected versions of service.py and of the store).
THEOREM UpdatesAreSeen == CallersSpec => NoLostUpdate
<1>1. CallersInit => TypeOK /\ SnapshotInv
  <2>1. CallersInit => TypeOK
    BY TypeInitially DEF CallersInit
  <2>2. CallersInit => SnapshotInv
    BY DEF CallersInit, SnapshotInv, SeenBy, Seen, Holds, NoSnapshot
  <2> QED
    BY <2>1, <2>2
<1>2. TypeOK /\ SnapshotInv /\ [CallersNext]_callerVars => TypeOK' /\ SnapshotInv'
  BY SnapshotsKept, CallersCommand, TypeKept
<1> DEFINE
  Known == /\ \A g \in Goals :
                goals[g].status # Absent /\ goals'[g] # goals[g] =>
                  ActorKnew("goal", g, goals[g])
           /\ \A t \in Tasks :
                tasks[t].status # Absent /\ tasks'[t] # tasks[t] =>
                  ActorKnew("task", t, tasks[t])
           /\ \A e \in Executions :
                executions[e].status # Absent /\ executions'[e] # executions[e] =>
                  ActorKnew("execution", e, executions[e])
           /\ \A a \in Attempts :
                attempts[a].status # Absent /\ attempts'[a] # attempts[a] =>
                  ActorKnew("attempt", a, attempts[a])
<1>3. ASSUME TypeOK, SnapshotInv, [CallersNext]_callerVars
      PROVE  Known
  <2>1. CASE UNCHANGED vars
    BY <2>1 DEF vars
  <2>2. CASE Create
    BY <1>3, <2>2, CreationIsNoUpdate
  <2>3. ASSUME NEW c \in Callers, NEW kind, NEW id, NEW entity,
               Holds(c, kind, id), Seen(c, kind, id, entity),
               entity.version = snapshot[c].version, entity.version \in Nat, actor' = c
        PROVE  ActorKnew(kind, id, entity)
    BY <2>3 DEF ActorKnew, Seen
  <2>4. ASSUME NEW c \in Callers, Command(c)
        PROVE  Known
    <3> DEFINE v == snapshot[c].version
    <3>1. SeenBy(c) /\ actor' = c
      BY <1>3, <2>4 DEF SnapshotInv, Command
    <3>2. ASSUME NEW g \in Goals, Holds(c, "goal", g), GoalCommand(g, v)
          PROVE  Known
      <4>1. goals[g].version = v /\ goals[g].version \in Nat
        BY <1>3, <3>2, CommandIsSave DEF TypeOK, GoalType
      <4>2. ActorKnew("goal", g, goals[g])
        BY <2>3, <3>1, <3>2, <4>1 DEF SeenBy
      <4> QED
        BY <1>3, <3>2, <4>2, CommandIsSave
    <3>3. ASSUME NEW t \in Tasks, Holds(c, "task", t), TaskCommand(t, v)
          PROVE  Known
      <4>1. tasks[t].version = v /\ tasks[t].version \in Nat
        BY <1>3, <3>3, CommandIsSave DEF TypeOK, TaskType
      <4>2. ActorKnew("task", t, tasks[t])
        BY <2>3, <3>1, <3>3, <4>1 DEF SeenBy
      <4> QED
        BY <1>3, <3>3, <4>2, CommandIsSave
    <3>4. ASSUME NEW e \in Executions, Holds(c, "execution", e), ExecutionCommand(e, v)
          PROVE  Known
      <4>1. executions[e].version = v /\ executions[e].version \in Nat
        BY <1>3, <3>4, CommandIsSave DEF TypeOK, ExecutionType
      <4>2. ActorKnew("execution", e, executions[e])
        BY <2>3, <3>1, <3>4, <4>1 DEF SeenBy
      <4> QED
        BY <1>3, <3>4, <4>2, CommandIsSave
    <3>5. ASSUME NEW a \in Attempts, Holds(c, "attempt", a), AttemptCommand(a, v)
          PROVE  Known
      <4>1. attempts[a].version = v /\ attempts[a].version \in Nat
        BY <1>3, <3>5, CommandIsSave DEF TypeOK, AttemptType
      <4>2. ActorKnew("attempt", a, attempts[a])
        BY <2>3, <3>1, <3>5, <4>1 DEF SeenBy
      <4> QED
        BY <1>3, <3>5, <4>2, CommandIsSave
    <3> HIDE DEF Known
    <3> QED
      BY <2>4, <3>2, <3>3, <3>4, <3>5 DEF Command
  <2>5. ASSUME NEW c \in Callers, Read(c) PROVE UNCHANGED vars
    BY <2>5 DEF Read
  <2>6. UNCHANGED callerVars => UNCHANGED vars
    BY DEF callerVars
  <2> HIDE DEF Known
  <2> QED
    BY <1>3, <2>1, <2>2, <2>4, <2>5, <2>6 DEF CallersNext
<1>4. TypeOK /\ SnapshotInv /\ [CallersNext]_callerVars => [Known]_callerVars
  BY <1>3
<1> QED
  BY <1>1, <1>2, <1>4, PTL DEF CallersSpec, NoLostUpdate

=============================================================================
