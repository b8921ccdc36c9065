---------------------------- MODULE Orchestration ----------------------------
(***************************************************************************)
(* One OrchestrationRun over one Goal: planning, materialization,          *)
(* delegation, child runs and their reconciliation, as application/        *)
(* orchestration.py (OrchestrationService) coordinates them.               *)
(*                                                                         *)
(* A child AgentRun is reduced to what GovernedExecution lets its parents  *)
(* see: it succeeds, fails, waits or is resumed, with the effect its       *)
(* runtime has on attempt, task and execution.  The attempt of a child is  *)
(* running exactly while the child is.  A logical task of a plan and the   *)
(* canonical Task made from it are one identifier: lineage is one to one.  *)
(* The expected versions of the commands are left out: a stale command is  *)
(* refused and changes nothing.                                            *)
(***************************************************************************)
EXTENDS Lifecycles, Integers, FiniteSets, Sequences

CONSTANTS
  Tasks,        \* logical task identifiers a planner may use
  Required,     \* those a proposal marks as required
  Agents,       \* agent definitions the selector may choose
  Proposals,    \* valid plans: functions from task to its dependencies
  MaxReplans, MaxIterations, MaxWidth, MaxAgentRuns, MaxFailed,
  MaxRetries, MaxRedelegations,          \* OrchestrationPolicy
  OperatorMayCancel,                     \* canonical entities cancelled from outside
  MaxPlanners, MaxApprovals,             \* bounds of the model: replans in flight,
                                         \* resumptions of approvals in flight, and the
  NamedChildren                          \* first children, whose execution may be named

ASSUME OrchestrationAssumption ==
  /\ IsFiniteSet(Tasks) /\ Required \subseteq Tasks
  /\ \A p \in Proposals : DOMAIN p \subseteq Tasks /\ DOMAIN p # {}
       /\ \A t \in DOMAIN p : p[t] \subseteq DOMAIN p \ {t}
  /\ {MaxReplans, MaxIterations, MaxWidth, MaxAgentRuns, MaxFailed, MaxRetries,
      MaxRedelegations} \subseteq Nat \ {0}
  /\ {MaxPlanners, MaxApprovals, NamedChildren} \subseteq Nat
  /\ OperatorMayCancel \subseteq {"goal", "task", "execution"}

VARIABLES
  orun,          \* OrchestrationRun: status, exec (0: none), replans, failed
  goal,          \* status of the Goal
  plans,         \* accepted PlanVersions in order; the last one is current
  materialized,  \* indexes of the plans that were materialized
  tasks,         \* status of the canonical Task of each logical task
  execs,         \* statuses of the Executions made, in order
  delegations,   \* Delegations in order: task, agent, retry and redelegation ordinals
  children,      \* DelegationAttempts in order: delegation, exec, and of the AgentRun
                 \* status, pending and whether this version was reconciled
  planners,      \* strategy calls in flight: start (0 or 1) and replan
  approving,     \* children whose approval is on its way to the runtime,
  approved,      \* and those it resumed whose call has not come back
  lost           \* history: the planning under way has lost an answer

canon == <<goal, tasks, execs>>
calls == <<planners, approving, approved, lost>>
vars  == <<orun, canon, plans, materialized, delegations, children, calls>>

Init ==
  /\ orun = [status |-> Absent, exec |-> 0, replans |-> 0, failed |-> 0]
  /\ goal = "ACTIVE"
  /\ plans = <<>> /\ materialized = {}
  /\ tasks = [t \in Tasks |-> Absent]
  /\ execs = <<>> /\ delegations = <<>> /\ children = <<>>
  /\ planners = [start |-> 0, replan |-> 0]
  /\ approving = {} /\ approved = {} /\ lost = FALSE

-----------------------------------------------------------------------------
(* What the service derives from its records.                              *)

Ended == {"COMPLETED", "FAILED", "CANCELLED"}
OpenRun == orun.status \notin Ended \cup {Absent}

Plan == plans[Len(plans)]
Current == Len(plans) \in materialized   \* _current finds plan and materialization

TaskOf(c) == delegations[children[c].delegation].task
LiveChild(c) == children[c].status \in {"RUNNING", "WAITING"}
ChildrenOf(d) == {c \in DOMAIN children : children[c].delegation = d}
DelegationsOf(t) == {d \in DOMAIN delegations : delegations[d].task = t}

Last(S) == CHOOSE x \in S : \A y \in S : y <= x
Previous(t) == delegations[Last(DelegationsOf(t))]

\* The last child of the last delegation of a task failed.
LastFailed(t) ==
  LET cs == ChildrenOf(Last(DelegationsOf(t))) IN
  cs # {} /\ children[Last(cs)].status = "FAILED"

\* No attempt yet, or its last one still runs or waits.
ActiveDelegations ==
  {d \in DOMAIN delegations : ChildrenOf(d) = {} \/ LiveChild(Last(ChildrenOf(d)))}

FailedChildren == Cardinality({c \in DOMAIN children : children[c].status = "FAILED"})

\* agent_run_count is raised with every child.
Iterations == Len(children) + orun.replans

\* Mutant: dependencies are looked up in the plan the delegation was made under.
ReadyTasksOfFirstPlan ==
  IF orun.status # "RUNNING" \/ ~Current THEN {}
  ELSE {t \in DOMAIN Plan :
          /\ tasks[t] \in {"PROPOSED", "READY"}
          /\ t \in DOMAIN plans[1] => \A d \in plans[1][t] : tasks[d] = "COMPLETED"}

ReadyTasks ==
  IF orun.status # "RUNNING" \/ ~Current THEN {}
  ELSE {t \in DOMAIN Plan :
          /\ tasks[t] \in {"PROPOSED", "READY"}
          /\ \A d \in Plan[t] : tasks[d] = "COMPLETED"}

-----------------------------------------------------------------------------
(* start and replan: the planner is called outside any transaction.        *)

Start ==
  /\ orun.status = Absent /\ goal = "ACTIVE"
  /\ orun' = [orun EXCEPT !.status = "PLANNING"]
  /\ planners' = [planners EXCEPT !.start = 1]
  /\ UNCHANGED <<canon, plans, materialized, delegations, children, approving, approved, lost>>

Replan ==
  /\ orun.status \in {"RUNNING", "WAITING"}
  /\ Iterations < MaxIterations
  /\ IF orun.replans >= MaxReplans
     THEN orun' = [orun EXCEPT !.status = "WAITING"] /\ UNCHANGED <<planners, lost>>
     ELSE /\ planners.replan < MaxPlanners
          /\ orun' = [orun EXCEPT !.status = "PLANNING"]
          /\ planners' = [planners EXCEPT !.replan = @ + 1]
          /\ lost' = FALSE
  /\ UNCHANGED <<canon, plans, materialized, delegations, children, approving, approved>>

Answered(kind) ==
  /\ planners[kind] > 0
  /\ planners' = [planners EXCEPT ![kind] = @ - 1]
  /\ UNCHANGED <<canon, materialized, delegations, children, approving, approved>>

\* Mutant: a replan may drop tasks of the plan before it.
MayAcceptAnything(kind, p) == goal = "ACTIVE" /\ OpenRun

\* _accept_plan: the goal is as it was asked about and no task is orphaned.
MayAccept(kind, p) ==
  /\ goal = "ACTIVE" /\ OpenRun
  /\ kind = "replan" => /\ plans # <<>> => DOMAIN Plan \subseteq DOMAIN p
                        /\ orun.replans < MaxReplans

PlannerAccepted(kind, p) ==
  /\ Answered(kind)
  /\ MayAccept(kind, p)
  /\ plans' = Append(plans, p)
  /\ orun' = [status |-> "RUNNING", exec |-> orun.exec, failed |-> orun.failed,
              replans |-> orun.replans + (IF kind = "replan" THEN 1 ELSE 0)]
  /\ lost' = FALSE

\* Mutant: replan has no handler for a plan that is rejected.
RejectionEscapes(kind) ==
  /\ Answered(kind)
  /\ orun' = IF OpenRun /\ kind = "start" THEN [orun EXCEPT !.status = "FAILED"] ELSE orun
  /\ UNCHANGED plans /\ lost' = FALSE

\* Timeout, planner error, or a plan refused as invalid or stale: a first plan fails the
\* run, a later one makes it wait; on an ended run the transition itself is refused.
PlannerRefused(kind) ==
  /\ Answered(kind)
  /\ orun' = IF OpenRun
             THEN [orun EXCEPT !.status = IF kind = "start" THEN "FAILED" ELSE "WAITING"]
             ELSE orun
  /\ UNCHANGED plans /\ lost' = FALSE

\* An error nobody handles leaves the run as it is.  replan handles only a DomainError of
\* _accept_plan, so a malformed proposal or a database error at its commit escapes; start
\* handles every error, so here only the commit of the refusal may fail.
PlannerEscapes(kind) ==
  /\ Answered(kind)
  /\ lost' = (orun.status = "PLANNING")
  /\ UNCHANGED <<orun, plans>>

-----------------------------------------------------------------------------
Materialize ==
  /\ orun.status = "RUNNING" /\ plans # <<>> /\ ~Current
  /\ goal = "ACTIVE"
  /\ tasks' = [t \in Tasks |-> IF t \in DOMAIN Plan /\ tasks[t] = Absent
                               THEN "PROPOSED" ELSE tasks[t]]
  /\ materialized' = materialized \cup {Len(plans)}
  /\ IF orun.exec = 0
     THEN /\ execs' = Append(execs, "RUNNING")
          /\ orun' = [orun EXCEPT !.exec = Len(execs) + 1]
     ELSE UNCHANGED <<execs, orun>>
  /\ UNCHANGED <<goal, plans, delegations, children, calls>>

Assign(t, agent, retry, redelegation) ==
  /\ delegations' = Append(delegations, [task |-> t, agent |-> agent, retry |-> retry,
                                         redelegation |-> redelegation])
  /\ UNCHANGED orun

\* no_eligible_agent: the orchestration waits for help.
NobodyEligible ==
  /\ orun' = [orun EXCEPT !.status = "WAITING"]
  /\ UNCHANGED delegations

DelegateInitial(t) ==
  /\ DelegationsOf(t) = {} /\ Cardinality(ActiveDelegations) < MaxWidth
  /\ NobodyEligible \/ \E a \in Agents : Assign(t, a, 0, 0)

DelegateRetry(t) ==
  /\ DelegationsOf(t) # {} /\ Previous(t).retry < MaxRetries /\ LastFailed(t)
  /\ \/ NobodyEligible
     \/ Assign(t, Previous(t).agent, Previous(t).retry + 1, Previous(t).redelegation)

\* Mutant: a redelegation gives the task its retries back.
DelegateAgainAfresh(t) ==
  /\ DelegationsOf(t) # {} /\ Previous(t).redelegation < MaxRedelegations /\ LastFailed(t)
  /\ \/ NobodyEligible
     \/ \E a \in Agents \ {delegations[d].agent : d \in DelegationsOf(t)} :
          Assign(t, a, 0, Previous(t).redelegation + 1)

DelegateAgain(t) ==
  /\ DelegationsOf(t) # {} /\ Previous(t).redelegation < MaxRedelegations /\ LastFailed(t)
  /\ \/ NobodyEligible
     \/ \E a \in Agents \ {delegations[d].agent : d \in DelegationsOf(t)} :
          Assign(t, a, Previous(t).retry, Previous(t).redelegation + 1)

Delegate(t) ==
  /\ t \in ReadyTasks /\ Iterations < MaxIterations
  /\ DelegateInitial(t) \/ DelegateRetry(t) \/ DelegateAgain(t)
  /\ UNCHANGED <<canon, plans, materialized, children, calls>>

\* Mutant: the run budget is checked against the iterations only.
MayStartInIterations(d) ==
  /\ orun.status = "RUNNING" /\ goal = "ACTIVE"
  /\ delegations[d].task \in ReadyTasks
  /\ Iterations < MaxIterations /\ FailedChildren < MaxFailed

MayStart(d) ==
  /\ orun.status = "RUNNING" /\ goal = "ACTIVE"
  /\ delegations[d].task \in ReadyTasks
  /\ Len(children) < MaxAgentRuns /\ FailedChildren < MaxFailed

Child(d, e) == [delegation |-> d, exec |-> e, status |-> "RUNNING", pending |-> FALSE,
                reconciled |-> FALSE]

\* start_delegation: the task starts, with it an attempt and its run, in a running
\* execution: that of the orchestration, which is replaced when it has ended, or one of
\* the goal the caller names (execution_id), perhaps made for it, which replaces nothing.
StartDelegation(d) ==
  /\ MayStart(d)
  /\ \E e \in 1 .. Len(execs) + 1 :
       /\ IF e <= Len(execs) THEN execs[e] = "RUNNING" /\ UNCHANGED execs
          ELSE execs' = Append(execs, "RUNNING")
       /\ \/ (Len(children) < NamedChildren \/ e = orun.exec) /\ UNCHANGED orun
          \/ /\ e > Len(execs) /\ execs[orun.exec] \in Terminal
             /\ orun' = [orun EXCEPT !.exec = e]
       /\ children' = Append(children, Child(d, e))
  /\ tasks' = [tasks EXCEPT ![delegations[d].task] = "IN_PROGRESS"]
  /\ UNCHANGED <<goal, plans, materialized, delegations, calls>>

-----------------------------------------------------------------------------
(* The child's runtime, as its parents see it.                             *)

\* Mutant: the runtime does not look at the task of its run again.
ParentsAreButTask(c, status) ==
  goal = "ACTIVE" /\ execs[children[c].exec] = status

\* _parents of the runtime.
ParentsAre(c, status) ==
  goal = "ACTIVE" /\ tasks[TaskOf(c)] = "IN_PROGRESS" /\ execs[children[c].exec] = status

SetChild(c, status, pending) ==
  children' = [children EXCEPT ![c] = [delegation |-> @.delegation, exec |-> @.exec,
                                       status |-> status, pending |-> pending,
                                       reconciled |-> FALSE]]

SetExec(c, status) == execs' = [execs EXCEPT ![children[c].exec] = status]

\* Mutant: a run that failed leaves its task in progress.
FailedKeepsTask(c, cancel) ==
  LET e == children[c].exec IN
  /\ SetChild(c, IF cancel THEN "CANCELLED" ELSE "FAILED", FALSE)
  /\ tasks' = IF cancel THEN [tasks EXCEPT ![TaskOf(c)] = "CANCELLED"] ELSE tasks
  /\ execs' = IF execs[e] \in {"RUNNING", "WAITING"} THEN [execs EXCEPT ![e] = "FAILED"] ELSE execs

\* AgentRuntimeService._failure
ChildStopped(c, cancel) ==
  LET e         == children[c].exec
      t         == TaskOf(c)
      cancelled == cancel \/ execs[e] = "CANCELLED" \/ tasks[t] = "CANCELLED"
      final     == IF cancelled THEN "CANCELLED" ELSE "FAILED"
  IN /\ SetChild(c, final, FALSE)
     /\ tasks' = IF tasks[t] # "IN_PROGRESS" THEN tasks
                 ELSE [tasks EXCEPT ![t] = IF cancelled THEN final ELSE "READY"]
     /\ execs' = IF execs[e] \in {"RUNNING", "WAITING"} THEN [execs EXCEPT ![e] = final]
                 ELSE execs

ChildFails(c, cancel) ==
  /\ LiveChild(c)
  /\ ChildStopped(c, cancel)
  /\ UNCHANGED <<orun, goal, plans, materialized, delegations, calls>>

\* All canonical tasks of the goal are completed.
AllDone(ts) == \A t \in DOMAIN ts : ts[t] \in {"COMPLETED", Absent}

ChildSucceeds(c) ==
  LET done == [tasks EXCEPT ![TaskOf(c)] = "COMPLETED"] IN
  /\ children[c].status = "RUNNING" /\ ParentsAre(c, "RUNNING")
  /\ SetChild(c, "SUCCEEDED", FALSE)
  /\ tasks' = done
  /\ IF AllDone(done) THEN SetExec(c, "SUCCEEDED") ELSE UNCHANGED execs
  /\ UNCHANGED <<orun, goal, plans, materialized, delegations, calls>>

\* For an approval (pending) or for more context.
ChildWaits(c, pending) ==
  /\ children[c].status = "RUNNING" /\ ParentsAre(c, "RUNNING")
  /\ SetChild(c, "WAITING", pending) /\ SetExec(c, "WAITING")
  /\ UNCHANGED <<orun, goal, tasks, plans, materialized, delegations, calls>>

ChildResumed(c) == SetChild(c, "RUNNING", FALSE) /\ SetExec(c, "RUNNING")

-----------------------------------------------------------------------------
(* resume_delegation and reconciliation                                    *)

MayResume(c) == orun.status = "WAITING" /\ c = Last(ChildrenOf(children[c].delegation))

\* New context: an expired child fails here and is not reconciled.
ResumeContext(c) ==
  /\ MayResume(c) /\ children[c].status = "WAITING" /\ ~children[c].pending
  /\ orun' = [orun EXCEPT !.status = "RUNNING"]
  /\ \/ ParentsAre(c, "WAITING") /\ ChildResumed(c) /\ UNCHANGED tasks
     \/ ChildStopped(c, FALSE)
  /\ UNCHANGED <<goal, plans, materialized, delegations, calls>>

\* An approval: the orchestration runs before the child is known to be resumable.
BeginApproval(c) ==
  /\ MayResume(c) /\ c \notin approving
  /\ Cardinality(approving) + Cardinality(approved) < MaxApprovals
  /\ orun' = [orun EXCEPT !.status = "RUNNING"]
  /\ approving' = approving \cup {c}
  /\ UNCHANGED <<canon, plans, materialized, delegations, children, planners, approved, lost>>

\* resume_intent; the call goes on to dispatch the action and to drive the child.
ApprovalResumes(c) ==
  /\ c \in approving /\ approving' = approving \ {c} /\ approved' = approved \cup {c}
  /\ children[c].status = "WAITING" /\ children[c].pending /\ ParentsAre(c, "WAITING")
  /\ ChildResumed(c)
  /\ UNCHANGED <<orun, goal, tasks, plans, materialized, delegations, planners, lost>>

\* The child is not resumable, or the call raises after it was resumed, whatever became
\* of the child meanwhile (it waits again, it ended, or it is left as it is).
ApprovalRaises(c) ==
  /\ \/ c \in approving /\ approving' = approving \ {c} /\ UNCHANGED approved
     \/ c \in approved /\ approved' = approved \ {c} /\ UNCHANGED approving
  /\ orun' = IF orun.status = "RUNNING" THEN [orun EXCEPT !.status = "WAITING"] ELSE orun
  /\ UNCHANGED <<canon, plans, materialized, delegations, children, planners, lost>>

\* The call comes back; Reconcile is what it does with the child.
ApprovalReturns(c) ==
  /\ c \in approved /\ approved' = approved \ {c}
  /\ UNCHANGED <<orun, canon, plans, materialized, delegations, children, planners, approving,
                 lost>>

Failures == IF orun.failed > FailedChildren THEN orun.failed ELSE FailedChildren

Delivered(t) == \E c \in DOMAIN children : TaskOf(c) = t /\ children[c].status = "SUCCEEDED"

\* Mutant: every task that ended counts.
AllEnded(S) == \A t \in S : tasks[t] \in {"COMPLETED", "FAILED", "CANCELLED"}

AllComplete(S) == \A t \in S : tasks[t] = "COMPLETED"

\* aggregate's draft is complete and so is every materialized task.
Completes == /\ \A t \in DOMAIN Plan \cap Required : Delivered(t)
             /\ AllComplete(DOMAIN Plan)

Accounted(c, status) ==
  /\ orun' = [status |-> status, exec |-> orun.exec, failed |-> Failures,
              replans |-> orun.replans]
  /\ children' = [children EXCEPT ![c].reconciled = TRUE]

\* Once per version of the child.  Completion is refused, and the whole
\* reconciliation with it, unless the run is running and the goal can be satisfied.
Reconcile(c) ==
  LET s      == children[c].status
      status == IF s = "WAITING" \/ Failures >= MaxFailed THEN "WAITING" ELSE orun.status
  IN /\ OpenRun /\ s # "RUNNING" /\ ~children[c].reconciled
     /\ s = "SUCCEEDED" => Current
     /\ IF s = "SUCCEEDED" /\ Completes
        THEN /\ status = "RUNNING" /\ goal = "ACTIVE"
             /\ AllComplete({t \in Tasks : tasks[t] # Absent})
             /\ goal' = "SATISFIED"
             /\ Accounted(c, "COMPLETED")
        ELSE Accounted(c, status) /\ UNCHANGED goal
     /\ UNCHANGED <<tasks, execs, plans, materialized, delegations, calls>>

Cancellable(t) == tasks[t] \in {"PROPOSED", "READY", "BLOCKED"}

Cancel ==
  /\ OpenRun
  /\ tasks' = [t \in Tasks |-> IF Cancellable(t) THEN "CANCELLED" ELSE tasks[t]]
  /\ execs' = [e \in DOMAIN execs |->
                 IF e = orun.exec /\ execs[e] \in {"RUNNING", "WAITING"}
                 THEN "CANCELLED" ELSE execs[e]]
  /\ goal' = IF goal = "ACTIVE" THEN "CANCELLED" ELSE goal
  /\ orun' = [orun EXCEPT !.status = "CANCELLED"]
  /\ UNCHANGED <<plans, materialized, delegations, children, calls>>

-----------------------------------------------------------------------------
(* Operators of the canonical entities, and a crash of the host.           *)

OperatorCancels ==
  /\ \/ /\ "goal" \in OperatorMayCancel /\ goal = "ACTIVE"
        /\ goal' = "CANCELLED" /\ UNCHANGED <<tasks, execs>>
     \/ /\ "task" \in OperatorMayCancel
        /\ \E t \in Tasks : /\ "CANCELLED" \in TaskAllowed[tasks[t]]
                            /\ tasks' = [tasks EXCEPT ![t] = "CANCELLED"]
        /\ UNCHANGED <<goal, execs>>
     \/ /\ "execution" \in OperatorMayCancel
        /\ \E e \in DOMAIN execs : /\ "CANCELLED" \in ExecutionAllowed[execs[e]]
                                   /\ execs' = [execs EXCEPT ![e] = "CANCELLED"]
        /\ UNCHANGED <<goal, tasks>>
  /\ UNCHANGED <<orun, plans, materialized, delegations, children, calls>>

\* Calls in flight are lost, also when their coroutine is cancelled.
Crash ==
  /\ planners.start + planners.replan > 0 \/ approving \cup approved # {}
  /\ planners' = [start |-> 0, replan |-> 0] /\ approving' = {} /\ approved' = {}
  /\ lost' = (orun.status = "PLANNING")
  /\ UNCHANGED <<orun, canon, plans, materialized, delegations, children>>

Kinds == {"start", "replan"}

PlannerAnswers ==
  \E kind \in Kinds :
    \/ PlannerRefused(kind) \/ PlannerEscapes(kind)
    \/ \E p \in Proposals : PlannerAccepted(kind, p)

ChildStep(c) ==
  \/ \E cancel \in BOOLEAN : ChildFails(c, cancel)
  \/ ChildSucceeds(c)
  \/ \E pending \in BOOLEAN : ChildWaits(c, pending)

ApprovalStep(c) == ApprovalResumes(c) \/ ApprovalRaises(c) \/ ApprovalReturns(c)

Next ==
  \/ Start \/ Replan \/ PlannerAnswers \/ Materialize
  \/ \E t \in Tasks : Delegate(t)
  \/ \E d \in DOMAIN delegations : StartDelegation(d)
  \/ \E c \in DOMAIN children :
       \/ ChildStep(c) \/ ResumeContext(c) \/ BeginApproval(c) \/ ApprovalStep(c)
       \/ Reconcile(c)
  \/ Cancel \/ OperatorCancels \/ Crash

Spec == Init /\ [][Next]_vars

\* The planner is called under a timeout: the call ends, unless the host crashes.
FairSpec == Spec /\ WF_vars(PlannerAnswers)

-----------------------------------------------------------------------------
\* A run is COMPLETED together with its goal, and only over finished work: every task
\* of the plan is completed by a child that succeeded, and no child is left alive.
\* _reconcile_result decides it from aggregate, the task statuses and satisfy_goal.
CompletionIsEarned ==
  /\ orun.status = "COMPLETED" <=> goal = "SATISFIED"
  /\ orun.status = "COMPLETED" =>
       /\ \A t \in DOMAIN Plan : tasks[t] = "COMPLETED" /\ Delivered(t)
       /\ ~\E c \in DOMAIN children : LiveChild(c)

\* A task is worked on by one child at a time, and says so: start_delegation and the
\* runtime's completion, failure and wait keep task and child in step, whichever of
\* several executions the child belongs to.
TaskMirrorsChild ==
  \A t \in Tasks :
    LET live == {c \in DOMAIN children : TaskOf(c) = t /\ LiveChild(c)} IN
    /\ Cardinality(live) <= 1
    /\ live # {} => tasks[t] \in {"IN_PROGRESS", "CANCELLED"}
    /\ tasks[t] = "IN_PROGRESS" => live # {}

\* Every assignment of a task after its first spends a retry or a redelegation, in
\* whatever order and whether or not a handoff asked for it, and neither is given back:
\* so there are at most 1 + MaxRetries + MaxRedelegations.  A retry stays with its agent,
\* a redelegation goes to one that never had the task (delegate).
AssignmentsMoveOn ==
  \A t \in Tasks : \A d, e \in DelegationsOf(t) :
    /\ delegations[d].retry <= MaxRetries /\ delegations[d].redelegation <= MaxRedelegations
    /\ d < e => delegations[d].retry + delegations[d].redelegation
                  < delegations[e].retry + delegations[e].redelegation
    /\ delegations[d].agent = delegations[e].agent
         <=> delegations[d].redelegation = delegations[e].redelegation

\* Work is bounded by the policy: no more children than max_agent_runs, and failures
\* beyond max_failed_attempts only of children started before the budget was spent.
WorkIsBounded ==
  /\ Len(children) <= MaxAgentRuns
  /\ FailedChildren < MaxFailed + Cardinality(Tasks)

\* Every canonical task a run made belongs to its latest accepted plan, however
\* replans interleave with materialization (replan_cannot_orphan_canonical_tasks).
NoOrphanTask ==
  \A t \in Tasks : tasks[t] # Absent => plans # <<>> /\ t \in DOMAIN Plan

\* A child starts only after what its task depends on in the plan in force is done,
\* though it was delegated under an earlier plan (ready_tasks in start_delegation).
DependenciesFirst ==
  [][Len(children') > Len(children) =>
       \A d \in Plan[delegations'[children'[Len(children')].delegation].task] :
         tasks[d] = "COMPLETED" /\ Delivered(d)]_vars

\* Planning ends: whatever the planner answers, however late, and whoever moves the run
\* meanwhile, start and replan leave PLANNING.  Not so once an answer of this planning was
\* lost, by a crash or by an error replan does not handle: nothing repairs that.
PlanningEnds == orun.status = "PLANNING" /\ ~lost ~> orun.status # "PLANNING" \/ lost
=============================================================================
