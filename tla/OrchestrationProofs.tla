------------------------- MODULE OrchestrationProofs -------------------------
(***************************************************************************)
(* Theorems about Orchestration, alone and with Handoffs, for every set of *)
(* tasks, agents and plans, and all budgets of the policy.                 *)
(*                                                                         *)
(* Handoffs touch the orchestration in one action only, AcceptHandoff, so  *)
(* each invariant is shown once for a step of Next or an accepted handoff. *)
(***************************************************************************)
EXTENDS Handoffs, OrchestrationRefinement, FiniteSetTheorems, SequenceTheorems, TLAPS

RunRecords ==
  [status : {Absent, "PLANNING", "RUNNING", "WAITING", "COMPLETED", "FAILED", "CANCELLED"},
   exec : Nat, replans : Nat, failed : Nat]

TaskStatuses == {Absent, "PROPOSED", "READY", "IN_PROGRESS", "BLOCKED", "COMPLETED", "FAILED",
                 "CANCELLED"}

ExecStatuses == {"RUNNING", "WAITING", "SUCCEEDED", "FAILED", "CANCELLED"}

DelegationRecords == [task : Tasks, agent : Agents, retry : 0..MaxRetries,
                      redelegation : 0..MaxRedelegations]

ChildRecords == [delegation : Nat \ {0}, exec : Nat,
                 status : {"RUNNING", "WAITING", "SUCCEEDED", "FAILED", "CANCELLED"},
                 pending : BOOLEAN, reconciled : BOOLEAN]

OrchestrationOK ==
  /\ orun \in RunRecords
  /\ goal \in {"ACTIVE", "SATISFIED", "CANCELLED"}
  /\ plans \in Seq(Proposals) /\ materialized \subseteq Nat
  /\ tasks \in [Tasks -> TaskStatuses] /\ execs \in Seq(ExecStatuses)
  /\ delegations \in Seq(DelegationRecords)
  /\ children \in Seq(ChildRecords)
  /\ \A c \in DOMAIN children : children[c].delegation <= Len(delegations)
  /\ planners \in [start : Nat, replan : Nat]

\* A handoff of a child is accepted.
Accepting ==
  \E h \in DOMAIN handoffs, a \in Agents :
    handoffs[h].sender \in DOMAIN children /\ AcceptHandoff(h, a)

-----------------------------------------------------------------------------
\* The last of finitely many.

LEMMA LastIsLatest ==
  ASSUME NEW n \in Nat, NEW S \in SUBSET (1..n), S # {}
  PROVE  Last(S) \in S /\ \A x \in S : x <= Last(S)
<1> DEFINE T == {n - x : x \in S}
<1>1. T \subseteq Nat /\ T # {}
  <2>1. PICK x \in S : TRUE
    OBVIOUS
  <2>2. n - x \in T
    OBVIOUS
  <2>3. T \subseteq Nat
    OBVIOUS
  <2> QED
    BY <2>2, <2>3
<1>2. PICK m \in T : \A y \in T : m <= y
  <2>1. PICK m \in T : \A y \in T : <<y, m>> \notin OpToRel(<, Nat)
    <3> HIDE DEF T
    <3> QED
      BY <1>1, NatLessThanWellFounded, WFMin, Zenon
  <2>2. \A y \in T : y \in Nat /\ m \in Nat /\ ~ (y < m)
    <3> HIDE DEF T
    <3>1. ASSUME NEW y \in T, y < m PROVE <<y, m>> \in OpToRel(<, Nat)
      BY <1>1, <3>1 DEF OpToRel
    <3> QED
      BY <1>1, <2>1, <3>1
  <2> HIDE DEF T
  <2> QED
    BY <2>2
<1>3. PICK x \in S : m = n - x
  OBVIOUS
<1>4. ASSUME NEW y \in S PROVE y <= x
  <2>1. n - y \in T
    OBVIOUS
  <2>2. n - x <= n - y
    BY <1>2, <1>3, <2>1
  <2> QED
    BY <2>2
<1>5. \E z \in S : \A y \in S : y <= z
  BY <1>4
<1> QED
  BY <1>5 DEF Last

-----------------------------------------------------------------------------
\* What the updates do to their sequences.

LEMMA ChildrenHaveTasks ==
  ASSUME OrchestrationOK, NEW c \in DOMAIN children
  PROVE  /\ children[c] \in ChildRecords
         /\ children[c].delegation \in DOMAIN delegations
         /\ TaskOf(c) \in Tasks
         /\ children[c].delegation \in DelegationsOf(TaskOf(c))
<1>1. children[c] \in ChildRecords /\ DOMAIN delegations = 1..Len(delegations)
  BY DEF OrchestrationOK
<1>2. children[c].delegation \in DOMAIN delegations
  BY <1>1 DEF OrchestrationOK, ChildRecords
<1>3. delegations[children[c].delegation] \in DelegationRecords
  BY <1>2 DEF OrchestrationOK
<1> QED
  BY <1>1, <1>2, <1>3 DEF TaskOf, DelegationsOf, DelegationRecords

LEMMA FailuresCount == OrchestrationOK => FailedChildren \in Nat /\ Failures \in Nat
<1> SUFFICES ASSUME OrchestrationOK PROVE FailedChildren \in Nat /\ Failures \in Nat
  OBVIOUS
<1> DEFINE F == {c \in DOMAIN children : children[c].status = "FAILED"}
<1>1. F \in SUBSET (1..Len(children)) /\ IsFiniteSet(1..Len(children))
  <2>1. Len(children) \in Int /\ 1 \in Int /\ DOMAIN children = 1..Len(children)
    BY DEF OrchestrationOK
  <2>2. IsFiniteSet(1..Len(children))
    BY <2>1, FS_Interval
  <2> QED
    BY <2>1, <2>2
<1>2. IsFiniteSet(F)
  <2> HIDE DEF F
  <2> QED
    BY <1>1, FS_Subset
<1>3. Cardinality(F) \in Nat
  <2> HIDE DEF F
  <2> QED
    BY <1>2, FS_CardinalityType
<1> QED
  BY <1>3 DEF FailedChildren, Failures, OrchestrationOK, RunRecords

LEMMA ChildIsSet ==
  ASSUME OrchestrationOK, NEW c \in DOMAIN children,
         NEW s \in {"RUNNING", "WAITING", "SUCCEEDED", "FAILED", "CANCELLED"},
         NEW p \in BOOLEAN, SetChild(c, s, p)
  PROVE  /\ children' \in Seq(ChildRecords) /\ DOMAIN children' = DOMAIN children
         /\ Len(children') = Len(children)
         /\ children'[c].status = s
         /\ \A b \in DOMAIN children :
              /\ children'[b].delegation = children[b].delegation
              /\ b # c => children'[b] = children[b]
<1> DEFINE x == [delegation |-> children[c].delegation, exec |-> children[c].exec,
                 status |-> s, pending |-> p, reconciled |-> FALSE]
<1>1. children[c] \in ChildRecords
  BY DEF OrchestrationOK
<1>2. x \in ChildRecords /\ x.status = s /\ x.delegation = children[c].delegation
  BY <1>1 DEF ChildRecords
<1>3. children' = [children EXCEPT ![c] = x]
  BY DEF SetChild
<1> HIDE DEF x
<1> QED
  BY <1>2, <1>3 DEF OrchestrationOK

LEMMA ChildIsAccounted ==
  ASSUME OrchestrationOK, NEW c \in DOMAIN children, NEW s, Accounted(c, s)
  PROVE  /\ children' \in Seq(ChildRecords) /\ DOMAIN children' = DOMAIN children
         /\ Len(children') = Len(children)
         /\ \A b \in DOMAIN children :
              /\ children'[b].delegation = children[b].delegation
              /\ children'[b].status = children[b].status
<1> DEFINE x == [children[c] EXCEPT !.reconciled = TRUE]
<1>1. children[c] \in ChildRecords
  BY DEF OrchestrationOK
<1>2. /\ x \in ChildRecords /\ x.status = children[c].status
      /\ x.delegation = children[c].delegation
  BY <1>1 DEF ChildRecords
<1>3. children' = [children EXCEPT ![c] = x]
  BY DEF Accounted
<1> HIDE DEF x
<1> QED
  BY <1>2, <1>3 DEF OrchestrationOK

LEMMA ChildIsAdded ==
  ASSUME OrchestrationOK, NEW d \in DOMAIN delegations, NEW e \in Nat,
         children' = Append(children, Child(d, e))
  PROVE  /\ children' \in Seq(ChildRecords) /\ Len(children') = Len(children) + 1
         /\ \A b \in DOMAIN children : children'[b] = children[b]
         /\ children'[Len(children')].delegation = d
         /\ children'[Len(children')].status = "RUNNING"
<1>1. /\ Child(d, e) \in ChildRecords
      /\ Child(d, e).delegation = d /\ Child(d, e).status = "RUNNING"
  BY DEF Child, ChildRecords, OrchestrationOK
<1> HIDE DEF Child
<1> QED
  BY <1>1 DEF OrchestrationOK

LEMMA DelegationIsAdded ==
  ASSUME OrchestrationOK, NEW x \in DelegationRecords, delegations' = Append(delegations, x)
  PROVE  /\ delegations' \in Seq(DelegationRecords) /\ Len(delegations') = Len(delegations) + 1
         /\ DOMAIN delegations' = DOMAIN delegations \cup {Len(delegations) + 1}
         /\ \A d \in DOMAIN delegations : delegations'[d] = delegations[d]
         /\ delegations'[Len(delegations')] = x
BY DEF OrchestrationOK

-----------------------------------------------------------------------------
\* Types.

RunStatuses == {Absent, "PLANNING", "RUNNING", "WAITING", "COMPLETED", "FAILED", "CANCELLED"}

LEMMA RunsEvolve ==
  ASSUME OrchestrationOK
  PROVE  /\ \A s \in RunStatuses : /\ [orun EXCEPT !.status = s] \in RunRecords
                                   /\ [orun EXCEPT !.status = s].status = s
         /\ \A e \in Nat : /\ [orun EXCEPT !.exec = e] \in RunRecords
                           /\ [orun EXCEPT !.exec = e].status = orun.status
         /\ \A s \in RunStatuses, n, m \in Nat :
              [status |-> s, exec |-> orun.exec, failed |-> n, replans |-> m] \in RunRecords
         /\ orun.status \in RunStatuses
BY DEF OrchestrationOK, RunRecords, RunStatuses

LEMMA PlanningKeepsTypes ==
  ASSUME OrchestrationOK, Start \/ Replan \/ PlannerAnswers
  PROVE  OrchestrationOK'
<1>1. \A n, m \in Nat : /\ [planners EXCEPT !.start = n] \in [start : Nat, replan : Nat]
                        /\ [planners EXCEPT !.replan = n] \in [start : Nat, replan : Nat]
  BY DEF OrchestrationOK
<1>2. planners.start \in Nat /\ planners.replan \in Nat
  BY DEF OrchestrationOK
<1>3. CASE Start
  <2>1. planners' \in [start : Nat, replan : Nat]
    BY <1>1, <1>3 DEF Start
  <2> QED
    BY <1>3, <2>1, RunsEvolve DEF Start, OrchestrationOK, canon, RunStatuses
<1>4. CASE Replan
  <2>1. planners' \in [start : Nat, replan : Nat]
    BY <1>1, <1>2, <1>4 DEF Replan, OrchestrationOK
  <2>2. orun' \in RunRecords
    BY <1>4, RunsEvolve DEF Replan, RunStatuses
  <2> QED
    BY <1>4, <2>1, <2>2 DEF Replan, OrchestrationOK, canon
<1>5. ASSUME NEW kind \in Kinds, Answered(kind)
      PROVE  planners' \in [start : Nat, replan : Nat]
  BY <1>5, <1>2 DEF OrchestrationOK, Answered, Kinds
<1>6. ASSUME NEW kind \in Kinds, PlannerRefused(kind) \/ PlannerEscapes(kind)
      PROVE  OrchestrationOK'
  <2>1. /\ Answered(kind) /\ plans' = plans
        /\ orun' = orun \/ \E s \in {"FAILED", "WAITING"} : orun' = [orun EXCEPT !.status = s]
    BY <1>6 DEF PlannerRefused, PlannerEscapes
  <2>2. orun' \in RunRecords
    BY <2>1, RunsEvolve DEF RunStatuses, OrchestrationOK
  <2> QED
    BY <1>5, <2>1, <2>2 DEF Answered, OrchestrationOK, canon
<1>7. ASSUME NEW kind \in Kinds, NEW p \in Proposals, PlannerAccepted(kind, p)
      PROVE  OrchestrationOK'
  <2>1. orun.replans + (IF kind = "replan" THEN 1 ELSE 0) \in Nat /\ orun.failed \in Nat
    BY DEF OrchestrationOK, RunRecords
  <2>2. orun' \in RunRecords
    BY <1>7, <2>1, RunsEvolve DEF PlannerAccepted, RunStatuses
  <2> QED
    BY <1>7, <1>5, <2>2 DEF PlannerAccepted, Answered, OrchestrationOK, canon
<1> QED
  BY <1>3, <1>4, <1>6, <1>7 DEF PlannerAnswers

LEMMA MaterializationKeepsTypes ==
  ASSUME OrchestrationOK, Materialize
  PROVE  OrchestrationOK'
<1>1. orun' \in RunRecords
  <2>1. CASE orun.exec = 0
    <3>1. Len(execs) + 1 \in Nat
      BY DEF OrchestrationOK
    <3> QED
      BY <2>1, <3>1, RunsEvolve DEF Materialize
  <2> QED
    BY <2>1 DEF Materialize, OrchestrationOK
<1>2. tasks' \in [Tasks -> TaskStatuses]
  BY DEF Materialize, OrchestrationOK, TaskStatuses
<1>3. materialized' \subseteq Nat
  BY DEF Materialize, OrchestrationOK
<1>4. execs' \in Seq(ExecStatuses)
  <2>1. "RUNNING" \in ExecStatuses /\ execs \in Seq(ExecStatuses)
    BY DEF ExecStatuses, OrchestrationOK
  <2>2. execs' = execs \/ execs' = Append(execs, "RUNNING")
    BY DEF Materialize
  <2> QED
    BY <2>1, <2>2
<1> QED
  BY <1>1, <1>2, <1>3, <1>4 DEF Materialize, OrchestrationOK, calls

\* Whoever assigns a task does it within the bounds of the policy.
LEMMA OrdinalsStayInBounds ==
  ASSUME OrchestrationOK, NEW t \in Tasks, DelegationsOf(t) # {}
  PROVE  /\ Last(DelegationsOf(t)) \in DelegationsOf(t)
         /\ \A d \in DelegationsOf(t) : d <= Last(DelegationsOf(t))
         /\ Previous(t) \in DelegationRecords /\ Previous(t).task = t
<1>1. DelegationsOf(t) \in SUBSET (1..Len(delegations)) /\ Len(delegations) \in Nat
  BY DEF DelegationsOf, OrchestrationOK
<1>2. /\ Last(DelegationsOf(t)) \in DelegationsOf(t)
      /\ \A d \in DelegationsOf(t) : d <= Last(DelegationsOf(t))
  BY <1>1, LastIsLatest
<1>3. ASSUME NEW d \in DelegationsOf(t)
      PROVE  delegations[d] \in DelegationRecords /\ delegations[d].task = t
  BY DEF DelegationsOf, OrchestrationOK
<1> QED
  BY <1>2, <1>3 DEF Previous

\* A new delegation of t: a first one, a retry, or a redelegation.
NextOrdinals(t, x) ==
  \/ DelegationsOf(t) = {} /\ x.retry = 0 /\ x.redelegation = 0
  \/ /\ DelegationsOf(t) # {} /\ x.agent = Previous(t).agent
     /\ x.retry = Previous(t).retry + 1 /\ x.redelegation = Previous(t).redelegation
  \/ /\ DelegationsOf(t) # {} /\ x.agent \notin {delegations[d].agent : d \in DelegationsOf(t)}
     /\ x.retry = Previous(t).retry /\ x.redelegation = Previous(t).redelegation + 1

Delegated(t) ==
  \E x \in DelegationRecords :
    /\ x.task = t /\ NextOrdinals(t, x)
    /\ delegations' = Append(delegations, x)

LEMMA DelegateAppends ==
  ASSUME OrchestrationOK, NEW t \in Tasks, Delegate(t)
  PROVE  UNCHANGED delegations \/ Delegated(t)
<1>1. 0 \in 0..MaxRetries /\ 0 \in 0..MaxRedelegations /\ MaxRetries \in Nat /\ MaxRedelegations \in Nat
  BY OrchestrationAssumption DEF OrchestrationAssumption
<1>2. ASSUME DelegateInitial(t), NEW a \in Agents, Assign(t, a, 0, 0)
      PROVE  Delegated(t)
  <2> DEFINE x == [task |-> t, agent |-> a, retry |-> 0, redelegation |-> 0]
  <2>1. x \in DelegationRecords /\ x.task = t /\ x.retry = 0 /\ x.redelegation = 0
    BY <1>1 DEF DelegationRecords
  <2>2. delegations' = Append(delegations, x)
    BY <1>2 DEF Assign
  <2>3. DelegationsOf(t) = {}
    BY <1>2 DEF DelegateInitial
  <2> HIDE DEF x
  <2> QED
    BY <2>1, <2>2, <2>3 DEF Delegated, NextOrdinals
<1>3. ASSUME DelegateRetry(t),
             Assign(t, Previous(t).agent, Previous(t).retry + 1, Previous(t).redelegation)
      PROVE  Delegated(t)
  <2> DEFINE x == [task |-> t, agent |-> Previous(t).agent, retry |-> Previous(t).retry + 1,
                   redelegation |-> Previous(t).redelegation]
  <2>1. DelegationsOf(t) # {} /\ Previous(t).retry < MaxRetries
    BY <1>3 DEF DelegateRetry
  <2>2. Previous(t) \in DelegationRecords
    BY <2>1, OrdinalsStayInBounds
  <2>3. /\ x \in DelegationRecords /\ x.task = t /\ x.agent = Previous(t).agent
        /\ x.retry = Previous(t).retry + 1 /\ x.redelegation = Previous(t).redelegation
    BY <1>1, <2>1, <2>2 DEF DelegationRecords
  <2>4. delegations' = Append(delegations, x)
    BY <1>3 DEF Assign
  <2> HIDE DEF x
  <2> QED
    BY <2>1, <2>3, <2>4 DEF Delegated, NextOrdinals
<1>4. ASSUME DelegateAgain(t), NEW a \in Agents \ {delegations[d].agent : d \in DelegationsOf(t)},
             Assign(t, a, Previous(t).retry, Previous(t).redelegation + 1)
      PROVE  Delegated(t)
  <2> DEFINE x == [task |-> t, agent |-> a, retry |-> Previous(t).retry,
                   redelegation |-> Previous(t).redelegation + 1]
  <2>1. DelegationsOf(t) # {} /\ Previous(t).redelegation < MaxRedelegations
    BY <1>4 DEF DelegateAgain
  <2>2. Previous(t) \in DelegationRecords
    BY <2>1, OrdinalsStayInBounds
  <2>3. /\ x \in DelegationRecords /\ x.task = t /\ x.agent = a
        /\ x.retry = Previous(t).retry /\ x.redelegation = Previous(t).redelegation + 1
    BY <1>1, <2>1, <2>2 DEF DelegationRecords
  <2>4. delegations' = Append(delegations, x)
    BY <1>4 DEF Assign
  <2> HIDE DEF x
  <2> QED
    BY <2>1, <2>3, <2>4 DEF Delegated, NextOrdinals
<1> QED
  BY <1>2, <1>3, <1>4 DEF Delegate, DelegateInitial, DelegateRetry, DelegateAgain, NobodyEligible

LEMMA AcceptAppends ==
  ASSUME OrchestrationOK, NEW h \in DOMAIN handoffs, NEW a \in Agents,
         handoffs[h].sender \in DOMAIN children, AcceptHandoff(h, a)
  PROVE  HandoffTask(h) \in Tasks /\ Delegated(HandoffTask(h))
<1> DEFINE t == HandoffTask(h)
           x == [task |-> t, agent |-> a, retry |-> Previous(t).retry,
                 redelegation |-> Previous(t).redelegation + 1]
<1>1. children[handoffs[h].sender].delegation \in DelegationsOf(t) /\ t \in Tasks
  BY ChildrenHaveTasks DEF HandoffTask
<1>2. /\ Previous(t).redelegation < MaxRedelegations
      /\ a \notin {delegations[d].agent : d \in DelegationsOf(t)}
  BY DEF AcceptHandoff, MayRedelegate, HandoffTask
<1>3. Previous(t) \in DelegationRecords
  BY <1>1, OrdinalsStayInBounds
<1>4. MaxRetries \in Nat /\ MaxRedelegations \in Nat
  BY OrchestrationAssumption DEF OrchestrationAssumption
<1>5. /\ x \in DelegationRecords /\ x.task = t /\ x.agent = a
      /\ x.retry = Previous(t).retry /\ x.redelegation = Previous(t).redelegation + 1
  BY <1>1, <1>2, <1>3, <1>4 DEF DelegationRecords
<1>6. delegations' = Append(delegations, x)
  BY DEF AcceptHandoff, HandoffTask
<1> HIDE DEF x, t
<1>7. Delegated(t)
  BY <1>1, <1>2, <1>5, <1>6 DEF Delegated, NextOrdinals
<1> QED
  BY <1>1, <1>7 DEF t

\* What a run's end, wait or resumption does to its child and its task.
ChildMoves(c) ==
  /\ children' \in Seq(ChildRecords) /\ DOMAIN children' = DOMAIN children
  /\ Len(children') = Len(children)
  /\ LiveChild(c)
  /\ \A b \in DOMAIN children :
       /\ children'[b].delegation = children[b].delegation
       /\ b # c => children'[b] = children[b]
  /\ \/ children'[c].status \in {"RUNNING", "WAITING"} /\ tasks' = tasks
     \/ /\ children'[c].status \in {"FAILED", "CANCELLED"} /\ tasks[TaskOf(c)] # "IN_PROGRESS"
        /\ tasks' = tasks
     \/ /\ children'[c].status \in {"FAILED", "CANCELLED"} /\ tasks[TaskOf(c)] = "IN_PROGRESS"
        /\ \/ tasks' = [tasks EXCEPT ![TaskOf(c)] = "READY"] /\ children'[c].status = "FAILED"
           \/ tasks' = [tasks EXCEPT ![TaskOf(c)] = "CANCELLED"]
     \/ /\ children'[c].status = "SUCCEEDED" /\ tasks[TaskOf(c)] = "IN_PROGRESS"
        /\ tasks' = [tasks EXCEPT ![TaskOf(c)] = "COMPLETED"]

LEMMA ExecStays ==
  ASSUME OrchestrationOK, NEW e, NEW s \in ExecStatuses
  PROVE  [execs EXCEPT ![e] = s] \in Seq(ExecStatuses)
<1> DEFINE f == [execs EXCEPT ![e] = s]
<1>1. execs \in Seq(ExecStatuses) /\ Len(execs) \in Nat /\ DOMAIN execs = 1..Len(execs)
  BY DEF OrchestrationOK
<1>2. f = [i \in DOMAIN execs |-> IF i = e THEN s ELSE execs[i]]
  BY Zenon
<1>3. \A i \in DOMAIN execs : execs[i] \in ExecStatuses
  BY <1>1
<1>4. f \in [1..Len(execs) -> ExecStatuses]
  BY <1>1, <1>2, <1>3
<1> HIDE DEF f
<1>5. f \in Seq(ExecStatuses)
  BY <1>1, <1>4, SeqDef, Zenon
<1> QED
  BY <1>5 DEF f

LEMMA StoppedMoves ==
  ASSUME OrchestrationOK, NEW c \in DOMAIN children, LiveChild(c), NEW cancel \in BOOLEAN,
         ChildStopped(c, cancel)
  PROVE  ChildMoves(c) /\ execs' \in Seq(ExecStatuses)
<1> DEFINE cancelled == cancel \/ execs[children[c].exec] = "CANCELLED"
                               \/ tasks[TaskOf(c)] = "CANCELLED"
           final     == IF cancelled THEN "CANCELLED" ELSE "FAILED"
<1>1. SetChild(c, final, FALSE)
  BY DEF ChildStopped
<1>2. tasks' = IF tasks[TaskOf(c)] # "IN_PROGRESS" THEN tasks
               ELSE [tasks EXCEPT ![TaskOf(c)] = IF cancelled THEN final ELSE "READY"]
  BY DEF ChildStopped
<1>3. execs' = IF execs[children[c].exec] \in {"RUNNING", "WAITING"}
               THEN [execs EXCEPT ![children[c].exec] = final] ELSE execs
  BY DEF ChildStopped
<1>4. final \in {"FAILED", "CANCELLED"} /\ (cancelled => final = "CANCELLED")
      /\ (~ cancelled => final = "FAILED")
  OBVIOUS
<1> HIDE DEF final, cancelled
<1>5. /\ children' \in Seq(ChildRecords) /\ DOMAIN children' = DOMAIN children
      /\ Len(children') = Len(children)
      /\ children'[c].status = final
      /\ \A b \in DOMAIN children :
           /\ children'[b].delegation = children[b].delegation
           /\ b # c => children'[b] = children[b]
  BY <1>1, <1>4, ChildIsSet
<1>6. execs' \in Seq(ExecStatuses)
  <2>1. execs \in Seq(ExecStatuses) /\ final \in ExecStatuses
    BY <1>4 DEF OrchestrationOK, ExecStatuses
  <2> QED
    BY <1>3, <2>1, ExecStays
<1>7. CASE tasks[TaskOf(c)] # "IN_PROGRESS"
  BY <1>2, <1>4, <1>5, <1>6, <1>7 DEF ChildMoves
<1>8. CASE tasks[TaskOf(c)] = "IN_PROGRESS" /\ cancelled
  BY <1>2, <1>4, <1>5, <1>6, <1>8 DEF ChildMoves
<1>9. CASE tasks[TaskOf(c)] = "IN_PROGRESS" /\ ~ cancelled
  BY <1>2, <1>4, <1>5, <1>6, <1>9 DEF ChildMoves
<1> QED
  BY <1>7, <1>8, <1>9

LEMMA ExecIsSet ==
  ASSUME OrchestrationOK, NEW c, NEW s \in ExecStatuses, SetExec(c, s) \/ UNCHANGED execs
  PROVE  execs' \in Seq(ExecStatuses)
<1>1. CASE SetExec(c, s)
  <2>1. execs' = [execs EXCEPT ![children[c].exec] = s]
    BY <1>1 DEF SetExec
  <2> QED
    BY <2>1, ExecStays
<1>2. CASE UNCHANGED execs
  BY <1>2 DEF OrchestrationOK
<1> QED
  BY <1>1, <1>2

LEMMA ResumedMoves ==
  ASSUME OrchestrationOK, NEW c \in DOMAIN children, LiveChild(c), ChildResumed(c), tasks' = tasks
  PROVE  ChildMoves(c) /\ execs' \in Seq(ExecStatuses)
<1>1. execs' \in Seq(ExecStatuses)
  BY ExecIsSet DEF ChildResumed, ExecStatuses
<1> QED
  BY <1>1, ChildIsSet DEF ChildResumed, ChildMoves

LEMMA ChildrenMove ==
  ASSUME OrchestrationOK, NEW c \in DOMAIN children,
         ChildStep(c) \/ ResumeContext(c) \/ ApprovalResumes(c)
  PROVE  ChildMoves(c) /\ execs' \in Seq(ExecStatuses)
<1>1. ASSUME NEW cancel \in BOOLEAN, ChildFails(c, cancel)
      PROVE  ChildMoves(c) /\ execs' \in Seq(ExecStatuses)
  BY <1>1, StoppedMoves DEF ChildFails
<1>2. ASSUME ChildSucceeds(c)
      PROVE  ChildMoves(c) /\ execs' \in Seq(ExecStatuses)
  <2>1. SetChild(c, "SUCCEEDED", FALSE) /\ children[c].status = "RUNNING"
        /\ tasks[TaskOf(c)] = "IN_PROGRESS" /\ tasks' = [tasks EXCEPT ![TaskOf(c)] = "COMPLETED"]
        /\ (SetExec(c, "SUCCEEDED") \/ UNCHANGED execs)
    BY <1>2 DEF ChildSucceeds, ParentsAre
  <2>2. execs' \in Seq(ExecStatuses)
    BY <2>1, ExecIsSet DEF ExecStatuses
  <2> QED
    BY <2>1, <2>2, ChildIsSet DEF ChildMoves, LiveChild
<1>3. ASSUME NEW pending \in BOOLEAN, ChildWaits(c, pending)
      PROVE  ChildMoves(c) /\ execs' \in Seq(ExecStatuses)
  <2>1. SetChild(c, "WAITING", pending) /\ children[c].status = "RUNNING"
        /\ tasks' = tasks /\ SetExec(c, "WAITING")
    BY <1>3 DEF ChildWaits
  <2>2. execs' \in Seq(ExecStatuses)
    BY <2>1, ExecIsSet DEF ExecStatuses
  <2> QED
    BY <2>1, <2>2, ChildIsSet DEF ChildMoves, LiveChild
<1>4. ASSUME ResumeContext(c)
      PROVE  ChildMoves(c) /\ execs' \in Seq(ExecStatuses)
  <2>1. LiveChild(c)
    BY <1>4 DEF ResumeContext, LiveChild
  <2>2. CASE ChildStopped(c, FALSE)
    BY <2>1, <2>2, StoppedMoves
  <2>3. CASE ChildResumed(c) /\ UNCHANGED tasks
    BY <2>1, <2>3, ResumedMoves
  <2> QED
    BY <1>4, <2>2, <2>3 DEF ResumeContext
<1>5. ASSUME ApprovalResumes(c)
      PROVE  ChildMoves(c) /\ execs' \in Seq(ExecStatuses)
  BY <1>5, ResumedMoves DEF ApprovalResumes, LiveChild
<1> QED
  BY <1>1, <1>2, <1>3, <1>4, <1>5 DEF ChildStep

LEMMA MovesKeepTypes ==
  ASSUME OrchestrationOK, NEW c \in DOMAIN children, ChildMoves(c)
  PROVE  /\ tasks' \in [Tasks -> TaskStatuses]
         /\ children' \in Seq(ChildRecords)
         /\ \A b \in DOMAIN children' : children'[b].delegation <= Len(delegations)
<1>1. tasks \in [Tasks -> TaskStatuses]
  BY DEF OrchestrationOK
<1>2. tasks' \in [Tasks -> TaskStatuses]
  BY <1>1, ChildrenHaveTasks DEF ChildMoves, TaskStatuses
<1> QED
  BY <1>2 DEF ChildMoves, OrchestrationOK

LEMMA ChildrenKeepTypes ==
  ASSUME OrchestrationOK, NEW c \in DOMAIN children,
         ChildStep(c) \/ ResumeContext(c) \/ ApprovalResumes(c)
  PROVE  OrchestrationOK'
<1>1. ChildMoves(c) /\ execs' \in Seq(ExecStatuses)
  BY ChildrenMove
<1>2. UNCHANGED <<goal, plans, materialized, delegations, planners>>
  BY DEF ChildStep, ResumeContext, ApprovalResumes, ChildFails, ChildSucceeds, ChildWaits, calls
<1>3. orun' = orun \/ orun' = [orun EXCEPT !.status = "RUNNING"]
  BY DEF ChildStep, ResumeContext, ApprovalResumes, ChildFails, ChildSucceeds, ChildWaits
<1>4. orun' \in RunRecords
  BY <1>3, RunsEvolve DEF RunStatuses, OrchestrationOK
<1> QED
  BY <1>1, <1>2, <1>4, MovesKeepTypes DEF OrchestrationOK

LEMMA DelegationKeepsTypes ==
  ASSUME OrchestrationOK, NEW t \in Tasks, Delegate(t)
  PROVE  OrchestrationOK'
<1>1. delegations' \in Seq(DelegationRecords) /\ Len(delegations') >= Len(delegations)
  BY DelegateAppends, DelegationIsAdded DEF Delegated, OrchestrationOK
<1>2. orun' = orun \/ orun' = [orun EXCEPT !.status = "WAITING"]
  BY DEF Delegate, DelegateInitial, DelegateRetry, DelegateAgain, NobodyEligible, Assign
<1>3. orun' \in RunRecords
  BY <1>2, RunsEvolve DEF RunStatuses, OrchestrationOK
<1>4. UNCHANGED <<canon, plans, materialized, children, calls>>
  BY DEF Delegate
<1>5. \A c \in DOMAIN children : /\ children[c].delegation <= Len(delegations)
                                 /\ children[c].delegation \in Nat
  BY ChildrenHaveTasks DEF OrchestrationOK, ChildRecords
<1>6. Len(delegations) \in Nat /\ Len(delegations') \in Nat
  BY <1>1 DEF OrchestrationOK
<1>7. \A c \in DOMAIN children' : children'[c].delegation <= Len(delegations')
  BY <1>1, <1>4, <1>5, <1>6
<1> QED
  BY <1>1, <1>3, <1>4, <1>7 DEF OrchestrationOK, canon, calls

LEMMA StartingKeepsTypes ==
  ASSUME OrchestrationOK, NEW d \in DOMAIN delegations, StartDelegation(d)
  PROVE  /\ OrchestrationOK' /\ orun'.status = orun.status
         /\ \E e \in Nat : children' = Append(children, Child(d, e))
<1>1. PICK e \in Nat :
        /\ execs' = execs \/ execs' = Append(execs, "RUNNING")
        /\ orun' = orun \/ orun' = [orun EXCEPT !.exec = e]
        /\ children' = Append(children, Child(d, e))
  <2>1. 1 .. Len(execs) + 1 \subseteq Nat
    BY DEF OrchestrationOK
  <2> QED
    BY <2>1 DEF StartDelegation
<1>2. /\ tasks' = [tasks EXCEPT ![delegations[d].task] = "IN_PROGRESS"]
      /\ UNCHANGED <<goal, plans, materialized, delegations, planners>>
  BY DEF StartDelegation, calls
<1>3. execs' \in Seq(ExecStatuses)
  <2>1. "RUNNING" \in ExecStatuses /\ execs \in Seq(ExecStatuses)
    BY DEF OrchestrationOK, ExecStatuses
  <2> QED
    BY <1>1, <2>1
<1>4. orun' \in RunRecords /\ orun'.status = orun.status
  <2>1. orun \in RunRecords
    BY DEF OrchestrationOK
  <2>2. CASE orun' = orun
    BY <2>1, <2>2
  <2>3. CASE orun' = [orun EXCEPT !.exec = e]
    BY <2>3, RunsEvolve
  <2> QED
    BY <1>1, <2>2, <2>3
<1>5. tasks' \in [Tasks -> TaskStatuses]
  BY <1>2 DEF OrchestrationOK, TaskStatuses
<1>6. /\ children' \in Seq(ChildRecords) /\ Len(children') = Len(children) + 1
      /\ \A b \in DOMAIN children : children'[b] = children[b]
      /\ children'[Len(children')].delegation = d
  BY <1>1, <1>2, ChildIsAdded
<1>7. \A b \in DOMAIN children' : children'[b].delegation <= Len(delegations')
  <2>1. DOMAIN children' = DOMAIN children \cup {Len(children')}
    BY <1>6 DEF OrchestrationOK
  <2>2. d <= Len(delegations)
    BY DEF OrchestrationOK
  <2>3. \A b \in DOMAIN children : children[b].delegation <= Len(delegations)
    BY DEF OrchestrationOK
  <2> QED
    BY <1>2, <1>6, <2>1, <2>2, <2>3
<1>8. OrchestrationOK'
  BY <1>2, <1>3, <1>4, <1>5, <1>6, <1>7 DEF OrchestrationOK
<1> QED
  BY <1>1, <1>4, <1>8

LEMMA ReconciliationKeepsTypes ==
  ASSUME OrchestrationOK, NEW c \in DOMAIN children, Reconcile(c)
  PROVE  OrchestrationOK'
<1> DEFINE status == IF children[c].status = "WAITING" \/ Failures >= MaxFailed
                     THEN "WAITING" ELSE orun.status
<1>1. status \in RunStatuses
  BY RunsEvolve DEF RunStatuses
<1>2. PICK s \in {"COMPLETED", status} : Accounted(c, s)
  BY DEF Reconcile
<1>3. goal' \in {"ACTIVE", "SATISFIED", "CANCELLED"}
  BY DEF Reconcile, OrchestrationOK
<1>4. UNCHANGED <<tasks, execs, plans, materialized, delegations, planners>>
  BY DEF Reconcile, calls
<1> HIDE DEF status
<1>5. s \in RunStatuses
  BY <1>1 DEF RunStatuses
<1>6. orun' \in RunRecords
  <2>1. Failures \in Nat /\ orun.replans \in Nat
    BY FailuresCount DEF OrchestrationOK, RunRecords
  <2>2. orun' = [status |-> s, exec |-> orun.exec, failed |-> Failures, replans |-> orun.replans]
    BY <1>2 DEF Accounted
  <2> HIDE DEF Failures
  <2> QED
    BY <1>5, <2>1, <2>2, RunsEvolve
<1>7. /\ children' \in Seq(ChildRecords) /\ DOMAIN children' = DOMAIN children
      /\ \A b \in DOMAIN children : children'[b].delegation = children[b].delegation
  BY <1>2, ChildIsAccounted
<1> QED
  BY <1>3, <1>4, <1>6, <1>7 DEF OrchestrationOK

LEMMA CancellationsKeepTypes ==
  ASSUME OrchestrationOK, Cancel \/ OperatorCancels
  PROVE  OrchestrationOK'
<1>1. "CANCELLED" \in ExecStatuses /\ execs \in Seq(ExecStatuses)
  BY DEF OrchestrationOK, ExecStatuses
<1>2. tasks \in [Tasks -> TaskStatuses] /\ "CANCELLED" \in TaskStatuses
  BY DEF OrchestrationOK, TaskStatuses
<1>3. CASE Cancel
  <2>1. execs' \in Seq(ExecStatuses)
    <3>1. Len(execs) \in Nat /\ DOMAIN execs = 1..Len(execs)
          /\ \A e \in DOMAIN execs : execs[e] \in ExecStatuses
      BY <1>1
    <3>2. execs' \in [1..Len(execs) -> ExecStatuses]
      BY <1>1, <1>3, <3>1 DEF Cancel
    <3>3. \E n \in Nat : execs' \in [1..n -> ExecStatuses]
      BY <3>1, <3>2
    <3> QED
      BY <3>3, SeqDef, Zenon
  <2>2. tasks' \in [Tasks -> TaskStatuses]
    BY <1>2, <1>3 DEF Cancel
  <2>3. orun' \in RunRecords
    BY <1>3, RunsEvolve DEF Cancel, RunStatuses
  <2> QED
    BY <1>3, <2>1, <2>2, <2>3 DEF Cancel, OrchestrationOK, calls
<1>4. CASE OperatorCancels
  <2>1. execs' = execs \/ \E e \in DOMAIN execs : execs' = [execs EXCEPT ![e] = "CANCELLED"]
    BY <1>4 DEF OperatorCancels
  <2>2. execs' \in Seq(ExecStatuses)
    BY <1>1, <2>1, ExecStays
  <2>3. tasks' = tasks \/ \E t \in Tasks : tasks' = [tasks EXCEPT ![t] = "CANCELLED"]
    BY <1>4 DEF OperatorCancels
  <2>4. tasks' \in [Tasks -> TaskStatuses]
    BY <1>2, <2>3
  <2>5. goal' \in {"ACTIVE", "SATISFIED", "CANCELLED"}
    BY <1>4 DEF OperatorCancels, OrchestrationOK
  <2> QED
    BY <1>4, <2>2, <2>4, <2>5 DEF OperatorCancels, OrchestrationOK, calls
<1> QED
  BY <1>3, <1>4

\* A step of the orchestration, of its own or of an accepted handoff.
OrchestrationStep == [Next]_vars \/ Accepting

LEMMA AcceptanceKeepsTypes ==
  ASSUME OrchestrationOK, NEW h \in DOMAIN handoffs, NEW a \in Agents,
         handoffs[h].sender \in DOMAIN children, AcceptHandoff(h, a)
  PROVE  OrchestrationOK' /\ ChildMoves(handoffs[h].sender)
<1> DEFINE c == handoffs[h].sender
<1>1. LiveChild(c) /\ ChildStopped(c, FALSE) /\ tasks'[TaskOf(c)] = "READY"
  BY DEF AcceptHandoff, EndSender
<1>2. ChildMoves(c) /\ execs' \in Seq(ExecStatuses)
  BY <1>1, StoppedMoves
<1>3. Delegated(TaskOf(c)) /\ TaskOf(c) \in Tasks
  BY AcceptAppends DEF HandoffTask
<1>4. delegations' \in Seq(DelegationRecords) /\ Len(delegations') = Len(delegations) + 1
  BY <1>3, DelegationIsAdded DEF Delegated
<1>5. orun' \in RunRecords
  BY RunsEvolve DEF AcceptHandoff, RunStatuses
<1>6. UNCHANGED <<goal, plans, materialized, planners>>
  BY DEF AcceptHandoff, calls
<1>7. /\ tasks' \in [Tasks -> TaskStatuses] /\ children' \in Seq(ChildRecords)
      /\ \A b \in DOMAIN children' : children'[b].delegation <= Len(delegations)
  BY <1>2, MovesKeepTypes
<1>8. \A b \in DOMAIN children' : children'[b].delegation <= Len(delegations')
  <2>1. \A b \in DOMAIN children' : children'[b].delegation \in Nat
    <3>1. \A b \in DOMAIN children' : children'[b] \in ChildRecords
      BY <1>7
    <3> QED
      BY <3>1 DEF ChildRecords
  <2>2. Len(delegations) \in Nat
    BY DEF OrchestrationOK
  <2> QED
    BY <1>4, <1>7, <2>1, <2>2
<1> QED
  BY <1>2, <1>4, <1>5, <1>6, <1>7, <1>8 DEF OrchestrationOK

LEMMA TypesKept ==
  ASSUME OrchestrationOK, OrchestrationStep
  PROVE  OrchestrationOK'
<1>1. CASE UNCHANGED vars
  BY <1>1 DEF vars, canon, calls, OrchestrationOK
<1>2. CASE Start \/ Replan \/ PlannerAnswers
  BY <1>2, PlanningKeepsTypes
<1>3. CASE Materialize
  BY <1>3, MaterializationKeepsTypes
<1>4. ASSUME NEW t \in Tasks, Delegate(t)
      PROVE  OrchestrationOK'
  BY <1>4, DelegationKeepsTypes
<1>5. ASSUME NEW d \in DOMAIN delegations, StartDelegation(d)
      PROVE  OrchestrationOK'
  BY <1>5, StartingKeepsTypes
<1>6. ASSUME NEW c \in DOMAIN children,
             ChildStep(c) \/ ResumeContext(c) \/ ApprovalResumes(c)
      PROVE  OrchestrationOK'
  BY <1>6, ChildrenKeepTypes
<1>7. ASSUME NEW c \in DOMAIN children,
             BeginApproval(c) \/ ApprovalRaises(c) \/ ApprovalReturns(c)
      PROVE  OrchestrationOK'
  <2>1. orun' \in RunRecords
    <3>1. \/ orun' = orun \/ orun' = [orun EXCEPT !.status = "RUNNING"]
          \/ orun' = [orun EXCEPT !.status = "WAITING"]
      BY <1>7 DEF BeginApproval, ApprovalRaises, ApprovalReturns, calls
    <3> QED
      BY <3>1, RunsEvolve DEF RunStatuses, OrchestrationOK
  <2>2. UNCHANGED <<canon, plans, materialized, delegations, children, planners>>
    BY <1>7 DEF BeginApproval, ApprovalRaises, ApprovalReturns
  <2> QED
    BY <2>1, <2>2 DEF OrchestrationOK, canon
<1>8. ASSUME NEW c \in DOMAIN children, Reconcile(c)
      PROVE  OrchestrationOK'
  BY <1>8, ReconciliationKeepsTypes
<1>9. CASE Cancel \/ OperatorCancels
  BY <1>9, CancellationsKeepTypes
<1>10. CASE Crash
  BY <1>10 DEF Crash, OrchestrationOK, canon
<1>11. CASE Accepting
  BY <1>11, AcceptanceKeepsTypes DEF Accepting
<1> QED
  BY <1>1, <1>2, <1>3, <1>4, <1>5, <1>6, <1>7, <1>8, <1>9, <1>10, <1>11
  DEF OrchestrationStep, Next, ApprovalStep

\* What a step does to delegations, children and tasks, by the kind of step.
LEMMA StepKinds ==
  ASSUME OrchestrationOK, OrchestrationStep
  PROVE  \/ /\ UNCHANGED <<delegations, children, tasks>>
         \/ /\ UNCHANGED <<delegations, tasks>> /\ \E c \in DOMAIN children : Reconcile(c)
         \/ /\ UNCHANGED <<delegations, children>> /\ (Materialize \/ Cancel \/ OperatorCancels)
         \/ UNCHANGED <<children, tasks>> /\ \E t \in Tasks : Delegated(t)
         \/ UNCHANGED delegations /\ \E d \in DOMAIN delegations : StartDelegation(d)
         \/ UNCHANGED delegations /\ \E c \in DOMAIN children : ChildMoves(c)
         \/ Accepting
<1>1. CASE UNCHANGED vars
  BY <1>1 DEF vars, canon
<1>2. CASE Start \/ Replan \/ PlannerAnswers \/ Crash
  BY <1>2 DEF Start, Replan, PlannerAnswers, PlannerRefused, PlannerEscapes, PlannerAccepted,
     Answered, Crash, canon
<1>3. CASE Materialize \/ Cancel \/ OperatorCancels
  BY <1>3 DEF Materialize, Cancel, OperatorCancels
<1>4. ASSUME NEW t \in Tasks, Delegate(t)
      PROVE  UNCHANGED <<children, tasks>> /\ (UNCHANGED delegations \/ Delegated(t))
  BY <1>4, DelegateAppends DEF Delegate, canon
<1>5. ASSUME NEW d \in DOMAIN delegations, StartDelegation(d)
      PROVE  UNCHANGED delegations
  BY <1>5 DEF StartDelegation
<1>6. ASSUME NEW c \in DOMAIN children,
             ChildStep(c) \/ ResumeContext(c) \/ ApprovalResumes(c)
      PROVE  UNCHANGED delegations /\ ChildMoves(c)
  BY <1>6, ChildrenMove DEF ChildStep, ResumeContext, ApprovalResumes, ChildFails,
     ChildSucceeds, ChildWaits
<1>7. ASSUME NEW c \in DOMAIN children,
             BeginApproval(c) \/ ApprovalRaises(c) \/ ApprovalReturns(c)
      PROVE  UNCHANGED <<delegations, children, tasks>>
  BY <1>7 DEF BeginApproval, ApprovalRaises, ApprovalReturns, canon
<1>8. ASSUME NEW c \in DOMAIN children, Reconcile(c)
      PROVE  UNCHANGED <<delegations, tasks>>
  BY <1>8 DEF Reconcile
<1> QED
  BY <1>1, <1>2, <1>3, <1>4, <1>5, <1>6, <1>7, <1>8 DEF OrchestrationStep, Next, ApprovalStep

-----------------------------------------------------------------------------
\* No task is orphaned.

\* A first plan is asked for before anything else happens, and only once.
PlanningStarts ==
  /\ orun.status = Absent => /\ plans = <<>> /\ children = <<>>
                             /\ planners.start = 0 /\ planners.replan = 0
  /\ planners.start > 0 => /\ plans = <<>> /\ children = <<>>
                           /\ planners.start = 1 /\ planners.replan = 0
                           /\ orun.status \in {"PLANNING"} \cup Ended

PlansOK == OrchestrationOK /\ PlanningStarts /\ NoOrphanTask

LEMMA TasksAppear ==
  ASSUME OrchestrationOK, OrchestrationStep
  PROVE  \/ Materialize
         \/ \A t \in Tasks : tasks'[t] # Absent => tasks[t] # Absent
<1>1. tasks \in [Tasks -> TaskStatuses]
  BY DEF OrchestrationOK
<1>2. ASSUME NEW c \in DOMAIN children, ChildMoves(c)
      PROVE  \A t \in Tasks : tasks'[t] # Absent => tasks[t] # Absent
  BY <1>1, <1>2 DEF ChildMoves, Absent
<1>3. ASSUME NEW d \in DOMAIN delegations, StartDelegation(d)
      PROVE  \A t \in Tasks : tasks'[t] # Absent => tasks[t] # Absent
  <2>1. tasks' = [tasks EXCEPT ![delegations[d].task] = "IN_PROGRESS"]
    BY <1>3 DEF StartDelegation
  <2>2. delegations[d].task \in ReadyTasks
    BY <1>3 DEF StartDelegation, MayStart
  <2>3. tasks[delegations[d].task] # Absent
    BY <2>2 DEF ReadyTasks, Absent
  <2> QED
    BY <1>1, <2>1, <2>3
<1>4. CASE Cancel
  BY <1>1, <1>4 DEF Cancel, Cancellable, Absent
<1>5. CASE OperatorCancels
  <2>1. TaskAllowed[Absent] = {}
    BY DEF TaskAllowed, Absent
  <2>2. tasks' = tasks \/ \E t \in Tasks : /\ "CANCELLED" \in TaskAllowed[tasks[t]]
                                           /\ tasks' = [tasks EXCEPT ![t] = "CANCELLED"]
    BY <1>5 DEF OperatorCancels
  <2> QED
    BY <1>1, <2>1, <2>2
<1>6. CASE Accepting
  <2>1. PICK c \in DOMAIN children : ChildMoves(c)
    BY <1>6, AcceptanceKeepsTypes DEF Accepting
  <2> QED
    BY <2>1, <1>2
<1> QED
  BY <1>2, <1>3, <1>4, <1>5, <1>6, StepKinds

LEMMA PlansKept ==
  ASSUME PlansOK, OrchestrationStep
  PROVE  PlansOK'
<1> USE DEF PlansOK
<1>1. OrchestrationOK'
  BY TypesKept
<1>2. /\ planners.start \in Nat /\ planners.replan \in Nat
      /\ planners \in [start : Nat, replan : Nat]
      /\ plans \in Seq(Proposals) /\ tasks \in [Tasks -> TaskStatuses]
  BY DEF OrchestrationOK
<1>3. \A s : [orun EXCEPT !.status = s].status = s
  BY DEF OrchestrationOK, RunRecords
<1>4. orun.status \in RunStatuses
  BY RunsEvolve
<1>5. CASE UNCHANGED vars
  BY <1>1, <1>5 DEF vars, canon, calls, PlanningStarts, NoOrphanTask, Plan
<1>6. CASE Start
  <2>1. planners'.start = 1 /\ planners'.replan = 0 /\ orun'.status = "PLANNING"
    BY <1>2, <1>3, <1>6 DEF Start, PlanningStarts
  <2>2. UNCHANGED <<plans, children, tasks>>
    BY <1>6 DEF Start, canon
  <2>3. plans = <<>> /\ children = <<>>
    BY <1>6 DEF Start, PlanningStarts
  <2> QED
    BY <1>1, <2>1, <2>2, <2>3 DEF PlanningStarts, NoOrphanTask, Plan, Absent
<1>7. CASE Replan
  <2>1. orun.status \in {"RUNNING", "WAITING"} /\ planners.start = 0
    BY <1>2, <1>7 DEF Replan, PlanningStarts, Ended
  <2>2. planners'.start = 0 /\ orun'.status \in {"WAITING", "PLANNING"}
    BY <1>2, <1>3, <1>7, <2>1 DEF Replan
  <2>3. UNCHANGED <<plans, children, tasks>>
    BY <1>7 DEF Replan, canon
  <2> QED
    BY <1>1, <2>1, <2>2, <2>3 DEF PlanningStarts, NoOrphanTask, Plan, Absent
<1>8. ASSUME NEW kind \in Kinds, Answered(kind)
      PROVE  /\ planners'.start \in {0, planners.start} /\ planners'.replan <= planners.replan
             /\ planners'.replan \in Nat
             /\ kind = "start" => planners.start > 0 /\ planners'.start = planners.start - 1
             /\ kind = "replan" => planners.replan > 0
             /\ orun.status # Absent
  BY <1>2, <1>8 DEF Answered, Kinds, PlanningStarts
<1>9. ASSUME NEW kind \in Kinds, PlannerRefused(kind) \/ PlannerEscapes(kind)
      PROVE  PlansOK'
  <2>1. UNCHANGED <<plans, children, tasks>> /\ Answered(kind)
    BY <1>9 DEF PlannerRefused, PlannerEscapes, Answered, canon
  <2>2. /\ orun'.status # Absent
        /\ kind = "start" => orun'.status \in {"PLANNING"} \cup Ended
    BY <1>3, <1>8, <1>9, <2>1
    DEF PlannerRefused, PlannerEscapes, PlanningStarts, OpenRun, Absent, Ended
  <2>3. planners.start > 0 => kind = "start"
    BY <1>8, <2>1 DEF PlanningStarts, Kinds
  <2>4. planners'.start > 0 => planners.start > 0 /\ kind = "replan"
    BY <1>2, <1>8, <2>1 DEF PlanningStarts, Kinds
  <2> QED
    BY <1>1, <2>1, <2>2, <2>3, <2>4 DEF PlanningStarts, NoOrphanTask, Plan
<1>10. ASSUME NEW kind \in Kinds, NEW p \in Proposals, PlannerAccepted(kind, p)
       PROVE  PlansOK'
  <2>1. /\ UNCHANGED <<children, tasks>> /\ Answered(kind) /\ MayAccept(kind, p)
        /\ plans' = Append(plans, p) /\ orun'.status = "RUNNING"
    BY <1>10 DEF PlannerAccepted, Answered, canon
  <2>2. planners.start > 0 => kind = "start"
    BY <1>8, <2>1 DEF PlanningStarts, Kinds
  <2>3. planners'.start = 0
    BY <1>2, <1>8, <2>1, <2>2 DEF PlanningStarts, Kinds
  <2>4. plans' # <<>> /\ Plan' = p
    BY <1>2, <2>1 DEF Plan
  <2>5. ASSUME NEW t \in Tasks, tasks[t] # Absent
        PROVE  t \in DOMAIN p
    <3>1. plans # <<>> /\ t \in DOMAIN Plan
      BY <2>5 DEF NoOrphanTask
    <3>2. kind = "replan"
      BY <1>8, <2>1, <3>1 DEF PlanningStarts, Kinds
    <3> QED
      BY <2>1, <3>1, <3>2 DEF MayAccept
  <2> QED
    BY <1>1, <2>1, <2>3, <2>4, <2>5 DEF PlanningStarts, NoOrphanTask, Absent
<1>11. CASE Materialize
  <2>1. /\ UNCHANGED <<plans, children, planners>> /\ orun.status = "RUNNING" /\ plans # <<>>
        /\ \A t \in Tasks : tasks'[t] # Absent => tasks[t] # Absent \/ t \in DOMAIN Plan
    BY <1>11 DEF Materialize, calls
  <2>2. orun'.status = "RUNNING"
    BY <1>11, RunsEvolve, <2>1 DEF Materialize, OrchestrationOK, RunRecords
  <2> QED
    BY <1>1, <2>1, <2>2 DEF PlanningStarts, NoOrphanTask, Plan, Absent
<1>12. ASSUME UNCHANGED <<plans, planners>>, ~ Materialize,
              orun.status # Absent, orun'.status # Absent, children = <<>> => children' = <<>>,
              planners.start > 0 => orun'.status \in {"PLANNING"} \cup Ended
       PROVE  PlansOK'
  <2>1. \A t \in Tasks : tasks'[t] # Absent => tasks[t] # Absent
    BY <1>12, TasksAppear
  <2> QED
    BY <1>1, <1>12, <2>1 DEF PlanningStarts, NoOrphanTask, Plan
<1>13. ASSUME orun.status \in {"RUNNING", "WAITING"} PROVE planners.start = 0
  BY <1>2, <1>13 DEF PlanningStarts, Ended
<1>14. ASSUME NEW c \in DOMAIN children
       PROVE  planners.start = 0 /\ orun.status # Absent
  BY <1>2, <1>14 DEF PlanningStarts
<1>15. ASSUME NEW t \in Tasks, Delegate(t), ~ Materialize
       PROVE  PlansOK'
  <2>1. UNCHANGED <<plans, planners, children>>
    BY <1>15 DEF Delegate, calls
  <2>2. orun.status = "RUNNING"
    BY <1>15 DEF Delegate, ReadyTasks
  <2>3. orun'.status \in {"RUNNING", "WAITING"}
    BY <1>3, <1>15, <2>2
    DEF Delegate, DelegateInitial, DelegateRetry, DelegateAgain, NobodyEligible, Assign
  <2> QED
    BY <1>12, <1>13, <1>15, <2>1, <2>2, <2>3, <1>2 DEF Absent
<1>16. ASSUME NEW d \in DOMAIN delegations, StartDelegation(d), ~ Materialize
       PROVE  PlansOK'
  <2>1. UNCHANGED <<plans, planners>> /\ orun.status = "RUNNING"
    BY <1>16 DEF StartDelegation, calls, MayStart
  <2>2. orun'.status = "RUNNING"
    BY <1>16, <2>1, StartingKeepsTypes
  <2>3. planners'.start = 0 /\ orun'.status # Absent
    BY <1>13, <2>1, <2>2 DEF Absent
  <2>4. \A t \in Tasks : tasks'[t] # Absent => tasks[t] # Absent
    BY <1>16, TasksAppear
  <2> QED
    BY <1>1, <2>1, <2>3, <2>4 DEF PlanningStarts, NoOrphanTask, Plan
<1>17. ASSUME NEW c \in DOMAIN children, ~ Materialize,
              \/ ChildStep(c) \/ ResumeContext(c) \/ BeginApproval(c) \/ ApprovalStep(c)
              \/ Reconcile(c)
       PROVE  PlansOK'
  <2>1. UNCHANGED <<plans, planners>>
    BY <1>17 DEF ChildStep, ChildFails, ChildSucceeds, ChildWaits, ResumeContext, BeginApproval,
       ApprovalStep, ApprovalResumes, ApprovalRaises, ApprovalReturns, Reconcile, calls
  <2>2. planners.start = 0 /\ orun.status # Absent
    BY <1>14
  <2>3. orun'.status # Absent
    <3>1. CASE \/ ChildStep(c) \/ ResumeContext(c) \/ BeginApproval(c) \/ ApprovalStep(c)
      <4>1. \/ orun' = orun \/ orun' = [orun EXCEPT !.status = "RUNNING"]
            \/ orun' = [orun EXCEPT !.status = "WAITING"]
        BY <3>1 DEF ChildStep, ChildFails, ChildSucceeds, ChildWaits, ResumeContext,
           BeginApproval, ApprovalStep, ApprovalResumes, ApprovalRaises, ApprovalReturns
      <4> QED
        BY <1>3, <2>2, <4>1 DEF Absent
    <3>2. CASE Reconcile(c)
      <4>1. orun'.status \in {"COMPLETED", "WAITING", orun.status}
        BY <3>2 DEF Reconcile, Accounted
      <4> QED
        BY <2>2, <4>1 DEF Absent
    <3> QED
      BY <1>17, <3>1, <3>2
  <2>4. planners'.start = 0
    BY <2>1, <2>2
  <2>5. \A t \in Tasks : tasks'[t] # Absent => tasks[t] # Absent
    BY <1>17, TasksAppear
  <2> QED
    BY <1>1, <2>1, <2>3, <2>4, <2>5 DEF PlanningStarts, NoOrphanTask, Plan
<1>18. CASE Cancel /\ ~ Materialize
  <2>1. /\ UNCHANGED <<plans, planners, children>> /\ orun.status # Absent
        /\ orun'.status = "CANCELLED"
    BY <1>3, <1>18 DEF Cancel, calls, OpenRun
  <2> QED
    BY <1>12, <1>18, <2>1 DEF Ended, Absent
<1>19. CASE OperatorCancels /\ ~ Materialize
  <2>1. UNCHANGED <<plans, planners, children, orun>>
    BY <1>19 DEF OperatorCancels, calls
  <2>2. \A t \in Tasks : tasks'[t] # Absent => tasks[t] # Absent
    BY <1>19, TasksAppear
  <2> QED
    BY <1>1, <2>1, <2>2 DEF PlanningStarts, NoOrphanTask, Plan
<1>20. CASE Crash
  BY <1>1, <1>20 DEF Crash, PlanningStarts, NoOrphanTask, Plan, canon
<1>21. CASE Accepting /\ ~ Materialize
  <2>1. /\ UNCHANGED <<plans, planners>> /\ orun.status \in {"RUNNING", "WAITING"}
        /\ orun' = [orun EXCEPT !.status = "RUNNING"]
    BY <1>21 DEF Accepting, AcceptHandoff, calls
  <2>2. orun'.status = "RUNNING" /\ planners'.start = 0
    BY <1>3, <1>13, <2>1
  <2>3. \A t \in Tasks : tasks'[t] # Absent => tasks[t] # Absent
    BY <1>21, TasksAppear
  <2> QED
    BY <1>1, <2>1, <2>2, <2>3 DEF PlanningStarts, NoOrphanTask, Plan, Absent
<1> QED
  BY <1>5, <1>6, <1>7, <1>9, <1>10, <1>11, <1>15, <1>16, <1>17, <1>18, <1>19, <1>20, <1>21
  DEF OrchestrationStep, Next, PlannerAnswers

LEMMA PlansInit == Init => PlansOK
<1> SUFFICES ASSUME Init PROVE PlansOK
  OBVIOUS
<1>1. orun \in RunRecords /\ orun.status = Absent
  BY DEF Init, RunRecords
<1>2. /\ planners \in [start : Nat, replan : Nat] /\ planners.start = 0 /\ planners.replan = 0
      /\ tasks \in [Tasks -> TaskStatuses] /\ \A t \in Tasks : tasks[t] = Absent
  BY DEF Init, TaskStatuses
<1>3. /\ plans = <<>> /\ execs = <<>> /\ delegations = <<>> /\ children = <<>>
      /\ goal = "ACTIVE" /\ materialized = {}
  BY DEF Init
<1>4. plans \in Seq(Proposals) /\ execs \in Seq(ExecStatuses)
      /\ delegations \in Seq(DelegationRecords) /\ children \in Seq(ChildRecords)
      /\ DOMAIN children = {}
  BY <1>3
<1> QED
  BY <1>1, <1>2, <1>3, <1>4 DEF PlansOK, OrchestrationOK, PlanningStarts, NoOrphanTask

-----------------------------------------------------------------------------
\* Handoffs name a child and, once accepted, a delegation that exist.

HandoffRecords ==
  [sender : Nat \ {0}, parent : Nat, depth : Nat,
   status : {"REQUESTED", "ACCEPTED"} \cup HandoffTerminal, late : BOOLEAN, delegation : Nat]

HandoffsOK ==
  /\ handoffs \in Seq(HandoffRecords)
  /\ \A h \in DOMAIN handoffs : /\ handoffs[h].sender <= Len(children)
                                /\ handoffs[h].delegation <= Len(delegations)

LEMMA NothingIsForgotten ==
  ASSUME OrchestrationOK, OrchestrationStep
  PROVE  /\ Len(children') >= Len(children) /\ Len(delegations') >= Len(delegations)
         /\ \A d \in DOMAIN delegations : delegations'[d] = delegations[d]
         /\ \A c \in DOMAIN children : children'[c].delegation = children[c].delegation
<1>1. Len(children) \in Nat /\ Len(delegations) \in Nat
  BY DEF OrchestrationOK
<1>2. ASSUME NEW t, Delegated(t)
      PROVE  /\ Len(delegations') >= Len(delegations)
             /\ \A d \in DOMAIN delegations : delegations'[d] = delegations[d]
  BY <1>1, <1>2, DelegationIsAdded DEF Delegated
<1>3. ASSUME NEW c \in DOMAIN children, ChildMoves(c)
      PROVE  /\ Len(children') >= Len(children)
             /\ \A b \in DOMAIN children : children'[b].delegation = children[b].delegation
  BY <1>1, <1>3 DEF ChildMoves
<1>4. ASSUME NEW c \in DOMAIN children, Reconcile(c)
      PROVE  /\ Len(children') >= Len(children)
             /\ \A b \in DOMAIN children : children'[b].delegation = children[b].delegation
  <2>1. \E s : Accounted(c, s)
    BY <1>4 DEF Reconcile
  <2> QED
    BY <1>1, <2>1, ChildIsAccounted
<1>5. ASSUME NEW d \in DOMAIN delegations, StartDelegation(d)
      PROVE  /\ Len(children') >= Len(children)
             /\ \A b \in DOMAIN children : children'[b].delegation = children[b].delegation
  BY <1>1, <1>5, StartingKeepsTypes, ChildIsAdded
<1>6. CASE Accepting
  BY <1>2, <1>3, <1>6, AcceptanceKeepsTypes, AcceptAppends DEF Accepting
<1> QED
  BY <1>1, <1>2, <1>3, <1>4, <1>5, <1>6, StepKinds

-----------------------------------------------------------------------------
\* A task and its children stay in step.

MirrorOK ==
  /\ OrchestrationOK
  /\ \A b, c \in DOMAIN children : LiveChild(b) /\ LiveChild(c) /\ TaskOf(b) = TaskOf(c) => b = c
  /\ \A c \in DOMAIN children : LiveChild(c) => tasks[TaskOf(c)] \in {"IN_PROGRESS", "CANCELLED"}
  /\ \A t \in Tasks : tasks[t] = "IN_PROGRESS" =>
       \E c \in DOMAIN children : TaskOf(c) = t /\ LiveChild(c)
  /\ \A t \in Tasks : tasks[t] = "COMPLETED" => Delivered(t)

LEMMA TasksOfChildrenStay ==
  ASSUME OrchestrationOK, OrchestrationStep
  PROVE  /\ DOMAIN children \subseteq DOMAIN children'
         /\ \A c \in DOMAIN children : TaskOf(c)' = TaskOf(c)
<1>1. /\ DOMAIN children = 1..Len(children) /\ DOMAIN children' = 1..Len(children')
      /\ Len(children) \in Nat /\ Len(children') \in Nat
  BY TypesKept DEF OrchestrationOK
<1> QED
  BY <1>1, NothingIsForgotten, ChildrenHaveTasks DEF TaskOf

\* Outside a child's own steps a task leaves IN_PROGRESS only for CANCELLED.
LEMMA CancelledFromOutside ==
  ASSUME OrchestrationOK, Materialize \/ Cancel \/ OperatorCancels
  PROVE  \A t \in Tasks :
           /\ tasks[t] \in {"IN_PROGRESS", "CANCELLED"} => tasks'[t] \in {tasks[t], "CANCELLED"}
           /\ tasks'[t] \in {"IN_PROGRESS", "COMPLETED"} => tasks'[t] = tasks[t]
<1>1. tasks \in [Tasks -> TaskStatuses]
  BY DEF OrchestrationOK
<1>2. CASE Materialize
  BY <1>1, <1>2 DEF Materialize, Absent
<1>3. CASE Cancel
  BY <1>1, <1>3 DEF Cancel, Cancellable
<1>4. CASE OperatorCancels
  <2>1. tasks' = tasks \/ \E t \in Tasks : tasks' = [tasks EXCEPT ![t] = "CANCELLED"]
    BY <1>4 DEF OperatorCancels
  <2> QED
    BY <1>1, <2>1
<1> QED
  BY <1>2, <1>3, <1>4

LEMMA MovesKeepMirror ==
  ASSUME MirrorOK, OrchestrationStep, NEW c \in DOMAIN children, ChildMoves(c)
  PROVE  MirrorOK'
<1>1. OrchestrationOK'
  BY TypesKept DEF MirrorOK
<1>2. \A b \in DOMAIN children : TaskOf(b)' = TaskOf(b) /\ TaskOf(b) \in Tasks
  BY TasksOfChildrenStay, ChildrenHaveTasks DEF MirrorOK
<1>3. /\ DOMAIN children' = DOMAIN children
      /\ \A b \in DOMAIN children \ {c} : children'[b] = children[b]
      /\ LiveChild(c)
  BY DEF ChildMoves
<1>4. \A b \in DOMAIN children : LiveChild(b)' => LiveChild(b)
  BY <1>3 DEF LiveChild
<1>5. \A b \in DOMAIN children : b # c => LiveChild(b)' = LiveChild(b)
  BY <1>3 DEF LiveChild
<1>6. tasks \in [Tasks -> TaskStatuses]
  BY DEF MirrorOK, OrchestrationOK
<1>7. \A t \in Tasks : t # TaskOf(c) => tasks'[t] = tasks[t]
  BY <1>2, <1>6 DEF ChildMoves
<1>8. \/ LiveChild(c)' /\ tasks'[TaskOf(c)] = tasks[TaskOf(c)]
      \/ /\ ~ LiveChild(c)' /\ tasks'[TaskOf(c)] # "IN_PROGRESS"
         /\ tasks'[TaskOf(c)] = "COMPLETED" =>
              children'[c].status = "SUCCEEDED" \/ tasks[TaskOf(c)] = "COMPLETED"
  BY <1>2, <1>6 DEF ChildMoves, LiveChild
<1>9. ASSUME NEW a \in DOMAIN children', NEW b \in DOMAIN children',
             LiveChild(a)', LiveChild(b)', TaskOf(a)' = TaskOf(b)'
      PROVE  a = b
  BY <1>2, <1>3, <1>4, <1>9 DEF MirrorOK
<1>10. ASSUME NEW b \in DOMAIN children', LiveChild(b)'
       PROVE  (tasks[TaskOf(b)] \in {"IN_PROGRESS", "CANCELLED"})'
  <2>1. LiveChild(b) /\ tasks[TaskOf(b)] \in {"IN_PROGRESS", "CANCELLED"}
    BY <1>3, <1>4, <1>10 DEF MirrorOK
  <2>2. CASE TaskOf(b) = TaskOf(c)
    <3>1. b = c
      BY <1>3, <2>1, <2>2 DEF MirrorOK
    <3> QED
      BY <1>2, <1>8, <1>10, <2>1, <3>1
  <2>3. CASE TaskOf(b) # TaskOf(c)
    BY <1>2, <1>3, <1>7, <2>1, <2>3
  <2> QED
    BY <2>2, <2>3
<1>11. ASSUME NEW t \in Tasks, tasks'[t] = "IN_PROGRESS"
       PROVE  \E b \in DOMAIN children' : TaskOf(b)' = t /\ LiveChild(b)'
  <2>1. CASE t = TaskOf(c)
    BY <1>2, <1>3, <1>8, <1>11, <2>1
  <2>2. CASE t # TaskOf(c)
    <3>1. PICK b \in DOMAIN children : TaskOf(b) = t /\ LiveChild(b)
      BY <1>7, <1>11, <2>2 DEF MirrorOK
    <3> QED
      BY <1>2, <1>3, <1>5, <2>2, <3>1
  <2> QED
    BY <2>1, <2>2
<1>12. ASSUME NEW t \in Tasks, tasks'[t] = "COMPLETED"
       PROVE  Delivered(t)'
  <2>1. CASE tasks[t] = "COMPLETED"
    <3>1. PICK b \in DOMAIN children : TaskOf(b) = t /\ children[b].status = "SUCCEEDED"
      BY <2>1 DEF MirrorOK, Delivered
    <3>2. b # c
      BY <1>3, <3>1 DEF LiveChild
    <3> QED
      BY <1>2, <1>3, <3>1, <3>2 DEF Delivered
  <2>2. CASE tasks[t] # "COMPLETED"
    <3>1. t = TaskOf(c)
      BY <1>7, <1>12, <2>2
    <3>2. children'[c].status = "SUCCEEDED"
      BY <1>8, <1>12, <2>2, <3>1
    <3> QED
      BY <1>2, <1>3, <3>1, <3>2 DEF Delivered
  <2> QED
    BY <2>1, <2>2
<1> QED
  BY <1>1, <1>9, <1>10, <1>11, <1>12 DEF MirrorOK

LEMMA StartingKeepsMirror ==
  ASSUME MirrorOK, OrchestrationStep, NEW d \in DOMAIN delegations, StartDelegation(d),
         UNCHANGED delegations
  PROVE  MirrorOK'
<1> DEFINE t == delegations[d].task
<1>1. OrchestrationOK /\ OrchestrationOK'
  BY TypesKept DEF MirrorOK
<1> PICK n \in Nat : n = Len(children')
  BY <1>1 DEF OrchestrationOK
<1>2. \A b \in DOMAIN children : TaskOf(b)' = TaskOf(b) /\ TaskOf(b) \in Tasks
  BY TasksOfChildrenStay, ChildrenHaveTasks DEF MirrorOK
<1>3. /\ DOMAIN children' = DOMAIN children \cup {n} /\ n \notin DOMAIN children
      /\ \A b \in DOMAIN children : children'[b] = children[b]
      /\ children'[n].delegation = d /\ children'[n].status = "RUNNING"
  <2>1. PICK e \in Nat : children' = Append(children, Child(d, e))
    BY <1>1, StartingKeepsTypes
  <2>2. /\ Len(children') = Len(children) + 1
        /\ \A b \in DOMAIN children : children'[b] = children[b]
        /\ children'[n].delegation = d /\ children'[n].status = "RUNNING"
    BY <1>1, <2>1, ChildIsAdded
  <2>3. /\ DOMAIN children = 1..Len(children) /\ DOMAIN children' = 1..n /\ Len(children) \in Nat
    BY <1>1 DEF OrchestrationOK
  <2> QED
    BY <2>2, <2>3
<1>4. TaskOf(n)' = t /\ LiveChild(n)' /\ \A b \in DOMAIN children : LiveChild(b)' = LiveChild(b)
  BY <1>3 DEF TaskOf, LiveChild
<1>5. t \in Tasks /\ tasks[t] \in {"PROPOSED", "READY"}
  <2>1. delegations[d] \in DelegationRecords /\ t \in ReadyTasks
    BY <1>1 DEF OrchestrationOK, StartDelegation, MayStart
  <2> QED
    BY <2>1 DEF DelegationRecords, ReadyTasks
<1>6. /\ tasks'[t] = "IN_PROGRESS"
      /\ \A u \in Tasks \ {t} : tasks'[u] = tasks[u]
  BY <1>1, <1>5 DEF StartDelegation, OrchestrationOK
<1>7. \A b \in DOMAIN children : LiveChild(b) => TaskOf(b) # t
  BY <1>5 DEF MirrorOK
<1> HIDE DEF t
<1>8. ASSUME NEW a \in DOMAIN children', NEW b \in DOMAIN children',
             LiveChild(a)', LiveChild(b)', TaskOf(a)' = TaskOf(b)'
      PROVE  a = b
  <2>1. CASE a = n \/ b = n
    BY <1>2, <1>3, <1>4, <1>7, <1>8, <2>1
  <2>2. CASE a \in DOMAIN children /\ b \in DOMAIN children
    BY <1>2, <1>4, <1>8, <2>2 DEF MirrorOK
  <2> QED
    BY <1>3, <2>1, <2>2
<1>9. ASSUME NEW b \in DOMAIN children', LiveChild(b)'
      PROVE  (tasks[TaskOf(b)] \in {"IN_PROGRESS", "CANCELLED"})'
  <2>1. CASE b = n
    BY <1>4, <1>6, <2>1
  <2>2. CASE b \in DOMAIN children
    <3>1. LiveChild(b) /\ TaskOf(b) # t /\ tasks[TaskOf(b)] \in {"IN_PROGRESS", "CANCELLED"}
      BY <1>4, <1>7, <1>9, <2>2 DEF MirrorOK
    <3> QED
      BY <1>2, <1>6, <2>2, <3>1
  <2> QED
    BY <1>3, <2>1, <2>2
<1>10. ASSUME NEW u \in Tasks, tasks'[u] = "IN_PROGRESS"
       PROVE  \E b \in DOMAIN children' : TaskOf(b)' = u /\ LiveChild(b)'
  <2>1. CASE u = t
    BY <1>3, <1>4, <2>1
  <2>2. CASE u # t
    <3>1. PICK b \in DOMAIN children : TaskOf(b) = u /\ LiveChild(b)
      BY <1>6, <1>10, <2>2 DEF MirrorOK
    <3> QED
      BY <1>2, <1>3, <1>4, <3>1
  <2> QED
    BY <2>1, <2>2
<1>11. ASSUME NEW u \in Tasks, tasks'[u] = "COMPLETED"
       PROVE  Delivered(u)'
  <2>1. tasks[u] = "COMPLETED"
    BY <1>6, <1>11
  <2>2. PICK b \in DOMAIN children : TaskOf(b) = u /\ children[b].status = "SUCCEEDED"
    BY <2>1 DEF MirrorOK, Delivered
  <2> QED
    BY <1>2, <1>3, <2>2 DEF Delivered
<1> QED
  BY <1>1, <1>8, <1>9, <1>10, <1>11 DEF MirrorOK

\* No status of a child changes, and a task only from outside.
LEMMA OthersKeepMirror ==
  ASSUME MirrorOK, OrchestrationStep, DOMAIN children' = DOMAIN children,
         \A c \in DOMAIN children : children'[c].status = children[c].status,
         UNCHANGED tasks \/ Materialize \/ Cancel \/ OperatorCancels
  PROVE  MirrorOK'
<1>1. OrchestrationOK /\ OrchestrationOK'
  BY TypesKept DEF MirrorOK
<1>2. \A b \in DOMAIN children : TaskOf(b)' = TaskOf(b) /\ TaskOf(b) \in Tasks
  BY TasksOfChildrenStay, ChildrenHaveTasks DEF MirrorOK
<1>3. \A b \in DOMAIN children : LiveChild(b)' = LiveChild(b)
  BY DEF LiveChild
<1>4. \A t \in Tasks :
        /\ tasks[t] \in {"IN_PROGRESS", "CANCELLED"} => tasks'[t] \in {tasks[t], "CANCELLED"}
        /\ tasks'[t] \in {"IN_PROGRESS", "COMPLETED"} => tasks'[t] = tasks[t]
  BY <1>1, CancelledFromOutside
<1>5. \A t \in Tasks : Delivered(t) => Delivered(t)'
  BY <1>2 DEF Delivered
<1>6. \A b, c \in DOMAIN children' :
        LiveChild(b)' /\ LiveChild(c)' /\ TaskOf(b)' = TaskOf(c)' => b = c
  BY <1>2, <1>3 DEF MirrorOK
<1>7. \A c \in DOMAIN children' : LiveChild(c)' => (tasks[TaskOf(c)] \in {"IN_PROGRESS", "CANCELLED"})'
  BY <1>2, <1>3, <1>4 DEF MirrorOK
<1>8. \A t \in Tasks : tasks'[t] = "IN_PROGRESS" =>
        \E c \in DOMAIN children' : TaskOf(c)' = t /\ LiveChild(c)'
  BY <1>2, <1>3, <1>4 DEF MirrorOK
<1>9. \A t \in Tasks : tasks'[t] = "COMPLETED" => Delivered(t)'
  BY <1>4, <1>5 DEF MirrorOK
<1> QED
  BY <1>1, <1>6, <1>7, <1>8, <1>9 DEF MirrorOK

LEMMA MirrorKept ==
  ASSUME MirrorOK, OrchestrationStep
  PROVE  MirrorOK'
<1>1. OrchestrationOK
  BY DEF MirrorOK
<1>2. ASSUME NEW c \in DOMAIN children, Reconcile(c), UNCHANGED tasks
      PROVE  MirrorOK'
  <2>1. \E s : Accounted(c, s)
    BY <1>2 DEF Reconcile
  <2>2. /\ DOMAIN children' = DOMAIN children
        /\ \A b \in DOMAIN children : children'[b].status = children[b].status
    BY <1>1, <2>1, ChildIsAccounted
  <2> QED
    BY <1>2, <2>2, OthersKeepMirror
<1>3. CASE UNCHANGED children /\ (UNCHANGED tasks \/ Materialize \/ Cancel \/ OperatorCancels)
  BY <1>3, OthersKeepMirror
<1>4. CASE Accepting
  BY <1>1, <1>4, AcceptanceKeepsTypes, MovesKeepMirror DEF Accepting
<1> QED
  BY <1>1, <1>2, <1>3, <1>4, StepKinds, StartingKeepsMirror, MovesKeepMirror

LEMMA MirrorInit == Init => MirrorOK
<1> SUFFICES ASSUME Init PROVE MirrorOK
  OBVIOUS
<1>1. OrchestrationOK
  BY PlansInit DEF PlansOK
<1>2. DOMAIN children = {} /\ \A t \in Tasks : tasks[t] = Absent
  BY DEF Init
<1> QED
  BY <1>1, <1>2 DEF MirrorOK, Absent

LEMMA MirrorShown == MirrorOK => TaskMirrorsChild
<1> SUFFICES ASSUME MirrorOK, NEW t \in Tasks
             PROVE  LET live == {c \in DOMAIN children : TaskOf(c) = t /\ LiveChild(c)} IN
                    /\ Cardinality(live) <= 1
                    /\ live # {} => tasks[t] \in {"IN_PROGRESS", "CANCELLED"}
                    /\ tasks[t] = "IN_PROGRESS" => live # {}
  BY DEF TaskMirrorsChild
<1> DEFINE live == {c \in DOMAIN children : TaskOf(c) = t /\ LiveChild(c)}
<1>1. \A b, c \in live : b = c
  BY DEF MirrorOK
<1>2. live = {} \/ \E c \in live : live = {c}
  BY <1>1
<1>3. Cardinality(live) <= 1
  <2> HIDE DEF live
  <2>1. CASE live = {}
    BY <2>1, FS_EmptySet
  <2>2. ASSUME NEW c, live = {c} PROVE Cardinality(live) = 1
    BY <2>2, FS_Singleton
  <2> QED
    BY <1>2, <2>1, <2>2
<1>4. live # {} => tasks[t] \in {"IN_PROGRESS", "CANCELLED"}
  BY DEF MirrorOK
<1>5. tasks[t] = "IN_PROGRESS" => live # {}
  BY DEF MirrorOK
<1> QED
  BY <1>3, <1>4, <1>5

-----------------------------------------------------------------------------
\* A run transfers its task once.

\* A handoff step that accepts none.
HandoffRecorded ==
  \/ \E c \in DOMAIN children : \E p \in DOMAIN handoffs \cup {0} : RequestHandoff(c, p)
  \/ \E h \in DOMAIN handoffs :
       RejectHandoff(h) \/ ResolveLate(h) \/ CompleteHandoff(h) \/ DeadlinePasses(h)
  \/ ExpireHandoffs

LEMMA RecordsKeepTransfers ==
  ASSUME OrchestrationOK, HandoffsOK, HandoffRecorded
  PROVE  /\ UNCHANGED vars
         /\ handoffs' \in Seq(HandoffRecords)
         /\ \A h \in DOMAIN handoffs' :
              \/ /\ h \in DOMAIN handoffs
                 /\ handoffs'[h].sender = handoffs[h].sender
                 /\ handoffs'[h].delegation = handoffs[h].delegation
              \/ handoffs'[h].sender <= Len(children) /\ handoffs'[h].delegation = 0
<1>1. handoffs \in Seq(HandoffRecords) /\ \A h \in DOMAIN handoffs : handoffs[h] \in HandoffRecords
  BY DEF HandoffsOK
<1>2. ASSUME NEW c \in DOMAIN children, NEW p \in DOMAIN handoffs \cup {0}, RequestHandoff(c, p)
      PROVE  /\ handoffs' \in Seq(HandoffRecords)
             /\ \A h \in DOMAIN handoffs : handoffs'[h] = handoffs[h]
             /\ DOMAIN handoffs' = DOMAIN handoffs \cup {Len(handoffs) + 1}
             /\ handoffs'[Len(handoffs) + 1].sender <= Len(children)
             /\ handoffs'[Len(handoffs) + 1].delegation = 0
  <2> DEFINE depth == IF p = 0 THEN 1 ELSE handoffs[p].depth + 1
             x == [sender |-> c, parent |-> p, depth |-> depth, status |-> "REQUESTED",
                   late |-> FALSE, delegation |-> 0]
  <2>1. depth \in Nat /\ p \in Nat
    BY <1>1 DEF HandoffRecords
  <2>2. c \in Nat \ {0} /\ c <= Len(children)
    BY DEF OrchestrationOK
  <2>3. handoffs' = Append(handoffs, x)
    BY <1>2 DEF RequestHandoff
  <2> HIDE DEF depth
  <2>4. x \in HandoffRecords /\ x.sender <= Len(children) /\ x.delegation = 0
    BY <2>1, <2>2 DEF HandoffRecords
  <2> HIDE DEF x
  <2> QED
    BY <1>1, <2>3, <2>4
<1>3. ASSUME NEW h \in DOMAIN handoffs, NEW x \in HandoffRecords,
             handoffs' = [handoffs EXCEPT ![h] = x],
             x.sender = handoffs[h].sender, x.delegation = handoffs[h].delegation
      PROVE  /\ handoffs' \in Seq(HandoffRecords)
             /\ DOMAIN handoffs' = DOMAIN handoffs
             /\ \A g \in DOMAIN handoffs : /\ handoffs'[g].sender = handoffs[g].sender
                                           /\ handoffs'[g].delegation = handoffs[g].delegation
  BY <1>1, <1>3
<1>4. ASSUME NEW h \in DOMAIN handoffs,
             RejectHandoff(h) \/ ResolveLate(h) \/ CompleteHandoff(h) \/ DeadlinePasses(h)
      PROVE  \E x \in HandoffRecords :
               /\ handoffs' = [handoffs EXCEPT ![h] = x]
               /\ x.sender = handoffs[h].sender /\ x.delegation = handoffs[h].delegation
  <2>1. handoffs[h] \in HandoffRecords
    BY <1>1
  <2>2. ASSUME NEW s \in HandoffTerminal, SetHandoff(h, s)
        PROVE  \E x \in HandoffRecords :
                 /\ handoffs' = [handoffs EXCEPT ![h] = x]
                 /\ x.sender = handoffs[h].sender /\ x.delegation = handoffs[h].delegation
    <3> DEFINE x == [handoffs[h] EXCEPT !.status = s]
    <3>1. /\ x \in HandoffRecords
          /\ x.sender = handoffs[h].sender /\ x.delegation = handoffs[h].delegation
      BY <2>1 DEF HandoffRecords
    <3>2. handoffs' = [handoffs EXCEPT ![h] = x]
      BY <2>2 DEF SetHandoff
    <3> HIDE DEF x
    <3> QED
      BY <3>1, <3>2
  <2>3. CASE DeadlinePasses(h)
    <3> DEFINE x == [handoffs[h] EXCEPT !.late = TRUE]
    <3>1. /\ x \in HandoffRecords
          /\ x.sender = handoffs[h].sender /\ x.delegation = handoffs[h].delegation
      BY <2>1 DEF HandoffRecords
    <3>2. handoffs' = [handoffs EXCEPT ![h] = x]
      BY <2>3 DEF DeadlinePasses
    <3> HIDE DEF x
    <3> QED
      BY <3>1, <3>2
  <2> QED
    BY <1>4, <2>2, <2>3 DEF RejectHandoff, ResolveLate, CompleteHandoff, HandoffTerminal
<1>5. ASSUME ExpireHandoffs
      PROVE  /\ handoffs' \in Seq(HandoffRecords)
             /\ DOMAIN handoffs' = DOMAIN handoffs
             /\ \A g \in DOMAIN handoffs : /\ handoffs'[g].sender = handoffs[g].sender
                                           /\ handoffs'[g].delegation = handoffs[g].delegation
  <2>1. ASSUME NEW h \in DOMAIN handoffs
        PROVE  /\ handoffs'[h] \in HandoffRecords
               /\ handoffs'[h].sender = handoffs[h].sender
               /\ handoffs'[h].delegation = handoffs[h].delegation
    <3>1. handoffs'[h] = handoffs[h] \/ handoffs'[h] = [handoffs[h] EXCEPT !.status = "TIMED_OUT"]
      BY <1>5 DEF ExpireHandoffs
    <3>2. handoffs[h] \in HandoffRecords
      BY <1>1
    <3> QED
      BY <3>1, <3>2 DEF HandoffRecords, HandoffTerminal
  <2>2. Len(handoffs) \in Nat /\ DOMAIN handoffs = 1..Len(handoffs)
    BY <1>1
  <2>3. DOMAIN handoffs' = DOMAIN handoffs
    BY <1>5 DEF ExpireHandoffs
  <2>4. handoffs' = [h \in DOMAIN handoffs |-> handoffs'[h]]
    BY <1>5 DEF ExpireHandoffs
  <2>5. handoffs' \in [1..Len(handoffs) -> HandoffRecords]
    BY <2>1, <2>2, <2>4
  <2>6. \E n \in Nat : handoffs' \in [1..n -> HandoffRecords]
    BY <2>2, <2>5
  <2>7. handoffs' \in Seq(HandoffRecords)
    BY <2>6, SeqDef, Zenon
  <2> QED
    BY <2>1, <2>3, <2>7
<1>6. UNCHANGED vars
  BY DEF HandoffRecorded, RequestHandoff, RejectHandoff, ResolveLate, CompleteHandoff,
     DeadlinePasses, ExpireHandoffs
<1>7. CASE \E c \in DOMAIN children : \E p \in DOMAIN handoffs \cup {0} : RequestHandoff(c, p)
  BY <1>2, <1>6, <1>7
<1>8. CASE \E h \in DOMAIN handoffs :
             RejectHandoff(h) \/ ResolveLate(h) \/ CompleteHandoff(h) \/ DeadlinePasses(h)
  BY <1>3, <1>4, <1>6, <1>8
<1>9. CASE ExpireHandoffs
  BY <1>5, <1>6, <1>9
<1> QED
  BY <1>7, <1>8, <1>9 DEF HandoffRecorded

LEMMA FailedStays ==
  ASSUME OrchestrationOK, OrchestrationStep, NEW c \in DOMAIN children,
         children[c].status = "FAILED"
  PROVE  c \in DOMAIN children' /\ children'[c].status = "FAILED"
<1>1. c \in DOMAIN children'
  BY TasksOfChildrenStay
<1>2. ASSUME NEW b \in DOMAIN children, ChildMoves(b)
      PROVE  children'[c].status = "FAILED"
  BY <1>2 DEF ChildMoves, LiveChild
<1>3. ASSUME NEW b \in DOMAIN children, Reconcile(b)
      PROVE  children'[c].status = "FAILED"
  <2>1. \E s : Accounted(b, s)
    BY <1>3 DEF Reconcile
  <2> QED
    BY <2>1, ChildIsAccounted
<1>4. ASSUME NEW d \in DOMAIN delegations, StartDelegation(d)
      PROVE  children'[c].status = "FAILED"
  BY <1>4, StartingKeepsTypes, ChildIsAdded
<1>5. CASE Accepting
  <2>1. PICK b \in DOMAIN children : ChildMoves(b)
    BY <1>5, AcceptanceKeepsTypes DEF Accepting
  <2> QED
    BY <1>1, <1>2, <2>1
<1> QED
  BY <1>1, <1>2, <1>3, <1>4, <1>5, StepKinds

\* The child whose task is handed on had it in progress, and fails.
LEMMA SenderFails ==
  ASSUME MirrorOK, NEW h \in DOMAIN handoffs, NEW a \in Agents,
         handoffs[h].sender \in DOMAIN children, AcceptHandoff(h, a)
  PROVE  /\ LiveChild(handoffs[h].sender)
         /\ children'[handoffs[h].sender].status = "FAILED"
<1> DEFINE c == handoffs[h].sender
           cancelled == FALSE \/ execs[children[c].exec] = "CANCELLED"
                              \/ tasks[TaskOf(c)] = "CANCELLED"
           final     == IF cancelled THEN "CANCELLED" ELSE "FAILED"
<1>1. LiveChild(c) /\ ChildStopped(c, FALSE) /\ tasks'[TaskOf(c)] = "READY"
  BY DEF AcceptHandoff, EndSender
<1>2. /\ SetChild(c, final, FALSE)
      /\ tasks' = IF tasks[TaskOf(c)] # "IN_PROGRESS" THEN tasks
                  ELSE [tasks EXCEPT ![TaskOf(c)] = IF cancelled THEN final ELSE "READY"]
  BY <1>1 DEF ChildStopped
<1>3. tasks[TaskOf(c)] \in {"IN_PROGRESS", "CANCELLED"} /\ TaskOf(c) \in DOMAIN tasks
  BY <1>1, ChildrenHaveTasks DEF MirrorOK, OrchestrationOK
<1>4. ~ cancelled /\ final = "FAILED"
  BY <1>1, <1>2, <1>3
<1> HIDE DEF final, cancelled
<1>5. children'[c].status = "FAILED"
  BY <1>2, <1>4, ChildIsSet DEF MirrorOK
<1> QED
  BY <1>1, <1>5

TransfersOK == MirrorOK /\ HandoffsOK /\ OneTransferPerRun

LEMMA HandoffStepKinds ==
  ASSUME HandoffsOK, OrchestrationOK, [HandoffNext]_hvars
  PROVE  /\ OrchestrationStep
         /\ \/ UNCHANGED handoffs
            \/ HandoffRecorded
            \/ \E h \in DOMAIN handoffs, a \in Agents :
                 handoffs[h].sender \in DOMAIN children /\ AcceptHandoff(h, a)
<1>1. \A h \in DOMAIN handoffs : handoffs[h].sender \in DOMAIN children
  <2>1. \A h \in DOMAIN handoffs :
          handoffs[h] \in HandoffRecords /\ handoffs[h].sender <= Len(children)
    BY DEF HandoffsOK
  <2> QED
    BY <2>1 DEF OrchestrationOK, HandoffRecords
<1>2. \/ UNCHANGED hvars
      \/ Next /\ UNCHANGED handoffs
      \/ HandoffRecorded
      \/ \E h \in DOMAIN handoffs, a \in Agents : AcceptHandoff(h, a)
  <2>1. HandoffStep => \/ HandoffRecorded
                       \/ \E h \in DOMAIN handoffs, a \in Agents : AcceptHandoff(h, a)
    BY Zenon DEF HandoffStep, HandoffRecorded
  <2> QED
    BY <2>1 DEF HandoffNext
<1>3. HandoffRecorded => UNCHANGED vars
  BY RecordsKeepTransfers
<1> QED
  BY <1>1, <1>2, <1>3 DEF OrchestrationStep, hvars, Accepting

LEMMA TransfersKept ==
  ASSUME TransfersOK, [HandoffNext]_hvars
  PROVE  TransfersOK'
<1>1. MirrorOK /\ OrchestrationOK /\ HandoffsOK /\ OrchestrationStep
  BY HandoffStepKinds DEF TransfersOK, MirrorOK
<1>2. MirrorOK'
  BY <1>1, MirrorKept
<1>3. /\ Len(children) \in Nat /\ Len(children') \in Nat /\ Len(children') >= Len(children)
      /\ Len(delegations) \in Nat /\ Len(delegations') \in Nat
      /\ Len(delegations') >= Len(delegations)
  BY <1>1, <1>2, NothingIsForgotten DEF MirrorOK, OrchestrationOK
<1>4. \A h \in DOMAIN handoffs : /\ handoffs[h] \in HandoffRecords
                                 /\ handoffs[h].sender \in Nat /\ handoffs[h].delegation \in Nat
                                 /\ handoffs[h].sender \in DOMAIN children
                                 /\ handoffs[h].sender <= Len(children)
                                 /\ handoffs[h].delegation <= Len(delegations)
  <2>1. \A h \in DOMAIN handoffs :
          handoffs[h] \in HandoffRecords /\ handoffs[h].sender <= Len(children)
          /\ handoffs[h].delegation <= Len(delegations)
    BY <1>1 DEF HandoffsOK
  <2>2. DOMAIN children = 1..Len(children)
    BY <1>1 DEF OrchestrationOK
  <2> QED
    BY <1>3, <2>1, <2>2 DEF HandoffRecords
<1>5. CASE UNCHANGED handoffs
  <2>1. HandoffsOK'
    BY <1>1, <1>3, <1>4, <1>5 DEF HandoffsOK
  <2>2. OneTransferPerRun'
    BY <1>1, <1>4, <1>5, FailedStays DEF TransfersOK, OneTransferPerRun, Accepted
  <2> QED
    BY <1>2, <2>1, <2>2 DEF TransfersOK
<1>6. CASE HandoffRecorded
  <2>1. UNCHANGED <<children, delegations>>
    BY <1>1, <1>6, RecordsKeepTransfers DEF vars
  <2>2. /\ handoffs' \in Seq(HandoffRecords)
        /\ \A h \in DOMAIN handoffs' :
             \/ /\ h \in DOMAIN handoffs
                /\ handoffs'[h].sender = handoffs[h].sender
                /\ handoffs'[h].delegation = handoffs[h].delegation
             \/ handoffs'[h].sender <= Len(children) /\ handoffs'[h].delegation = 0
    BY <1>1, <1>6, RecordsKeepTransfers
  <2>3. HandoffsOK'
    BY <1>3, <1>4, <2>1, <2>2 DEF HandoffsOK
  <2>4. OneTransferPerRun'
    BY <2>1, <2>2 DEF TransfersOK, OneTransferPerRun, Accepted
  <2> QED
    BY <1>2, <2>3, <2>4 DEF TransfersOK
<1>7. ASSUME NEW h \in DOMAIN handoffs, NEW a \in Agents, AcceptHandoff(h, a)
      PROVE  TransfersOK'
  <2> DEFINE c == handoffs[h].sender
             x == [sender |-> c, parent |-> handoffs[h].parent, depth |-> handoffs[h].depth,
                   status |-> "ACCEPTED", late |-> FALSE, delegation |-> Len(delegations) + 1]
  <2>1. x \in HandoffRecords /\ x.sender = c /\ x.delegation = Len(delegations) + 1
    BY <1>3, <1>4 DEF HandoffRecords
  <2>2. handoffs' = [handoffs EXCEPT ![h] = x]
    BY <1>7 DEF AcceptHandoff
  <2>3. LiveChild(c) /\ children'[c].status = "FAILED"
    BY <1>1, <1>4, <1>7, SenderFails
  <2>4. Len(delegations') = Len(delegations) + 1
    BY <1>1, <1>4, <1>7, AcceptAppends, DelegationIsAdded DEF Delegated
  <2> HIDE DEF x
  <2>5. /\ handoffs' \in Seq(HandoffRecords) /\ DOMAIN handoffs' = DOMAIN handoffs
        /\ handoffs'[h] = x
        /\ \A g \in DOMAIN handoffs \ {h} : handoffs'[g] = handoffs[g]
    BY <1>1, <2>1, <2>2 DEF HandoffsOK
  <2>6. HandoffsOK'
    BY <1>3, <1>4, <2>1, <2>4, <2>5 DEF HandoffsOK
  <2>7. ASSUME NEW g \in DOMAIN handoffs \ {h}, Accepted(g)
        PROVE  /\ children'[handoffs[g].sender].status = "FAILED"
               /\ handoffs[g].sender # c /\ handoffs[g].delegation # Len(delegations) + 1
    <3>1. children[handoffs[g].sender].status = "FAILED"
      BY <2>7 DEF TransfersOK, OneTransferPerRun
    <3> QED
      BY <1>1, <1>3, <1>4, <2>3, <3>1, FailedStays DEF LiveChild
  <2>8. \A g \in DOMAIN handoffs \ {h} : Accepted(g)' = Accepted(g)
    BY <2>5 DEF Accepted
  <2>9. \A g, k \in DOMAIN handoffs \ {h} : Accepted(g) /\ Accepted(k) /\ g # k =>
          handoffs[g].sender # handoffs[k].sender /\ handoffs[g].delegation # handoffs[k].delegation
    BY DEF TransfersOK, OneTransferPerRun
  <2>10. OneTransferPerRun'
    BY <2>1, <2>3, <2>5, <2>7, <2>8, <2>9 DEF OneTransferPerRun
  <2> QED
    BY <1>2, <2>6, <2>10 DEF TransfersOK
<1> QED
  BY <1>1, <1>5, <1>6, <1>7, HandoffStepKinds

LEMMA TransfersInit == HandoffInit => TransfersOK
<1> SUFFICES ASSUME HandoffInit PROVE TransfersOK
  OBVIOUS
<1>1. handoffs = <<>> /\ Init
  BY DEF HandoffInit
<1>2. handoffs \in Seq(HandoffRecords) /\ DOMAIN handoffs = {}
  BY <1>1
<1> QED
  BY <1>1, <1>2, MirrorInit DEF TransfersOK, HandoffsOK, OneTransferPerRun

-----------------------------------------------------------------------------
\* Assignments of a task move on.

AssignmentsOK ==
  /\ OrchestrationOK
  /\ \A d, e \in DOMAIN delegations :
       delegations[d].task = delegations[e].task /\ d < e =>
         /\ delegations[d].retry <= delegations[e].retry
         /\ delegations[d].redelegation <= delegations[e].redelegation
         /\ delegations[d].retry + delegations[d].redelegation
              < delegations[e].retry + delegations[e].redelegation
         /\ delegations[d].agent = delegations[e].agent
              <=> delegations[d].redelegation = delegations[e].redelegation

LEMMA DelegationsMove ==
  ASSUME OrchestrationOK, OrchestrationStep
  PROVE  UNCHANGED delegations \/ \E t \in Tasks : Delegated(t)
BY StepKinds, AcceptAppends DEF Accepting, Materialize, Cancel, OperatorCancels

LEMMA AssignmentsKept ==
  ASSUME AssignmentsOK, OrchestrationStep
  PROVE  AssignmentsOK'
<1>1. OrchestrationOK /\ OrchestrationOK'
  BY TypesKept DEF AssignmentsOK
<1>2. CASE UNCHANGED delegations
  BY <1>1, <1>2 DEF AssignmentsOK
<1>3. ASSUME NEW t \in Tasks, Delegated(t)
      PROVE  AssignmentsOK'
  <2>1. PICK x \in DelegationRecords : /\ x.task = t /\ NextOrdinals(t, x)
                                       /\ delegations' = Append(delegations, x)
    BY <1>3 DEF Delegated
  <2> PICK n \in Nat : n = Len(delegations) + 1
    BY <1>1 DEF OrchestrationOK
  <2>2. /\ DOMAIN delegations' = DOMAIN delegations \cup {n}
        /\ \A d \in DOMAIN delegations : delegations'[d] = delegations[d]
        /\ delegations'[n] = x
        /\ \A d \in DOMAIN delegations : d \in Nat /\ d < n
    BY <1>1, <2>1, DelegationIsAdded DEF OrchestrationOK
  <2>3. ASSUME NEW d \in DOMAIN delegations, delegations[d].task = t
        PROVE  /\ delegations[d].retry <= x.retry
               /\ delegations[d].redelegation <= x.redelegation
               /\ delegations[d].retry + delegations[d].redelegation < x.retry + x.redelegation
               /\ delegations[d].agent = x.agent
                    <=> delegations[d].redelegation = x.redelegation
    <3> DEFINE l == Last(DelegationsOf(t))
               p == delegations[l]
    <3>1. d \in DelegationsOf(t) /\ DelegationsOf(t) # {}
      BY <2>3 DEF DelegationsOf
    <3>2. l \in DelegationsOf(t) /\ d <= l
      BY <1>1, <3>1, OrdinalsStayInBounds
    <3>3. l \in DOMAIN delegations /\ p.task = t /\ p = Previous(t)
      BY <3>2 DEF DelegationsOf, Previous
    <3>4. /\ delegations[d] \in DelegationRecords /\ p \in DelegationRecords
          /\ d \in Nat /\ l \in Nat
      BY <1>1, <3>3 DEF OrchestrationOK
    <3>5. /\ delegations[d].retry \in Nat /\ delegations[d].redelegation \in Nat
          /\ p.retry \in Nat /\ p.redelegation \in Nat
          /\ x.retry \in Nat /\ x.redelegation \in Nat
      BY <3>4 DEF DelegationRecords
    <3>6. /\ delegations[d].retry <= p.retry /\ delegations[d].redelegation <= p.redelegation
          /\ delegations[d].agent = p.agent <=> delegations[d].redelegation = p.redelegation
      <4>1. CASE d = l
        BY <3>5, <4>1
      <4>2. CASE d < l
        BY <2>3, <3>3, <4>2 DEF AssignmentsOK
      <4> QED
        BY <3>2, <3>4, <4>1, <4>2
    <3>7. \/ /\ x.agent = p.agent
             /\ x.retry = p.retry + 1 /\ x.redelegation = p.redelegation
          \/ /\ x.agent # delegations[d].agent
             /\ x.retry = p.retry /\ x.redelegation = p.redelegation + 1
      BY <2>1, <3>1, <3>3 DEF NextOrdinals
    <3> HIDE DEF l, p
    <3> QED
      BY <3>5, <3>6, <3>7
  <2>4. ASSUME NEW d \in DOMAIN delegations', NEW e \in DOMAIN delegations',
               delegations'[d].task = delegations'[e].task, d < e
        PROVE  /\ delegations'[d].retry <= delegations'[e].retry
               /\ delegations'[d].redelegation <= delegations'[e].redelegation
               /\ delegations'[d].retry + delegations'[d].redelegation
                    < delegations'[e].retry + delegations'[e].redelegation
               /\ delegations'[d].agent = delegations'[e].agent
                    <=> delegations'[d].redelegation = delegations'[e].redelegation
    <3>1. d \in DOMAIN delegations
      BY <2>2, <2>4
    <3>2. CASE e = n
      BY <2>1, <2>2, <2>3, <2>4, <3>1, <3>2
    <3>3. CASE e \in DOMAIN delegations
      BY <2>2, <2>4, <3>1, <3>3 DEF AssignmentsOK
    <3> QED
      BY <2>2, <3>2, <3>3
  <2> QED
    BY <1>1, <2>4 DEF AssignmentsOK
<1> QED
  BY <1>1, <1>2, <1>3, DelegationsMove

LEMMA AssignmentsShown == AssignmentsOK => AssignmentsMoveOn
<1> SUFFICES ASSUME AssignmentsOK, NEW t \in Tasks,
                    NEW d \in DelegationsOf(t), NEW e \in DelegationsOf(t)
             PROVE  /\ delegations[d].retry <= MaxRetries
                    /\ delegations[d].redelegation <= MaxRedelegations
                    /\ d < e => delegations[d].retry + delegations[d].redelegation
                                  < delegations[e].retry + delegations[e].redelegation
                    /\ delegations[d].agent = delegations[e].agent
                         <=> delegations[d].redelegation = delegations[e].redelegation
  BY DEF AssignmentsMoveOn
<1>1. /\ d \in DOMAIN delegations /\ e \in DOMAIN delegations
      /\ delegations[d].task = delegations[e].task
  BY DEF DelegationsOf
<1>2. delegations[d] \in DelegationRecords /\ d \in Nat /\ e \in Nat
  BY <1>1 DEF AssignmentsOK, OrchestrationOK
<1>3. delegations[d].retry <= MaxRetries /\ delegations[d].redelegation <= MaxRedelegations
  BY <1>2, OrchestrationAssumption DEF DelegationRecords, OrchestrationAssumption
<1>4. CASE d < e
  BY <1>1, <1>3, <1>4 DEF AssignmentsOK
<1>5. CASE e < d
  BY <1>1, <1>2, <1>3, <1>5 DEF AssignmentsOK
<1>6. CASE d = e
  BY <1>2, <1>3, <1>6
<1> QED
  BY <1>2, <1>4, <1>5, <1>6

-----------------------------------------------------------------------------
\* A run is completed with its goal, over finished work.

EarnedOK ==
  /\ PlansOK /\ MirrorOK /\ 0 \notin materialized
  /\ orun.status = "COMPLETED" <=> goal = "SATISFIED"
  /\ orun.status = "COMPLETED" => plans # <<>> /\ \A t \in DOMAIN Plan : tasks[t] = "COMPLETED"

LEMMA CompletedStays ==
  ASSUME OrchestrationOK, OrchestrationStep, NEW t \in Tasks, tasks[t] = "COMPLETED"
  PROVE  tasks'[t] = "COMPLETED"
<1>1. tasks \in [Tasks -> TaskStatuses]
  BY DEF OrchestrationOK
<1>2. ASSUME NEW c \in DOMAIN children, ChildMoves(c)
      PROVE  tasks'[t] = "COMPLETED"
  BY <1>1, <1>2 DEF ChildMoves
<1>3. ASSUME NEW d \in DOMAIN delegations, StartDelegation(d)
      PROVE  tasks'[t] = "COMPLETED"
  <2>1. tasks' = [tasks EXCEPT ![delegations[d].task] = "IN_PROGRESS"]
    BY <1>3 DEF StartDelegation
  <2>2. delegations[d].task \in ReadyTasks
    BY <1>3 DEF StartDelegation, MayStart
  <2>3. delegations[d].task # t
    BY <2>2 DEF ReadyTasks
  <2> QED
    BY <1>1, <2>1, <2>3
<1>4. CASE Materialize
  BY <1>1, <1>4 DEF Materialize, Absent
<1>5. CASE Cancel
  BY <1>1, <1>5 DEF Cancel, Cancellable
<1>6. CASE OperatorCancels
  <2>1. TaskAllowed["COMPLETED"] = {}
    BY DEF TaskAllowed
  <2>2. tasks' = tasks \/ \E u \in Tasks : /\ "CANCELLED" \in TaskAllowed[tasks[u]]
                                           /\ tasks' = [tasks EXCEPT ![u] = "CANCELLED"]
    BY <1>6 DEF OperatorCancels
  <2> QED
    BY <1>1, <2>1, <2>2
<1>7. CASE Accepting
  <2>1. PICK c \in DOMAIN children : ChildMoves(c)
    BY <1>7, AcceptanceKeepsTypes DEF Accepting
  <2> QED
    BY <1>2, <2>1
<1> QED
  BY <1>2, <1>3, <1>4, <1>5, <1>6, <1>7, StepKinds

\* A run is completed by a reconciliation that satisfies its goal, and by nothing else.
Completing ==
  /\ orun.status # "COMPLETED" /\ orun'.status = "COMPLETED" /\ goal' = "SATISFIED"
  /\ plans # <<>> /\ \A t \in DOMAIN Plan : tasks[t] = "COMPLETED"
  /\ UNCHANGED <<tasks, plans>>

LEMMA StatusMoves ==
  ASSUME EarnedOK, OrchestrationStep
  PROVE  \/ /\ orun'.status = orun.status /\ (plans' = plans \/ orun.status # "COMPLETED")
            /\ goal' = goal \/ (goal = "ACTIVE" /\ goal' = "CANCELLED")
         \/ /\ orun.status # "COMPLETED" /\ orun'.status # "COMPLETED"
            /\ goal' = goal \/ goal' = "CANCELLED"
         \/ Completing
<1>1. OrchestrationOK /\ PlanningStarts
  BY DEF EarnedOK, MirrorOK, PlansOK
<1>2. \A s : [orun EXCEPT !.status = s].status = s
  BY <1>1 DEF OrchestrationOK, RunRecords
<1>3. \A e : [orun EXCEPT !.exec = e].status = orun.status
  BY <1>1 DEF OrchestrationOK, RunRecords
<1>4. CASE UNCHANGED vars
  BY <1>4 DEF vars, canon
<1>5. CASE Start \/ Replan
  BY <1>2, <1>5 DEF Start, Replan, canon, Absent
<1>6. CASE PlannerAnswers
  <2>1. \/ UNCHANGED goal /\ orun'.status # "COMPLETED" /\ orun.status # "COMPLETED"
        \/ UNCHANGED <<orun, goal, plans>>
    <3>1. ASSUME NEW kind \in Kinds, PlannerRefused(kind)
          PROVE  \/ UNCHANGED goal /\ orun'.status # "COMPLETED" /\ orun.status # "COMPLETED"
                 \/ UNCHANGED <<orun, goal, plans>>
      <4>1. UNCHANGED <<goal, plans>>
        BY <3>1 DEF PlannerRefused, Answered, canon
      <4>2. CASE OpenRun
        <5>1. orun' = [orun EXCEPT !.status = IF kind = "start" THEN "FAILED" ELSE "WAITING"]
          BY <3>1, <4>2 DEF PlannerRefused
        <5> QED
          BY <1>2, <4>1, <4>2, <5>1 DEF OpenRun, Ended
      <4>3. CASE ~ OpenRun
        BY <3>1, <4>1, <4>3 DEF PlannerRefused
      <4> QED
        BY <4>2, <4>3
    <3>2. ASSUME NEW kind \in Kinds, NEW p \in Proposals, PlannerAccepted(kind, p)
          PROVE  UNCHANGED goal /\ orun'.status # "COMPLETED" /\ orun.status # "COMPLETED"
      BY <3>2 DEF PlannerAccepted, Answered, MayAccept, OpenRun, Ended, canon
    <3>3. ASSUME NEW kind \in Kinds, PlannerEscapes(kind)
          PROVE  UNCHANGED <<orun, goal, plans>>
      BY <3>3 DEF PlannerEscapes, Answered, canon
    <3> QED
      BY <1>6, <3>1, <3>2, <3>3 DEF PlannerAnswers
  <2> QED
    BY <2>1
<1>7. CASE Materialize
  <2>1. UNCHANGED <<goal, plans>> /\ (orun' = orun \/ \E e : orun' = [orun EXCEPT !.exec = e])
    BY <1>7 DEF Materialize
  <2> QED
    BY <1>3, <2>1
<1>8. ASSUME NEW t \in Tasks, Delegate(t)
      PROVE  UNCHANGED goal /\ orun'.status # "COMPLETED" /\ orun.status # "COMPLETED"
  BY <1>2, <1>8 DEF Delegate, DelegateInitial, DelegateRetry, DelegateAgain, NobodyEligible,
     Assign, ReadyTasks, canon
<1>9. ASSUME NEW d \in DOMAIN delegations, StartDelegation(d)
      PROVE  UNCHANGED <<goal, plans>> /\ orun'.status = orun.status
  BY <1>1, <1>9, StartingKeepsTypes DEF StartDelegation
<1>10. ASSUME NEW c \in DOMAIN children, ChildStep(c) \/ ResumeContext(c) \/ BeginApproval(c)
                                         \/ ApprovalStep(c)
       PROVE  /\ UNCHANGED <<goal, plans>>
              /\ \/ orun'.status = orun.status
                 \/ orun.status # "COMPLETED" /\ orun'.status # "COMPLETED"
  <2>1. UNCHANGED <<goal, plans>>
    BY <1>10 DEF ChildStep, ChildFails, ChildSucceeds, ChildWaits, ResumeContext,
       BeginApproval, ApprovalStep, ApprovalResumes, ApprovalRaises, ApprovalReturns, canon
  <2>2. \/ orun' = orun
        \/ orun.status = "WAITING" /\ orun' = [orun EXCEPT !.status = "RUNNING"]
        \/ orun.status = "RUNNING" /\ orun' = [orun EXCEPT !.status = "WAITING"]
    BY <1>10 DEF ChildStep, ChildFails, ChildSucceeds, ChildWaits, ResumeContext,
       BeginApproval, ApprovalStep, ApprovalResumes, ApprovalRaises, ApprovalReturns, MayResume
  <2> QED
    BY <1>2, <2>1, <2>2
<1>11. ASSUME NEW c \in DOMAIN children, Reconcile(c)
       PROVE  \/ /\ UNCHANGED goal
                 /\ orun.status # "COMPLETED" /\ orun'.status # "COMPLETED"
              \/ Completing
  <2> DEFINE s == IF children[c].status = "WAITING" \/ Failures >= MaxFailed
                  THEN "WAITING" ELSE orun.status
  <2>1. orun.status # "COMPLETED" /\ UNCHANGED <<tasks, plans>> /\ s # "COMPLETED"
    BY <1>11 DEF Reconcile, OpenRun, Ended
  <2>2. CASE Accounted(c, s) /\ UNCHANGED goal
    <3>1. orun'.status = s
      BY <2>2 DEF Accounted
    <3> HIDE DEF s
    <3> QED
      BY <2>1, <2>2, <3>1
  <2>3. CASE ~ (Accounted(c, s) /\ UNCHANGED goal)
    <3>1. /\ children[c].status = "SUCCEEDED" /\ Completes /\ goal' = "SATISFIED"
          /\ Accounted(c, "COMPLETED") /\ Current
      BY <1>11, <2>3 DEF Reconcile
    <3>2. orun'.status = "COMPLETED"
      BY <3>1 DEF Accounted
    <3>3. plans # <<>>
      BY <3>1 DEF Current, EarnedOK
    <3>4. \A t \in DOMAIN Plan : tasks[t] = "COMPLETED"
      BY <3>1 DEF Completes, AllComplete
    <3> QED
      BY <2>1, <3>1, <3>2, <3>3, <3>4 DEF Completing
  <2> QED
    BY <2>2, <2>3
<1>12. CASE Cancel
  BY <1>2, <1>12 DEF Cancel, OpenRun, Ended
<1>13. CASE OperatorCancels
  BY <1>13 DEF OperatorCancels
<1>14. CASE Crash
  BY <1>14 DEF Crash, canon
<1>15. CASE Accepting
  BY <1>2, <1>15 DEF Accepting, AcceptHandoff
<1> QED
  BY <1>4, <1>5, <1>6, <1>7, <1>8, <1>9, <1>10, <1>11, <1>12, <1>13, <1>14, <1>15
  DEF OrchestrationStep, Next

LEMMA EarnedKept ==
  ASSUME EarnedOK, OrchestrationStep
  PROVE  EarnedOK'
<1>1. PlansOK /\ MirrorOK /\ PlansOK' /\ MirrorOK' /\ OrchestrationOK
  BY PlansKept, MirrorKept DEF EarnedOK, MirrorOK
<1>2. (orun.status = "COMPLETED" <=> goal = "SATISFIED")'
  BY StatusMoves DEF EarnedOK, Completing
<1>3. (orun.status = "COMPLETED" => plans # <<>> /\ \A t \in DOMAIN Plan : tasks[t] = "COMPLETED")'
  <2>1. CASE Completing
    BY <2>1 DEF Completing, Plan
  <2>2. ASSUME orun'.status = "COMPLETED", orun.status = "COMPLETED", plans' = plans
        PROVE  plans' # <<>> /\ \A t \in DOMAIN Plan' : tasks'[t] = "COMPLETED"
    <3>1. plans # <<>> /\ \A t \in DOMAIN Plan : tasks[t] = "COMPLETED"
      BY <2>2 DEF EarnedOK
    <3>2. Plan' = Plan
      BY <2>2 DEF Plan
    <3>3. DOMAIN Plan \subseteq Tasks
      <4>1. Plan \in Proposals
        BY <1>1, <3>1 DEF OrchestrationOK, Plan
      <4> QED
        BY <4>1, OrchestrationAssumption DEF OrchestrationAssumption
    <3> QED
      BY <1>1, <2>2, <3>1, <3>2, <3>3, CompletedStays
  <2> QED
    BY <2>1, <2>2, StatusMoves
<1>4. 0 \notin materialized'
  <2>1. CASE Materialize
    <3>1. Len(plans) # 0
      BY <1>1, <2>1 DEF Materialize, OrchestrationOK
    <3> QED
      BY <2>1, <3>1 DEF Materialize, EarnedOK
  <2>2. CASE ~ Materialize
    <3>1. UNCHANGED materialized
      BY <2>2 DEF OrchestrationStep, Next, vars, Start, Replan, PlannerAnswers, PlannerRefused,
         PlannerEscapes, PlannerAccepted, Answered, Delegate, StartDelegation, ChildStep,
         ChildFails, ChildSucceeds, ChildWaits, ResumeContext, BeginApproval, ApprovalStep,
         ApprovalResumes, ApprovalRaises, ApprovalReturns, Reconcile, Cancel, OperatorCancels,
         Crash, Accepting, AcceptHandoff
    <3> QED
      BY <3>1 DEF EarnedOK
  <2> QED
    BY <2>1, <2>2
<1> QED
  BY <1>1, <1>2, <1>3, <1>4 DEF EarnedOK

LEMMA EarnedInit == Init => EarnedOK
<1> SUFFICES ASSUME Init PROVE EarnedOK
  OBVIOUS
<1>1. PlansOK /\ MirrorOK
  BY PlansInit, MirrorInit
<1>2. orun.status = Absent /\ goal = "ACTIVE" /\ materialized = {}
  BY DEF Init
<1> QED
  BY <1>1, <1>2 DEF EarnedOK, Absent

LEMMA PlanIsOfTasks ==
  ASSUME OrchestrationOK, plans # <<>>
  PROVE  /\ DOMAIN Plan \subseteq Tasks
         /\ \A t \in DOMAIN Plan : Plan[t] \subseteq Tasks
<1>1. Plan \in Proposals
  BY DEF OrchestrationOK, Plan
<1> QED
  BY <1>1, OrchestrationAssumption DEF OrchestrationAssumption

LEMMA EarnedShown == EarnedOK => CompletionIsEarned
<1> SUFFICES ASSUME EarnedOK PROVE CompletionIsEarned
  OBVIOUS
<1>1. OrchestrationOK
  BY DEF EarnedOK, MirrorOK
<1>2. ASSUME orun.status = "COMPLETED", NEW t \in DOMAIN Plan
      PROVE  tasks[t] = "COMPLETED" /\ Delivered(t)
  BY <1>1, <1>2, PlanIsOfTasks DEF EarnedOK, MirrorOK
<1>3. ASSUME orun.status = "COMPLETED", NEW c \in DOMAIN children, LiveChild(c)
      PROVE  FALSE
  <2>1. tasks[TaskOf(c)] \in {"IN_PROGRESS", "CANCELLED"} /\ TaskOf(c) \in Tasks
    BY <1>1, <1>3, ChildrenHaveTasks DEF EarnedOK, MirrorOK
  <2>2. TaskOf(c) \in DOMAIN Plan
    BY <2>1 DEF EarnedOK, PlansOK, NoOrphanTask, Absent
  <2> QED
    BY <1>2, <1>3, <2>1, <2>2
<1> QED
  BY <1>2, <1>3 DEF CompletionIsEarned, EarnedOK

-----------------------------------------------------------------------------
\* Children start after what their tasks depend on, and within the budgets.

LEMMA StartsAreReady ==
  ASSUME EarnedOK, NEW d \in DOMAIN delegations, StartDelegation(d)
  PROVE  /\ DOMAIN children' = DOMAIN children \cup {Len(children')}
         /\ Len(children') = Len(children) + 1
         /\ children'[Len(children')].delegation = d
         /\ delegations' = delegations
         /\ \A b \in DOMAIN children : children'[b] = children[b]
         /\ \A u \in Plan[delegations[d].task] : tasks[u] = "COMPLETED" /\ Delivered(u)
<1>1. OrchestrationOK /\ NoOrphanTask
  BY DEF EarnedOK, MirrorOK, PlansOK
<1>2. PICK e \in Nat : children' = Append(children, Child(d, e))
  BY <1>1, StartingKeepsTypes
<1>3. /\ children' \in Seq(ChildRecords) /\ Len(children') = Len(children) + 1
      /\ \A b \in DOMAIN children : children'[b] = children[b]
      /\ children'[Len(children')].delegation = d
  BY <1>1, <1>2, ChildIsAdded
<1>4. DOMAIN children' = DOMAIN children \cup {Len(children')}
  BY <1>1, <1>3 DEF OrchestrationOK
<1>5. delegations[d].task \in ReadyTasks /\ delegations' = delegations
  BY DEF StartDelegation, MayStart
<1>6. /\ delegations[d].task \in DOMAIN Plan /\ tasks[delegations[d].task] # Absent
      /\ \A u \in Plan[delegations[d].task] : tasks[u] = "COMPLETED"
  BY <1>5 DEF ReadyTasks, Absent
<1>7. delegations[d].task \in Tasks
  <2>1. delegations[d] \in DelegationRecords
    BY <1>1 DEF OrchestrationOK
  <2> QED
    BY <2>1 DEF DelegationRecords
<1>8. plans # <<>>
  BY <1>1, <1>6, <1>7 DEF NoOrphanTask
<1>9. \A u \in Plan[delegations[d].task] : u \in Tasks
  BY <1>1, <1>6, <1>8, PlanIsOfTasks
<1>10. \A u \in Plan[delegations[d].task] : Delivered(u)
  BY <1>6, <1>9 DEF EarnedOK, MirrorOK
<1> QED
  BY <1>3, <1>4, <1>5, <1>6, <1>10

LEMMA ChildrenGrow ==
  ASSUME OrchestrationOK, OrchestrationStep
  PROVE  \/ Len(children') = Len(children)
         \/ \E d \in DOMAIN delegations : StartDelegation(d)
<1>1. ASSUME NEW c \in DOMAIN children, ChildMoves(c)
      PROVE  Len(children') = Len(children)
  BY <1>1 DEF ChildMoves
<1>2. ASSUME NEW c \in DOMAIN children, Reconcile(c)
      PROVE  Len(children') = Len(children)
  <2>1. \E s : Accounted(c, s)
    BY <1>2 DEF Reconcile
  <2> QED
    BY <2>1, ChildIsAccounted
<1>3. CASE Accepting
  <2>1. PICK c \in DOMAIN children : ChildMoves(c)
    BY <1>3, AcceptanceKeepsTypes DEF Accepting
  <2> QED
    BY <1>1, <2>1
<1> QED
  BY <1>1, <1>2, <1>3, StepKinds

LEMMA StepsStartReady ==
  ASSUME EarnedOK, OrchestrationStep, Len(children') > Len(children)
  PROVE  \A d \in Plan[delegations'[children'[Len(children')].delegation].task] :
           tasks[d] = "COMPLETED" /\ Delivered(d)
<1>1. Len(children') # Len(children)
  <2>1. Len(children) \in Nat
    BY DEF EarnedOK, MirrorOK, OrchestrationOK
  <2> QED
    BY <2>1
<1>2. PICK d \in DOMAIN delegations : StartDelegation(d)
  BY <1>1, ChildrenGrow DEF EarnedOK, MirrorOK
<1>3. delegations'[children'[Len(children')].delegation] = delegations[d]
  BY <1>2, StartsAreReady
<1> QED
  BY <1>2, <1>3, StartsAreReady

\* Children that failed or still may: no more than were started, and of those that
\* failed no more than the budget, but for the ones alive when it was spent.
FailedSet == {c \in DOMAIN children : children[c].status = "FAILED"}
LiveSet   == {c \in DOMAIN children : LiveChild(c)}

BoundsOK ==
  /\ EarnedOK
  /\ Len(children) <= MaxAgentRuns
  /\ Cardinality(FailedSet \cup LiveSet) < MaxFailed + Cardinality(Tasks)

LEMMA PartsAreFinite ==
  ASSUME NEW s \in Seq(ChildRecords), NEW S \in SUBSET DOMAIN s
  PROVE  IsFiniteSet(S) /\ Cardinality(S) \in Nat
<1>1. Len(s) \in Int /\ 1 \in Int /\ DOMAIN s = 1..Len(s)
  OBVIOUS
<1>2. IsFiniteSet(DOMAIN s)
  BY <1>1, FS_Interval
<1> QED
  BY <1>2, FS_Subset, FS_CardinalityType

\* Where each has a task of its own, there are no more than tasks.
LEMMA OneEach ==
  ASSUME NEW S, NEW f \in [S -> Tasks], \A b, c \in S : f[b] = f[c] => b = c
  PROVE  Cardinality(S) <= Cardinality(Tasks)
<1>1. f \in Injection(S, Tasks)
  BY DEF Injection, IsInjective
<1>2. IsFiniteSet(Tasks)
  BY OrchestrationAssumption DEF OrchestrationAssumption
<1> QED
  BY <1>1, <1>2, FS_Injection

LEMMA BoundsKept ==
  ASSUME BoundsOK, OrchestrationStep
  PROVE  BoundsOK'
<1>1. EarnedOK /\ EarnedOK' /\ MirrorOK' /\ OrchestrationOK /\ OrchestrationOK'
  BY EarnedKept DEF BoundsOK, EarnedOK, MirrorOK
<1>2. /\ MaxAgentRuns \in Nat /\ MaxFailed \in Nat /\ IsFiniteSet(Tasks)
      /\ Cardinality(Tasks) \in Nat
  BY OrchestrationAssumption, FS_CardinalityType DEF OrchestrationAssumption
<1>3. ASSUME NEW d \in DOMAIN delegations, StartDelegation(d)
      PROVE  BoundsOK'
  <2>1. /\ DOMAIN children' = DOMAIN children \cup {Len(children')}
        /\ Len(children') = Len(children) + 1 /\ Len(children) \in Nat
        /\ \A b \in DOMAIN children : children'[b] = children[b]
    <3>1. Len(children) \in Nat
      BY <1>1 DEF OrchestrationOK
    <3> QED
      BY <1>1, <1>3, <3>1, StartsAreReady
  <2>2. Len(children) < MaxAgentRuns /\ FailedChildren < MaxFailed
    BY <1>3 DEF StartDelegation, MayStart
  <2>3. children'[Len(children')].status = "RUNNING"
    BY <1>1, <1>3, StartingKeepsTypes, ChildIsAdded
  <2>4. FailedSet' = FailedSet
    BY <2>1, <2>3 DEF FailedSet
  <2>5. Cardinality(FailedSet) < MaxFailed
    BY <2>2 DEF FailedChildren, FailedSet
  <2>6. Cardinality(LiveSet') <= Cardinality(Tasks)
    <3>1. \A c \in LiveSet' : TaskOf(c)' \in Tasks
      <4>1. PICK n \in Nat : n = Len(children')
        BY <2>1
      <4>2. TaskOf(n)' = delegations[d].task
        BY <1>1, <1>3, <4>1, StartsAreReady DEF TaskOf
      <4>3. delegations[d].task \in Tasks
        <5>1. delegations[d] \in DelegationRecords
          BY <1>1 DEF OrchestrationOK
        <5> QED
          BY <5>1 DEF DelegationRecords
      <4>4. \A c \in DOMAIN children : TaskOf(c)' \in Tasks
        BY <1>1, TasksOfChildrenStay, ChildrenHaveTasks
      <4> QED
        BY <2>1, <4>1, <4>2, <4>3, <4>4 DEF LiveSet
    <3> DEFINE f == [c \in LiveSet' |-> TaskOf(c)']
    <3>2. f \in [LiveSet' -> Tasks]
      BY <3>1
    <3>3. \A b, c \in LiveSet' : f[b] = f[c] => b = c
      BY <1>1 DEF MirrorOK, LiveSet
    <3> HIDE DEF f
    <3> QED
      BY <3>2, <3>3, OneEach
  <2>7. IsFiniteSet(FailedSet') /\ IsFiniteSet(LiveSet')
    <3>1. /\ children' \in Seq(ChildRecords)
          /\ FailedSet' \in SUBSET DOMAIN children' /\ LiveSet' \in SUBSET DOMAIN children'
      BY <1>1 DEF OrchestrationOK, FailedSet, LiveSet
    <3> QED
      BY <3>1, PartsAreFinite
  <2>8. Cardinality(FailedSet' \cup LiveSet')
          = Cardinality(FailedSet') + Cardinality(LiveSet') - Cardinality(FailedSet' \cap LiveSet')
    BY <2>7, FS_Union
  <2>9. /\ Cardinality(FailedSet') \in Nat /\ Cardinality(LiveSet') \in Nat
        /\ Cardinality(FailedSet' \cap LiveSet') \in Nat
    <3>1. FailedSet' \cap LiveSet' \in SUBSET FailedSet'
      OBVIOUS
    <3>2. IsFiniteSet(FailedSet' \cap LiveSet')
      BY <2>7, <3>1, FS_Subset
    <3> QED
      BY <2>7, <3>2, FS_CardinalityType
  <2>10. Cardinality(FailedSet' \cup LiveSet') < MaxFailed + Cardinality(Tasks)
    BY <1>2, <2>4, <2>5, <2>6, <2>8, <2>9
  <2> QED
    BY <1>1, <1>2, <2>1, <2>2, <2>10 DEF BoundsOK
<1>4. ASSUME DOMAIN children' = DOMAIN children, Len(children') = Len(children),
             \A c \in DOMAIN children :
               children'[c].status = children[c].status \/ LiveChild(c)
      PROVE  BoundsOK'
  <2>1. (FailedSet \cup LiveSet)' \in SUBSET (FailedSet \cup LiveSet)
    BY <1>4 DEF FailedSet, LiveSet, LiveChild
  <2>2. /\ Cardinality((FailedSet \cup LiveSet)') <= Cardinality(FailedSet \cup LiveSet)
        /\ Cardinality((FailedSet \cup LiveSet)') \in Nat
        /\ Cardinality(FailedSet \cup LiveSet) \in Nat
    <3>1. (FailedSet \cup LiveSet) \in SUBSET DOMAIN children
      BY DEF FailedSet, LiveSet
    <3>2. IsFiniteSet(FailedSet \cup LiveSet)
      BY <1>1, <3>1, PartsAreFinite DEF OrchestrationOK
    <3> QED
      BY <2>1, <3>2, FS_Subset, FS_CardinalityType
  <2> QED
    BY <1>1, <1>2, <1>4, <2>2 DEF BoundsOK
<1>5. ASSUME NEW b \in DOMAIN children, ChildMoves(b)
      PROVE  BoundsOK'
  <2>1. /\ DOMAIN children' = DOMAIN children /\ Len(children') = Len(children)
        /\ LiveChild(b) /\ \A c \in DOMAIN children \ {b} : children'[c] = children[c]
    BY <1>5 DEF ChildMoves
  <2> QED
    BY <1>4, <2>1
<1>6. ASSUME NEW b \in DOMAIN children, Reconcile(b)
      PROVE  BoundsOK'
  <2>1. \E s : Accounted(b, s)
    BY <1>6 DEF Reconcile
  <2>2. /\ DOMAIN children' = DOMAIN children /\ Len(children') = Len(children)
        /\ \A c \in DOMAIN children : children'[c].status = children[c].status
    BY <1>1, <2>1, ChildIsAccounted
  <2> QED
    BY <1>4, <2>2
<1>7. CASE UNCHANGED children
  BY <1>4, <1>7
<1>8. CASE Accepting
  <2>1. PICK c \in DOMAIN children : ChildMoves(c)
    BY <1>1, <1>8, AcceptanceKeepsTypes DEF Accepting
  <2> QED
    BY <1>5, <2>1
<1> QED
  BY <1>1, <1>3, <1>5, <1>6, <1>7, <1>8, StepKinds

LEMMA BoundsInit == Init => BoundsOK
<1> SUFFICES ASSUME Init PROVE BoundsOK
  OBVIOUS
<1>1. EarnedOK /\ children = <<>>
  BY EarnedInit DEF Init
<1>2. FailedSet \cup LiveSet = {}
  BY <1>1 DEF FailedSet, LiveSet
<1>3. Cardinality(FailedSet \cup LiveSet) = 0
  BY <1>2, FS_EmptySet
<1>4. /\ MaxAgentRuns \in Nat /\ MaxFailed \in Nat \ {0} /\ Cardinality(Tasks) \in Nat
  BY OrchestrationAssumption, FS_CardinalityType DEF OrchestrationAssumption
<1> QED
  BY <1>1, <1>3, <1>4 DEF BoundsOK

LEMMA BoundsShown == BoundsOK => WorkIsBounded
<1> SUFFICES ASSUME BoundsOK PROVE WorkIsBounded
  OBVIOUS
<1>1. OrchestrationOK
  BY DEF BoundsOK, EarnedOK, MirrorOK
<1>2. FailedSet \in SUBSET (FailedSet \cup LiveSet)
  OBVIOUS
<1>3. /\ Cardinality(FailedSet) <= Cardinality(FailedSet \cup LiveSet)
      /\ Cardinality(FailedSet) \in Nat /\ Cardinality(FailedSet \cup LiveSet) \in Nat
  <2>1. (FailedSet \cup LiveSet) \in SUBSET DOMAIN children
    BY DEF FailedSet, LiveSet
  <2>2. IsFiniteSet(FailedSet \cup LiveSet)
    BY <1>1, <2>1, PartsAreFinite DEF OrchestrationOK
  <2> QED
    BY <1>2, <2>2, FS_Subset, FS_CardinalityType
<1>4. MaxFailed \in Nat /\ Cardinality(Tasks) \in Nat
  BY OrchestrationAssumption, FS_CardinalityType DEF OrchestrationAssumption
<1>5. Cardinality(FailedSet) < MaxFailed + Cardinality(Tasks)
  BY <1>3, <1>4 DEF BoundsOK
<1> QED
  BY <1>5 DEF WorkIsBounded, BoundsOK, FailedChildren, FailedSet

-----------------------------------------------------------------------------
\* Chains of handoffs.  A parent comes before its child, so there is exactly one
\* function that satisfies the recursion, and it changes only where a handoff is added.

IsChain(f, s) ==
  f = [h \in DOMAIN s |-> {h} \cup IF s[h].parent = 0 THEN {} ELSE f[s[h].parent]]

ChainOf(s) == CHOOSE f : IsChain(f, s)

ParentsFirst(s) == \A h \in DOMAIN s : s[h].parent \in Nat /\ s[h].parent < h

\* The least element of a nonempty set of naturals.
LEMMA LeastOf ==
  ASSUME NEW S \in SUBSET Nat, S # {}
  PROVE  \E m \in S : \A y \in S : m <= y
<1>1. PICK m \in S : \A y \in S : <<y, m>> \notin OpToRel(<, Nat)
  BY NatLessThanWellFounded, WFMin, Zenon
<1>2. ASSUME NEW y \in S PROVE m <= y
  <2>1. y \in Nat /\ m \in Nat
    OBVIOUS
  <2>2. ASSUME y < m PROVE <<y, m>> \in OpToRel(<, Nat)
    BY <2>1, <2>2 DEF OpToRel
  <2>3. ~ (y < m)
    BY <1>1, <2>2
  <2> QED
    BY <2>1, <2>3
<1> QED
  BY <1>2

LEMMA ChainsExist ==
  ASSUME NEW s, NEW n \in Nat, DOMAIN s = 1..n, ParentsFirst(s)
  PROVE  IsChain(ChainOf(s), s)
<1> DEFINE p(h) == s[h].parent
           Upto(f, m) == f = [h \in 1..m |-> {h} \cup IF p(h) = 0 THEN {} ELSE f[p(h)]]
           Bad == {m \in 0..n : ~\E f : Upto(f, m)}
<1>1. Bad = {}
  <2> SUFFICES ASSUME Bad # {} PROVE FALSE
    OBVIOUS
  <2>1. PICK m \in Bad : \A y \in Bad : m <= y
    <3>1. Bad \in SUBSET Nat
      OBVIOUS
    <3> HIDE DEF Bad
    <3> QED
      BY <3>1, LeastOf
  <2>2. m \in 0..n /\ ~\E f : Upto(f, m)
    OBVIOUS
  <2>3. m # 0
    <3>1. Upto([h \in 1..0 |-> {}], 0)
      OBVIOUS
    <3> HIDE DEF Upto
    <3> QED
      BY <2>2, <3>1
  <2>4. m - 1 \in 0..n /\ m - 1 \notin Bad
    <3>1. m - 1 \in 0..n /\ ~ (m <= m - 1)
      BY <2>2, <2>3
    <3> HIDE DEF Bad
    <3> QED
      BY <2>1, <3>1
  <2>5. PICK f : Upto(f, m - 1)
    BY <2>4
  <2> DEFINE g == [h \in 1..m |-> IF h < m THEN f[h] ELSE {m} \cup IF p(m) = 0 THEN {} ELSE f[p(m)]]
  <2>6. ASSUME NEW h \in 1..m PROVE g[h] = {h} \cup IF p(h) = 0 THEN {} ELSE g[p(h)]
    <3>1. p(h) \in Nat /\ p(h) < h
      BY <2>2 DEF ParentsFirst
    <3>2. p(h) # 0 => p(h) \in 1..m /\ p(h) < m /\ g[p(h)] = f[p(h)]
      BY <2>2, <3>1
    <3>3. CASE h < m
      <4>1. h \in 1..(m - 1)
        BY <2>2, <3>3
      <4>2. f[h] = {h} \cup IF p(h) = 0 THEN {} ELSE f[p(h)]
        BY <2>5, <4>1
      <4>3. g[h] = f[h]
        BY <3>3
      <4> QED
        BY <3>2, <4>2, <4>3
    <3>4. CASE h = m
      BY <3>2, <3>4
    <3> QED
      BY <2>2, <3>3, <3>4
  <2>7. Upto(g, m)
    BY <2>6
  <2> HIDE DEF Upto
  <2> QED
    BY <2>2, <2>7
<1>2. \E f : Upto(f, n)
  <2>1. n \in 0..n
    OBVIOUS
  <2> HIDE DEF Upto
  <2> QED
    BY <1>1, <2>1
<1>3. \E f : IsChain(f, s)
  BY <1>2 DEF IsChain
<1> QED
  BY <1>3 DEF ChainOf

\* Chains stay when handoffs are added and parents stay, and lead to earlier handoffs.
LEMMA ChainsAgree ==
  ASSUME NEW s, NEW n \in Nat, DOMAIN s = 1..n, ParentsFirst(s),
         NEW t, NEW m \in Nat, DOMAIN t = 1..m, ParentsFirst(t),
         n <= m, \A h \in 1..n : t[h].parent = s[h].parent
  PROVE  \A h \in 1..n : ChainOf(t)[h] = ChainOf(s)[h] /\ ChainOf(s)[h] \subseteq 1..n
<1> DEFINE f == ChainOf(s)
           g == ChainOf(t)
           Bad == {h \in 1..n : ~(g[h] = f[h] /\ f[h] \subseteq 1..n)}
<1>1. IsChain(f, s) /\ IsChain(g, t)
  BY ChainsExist
<1> HIDE DEF f, g
<1>2. ASSUME NEW h \in 1..n
      PROVE  /\ f[h] = {h} \cup IF s[h].parent = 0 THEN {} ELSE f[s[h].parent]
             /\ g[h] = {h} \cup IF s[h].parent = 0 THEN {} ELSE g[s[h].parent]
             /\ s[h].parent \in Nat /\ s[h].parent < h
  <2>1. h \in DOMAIN s /\ h \in DOMAIN t /\ t[h].parent = s[h].parent
    OBVIOUS
  <2> QED
    BY <1>1, <2>1 DEF IsChain, ParentsFirst
<1>3. Bad = {}
  <2> SUFFICES ASSUME Bad # {} PROVE FALSE
    OBVIOUS
  <2>1. PICK h \in Bad : \A y \in Bad : h <= y
    <3>1. Bad \in SUBSET Nat
      OBVIOUS
    <3> HIDE DEF Bad
    <3> QED
      BY <3>1, LeastOf
  <2> DEFINE q == s[h].parent
  <2>2. h \in 1..n /\ q \in Nat /\ q < h
    BY <1>2
  <2>3. q # 0 => q \in 1..n /\ q \notin Bad
    BY <2>1, <2>2
  <2>4. q # 0 => g[q] = f[q] /\ f[q] \subseteq 1..n
    BY <2>3
  <2>5. /\ f[h] = {h} \cup IF q = 0 THEN {} ELSE f[q]
        /\ g[h] = {h} \cup IF q = 0 THEN {} ELSE g[q]
    BY <1>2, <2>2
  <2> HIDE DEF q
  <2>6. g[h] = f[h] /\ f[h] \subseteq 1..n
    <3>1. CASE q = 0
      BY <2>2, <2>5, <3>1
    <3>2. CASE q # 0
      BY <2>2, <2>4, <2>5, <3>2
    <3> QED
      BY <3>1, <3>2
  <2> QED
    BY <2>6
<1> QED
  BY <1>3 DEF f, g

-----------------------------------------------------------------------------
\* What a completed handoff promises: the run it made succeeded, whose agent no
\* sender of its chain shares.
LineageOK ==
  /\ \A h \in DOMAIN handoffs : handoffs[h].parent < h
  /\ \A h \in DOMAIN handoffs : handoffs[h].status \in {"ACCEPTED", "COMPLETED"} => Accepted(h)
  /\ \A h \in DOMAIN handoffs : Accepted(h) =>
       /\ delegations[handoffs[h].delegation].task = HandoffTask(h)
       /\ \A g \in Chain[h] :
            AgentOf(handoffs[g].sender) # delegations[handoffs[h].delegation].agent
  /\ \A h \in DOMAIN handoffs : handoffs[h].status = "COMPLETED" =>
       \E c \in ChildrenOf(handoffs[h].delegation) : children[c].status = "SUCCEEDED"
  /\ \A c \in DOMAIN children : children[c].status = "SUCCEEDED" => tasks[TaskOf(c)] = "COMPLETED"

LEMMA ChainIsChainOf == Chain = ChainOf(handoffs)
BY Zenon DEF Chain, ChainOf, IsChain

\* What a handoff step that accepts none does to parents and states.
LEMMA RecordsKeepLineage ==
  ASSUME OrchestrationOK, HandoffsOK, LineageOK, HandoffRecorded
  PROVE  /\ \A h \in DOMAIN handoffs :
              /\ h \in DOMAIN handoffs'
              /\ handoffs'[h].parent = handoffs[h].parent
              /\ handoffs'[h].sender = handoffs[h].sender
              /\ handoffs'[h].delegation = handoffs[h].delegation
              /\ handoffs'[h].status = "ACCEPTED" => handoffs[h].status = "ACCEPTED"
              /\ handoffs'[h].status = "COMPLETED" =>
                   handoffs[h].status = "COMPLETED" \/ (handoffs[h].status = "ACCEPTED" /\ Fulfilled(h))
         /\ \A h \in DOMAIN handoffs' \ DOMAIN handoffs :
              /\ handoffs'[h].parent < h /\ handoffs'[h].delegation = 0
              /\ handoffs'[h].status = "REQUESTED"
<1>1. handoffs \in Seq(HandoffRecords) /\ \A h \in DOMAIN handoffs : handoffs[h] \in HandoffRecords
  BY DEF HandoffsOK
<1> DEFINE Kept(h, x) ==
             /\ x.parent = handoffs[h].parent /\ x.sender = handoffs[h].sender
             /\ x.delegation = handoffs[h].delegation
             /\ x.status = "ACCEPTED" => handoffs[h].status = "ACCEPTED"
             /\ x.status = "COMPLETED" =>
                  handoffs[h].status = "COMPLETED" \/ (handoffs[h].status = "ACCEPTED" /\ Fulfilled(h))
<1>2. ASSUME NEW c \in DOMAIN children, NEW p \in DOMAIN handoffs \cup {0}, RequestHandoff(c, p)
      PROVE  /\ \A h \in DOMAIN handoffs : h \in DOMAIN handoffs' /\ handoffs'[h] = handoffs[h]
             /\ DOMAIN handoffs' = DOMAIN handoffs \cup {Len(handoffs) + 1}
             /\ handoffs'[Len(handoffs) + 1].parent = p /\ p < Len(handoffs) + 1
             /\ handoffs'[Len(handoffs) + 1].delegation = 0
             /\ handoffs'[Len(handoffs) + 1].status = "REQUESTED"
  <2> DEFINE depth == IF p = 0 THEN 1 ELSE handoffs[p].depth + 1
             x == [sender |-> c, parent |-> p, depth |-> depth, status |-> "REQUESTED",
                   late |-> FALSE, delegation |-> 0]
  <2>1. p < Len(handoffs) + 1
    BY <1>1
  <2>2. handoffs' = Append(handoffs, x)
    BY <1>2 DEF RequestHandoff
  <2>3. x.parent = p /\ x.delegation = 0 /\ x.status = "REQUESTED"
    OBVIOUS
  <2> HIDE DEF x, depth
  <2>4. /\ DOMAIN handoffs' = 1..Len(handoffs) + 1 /\ DOMAIN handoffs = 1..Len(handoffs)
        /\ Len(handoffs) \in Nat
        /\ handoffs'[Len(handoffs) + 1] = x
        /\ \A h \in 1..Len(handoffs) : handoffs'[h] = handoffs[h]
    BY <1>1, <2>2
  <2> QED
    BY <2>1, <2>3, <2>4
<1>3. CASE \E c \in DOMAIN children : \E p \in DOMAIN handoffs \cup {0} : RequestHandoff(c, p)
  BY <1>2, <1>3
<1>4. ASSUME NEW h \in DOMAIN handoffs, NEW x, handoffs' = [handoffs EXCEPT ![h] = x], Kept(h, x)
      PROVE  DOMAIN handoffs' = DOMAIN handoffs /\ \A g \in DOMAIN handoffs : Kept(g, handoffs'[g])
  <2>1. /\ DOMAIN handoffs' = DOMAIN handoffs
        /\ \A g \in DOMAIN handoffs : handoffs'[g] = IF g = h THEN x ELSE handoffs[g]
    BY <1>4
  <2>2. \A g \in DOMAIN handoffs : Kept(g, handoffs[g])
    OBVIOUS
  <2> HIDE DEF Kept
  <2> QED
    BY <1>4, <2>1, <2>2
<1>5. ASSUME NEW h \in DOMAIN handoffs,
             RejectHandoff(h) \/ ResolveLate(h) \/ CompleteHandoff(h) \/ DeadlinePasses(h)
      PROVE  \E x : handoffs' = [handoffs EXCEPT ![h] = x] /\ Kept(h, x)
  <2>1. handoffs[h] \in HandoffRecords
    BY <1>1
  <2>2. ASSUME NEW s \in HandoffTerminal, SetHandoff(h, s),
               s = "COMPLETED" => handoffs[h].status = "ACCEPTED" /\ Fulfilled(h)
        PROVE  \E x : handoffs' = [handoffs EXCEPT ![h] = x] /\ Kept(h, x)
    <3> DEFINE x == [handoffs[h] EXCEPT !.status = s]
    <3>1. Kept(h, x)
      BY <2>1, <2>2 DEF HandoffRecords, HandoffTerminal
    <3>2. handoffs' = [handoffs EXCEPT ![h] = x]
      BY <2>2 DEF SetHandoff
    <3> HIDE DEF x, Kept
    <3> QED
      BY <3>1, <3>2
  <2>3. CASE DeadlinePasses(h)
    <3> DEFINE x == [handoffs[h] EXCEPT !.late = TRUE]
    <3>1. Kept(h, x)
      BY <2>1 DEF HandoffRecords
    <3>2. handoffs' = [handoffs EXCEPT ![h] = x]
      BY <2>3 DEF DeadlinePasses
    <3> HIDE DEF x, Kept
    <3> QED
      BY <3>1, <3>2
  <2> HIDE DEF Kept
  <2>4. CASE RejectHandoff(h) \/ ResolveLate(h)
    BY <2>2, <2>4 DEF RejectHandoff, ResolveLate, HandoffTerminal
  <2>5. CASE CompleteHandoff(h)
    BY <2>2, <2>5 DEF CompleteHandoff, HandoffTerminal
  <2> QED
    BY <1>5, <2>3, <2>4, <2>5
<1>6. CASE \E h \in DOMAIN handoffs :
             RejectHandoff(h) \/ ResolveLate(h) \/ CompleteHandoff(h) \/ DeadlinePasses(h)
  BY <1>4, <1>5, <1>6
<1>7. CASE ExpireHandoffs
  <2>1. DOMAIN handoffs' = DOMAIN handoffs
    BY <1>7 DEF ExpireHandoffs
  <2>2. ASSUME NEW h \in DOMAIN handoffs PROVE Kept(h, handoffs'[h])
    <3>1. handoffs'[h] = handoffs[h] \/ handoffs'[h] = [handoffs[h] EXCEPT !.status = "TIMED_OUT"]
      BY <1>7 DEF ExpireHandoffs
    <3>2. handoffs[h] \in HandoffRecords
      BY <1>1
    <3> QED
      BY <3>1, <3>2 DEF HandoffRecords, HandoffTerminal
  <2> QED
    BY <2>1, <2>2
<1> QED
  BY <1>3, <1>6, <1>7 DEF HandoffRecorded

\* A child that succeeded stays so, and its task is completed.
LEMMA SuccessesStay ==
  ASSUME OrchestrationOK, OrchestrationStep,
         \A c \in DOMAIN children : children[c].status = "SUCCEEDED" => tasks[TaskOf(c)] = "COMPLETED"
  PROVE  /\ \A c \in DOMAIN children : children[c].status = "SUCCEEDED" =>
              c \in DOMAIN children' /\ children'[c].status = "SUCCEEDED"
         /\ \A c \in DOMAIN children' : children'[c].status = "SUCCEEDED" =>
              tasks'[TaskOf(c)'] = "COMPLETED"
<1>1. /\ DOMAIN children \subseteq DOMAIN children'
      /\ \A c \in DOMAIN children : TaskOf(c)' = TaskOf(c) /\ TaskOf(c) \in Tasks
  BY TasksOfChildrenStay, ChildrenHaveTasks
<1>2. tasks \in [Tasks -> TaskStatuses]
  BY DEF OrchestrationOK
<1>3. \A t \in Tasks : tasks[t] = "COMPLETED" => tasks'[t] = "COMPLETED"
  BY CompletedStays
<1> DEFINE Same == \A c \in DOMAIN children :
                     children'[c].status = "SUCCEEDED" <=> children[c].status = "SUCCEEDED"
<1>4. ASSUME NEW b \in DOMAIN children, ChildMoves(b)
      PROVE  /\ \A c \in DOMAIN children : children[c].status = "SUCCEEDED" =>
                  children'[c].status = "SUCCEEDED"
             /\ \A c \in DOMAIN children' : children'[c].status = "SUCCEEDED" =>
                  tasks'[TaskOf(c)'] = "COMPLETED"
  <2>1. /\ DOMAIN children' = DOMAIN children /\ LiveChild(b)
        /\ \A c \in DOMAIN children : c # b => children'[c] = children[c]
    BY <1>4 DEF ChildMoves
  <2>2. children'[b].status = "SUCCEEDED" => tasks' = [tasks EXCEPT ![TaskOf(b)] = "COMPLETED"]
    BY <1>4 DEF ChildMoves
  <2>3. children'[b].status = "SUCCEEDED" => tasks'[TaskOf(b)] = "COMPLETED"
    BY <1>1, <1>2, <2>2
  <2>4. ASSUME NEW c \in DOMAIN children', children'[c].status = "SUCCEEDED"
        PROVE  tasks'[TaskOf(c)'] = "COMPLETED"
    <3>1. CASE c = b
      BY <1>1, <2>3, <2>4, <3>1
    <3>2. CASE c # b
      BY <1>1, <1>3, <2>1, <2>4, <3>2
    <3> QED
      BY <3>1, <3>2
  <2> QED
    BY <2>1, <2>4 DEF LiveChild
<1>5. ASSUME NEW b \in DOMAIN children, Reconcile(b)
      PROVE  DOMAIN children' = DOMAIN children /\ Same
  <2>1. \E s : Accounted(b, s)
    BY <1>5 DEF Reconcile
  <2> QED
    BY <2>1, ChildIsAccounted
<1>6. ASSUME NEW d \in DOMAIN delegations, StartDelegation(d)
      PROVE  Same /\ \A c \in DOMAIN children' \ DOMAIN children : children'[c].status # "SUCCEEDED"
  <2>1. PICK e \in Nat : children' = Append(children, Child(d, e))
    BY <1>6, StartingKeepsTypes
  <2>2. /\ children' \in Seq(ChildRecords) /\ Len(children') = Len(children) + 1
        /\ \A c \in DOMAIN children : children'[c] = children[c]
        /\ children'[Len(children')].status = "RUNNING"
    BY <2>1, ChildIsAdded
  <2>3. DOMAIN children = 1..Len(children) /\ Len(children) \in Nat
    BY DEF OrchestrationOK
  <2>4. DOMAIN children' \ DOMAIN children = {Len(children')}
    BY <2>2, <2>3
  <2> QED
    BY <2>2, <2>4
<1>7. CASE UNCHANGED children
  BY <1>1, <1>3, <1>7
<1>8. CASE \E b \in DOMAIN children : Reconcile(b)
  BY <1>1, <1>3, <1>5, <1>8
<1>9. CASE \E d \in DOMAIN delegations : StartDelegation(d)
  BY <1>1, <1>3, <1>6, <1>9
<1>10. CASE \E b \in DOMAIN children : ChildMoves(b)
  BY <1>1, <1>4, <1>10
<1>11. CASE Accepting
  BY <1>1, <1>4, <1>11, AcceptanceKeepsTypes DEF Accepting
<1> QED
  BY <1>7, <1>8, <1>9, <1>10, <1>11, StepKinds

\* What a step may do to the handoffs: parents and senders stay, a transfer is made to an
\* agent the lineage does not name, and a completion has found the transfer's result.
Transferred(h) ==
  /\ handoffs'[h].status = "ACCEPTED" /\ handoffs'[h].delegation # 0
  /\ delegations'[handoffs'[h].delegation].task = HandoffTask(h)
  /\ \A g \in Chain[h] :
       AgentOf(handoffs[g].sender) # delegations'[handoffs'[h].delegation].agent

HandoffsMove ==
  /\ \A h \in DOMAIN handoffs :
       /\ h \in DOMAIN handoffs'
       /\ handoffs'[h].parent = handoffs[h].parent /\ handoffs'[h].sender = handoffs[h].sender
       /\ \/ Transferred(h)
          \/ /\ handoffs'[h].delegation = handoffs[h].delegation
             /\ handoffs'[h].status = "ACCEPTED" => handoffs[h].status = "ACCEPTED"
             /\ handoffs'[h].status = "COMPLETED" =>
                  \/ handoffs[h].status = "COMPLETED"
                  \/ handoffs[h].status = "ACCEPTED" /\ Fulfilled(h)
  /\ \A h \in DOMAIN handoffs' \ DOMAIN handoffs :
       /\ handoffs'[h].parent < h /\ handoffs'[h].delegation = 0
       /\ handoffs'[h].status = "REQUESTED"

LEMMA AcceptanceMoves ==
  ASSUME MirrorOK, HandoffsOK, NEW h \in DOMAIN handoffs, NEW a \in Agents,
         handoffs[h].sender \in DOMAIN children, AcceptHandoff(h, a)
  PROVE  HandoffsMove
<1> DEFINE c == handoffs[h].sender
           n == Len(delegations) + 1
           x == [sender |-> c, parent |-> handoffs[h].parent, depth |-> handoffs[h].depth,
                 status |-> "ACCEPTED", late |-> FALSE, delegation |-> n]
           y == [task |-> HandoffTask(h), agent |-> a, retry |-> Previous(HandoffTask(h)).retry,
                 redelegation |-> Previous(HandoffTask(h)).redelegation + 1]
<1>1. /\ x.sender = c /\ x.parent = handoffs[h].parent /\ x.status = "ACCEPTED"
      /\ x.delegation = n /\ y.task = HandoffTask(h) /\ y.agent = a
  OBVIOUS
<1>2. handoffs' = [handoffs EXCEPT ![h] = x] /\ delegations' = Append(delegations, y)
  BY DEF AcceptHandoff, HandoffTask
<1>3. a \notin {AgentOf(handoffs[g].sender) : g \in Chain[h]}
  BY DEF AcceptHandoff, Lineage
<1>4. Len(delegations) \in Nat /\ handoffs \in Seq(HandoffRecords) /\ Len(handoffs) \in Nat
  BY DEF MirrorOK, OrchestrationOK, HandoffsOK
<1> HIDE DEF x, y
<1>5. delegations'[n] = y
  BY <1>2, <1>4 DEF MirrorOK, OrchestrationOK
<1>6. /\ DOMAIN handoffs' = DOMAIN handoffs /\ handoffs'[h] = x
      /\ \A g \in DOMAIN handoffs : g # h => handoffs'[g] = handoffs[g]
  BY <1>2, <1>4
<1>7. Transferred(h)
  BY <1>1, <1>3, <1>4, <1>5, <1>6 DEF Transferred
<1> QED
  BY <1>1, <1>6, <1>7 DEF HandoffsMove

LEMMA HandoffsDoMove ==
  ASSUME TransfersOK, LineageOK, [HandoffNext]_hvars
  PROVE  HandoffsMove
<1>1. MirrorOK /\ OrchestrationOK /\ HandoffsOK
  BY DEF TransfersOK, MirrorOK
<1>2. CASE UNCHANGED handoffs
  BY <1>2 DEF HandoffsMove
<1>3. CASE HandoffRecorded
  BY <1>1, <1>3, RecordsKeepLineage DEF HandoffsMove
<1> QED
  BY <1>1, <1>2, <1>3, HandoffStepKinds, AcceptanceMoves

LEMMA ChainsStay ==
  ASSUME TransfersOK, TransfersOK', LineageOK, HandoffsMove
  PROVE  \A h \in DOMAIN handoffs : Chain'[h] = Chain[h] /\ Chain[h] \subseteq DOMAIN handoffs
<1> DEFINE n == Len(handoffs)
           m == Len(handoffs')
<1>1. /\ handoffs \in Seq(HandoffRecords) /\ handoffs' \in Seq(HandoffRecords)
      /\ n \in Nat /\ m \in Nat /\ DOMAIN handoffs = 1..n /\ DOMAIN handoffs' = 1..m
  BY DEF TransfersOK, HandoffsOK
<1>2. \A h \in 1..n : handoffs[h] \in HandoffRecords /\ handoffs[h].parent < h
  BY <1>1 DEF LineageOK
<1>3. \A h \in 1..m : handoffs'[h] \in HandoffRecords /\ handoffs'[h].parent < h
  BY <1>1, <1>2 DEF HandoffsMove
<1>4. ParentsFirst(handoffs) /\ ParentsFirst(handoffs')
  BY <1>1, <1>2, <1>3 DEF ParentsFirst, HandoffRecords
<1>5. n <= m
  <2>1. n # 0 => n \in 1..m
    BY <1>1 DEF HandoffsMove
  <2> QED
    BY <1>1, <2>1
<1>6. \A h \in 1..n : handoffs'[h].parent = handoffs[h].parent
  BY <1>1 DEF HandoffsMove
<1>7. \A h \in 1..n :
        ChainOf(handoffs')[h] = ChainOf(handoffs)[h] /\ ChainOf(handoffs)[h] \subseteq 1..n
  <2> HIDE DEF n, m
  <2> QED
    BY <1>1, <1>4, <1>5, <1>6, ChainsAgree
<1>8. Chain = ChainOf(handoffs) /\ Chain' = ChainOf(handoffs')
  <2>1. Chain' = ChainOf(handoffs')
    BY Zenon DEF Chain, ChainOf, IsChain
  <2> QED
    BY <2>1, ChainIsChainOf
<1> QED
  BY <1>1, <1>7, <1>8

LEMMA FulfilledSucceeds ==
  ASSUME OrchestrationOK, NEW h, Fulfilled(h)
  PROVE  \E c \in ChildrenOf(handoffs[h].delegation) : children[c].status = "SUCCEEDED"
<1> DEFINE own == ChildrenOf(handoffs[h].delegation)
<1>1. own \in SUBSET (1..Len(children)) /\ Len(children) \in Nat /\ own # {}
  BY DEF Fulfilled, ChildrenOf, OrchestrationOK
<1>2. Last(own) \in own
  <2> HIDE DEF own
  <2> QED
    BY <1>1, LastIsLatest
<1> QED
  BY <1>2 DEF Fulfilled

LEMMA LineageKept ==
  ASSUME TransfersOK, LineageOK, [HandoffNext]_hvars
  PROVE  LineageOK'
<1>1. MirrorOK /\ OrchestrationOK /\ HandoffsOK /\ OrchestrationStep /\ OrchestrationOK'
      /\ HandoffsMove /\ TransfersOK'
  BY HandoffStepKinds, HandoffsDoMove, TransfersKept, TypesKept DEF TransfersOK, MirrorOK
<1>2. /\ DOMAIN children \subseteq DOMAIN children'
      /\ \A c \in DOMAIN children :
           /\ TaskOf(c)' = TaskOf(c)
           /\ children[c].delegation \in DOMAIN delegations
           /\ children'[c].delegation = children[c].delegation
      /\ \A d \in DOMAIN delegations : delegations'[d] = delegations[d]
  BY <1>1, TasksOfChildrenStay, NothingIsForgotten, ChildrenHaveTasks DEF DelegationsOf
<1>3. \A c \in DOMAIN children : AgentOf(c)' = AgentOf(c)
  BY <1>2 DEF AgentOf
<1>4. \A h \in DOMAIN handoffs : /\ handoffs[h].sender \in DOMAIN children
                                 /\ Accepted(h) => handoffs[h].delegation \in DOMAIN delegations
  <2>1. \A h \in DOMAIN handoffs :
          /\ handoffs[h] \in HandoffRecords /\ handoffs[h].sender <= Len(children)
          /\ handoffs[h].delegation <= Len(delegations)
    BY <1>1 DEF HandoffsOK
  <2>2. DOMAIN children = 1..Len(children) /\ DOMAIN delegations = 1..Len(delegations)
    BY <1>1 DEF OrchestrationOK
  <2> QED
    BY <2>1, <2>2 DEF HandoffRecords, Accepted
<1>5. \A h \in DOMAIN handoffs : Chain'[h] = Chain[h] /\ Chain[h] \subseteq DOMAIN handoffs
  BY <1>1, ChainsStay
<1>6. \A h \in DOMAIN handoffs' : handoffs'[h].parent < h
  BY <1>1 DEF HandoffsMove, LineageOK
<1>7. ASSUME NEW h \in DOMAIN handoffs', handoffs'[h].status \in {"ACCEPTED", "COMPLETED"}
      PROVE  handoffs'[h].delegation # 0
  <2>1. h \in DOMAIN handoffs
    BY <1>1, <1>7 DEF HandoffsMove
  <2>2. handoffs[h].status \in {"ACCEPTED", "COMPLETED"} => handoffs[h].delegation # 0
    BY <2>1 DEF LineageOK, Accepted
  <2> QED
    BY <1>1, <1>7, <2>1, <2>2 DEF HandoffsMove, Transferred
<1>8. ASSUME NEW h \in DOMAIN handoffs', handoffs'[h].delegation # 0
      PROVE  /\ delegations'[handoffs'[h].delegation].task = HandoffTask(h)'
             /\ \A g \in Chain'[h] :
                  AgentOf(handoffs[g].sender)' # delegations'[handoffs'[h].delegation].agent
  <2>1. h \in DOMAIN handoffs /\ handoffs'[h].sender = handoffs[h].sender
    BY <1>1, <1>8 DEF HandoffsMove
  <2>2. HandoffTask(h)' = HandoffTask(h)
    BY <1>2, <1>4, <2>1 DEF HandoffTask
  <2>3. \A g \in Chain'[h] : g \in Chain[h] /\ AgentOf(handoffs[g].sender)' = AgentOf(handoffs[g].sender)
    <3>1. \A g \in Chain'[h] : g \in Chain[h] /\ g \in DOMAIN handoffs
      BY <1>5, <2>1
    <3>2. \A g \in DOMAIN handoffs : AgentOf(handoffs[g].sender)' = AgentOf(handoffs[g].sender)
      <4> TAKE g \in DOMAIN handoffs
      <4>1. handoffs'[g].sender = handoffs[g].sender /\ handoffs[g].sender \in DOMAIN children
        BY <1>1, <1>4 DEF HandoffsMove
      <4> QED
        BY <1>2, <4>1 DEF AgentOf
    <3> QED
      BY <3>1, <3>2
  <2>4. CASE Transferred(h)
    BY <2>2, <2>3, <2>4 DEF Transferred
  <2>5. CASE handoffs'[h].delegation = handoffs[h].delegation
    <3>1. Accepted(h) /\ handoffs[h].delegation \in DOMAIN delegations
      BY <1>4, <1>8, <2>1, <2>5 DEF Accepted
    <3>2. /\ delegations[handoffs[h].delegation].task = HandoffTask(h)
          /\ \A g \in Chain[h] :
               AgentOf(handoffs[g].sender) # delegations[handoffs[h].delegation].agent
      BY <2>1, <3>1 DEF LineageOK
    <3>3. delegations'[handoffs'[h].delegation] = delegations[handoffs[h].delegation]
      BY <1>2, <2>5, <3>1
    <3> QED
      BY <2>2, <2>3, <3>2, <3>3
  <2> QED
    BY <1>1, <2>1, <2>4, <2>5 DEF HandoffsMove
<1>9. \A c \in DOMAIN children : children[c].status = "SUCCEEDED" =>
        c \in DOMAIN children' /\ children'[c].status = "SUCCEEDED"
  BY <1>1, SuccessesStay DEF LineageOK
<1>10. ASSUME NEW h \in DOMAIN handoffs', handoffs'[h].status = "COMPLETED"
       PROVE  \E c \in DOMAIN children' :
                /\ children'[c].delegation = handoffs'[h].delegation
                /\ children'[c].status = "SUCCEEDED"
  <2>1. /\ h \in DOMAIN handoffs /\ handoffs'[h].delegation = handoffs[h].delegation
        /\ handoffs[h].status = "COMPLETED" \/ Fulfilled(h)
    BY <1>1, <1>10 DEF HandoffsMove, Transferred
  <2>2. \E c \in ChildrenOf(handoffs[h].delegation) : children[c].status = "SUCCEEDED"
    BY <1>1, <2>1, FulfilledSucceeds DEF LineageOK
  <2> QED
    BY <1>2, <1>9, <2>1, <2>2 DEF ChildrenOf
<1>11. \A c \in DOMAIN children' : children'[c].status = "SUCCEEDED" =>
         tasks'[TaskOf(c)'] = "COMPLETED"
  BY <1>1, SuccessesStay DEF LineageOK
<1> QED
  BY <1>6, <1>7, <1>8, <1>10, <1>11, Zenon DEF LineageOK, Accepted, ChildrenOf

LEMMA LineageInit == HandoffInit => LineageOK
<1> SUFFICES ASSUME HandoffInit PROVE LineageOK
  OBVIOUS
<1>1. DOMAIN handoffs = {} /\ DOMAIN children = {}
  BY DEF HandoffInit, Init
<1> QED
  BY <1>1 DEF LineageOK

LEMMA LineageShown ==
  ASSUME TransfersOK, LineageOK
  PROVE  CompletionIsTheTransfers
<1>1. OrchestrationOK
  BY DEF TransfersOK, MirrorOK
<1> SUFFICES ASSUME NEW h \in DOMAIN handoffs, handoffs[h].status = "COMPLETED"
             PROVE  /\ tasks[HandoffTask(h)] = "COMPLETED"
                    /\ \E c \in ChildrenOf(handoffs[h].delegation) :
                         /\ children[c].status = "SUCCEEDED" /\ TaskOf(c) = HandoffTask(h)
                         /\ \A g \in Chain[h] : AgentOf(handoffs[g].sender) # AgentOf(c)
  BY DEF CompletionIsTheTransfers
<1>2. PICK c \in ChildrenOf(handoffs[h].delegation) : children[c].status = "SUCCEEDED"
  BY DEF LineageOK
<1>3. c \in DOMAIN children /\ children[c].delegation = handoffs[h].delegation
  BY DEF ChildrenOf
<1>4. /\ delegations[handoffs[h].delegation].task = HandoffTask(h)
      /\ \A g \in Chain[h] :
           AgentOf(handoffs[g].sender) # delegations[handoffs[h].delegation].agent
  BY DEF LineageOK
<1>5. TaskOf(c) = HandoffTask(h) /\ AgentOf(c) = delegations[handoffs[h].delegation].agent
  BY <1>3, <1>4 DEF TaskOf, AgentOf
<1>6. tasks[TaskOf(c)] = "COMPLETED"
  BY <1>2, <1>3 DEF LineageOK
<1> QED
  BY <1>2, <1>4, <1>5, <1>6

-----------------------------------------------------------------------------
\* Orchestration, with or without handoffs, implements DeliveryPromise.

LEMMA DeliveryStarts == Init => Delivery!Init
<1> SUFFICES ASSUME Init PROVE Delivery!Init
  OBVIOUS
<1>1. /\ goal = "ACTIVE" /\ plans = <<>> /\ DOMAIN children = {}
      /\ \A t \in Tasks : tasks[t] = Absent
  BY DEF Init
<1>2. outcomeBar = "open" /\ planBar = <<>> /\ DOMAIN planBar = {}
  BY <1>1 DEF outcomeBar, planBar
<1>3. acceptedBar = {} /\ doneBar = {} /\ droppedBar = {}
  BY <1>1 DEF acceptedBar, doneBar, droppedBar, Absent
<1>4. handsBar = [t \in Tasks |-> {}]
  BY <1>1 DEF handsBar, Workers
<1> QED
  BY <1>2, <1>3, <1>4 DEF Delivery!Init

\* The agents at work on a task change with the children alive for it only.
LEMMA WorkersStay ==
  ASSUME OrchestrationOK, OrchestrationStep, NEW t \in Tasks,
         \A c \in DOMAIN children : TaskOf(c) = t => LiveChild(c)' = LiveChild(c),
         \A c \in DOMAIN children' : c \notin DOMAIN children => TaskOf(c)' # t
  PROVE  Workers(t)' = Workers(t)
<1> DEFINE live == {c \in DOMAIN children : TaskOf(c) = t /\ LiveChild(c)}
           next == {c \in DOMAIN children' : TaskOf(c)' = t /\ LiveChild(c)'}
           agent(c) == delegations[children[c].delegation].agent
           later(c) == delegations'[children'[c].delegation].agent
<1>1. next = live
  BY TasksOfChildrenStay, Zenon
<1>2. \A c \in live : later(c) = agent(c)
  <2>1. \A c \in DOMAIN children : children[c].delegation \in DOMAIN delegations
    BY ChildrenHaveTasks
  <2> QED
    BY <2>1, NothingIsForgotten
<1>3. Workers(t) = {agent(c) : c \in live} /\ Workers(t)' = {later(c) : c \in next}
  BY DEF Workers
<1> HIDE DEF live, next, agent, later
<1> QED
  BY <1>1, <1>2, <1>3

LEMMA HandsStay ==
  ASSUME OrchestrationOK, OrchestrationStep, DOMAIN children' = DOMAIN children,
         \A c \in DOMAIN children : LiveChild(c)' = LiveChild(c)
  PROVE  handsBar' = handsBar
<1>1. \A t \in Tasks : Workers(t)' = Workers(t)
  BY WorkersStay
<1> QED
  BY <1>1 DEF handsBar

LEMMA HandsChange ==
  ASSUME NEW t \in Tasks, NEW S, Workers(t)' = S,
         \A u \in Tasks \ {t} : Workers(u)' = Workers(u)
  PROVE  handsBar' = [handsBar EXCEPT ![t] = S]
BY DEF handsBar

LEMMA QuietIsInvisible ==
  ASSUME UNCHANGED <<goal, plans, tasks>>, handsBar' = handsBar
  PROVE  UNCHANGED Delivery!vars
<1>1. outcomeBar' = outcomeBar /\ planBar' = planBar /\ acceptedBar' = acceptedBar
      /\ doneBar' = doneBar /\ droppedBar' = droppedBar
  BY DEF outcomeBar, planBar, acceptedBar, doneBar, droppedBar, Plan
<1> QED
  BY <1>1 DEF Delivery!vars

LEMMA AcceptedPlanIsAdopted ==
  ASSUME EarnedOK, OrchestrationStep, NEW kind \in Kinds, NEW p \in Proposals,
         PlannerAccepted(kind, p)
  PROVE  Delivery!Adopt(p)
<1>1. /\ goal = "ACTIVE" /\ UNCHANGED <<goal, tasks, delegations, children>>
      /\ plans' = Append(plans, p)
  BY DEF PlannerAccepted, Answered, MayAccept, canon
<1>2. OrchestrationOK /\ PlansOK'
  BY EarnedKept DEF EarnedOK, PlansOK
<1>3. plans' # <<>> /\ Plan' = p
  BY <1>1, <1>2 DEF OrchestrationOK, Plan
<1>4. planBar' = p
  BY <1>3 DEF planBar
<1>5. acceptedBar \subseteq DOMAIN p
  BY <1>1, <1>2, <1>3 DEF PlansOK, NoOrphanTask, acceptedBar
<1>6. handsBar' = handsBar
  BY <1>1, <1>2, HandsStay DEF LiveChild
<1>7. /\ outcomeBar' = outcomeBar /\ outcomeBar = "open" /\ acceptedBar' = acceptedBar
      /\ doneBar' = doneBar /\ droppedBar' = droppedBar
  BY <1>1 DEF outcomeBar, acceptedBar, doneBar, droppedBar
<1> QED
  BY <1>4, <1>5, <1>6, <1>7 DEF Delivery!Adopt

LEMMA MaterializationAccepts ==
  ASSUME EarnedOK, OrchestrationStep, Materialize
  PROVE  Delivery!Accept
<1>1. /\ goal = "ACTIVE" /\ UNCHANGED <<goal, plans, delegations, children>> /\ plans # <<>>
      /\ tasks' = [t \in Tasks |-> IF t \in DOMAIN Plan /\ tasks[t] = Absent
                                   THEN "PROPOSED" ELSE tasks[t]]
  BY DEF Materialize
<1>2. OrchestrationOK
  BY DEF EarnedOK, PlansOK
<1>3. planBar = Plan /\ planBar' = planBar /\ DOMAIN Plan \subseteq Tasks
  BY <1>1, <1>2, PlanIsOfTasks DEF planBar, Plan
<1>4. acceptedBar' = acceptedBar \cup DOMAIN planBar
  BY <1>1, <1>3 DEF acceptedBar, Absent
<1>5. doneBar' = doneBar /\ droppedBar' = droppedBar
  BY <1>1 DEF doneBar, droppedBar, Absent
<1>6. handsBar' = handsBar
  BY <1>1, <1>2, HandsStay DEF LiveChild
<1>7. outcomeBar = "open" /\ outcomeBar' = outcomeBar
  BY <1>1 DEF outcomeBar
<1> QED
  BY <1>3, <1>4, <1>5, <1>6, <1>7 DEF Delivery!Accept

LEMMA CancellationAbandons ==
  ASSUME EarnedOK, OrchestrationStep, Cancel \/ OperatorCancels
  PROVE  UNCHANGED Delivery!vars \/ \E ts \in SUBSET Tasks : Delivery!Abandon(ts)
<1> DEFINE ts == {t \in Tasks : tasks'[t] # tasks[t]}
<1>1. OrchestrationOK /\ tasks \in [Tasks -> TaskStatuses]
  BY DEF EarnedOK, PlansOK, OrchestrationOK
<1>2. /\ UNCHANGED <<plans, delegations, children>>
      /\ goal' = goal \/ (goal = "ACTIVE" /\ goal' = "CANCELLED")
  <2>1. CASE Cancel
    BY <2>1 DEF Cancel
  <2>2. CASE OperatorCancels
    BY <2>2 DEF OperatorCancels
  <2> QED
    BY <2>1, <2>2
<1>3. \A t \in Tasks :
        \/ tasks'[t] = tasks[t]
        \/ tasks'[t] = "CANCELLED" /\ tasks[t] \notin {Absent, "COMPLETED", "CANCELLED"}
  <2>1. CASE Cancel
    BY <1>1, <2>1 DEF Cancel, Cancellable, Absent
  <2>2. CASE OperatorCancels
    <3>1. \A s \in {Absent, "COMPLETED", "CANCELLED"} : "CANCELLED" \notin TaskAllowed[s]
      BY DEF TaskAllowed, Absent
    <3>2. tasks' = tasks \/ \E t \in Tasks : /\ "CANCELLED" \in TaskAllowed[tasks[t]]
                                             /\ tasks' = [tasks EXCEPT ![t] = "CANCELLED"]
      BY <2>2 DEF OperatorCancels
    <3> QED
      BY <1>1, <3>1, <3>2
  <2> QED
    BY <2>1, <2>2
<1>4. handsBar' = handsBar
  BY <1>1, <1>2, HandsStay DEF LiveChild
<1>5. planBar' = planBar
  BY <1>2 DEF planBar, Plan
<1>6. CASE goal = "SATISFIED"
  <2>1. \A t \in Tasks : tasks[t] \in {Absent, "COMPLETED"}
    BY <1>6 DEF EarnedOK, PlansOK, NoOrphanTask
  <2>2. \A t \in Tasks : tasks'[t] = tasks[t]
    BY <1>3, <2>1
  <2>3. acceptedBar' = acceptedBar /\ doneBar' = doneBar /\ droppedBar' = droppedBar
    BY <2>2 DEF acceptedBar, doneBar, droppedBar
  <2>4. outcomeBar' = outcomeBar
    BY <1>2, <1>6 DEF outcomeBar
  <2> QED
    BY <1>4, <1>5, <2>3, <2>4 DEF Delivery!vars
<1>7. CASE goal # "SATISFIED"
  <2>1. outcomeBar # "delivered" /\ outcomeBar' \in {outcomeBar, "closed"}
    BY <1>2, <1>7 DEF outcomeBar
  <2>2. ts \subseteq acceptedBar \ doneBar
    BY <1>3 DEF acceptedBar, doneBar
  <2>3. acceptedBar' = acceptedBar
    BY <1>3 DEF acceptedBar, Absent
  <2>4. doneBar' = doneBar
    BY <1>3 DEF doneBar
  <2>5. droppedBar' = droppedBar \cup ts
    BY <1>3 DEF droppedBar
  <2>6. ts \in SUBSET Tasks
    OBVIOUS
  <2> HIDE DEF ts
  <2>7. Delivery!Abandon(ts)
    BY <1>4, <1>5, <2>1, <2>2, <2>3, <2>4, <2>5 DEF Delivery!Abandon
  <2> QED
    BY <2>6, <2>7
<1> QED
  BY <1>6, <1>7

LEMMA StartBegins ==
  ASSUME EarnedOK, OrchestrationStep, NEW d \in DOMAIN delegations, StartDelegation(d)
  PROVE  Delivery!Begin(delegations[d].task, delegations[d].agent)
         /\ delegations[d].task \in Tasks /\ delegations[d].agent \in Agents
<1>1. OrchestrationOK /\ MirrorOK /\ tasks \in [Tasks -> TaskStatuses]
  BY DEF EarnedOK, PlansOK, OrchestrationOK
<1>2. delegations[d] \in DelegationRecords
  BY <1>1 DEF OrchestrationOK
<1> PICK t \in Tasks, a \in Agents : t = delegations[d].task /\ a = delegations[d].agent
  BY <1>2 DEF DelegationRecords
<1> PICK n : n = Len(children')
  OBVIOUS
<1>3. /\ DOMAIN children' = DOMAIN children \cup {n} /\ n \notin DOMAIN children
      /\ \A b \in DOMAIN children : children'[b] = children[b]
      /\ children'[n].delegation = d /\ delegations' = delegations
  <2>1. DOMAIN children = 1..Len(children) /\ Len(children) \in Nat
    BY <1>1 DEF OrchestrationOK
  <2> QED
    BY <2>1, StartsAreReady
<1>4. children'[n].status = "RUNNING"
  <2>1. PICK e \in Nat : children' = Append(children, Child(d, e))
    BY <1>1, StartingKeepsTypes
  <2> QED
    BY <1>1, <2>1, ChildIsAdded
<1>5. goal = "ACTIVE" /\ t \in ReadyTasks /\ UNCHANGED <<goal, plans>>
      /\ tasks' = [tasks EXCEPT ![t] = "IN_PROGRESS"]
  BY DEF StartDelegation, MayStart
<1>6. /\ tasks[t] \in {"PROPOSED", "READY"} /\ t \in DOMAIN Plan
      /\ \A u \in Plan[t] : tasks[u] = "COMPLETED"
  BY <1>5 DEF ReadyTasks
<1>7. plans # <<>>
  BY <1>6 DEF EarnedOK, PlansOK, NoOrphanTask, Absent
<1>8. planBar = Plan /\ planBar' = planBar /\ planBar[t] \subseteq doneBar
  <2>1. planBar = Plan /\ planBar' = planBar
    BY <1>5, <1>7 DEF planBar, Plan
  <2>2. Plan[t] \subseteq Tasks
    BY <1>1, <1>6, <1>7, PlanIsOfTasks
  <2> QED
    BY <1>6, <2>1, <2>2 DEF doneBar
<1>9. t \in acceptedBar \ (doneBar \cup droppedBar)
  BY <1>6 DEF acceptedBar, doneBar, droppedBar, Absent
<1>10. acceptedBar' = acceptedBar /\ doneBar' = doneBar /\ droppedBar' = droppedBar
  <2>1. \A u \in Tasks : u # t => tasks'[u] = tasks[u]
    BY <1>1, <1>5
  <2>2. tasks'[t] = "IN_PROGRESS"
    BY <1>1, <1>5
  <2> QED
    BY <1>6, <2>1, <2>2 DEF acceptedBar, doneBar, droppedBar, Absent
<1>11. \A b \in DOMAIN children : LiveChild(b) => TaskOf(b) # t
  BY <1>1, <1>6 DEF MirrorOK
<1>12. \A b \in DOMAIN children : TaskOf(b)' = TaskOf(b) /\ LiveChild(b)' = LiveChild(b)
  BY <1>1, <1>3, TasksOfChildrenStay DEF LiveChild
<1>13. TaskOf(n)' = t /\ LiveChild(n)'
  BY <1>3, <1>4 DEF TaskOf, LiveChild
<1>14. handsBar[t] = {}
  BY <1>11 DEF handsBar, Workers
<1>15. Workers(t)' = {a}
  <2>1. {c \in DOMAIN children' : TaskOf(c)' = t /\ LiveChild(c)'} = {n}
    BY <1>3, <1>11, <1>12, <1>13
  <2>2. delegations'[children'[n].delegation].agent = a
    BY <1>3
  <2>3. Workers(t)' = {delegations'[children'[c].delegation].agent :
                         c \in {c \in DOMAIN children' : TaskOf(c)' = t /\ LiveChild(c)'}}
    BY DEF Workers
  <2> QED
    BY <2>1, <2>2, <2>3
<1>16. \A u \in Tasks \ {t} : Workers(u)' = Workers(u)
  BY <1>1, <1>3, <1>12, <1>13, WorkersStay
<1>17. outcomeBar = "open" /\ outcomeBar' = outcomeBar
  BY <1>5 DEF outcomeBar
<1>18. handsBar' = [handsBar EXCEPT ![t] = {a}]
  BY <1>15, <1>16, HandsChange
<1>19. Delivery!Begin(t, a)
  BY <1>8, <1>9, <1>10, <1>14, <1>17, <1>18 DEF Delivery!Begin
<1> QED
  BY <1>19

\* Of all that happens to a child only its success completes a task, under an open goal.
LEMMA SuccessIsUnderAnOpenGoal ==
  ASSUME OrchestrationOK, OrchestrationStep, NEW c \in DOMAIN children,
         ChildStep(c) \/ ResumeContext(c) \/ ApprovalResumes(c)
  PROVE  /\ UNCHANGED <<goal, plans, delegations>>
         /\ children'[c].status = "SUCCEEDED" => goal = "ACTIVE"
<1>1. ASSUME LiveChild(c), NEW cancel \in BOOLEAN, ChildStopped(c, cancel)
      PROVE  children'[c].status # "SUCCEEDED"
  <2>1. \E s \in {"FAILED", "CANCELLED"} : SetChild(c, s, FALSE)
    BY <1>1 DEF ChildStopped
  <2> QED
    BY <2>1, ChildIsSet
<1>2. ASSUME ChildResumed(c) PROVE children'[c].status # "SUCCEEDED"
  <2>1. children[c].pending \in BOOLEAN
    BY ChildrenHaveTasks DEF ChildRecords
  <2> QED
    BY <1>2, <2>1, ChildIsSet DEF ChildResumed
<1>3. CASE \E cancel \in BOOLEAN : ChildFails(c, cancel)
  BY <1>1, <1>3 DEF ChildFails
<1>4. CASE ChildSucceeds(c)
  BY <1>4 DEF ChildSucceeds, ParentsAre
<1>5. CASE \E pending \in BOOLEAN : ChildWaits(c, pending)
  BY <1>5, ChildIsSet DEF ChildWaits
<1>6. CASE ResumeContext(c)
  BY <1>1, <1>2, <1>6 DEF ResumeContext, LiveChild
<1>7. CASE ApprovalResumes(c)
  BY <1>2, <1>7 DEF ApprovalResumes
<1> QED
  BY <1>3, <1>4, <1>5, <1>6, <1>7 DEF ChildStep

\* A child that ends puts its task down, finished or not; one that waits or goes on is
\* not seen.
LEMMA MovesAreSeen ==
  ASSUME EarnedOK, OrchestrationStep, NEW c \in DOMAIN children, ChildMoves(c),
         UNCHANGED <<goal, plans>>, children'[c].status = "SUCCEEDED" => goal = "ACTIVE"
  PROVE  \/ UNCHANGED Delivery!vars
         \/ \E t \in Tasks : Delivery!Finish(t) \/ Delivery!LetGo(t)
<1>1. OrchestrationOK /\ MirrorOK /\ tasks \in [Tasks -> TaskStatuses]
  BY DEF EarnedOK, PlansOK, OrchestrationOK
<1> PICK t \in Tasks : t = TaskOf(c)
  BY <1>1, ChildrenHaveTasks
<1>2. /\ DOMAIN children' = DOMAIN children
      /\ LiveChild(c)
      /\ \A b \in DOMAIN children : b # c => LiveChild(b)' = LiveChild(b)
  BY DEF ChildMoves, LiveChild
<1>3. outcomeBar' = outcomeBar /\ planBar' = planBar
  BY DEF outcomeBar, planBar, Plan
<1>4. CASE LiveChild(c)'
  <2>1. tasks' = tasks
    BY <1>4 DEF ChildMoves, LiveChild
  <2>2. \A b \in DOMAIN children : LiveChild(b)' = LiveChild(b)
    BY <1>2, <1>4 DEF LiveChild
  <2>3. handsBar' = handsBar
    BY <1>1, <1>2, <2>2, HandsStay
  <2> QED
    BY <2>1, <2>3, QuietIsInvisible
<1>5. CASE ~ LiveChild(c)'
  <2>1. \A b \in DOMAIN children : TaskOf(b)' = TaskOf(b)
    BY <1>1, TasksOfChildrenStay
  <2>2. \A b \in DOMAIN children : TaskOf(b) = t /\ LiveChild(b) => b = c
    BY <1>1, <1>2 DEF MirrorOK
  <2>3. Workers(t)' = {}
    <3>1. {b \in DOMAIN children' : TaskOf(b)' = t /\ LiveChild(b)'} = {}
      BY <1>2, <1>5, <2>1, <2>2
    <3>2. t' = t
      OBVIOUS
    <3> QED
      BY <3>1, <3>2 DEF Workers
  <2>4. \A u \in Tasks \ {t} : Workers(u)' = Workers(u)
    BY <1>1, <1>2, WorkersStay
  <2>5. handsBar' = [handsBar EXCEPT ![t] = {}]
    BY <2>3, <2>4, HandsChange
  <2>6. handsBar[t] # {}
    BY <1>2 DEF handsBar, Workers
  <2>7. tasks[t] \in {"IN_PROGRESS", "CANCELLED"}
    BY <1>1, <1>2 DEF MirrorOK
  <2>8. \/ tasks' = tasks
        \/ tasks' = [tasks EXCEPT ![t] = "READY"]
        \/ tasks' = [tasks EXCEPT ![t] = "CANCELLED"]
        \/ /\ tasks[t] = "IN_PROGRESS" /\ children'[c].status = "SUCCEEDED"
           /\ tasks' = [tasks EXCEPT ![t] = "COMPLETED"]
    BY <1>5 DEF ChildMoves, LiveChild
  <2>9. \A u \in Tasks : u # t => tasks'[u] = tasks[u]
    BY <1>1, <2>8
  <2>10. CASE tasks'[t] \in {tasks[t], "READY"} /\ tasks'[t] # "COMPLETED"
    <3>1. CASE tasks[t] = "CANCELLED" /\ tasks'[t] = "READY"
      <4>1. FALSE
        BY <1>1, <1>5, <2>7, <3>1 DEF ChildMoves, LiveChild
      <4> QED
        BY <4>1
    <3>2. CASE ~ (tasks[t] = "CANCELLED" /\ tasks'[t] = "READY")
      <4>1. acceptedBar' = acceptedBar /\ doneBar' = doneBar /\ droppedBar' = droppedBar
        BY <2>7, <2>9, <2>10, <3>2 DEF acceptedBar, doneBar, droppedBar, Absent
      <4>2. Delivery!LetGo(t)
        BY <1>3, <2>5, <2>6, <4>1 DEF Delivery!LetGo
      <4> QED
        BY <4>2
    <3> QED
      BY <3>1, <3>2
  <2>11. CASE tasks'[t] = "CANCELLED"
    <3>1. acceptedBar' = acceptedBar /\ doneBar' = doneBar /\ droppedBar' = droppedBar \cup {t}
      BY <2>7, <2>9, <2>11 DEF acceptedBar, doneBar, droppedBar, Absent
    <3>2. Delivery!LetGo(t)
      BY <1>3, <2>5, <2>6, <3>1 DEF Delivery!LetGo
    <3> QED
      BY <3>2
  <2>12. CASE tasks'[t] = "COMPLETED" /\ tasks[t] = "IN_PROGRESS"
    <3>1. acceptedBar' = acceptedBar /\ doneBar' = doneBar \cup {t} /\ droppedBar' = droppedBar
      BY <2>9, <2>12 DEF acceptedBar, doneBar, droppedBar, Absent
    <3>2. goal = "ACTIVE"
      BY <1>1, <2>8, <2>12
    <3>3. outcomeBar = "open" /\ t \notin droppedBar
      BY <2>12, <3>2 DEF outcomeBar, droppedBar
    <3>4. Delivery!Finish(t)
      BY <1>3, <2>5, <2>6, <3>1, <3>3 DEF Delivery!Finish
    <3> QED
      BY <3>4
  <2> QED
    BY <1>1, <2>7, <2>8, <2>10, <2>11, <2>12
<1> QED
  BY <1>4, <1>5

LEMMA ReconciliationDelivers ==
  ASSUME EarnedOK, OrchestrationStep, NEW c \in DOMAIN children, Reconcile(c)
  PROVE  UNCHANGED Delivery!vars \/ Delivery!Deliver
<1>1. OrchestrationOK /\ MirrorOK /\ NoOrphanTask
  BY DEF EarnedOK, PlansOK
<1>2. UNCHANGED <<plans, tasks, delegations>> /\ \E s : Accounted(c, s)
  BY DEF Reconcile
<1>3. /\ DOMAIN children' = DOMAIN children
      /\ \A b \in DOMAIN children : LiveChild(b)' = LiveChild(b)
  BY <1>1, <1>2, ChildIsAccounted DEF LiveChild
<1>4. handsBar' = handsBar
  BY <1>1, <1>3, HandsStay
<1>5. CASE UNCHANGED goal
  BY <1>2, <1>4, <1>5, QuietIsInvisible
<1>6. CASE ~ UNCHANGED goal
  <2>1. goal = "ACTIVE" /\ goal' = "SATISFIED" /\ Current /\ Completes
    BY <1>6 DEF Reconcile
  <2>2. plans # <<>>
    BY <2>1 DEF Current, EarnedOK
  <2>3. /\ DOMAIN Plan \subseteq Tasks /\ DOMAIN Plan # {}
        /\ \A t \in DOMAIN Plan : tasks[t] = "COMPLETED"
    <3>1. Plan \in Proposals
      BY <1>1, <2>2 DEF OrchestrationOK, Plan
    <3>2. DOMAIN Plan \subseteq Tasks /\ DOMAIN Plan # {}
      BY <3>1, OrchestrationAssumption DEF OrchestrationAssumption
    <3> QED
      BY <2>1, <3>2 DEF Completes, AllComplete
  <2>4. \A t \in Tasks : tasks[t] # Absent => t \in DOMAIN Plan
    BY <1>1 DEF NoOrphanTask
  <2>5. planBar = Plan /\ planBar' = planBar
    BY <1>2, <2>2 DEF planBar, Plan
  <2>6. acceptedBar = DOMAIN Plan /\ doneBar = DOMAIN Plan
    BY <2>3, <2>4 DEF acceptedBar, doneBar, Absent
  <2>7. \A t \in Tasks : handsBar[t] = {}
    <3>1. ASSUME NEW b \in DOMAIN children, LiveChild(b) PROVE FALSE
      <4>1. tasks[TaskOf(b)] \in {"IN_PROGRESS", "CANCELLED"} /\ TaskOf(b) \in Tasks
        BY <1>1, <3>1, ChildrenHaveTasks DEF MirrorOK
      <4> QED
        BY <2>3, <2>4, <4>1 DEF Absent
    <3> QED
      BY <3>1 DEF handsBar, Workers
  <2>8. acceptedBar' = acceptedBar /\ doneBar' = doneBar /\ droppedBar' = droppedBar
    BY <1>2 DEF acceptedBar, doneBar, droppedBar
  <2>9. outcomeBar = "open" /\ outcomeBar' = "delivered"
    BY <2>1 DEF outcomeBar
  <2> QED
    BY <1>4, <2>3, <2>5, <2>6, <2>7, <2>8, <2>9 DEF Delivery!Deliver
<1> QED
  BY <1>5, <1>6

LEMMA AcceptanceIsSeen ==
  ASSUME EarnedOK, OrchestrationStep, Accepting
  PROVE  UNCHANGED Delivery!vars \/ \E t \in Tasks : Delivery!Finish(t) \/ Delivery!LetGo(t)
<1>1. OrchestrationOK
  BY DEF EarnedOK, PlansOK
<1>2. PICK h \in DOMAIN handoffs, a \in Agents :
        handoffs[h].sender \in DOMAIN children /\ AcceptHandoff(h, a)
  BY DEF Accepting
<1>3. ChildMoves(handoffs[h].sender)
  BY <1>1, <1>2, AcceptanceKeepsTypes
<1>4. /\ UNCHANGED <<goal, plans>>
      /\ tasks'[TaskOf(handoffs[h].sender)] = "READY"
  BY <1>2 DEF AcceptHandoff, EndSender
<1>5. children'[handoffs[h].sender].status # "SUCCEEDED"
  <2>1. TaskOf(handoffs[h].sender) \in Tasks /\ tasks \in [Tasks -> TaskStatuses]
    BY <1>1, <1>2, ChildrenHaveTasks DEF OrchestrationOK
  <2> QED
    BY <1>3, <1>4, <2>1 DEF ChildMoves
<1> QED
  BY <1>2, <1>3, <1>4, <1>5, MovesAreSeen

LEMMA StepsKeepPromise ==
  ASSUME EarnedOK, OrchestrationStep
  PROVE  [Delivery!Next]_(Delivery!vars)
<1>1. OrchestrationOK
  BY DEF EarnedOK, PlansOK
<1>2. ASSUME UNCHANGED <<goal, plans, tasks, children>>
      PROVE  UNCHANGED Delivery!vars
  BY <1>1, <1>2, HandsStay, QuietIsInvisible DEF LiveChild
<1>3. CASE UNCHANGED vars \/ Start \/ Replan \/ Crash
  BY <1>2, <1>3 DEF vars, canon, Start, Replan, Crash
<1>4. CASE PlannerAnswers
  <2>1. ASSUME NEW kind \in Kinds, PlannerRefused(kind) \/ PlannerEscapes(kind)
        PROVE  UNCHANGED Delivery!vars
    BY <1>2, <2>1 DEF PlannerRefused, PlannerEscapes, Answered, canon
  <2>2. ASSUME NEW kind \in Kinds, NEW p \in Proposals, PlannerAccepted(kind, p)
        PROVE  Delivery!Next
    BY <2>2, AcceptedPlanIsAdopted DEF Delivery!Next
  <2> QED
    BY <1>4, <2>1, <2>2 DEF PlannerAnswers
<1>5. CASE Materialize
  BY <1>5, MaterializationAccepts DEF Delivery!Next
<1>6. ASSUME NEW t \in Tasks, Delegate(t)
      PROVE  UNCHANGED Delivery!vars
  BY <1>2, <1>6 DEF Delegate, canon
<1>7. ASSUME NEW d \in DOMAIN delegations, StartDelegation(d)
      PROVE  Delivery!Next
  BY <1>7, StartBegins DEF Delivery!Next
<1>8. ASSUME NEW c \in DOMAIN children, ChildStep(c) \/ ResumeContext(c) \/ ApprovalResumes(c)
      PROVE  [Delivery!Next]_(Delivery!vars)
  <2>1. UNCHANGED Delivery!vars \/ \E t \in Tasks : Delivery!Finish(t) \/ Delivery!LetGo(t)
    BY <1>1, <1>8, ChildrenMove, SuccessIsUnderAnOpenGoal, MovesAreSeen
  <2> QED
    BY <2>1 DEF Delivery!Next
<1>9. ASSUME NEW c \in DOMAIN children,
             BeginApproval(c) \/ ApprovalRaises(c) \/ ApprovalReturns(c)
      PROVE  UNCHANGED Delivery!vars
  BY <1>2, <1>9 DEF BeginApproval, ApprovalRaises, ApprovalReturns, canon
<1>10. ASSUME NEW c \in DOMAIN children, Reconcile(c)
       PROVE  [Delivery!Next]_(Delivery!vars)
  BY <1>10, ReconciliationDelivers DEF Delivery!Next
<1>11. CASE Cancel \/ OperatorCancels
  BY <1>11, CancellationAbandons DEF Delivery!Next
<1>12. CASE Accepting
  BY <1>12, AcceptanceIsSeen DEF Delivery!Next
<1> QED
  BY <1>3, <1>4, <1>5, <1>6, <1>7, <1>8, <1>9, <1>10, <1>11, <1>12
  DEF OrchestrationStep, Next, ApprovalStep

-----------------------------------------------------------------------------
\* A run that plans has somebody to wait for, unless an answer of this planning was lost.

PlanningIsAwaited ==
  orun.status = "PLANNING" /\ ~lost => planners.start + planners.replan > 0

\* Nothing but a crash or an error that escapes loses an answer, and a run asked to plan
\* anew is awaited anew.
LossesAreExplained ==
  [][/\ lost' /\ ~lost => Crash \/ \E kind \in Kinds : PlannerEscapes(kind)
     /\ orun'.status = "PLANNING" /\ orun.status # "PLANNING" => ~lost']_vars

AwaitedOK ==
  /\ lost \in BOOLEAN /\ PlanningIsAwaited
  /\ orun.status = Absent => ~lost

\* What a step does to planning: nothing, or an answer is due, or an answer is lost.
PlanningStays ==
  /\ UNCHANGED <<planners, lost>>
  /\ orun'.status \in {"PLANNING", Absent} => orun'.status = orun.status

AnswerIsDue ==
  /\ lost' = FALSE
  /\ orun'.status = "PLANNING" => planners'.start + planners'.replan > 0

AnswerIsLost ==
  /\ lost' = (orun.status = "PLANNING") /\ orun' = orun
  /\ Crash \/ \E kind \in Kinds : PlannerEscapes(kind)

LEMMA PlanningMoves ==
  ASSUME OrchestrationOK, AwaitedOK, OrchestrationStep
  PROVE  PlanningStays \/ AnswerIsDue \/ AnswerIsLost
<1>1. /\ planners \in [start : Nat, replan : Nat] /\ orun.status \in RunStatuses
      /\ \A s \in RunStatuses : [orun EXCEPT !.status = s].status = s
      /\ \A e : [orun EXCEPT !.exec = e].status = orun.status
  <2>1. planners \in [start : Nat, replan : Nat]
    BY DEF OrchestrationOK
  <2>2. orun.status \in RunStatuses /\ \A s \in RunStatuses : [orun EXCEPT !.status = s].status = s
    BY RunsEvolve
  <2>3. \A e : [orun EXCEPT !.exec = e].status = orun.status
    BY DEF OrchestrationOK, RunRecords
  <2> QED
    BY <2>1, <2>2, <2>3
<1>2. ASSUME UNCHANGED <<planners, lost>>,
             orun'.status \in {"PLANNING", Absent} => orun'.status = orun.status
      PROVE  PlanningStays
  BY <1>2 DEF PlanningStays
<1>3. CASE UNCHANGED vars
  BY <1>2, <1>3 DEF vars, calls
<1>4. CASE Start
  <2>1. planners' = [planners EXCEPT !.start = 1] /\ lost' = lost /\ orun.status = Absent
    BY <1>4 DEF Start
  <2>2. planners'.start = 1 /\ planners'.replan \in Nat
    BY <1>1, <2>1
  <2>3. planners'.start + planners'.replan > 0
    BY <2>2
  <2> QED
    BY <2>1, <2>3 DEF AwaitedOK, AnswerIsDue
<1>5. CASE Replan
  <2>1. CASE orun.replans >= MaxReplans
    BY <1>1, <1>2, <1>5, <2>1 DEF Replan, RunStatuses, Absent
  <2>2. CASE ~ (orun.replans >= MaxReplans)
    <3>1. planners' = [planners EXCEPT !.replan = @ + 1] /\ lost' = FALSE
      BY <1>5, <2>2 DEF Replan
    <3>2. planners'.start \in Nat /\ planners'.replan = planners.replan + 1 /\ planners.replan \in Nat
      BY <1>1, <3>1
    <3>3. planners'.start + planners'.replan > 0
      BY <3>2
    <3> QED
      BY <3>1, <3>3 DEF AnswerIsDue
  <2> QED
    BY <2>1, <2>2
<1>6. ASSUME NEW kind \in Kinds, PlannerRefused(kind)
      PROVE  orun'.status # "PLANNING" /\ lost' = FALSE
  <2>1. CASE OpenRun
    BY <1>1, <1>6, <2>1 DEF PlannerRefused, RunStatuses
  <2>2. CASE ~ OpenRun
    BY <1>6, <2>2 DEF PlannerRefused, OpenRun, Ended, Absent
  <2> QED
    BY <2>1, <2>2
<1>7. ASSUME NEW kind \in Kinds, NEW p \in Proposals, PlannerAccepted(kind, p)
      PROVE  orun'.status # "PLANNING" /\ lost' = FALSE
  BY <1>7 DEF PlannerAccepted
<1>8. CASE PlannerAnswers
  <2>1. ASSUME NEW kind \in Kinds, PlannerEscapes(kind)
        PROVE  AnswerIsLost
    BY <2>1 DEF PlannerEscapes, AnswerIsLost
  <2>2. ASSUME orun'.status # "PLANNING", lost' = FALSE
        PROVE  AnswerIsDue
    BY <2>2 DEF AnswerIsDue
  <2> QED
    BY <1>6, <1>7, <1>8, <2>1, <2>2 DEF PlannerAnswers
<1>9. CASE Materialize
  <2>1. UNCHANGED <<planners, lost>> /\ orun'.status = orun.status
    BY <1>1, <1>9 DEF Materialize, calls
  <2> QED
    BY <1>2, <2>1
<1>10. ASSUME NEW t \in Tasks, Delegate(t)
       PROVE  PlanningStays
  <2>1. UNCHANGED <<planners, lost>>
        /\ (orun' = orun \/ orun' = [orun EXCEPT !.status = "WAITING"])
    BY <1>10 DEF Delegate, DelegateInitial, DelegateRetry, DelegateAgain, NobodyEligible,
       Assign, calls
  <2> QED
    BY <1>1, <1>2, <2>1 DEF RunStatuses, Absent
<1>11. ASSUME NEW d \in DOMAIN delegations, StartDelegation(d)
       PROVE  PlanningStays
  <2>1. UNCHANGED <<planners, lost>> /\ orun'.status = orun.status
    BY <1>11, StartingKeepsTypes DEF StartDelegation, calls
  <2> QED
    BY <1>2, <2>1
<1>12. ASSUME NEW c \in DOMAIN children, ChildStep(c) \/ ResumeContext(c) \/ BeginApproval(c)
                                         \/ ApprovalStep(c)
       PROVE  PlanningStays
  <2>1. UNCHANGED <<planners, lost>>
    BY <1>12 DEF ChildStep, ChildFails, ChildSucceeds, ChildWaits, ResumeContext,
       BeginApproval, ApprovalStep, ApprovalResumes, ApprovalRaises, ApprovalReturns, calls
  <2>2. orun' = orun \/ \E s \in {"RUNNING", "WAITING"} : orun' = [orun EXCEPT !.status = s]
    BY <1>12 DEF ChildStep, ChildFails, ChildSucceeds, ChildWaits, ResumeContext,
       BeginApproval, ApprovalStep, ApprovalResumes, ApprovalRaises, ApprovalReturns
  <2> QED
    BY <1>1, <1>2, <2>1, <2>2 DEF RunStatuses, Absent
<1>13. ASSUME NEW c \in DOMAIN children, Reconcile(c)
       PROVE  PlanningStays
  <2>1. UNCHANGED <<planners, lost>>
    BY <1>13 DEF Reconcile, calls
  <2>2. \E s \in {"COMPLETED", "WAITING", orun.status} : Accounted(c, s)
    BY <1>13 DEF Reconcile
  <2>3. orun'.status \in {"COMPLETED", "WAITING", orun.status}
    BY <2>2 DEF Accounted
  <2> QED
    BY <1>2, <2>1, <2>3 DEF Absent
<1>14. CASE Cancel
  BY <1>1, <1>2, <1>14 DEF Cancel, calls, RunStatuses, Absent
<1>15. CASE OperatorCancels
  BY <1>2, <1>15 DEF OperatorCancels, calls
<1>16. CASE Crash
  BY <1>16 DEF Crash, AnswerIsLost
<1>17. CASE Accepting
  <2>1. orun' = [orun EXCEPT !.status = "RUNNING"] /\ UNCHANGED <<planners, lost>>
    BY <1>17 DEF Accepting, AcceptHandoff, calls
  <2> QED
    BY <1>1, <1>2, <2>1 DEF RunStatuses, Absent
<1> QED
  BY <1>3, <1>4, <1>5, <1>8, <1>9, <1>10, <1>11, <1>12, <1>13, <1>14, <1>15, <1>16, <1>17
  DEF OrchestrationStep, Next

LEMMA AwaitedKept ==
  ASSUME OrchestrationOK, AwaitedOK, OrchestrationStep
  PROVE  AwaitedOK'
<1>1. CASE PlanningStays
  BY <1>1 DEF PlanningStays, AwaitedOK, PlanningIsAwaited
<1>2. CASE AnswerIsDue
  BY <1>2 DEF AnswerIsDue, AwaitedOK, PlanningIsAwaited
<1>3. CASE AnswerIsLost
  BY <1>3 DEF AnswerIsLost, AwaitedOK, PlanningIsAwaited, Absent
<1> QED
  BY <1>1, <1>2, <1>3, PlanningMoves

LEMMA AwaitedInit == Init => AwaitedOK
<1> SUFFICES ASSUME Init PROVE AwaitedOK
  OBVIOUS
<1>1. orun.status = Absent /\ ~lost
  BY DEF Init
<1>2. lost \in BOOLEAN
  BY Zenon DEF Init
<1> QED
  BY <1>1, <1>2 DEF AwaitedOK, PlanningIsAwaited, Absent

-----------------------------------------------------------------------------
\* The theorems.  Each invariant holds with handoffs in between, too.

RunOK == BoundsOK /\ AssignmentsOK /\ AwaitedOK

LEMMA RunInit == Init => RunOK
<1> SUFFICES ASSUME Init PROVE RunOK
  OBVIOUS
<1>1. BoundsOK /\ OrchestrationOK
  BY BoundsInit DEF BoundsOK, EarnedOK, MirrorOK
<1>2. DOMAIN delegations = {}
  BY DEF Init
<1> QED
  BY <1>1, <1>2, AwaitedInit DEF RunOK, AssignmentsOK

LEMMA RunKept ==
  ASSUME RunOK, OrchestrationStep
  PROVE  RunOK'
BY BoundsKept, AssignmentsKept, AwaitedKept DEF RunOK, BoundsOK, EarnedOK, MirrorOK

LEMMA RunShown ==
  RunOK => /\ OrchestrationOK /\ NoOrphanTask /\ TaskMirrorsChild /\ CompletionIsEarned
           /\ WorkIsBounded /\ AssignmentsMoveOn
BY BoundsShown, AssignmentsShown, MirrorShown, EarnedShown
   DEF RunOK, BoundsOK, EarnedOK, PlansOK, MirrorOK

LEMMA RunsStay == Spec => []RunOK
<1>1. RunOK /\ [Next]_vars => RunOK'
  BY RunKept DEF OrchestrationStep
<1> QED
  BY RunInit, <1>1, PTL DEF Spec

LEMMA HandoffsStay == HandoffSpec => [](RunOK /\ TransfersOK /\ LineageOK)
<1>1. HandoffInit => RunOK /\ TransfersOK /\ LineageOK
  BY RunInit, TransfersInit, LineageInit DEF HandoffInit
<1>2. RunOK /\ TransfersOK /\ LineageOK /\ [HandoffNext]_hvars =>
        (RunOK /\ TransfersOK /\ LineageOK)'
  <2>1. RunOK /\ TransfersOK /\ [HandoffNext]_hvars => OrchestrationStep
    BY HandoffStepKinds DEF TransfersOK, MirrorOK
  <2> QED
    BY <2>1, RunKept, TransfersKept, LineageKept
<1> QED
  BY <1>1, <1>2, PTL DEF HandoffSpec

\* The records of one orchestration keep their shape and refer to what exists.
THEOREM OrchestrationStays == Spec => []OrchestrationOK
BY RunsStay, RunShown, PTL

\* No canonical task falls out of the plan in force, however many planners answer and
\* whenever they do (_accept_plan, materialize).
THEOREM NoTaskIsOrphaned == Spec => []NoOrphanTask
BY RunsStay, RunShown, PTL

\* Task and child stay in step over every execution they are given
\* (start_delegation, _failure, the runtime's completion and waits).
THEOREM TasksMirrorChildren == Spec => []TaskMirrorsChild
BY RunsStay, RunShown, PTL

\* Run and goal are completed together, over delivered work (_reconcile_result).
THEOREM CompletionIsAlwaysEarned == Spec => []CompletionIsEarned
BY RunsStay, RunShown, PTL

\* The budgets of the policy hold for any number of tasks (start_delegation).
THEOREM WorkStaysBounded == Spec => []WorkIsBounded
BY RunsStay, RunShown, PTL

\* A child starts after the dependencies of its task in the plan in force
\* (ready_tasks, read again by start_delegation).
THEOREM DependenciesComeFirst == Spec => DependenciesFirst
<1>1. RunOK /\ [Next]_vars =>
        [Len(children') > Len(children) =>
           \A d \in Plan[delegations'[children'[Len(children')].delegation].task] :
             tasks[d] = "COMPLETED" /\ Delivered(d)]_vars
  BY StepsStartReady DEF OrchestrationStep, RunOK, BoundsOK
<1> QED
  BY RunsStay, <1>1, PTL DEF Spec, DependenciesFirst

\* A run that plans has a planner to wait for unless an answer of this planning was lost,
\* with or without handoffs, and only a crash or an error that escapes the call (replan
\* handles only a DomainError of _accept_plan) loses one: no refusal, no late answer, no
\* child and no cancellation leaves PLANNING behind.
THEOREM PlanningIsAlwaysAwaited ==
  /\ Spec => []PlanningIsAwaited /\ LossesAreExplained
  /\ HandoffSpec => []PlanningIsAwaited
<1>1. RunOK => PlanningIsAwaited
  BY DEF RunOK, AwaitedOK
<1>2. Spec => []PlanningIsAwaited /\ LossesAreExplained
  <2>1. RunOK /\ [Next]_vars =>
          [/\ lost' /\ ~lost => Crash \/ \E kind \in Kinds : PlannerEscapes(kind)
           /\ orun'.status = "PLANNING" /\ orun.status # "PLANNING" => ~lost']_vars
    BY PlanningMoves
    DEF RunOK, BoundsOK, EarnedOK, MirrorOK, PlansOK, OrchestrationStep, PlanningStays,
        AnswerIsDue, AnswerIsLost
  <2> QED
    BY RunsStay, <1>1, <2>1, PTL DEF Spec, LossesAreExplained
<1>3. HandoffSpec => []PlanningIsAwaited
  BY HandoffsStay, <1>1, PTL
<1> QED
  BY <1>2, <1>3

\* Assignments move on, whether delegate or an accepted handoff makes them.
THEOREM AssignmentsAlwaysMoveOn == HandoffSpec => []AssignmentsMoveOn
BY HandoffsStay, RunShown, PTL

\* A run gives its task away once, however its handoffs are resolved, and what holds of
\* an orchestration alone holds with handoffs (resolve_handoff, yield_for_handoff).
THEOREM TransfersHappenOnce ==
  HandoffSpec => [](/\ OneTransferPerRun /\ TaskMirrorsChild /\ NoOrphanTask
                    /\ CompletionIsEarned /\ WorkIsBounded)
<1>1. TransfersOK => OneTransferPerRun
  BY DEF TransfersOK
<1> QED
  BY HandoffsStay, RunShown, <1>1, PTL

\* A handoff is completed by the result of the transfer it made, from an agent its
\* lineage does not name (resolve_handoff, complete_handoff, _handoff_lineage_definitions).
THEOREM CompletionsAreTransfers == HandoffSpec => []CompletionIsTheTransfers
BY HandoffsStay, LineageShown, PTL

\* Whatever planners answer, children do and handoffs change, an orchestration keeps the
\* promise of several agents working on one goal (_accept_plan, materialize,
\* start_delegation, resolve_handoff, _reconcile_result, cancel).
THEOREM OrchestrationsKeepPromise == Spec => ImplementsDelivery
<1>1. RunOK /\ [Next]_vars => [Delivery!Next]_(Delivery!vars)
  BY StepsKeepPromise DEF OrchestrationStep, RunOK, BoundsOK
<1> QED
  BY RunsStay, DeliveryStarts, <1>1, PTL DEF Spec, ImplementsDelivery, Delivery!Spec

THEOREM HandoffsKeepPromise == HandoffSpec => ImplementsDelivery
<1>1. HandoffInit => Delivery!Init
  BY DeliveryStarts DEF HandoffInit
<1>2. RunOK /\ TransfersOK /\ [HandoffNext]_hvars => [Delivery!Next]_(Delivery!vars)
  <2>1. RunOK /\ TransfersOK /\ [HandoffNext]_hvars => OrchestrationStep
    BY HandoffStepKinds DEF TransfersOK, MirrorOK
  <2> QED
    BY <2>1, StepsKeepPromise DEF RunOK, BoundsOK
<1> QED
  BY HandoffsStay, <1>1, <1>2, PTL DEF HandoffSpec, ImplementsDelivery, Delivery!Spec

=============================================================================
