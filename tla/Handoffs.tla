------------------------------ MODULE Handoffs ------------------------------
(***************************************************************************)
(* Handoffs: a running child asks that its task be given to another agent, *)
(* as application/communication.py (AgentCommunicationService) resolves it *)
(* over the orchestration of module Orchestration.                         *)
(*                                                                         *)
(* A resolution either changes everything it touches or nothing: when the  *)
(* runtime or delegate refuses, the transaction rolls back and the handoff *)
(* stays requested.  The source delegation of a request is a record only   *)
(* and left out, as is the data the recipient rules and references look    *)
(* at: whether they refuse is a choice.                                    *)
(***************************************************************************)
EXTENDS Orchestration

CONSTANTS MaxHandoffs, MaxDepth     \* CommunicationPolicy: per task, and along parents

ASSUME HandoffAssumption == {MaxHandoffs, MaxDepth} \subseteq Nat \ {0}

VARIABLE handoffs    \* HandoffRequests in order: sender (a child), parent and delegation
                     \* (0: none), depth, status, and whether the deadline has passed

hvars == <<vars, handoffs>>

HandoffInit == Init /\ handoffs = <<>>

-----------------------------------------------------------------------------
HandoffTerminal == {"REJECTED", "COMPLETED", "TIMED_OUT"}

AgentOf(c) == delegations[children[c].delegation].agent
HandoffTask(h) == TaskOf(handoffs[h].sender)

HandoffsOf(t) == {h \in DOMAIN handoffs : HandoffTask(h) = t}

SetHandoff(h, status) == handoffs' = [handoffs EXCEPT ![h].status = status]

Chain[h \in DOMAIN handoffs] ==
  {h} \cup IF handoffs[h].parent = 0 THEN {} ELSE Chain[handoffs[h].parent]

\* _handoff_lineage_definitions: senders and recipients along the parents.
Lineage(h) ==
  {AgentOf(handoffs[g].sender) : g \in Chain[h]}
    \cup {delegations[handoffs[g].delegation].agent :
            g \in {g \in Chain[h] : handoffs[g].delegation # 0}}

-----------------------------------------------------------------------------
\* The status of the orchestration is not looked at.
RequestHandoff(c, parent) ==
  LET depth == IF parent = 0 THEN 1 ELSE handoffs[parent].depth + 1 IN
  /\ LiveChild(c)
  /\ Cardinality(HandoffsOf(TaskOf(c))) < MaxHandoffs
  /\ parent # 0 => HandoffTask(parent) = TaskOf(c)
  /\ depth <= MaxDepth
  /\ handoffs' = Append(handoffs, [sender |-> c, parent |-> parent, depth |-> depth,
                                   status |-> "REQUESTED", late |-> FALSE, delegation |-> 0])
  /\ UNCHANGED vars

\* reject_handoff, and resolve_handoff when no agent may be selected.
RejectHandoff(h) ==
  /\ handoffs[h].status = "REQUESTED"
  /\ SetHandoff(h, "REJECTED")
  /\ UNCHANGED vars

\* The other checks of delegate in mode redelegate.
MayRedelegate(t, a) ==
  /\ Current /\ t \in DOMAIN Plan
  /\ \A u \in Plan[t] : tasks[u] = "COMPLETED"
  /\ Iterations < MaxIterations
  /\ Previous(t).redelegation < MaxRedelegations
  /\ a \notin {delegations[d].agent : d \in DelegationsOf(t)}

LastChildrenOf(t) == ChildrenOf(Last(DelegationsOf(t)))

\* Mutant: a run that ended is not refused, _failure leaves it as it is.
EndSenderOrSkip(c) ==
  LET last == LastChildrenOf(TaskOf(c)) IN
  /\ IF LiveChild(c) THEN ChildStopped(c, FALSE) ELSE UNCHANGED <<children, tasks, execs>>
  /\ tasks'[TaskOf(c)] = "READY"
  /\ last # {} /\ children'[Last(last)].status = "FAILED"

\* yield_for_handoff; then delegate finds the task ready and its last run failed.
EndSender(c) ==
  LET last == LastChildrenOf(TaskOf(c)) IN
  /\ LiveChild(c) /\ ChildStopped(c, FALSE)
  /\ tasks'[TaskOf(c)] = "READY"
  /\ last # {} /\ children'[Last(last)].status = "FAILED"

\* resolve_handoff: the sender's run fails, its task is ready again and given to another
\* agent, and an orchestration that waits runs again, whatever it waited for.
AcceptHandoff(h, a) ==
  LET c == handoffs[h].sender
      t == TaskOf(c)
  IN /\ handoffs[h].status = "REQUESTED" /\ ~handoffs[h].late
     /\ a \in Agents \ Lineage(h)
     /\ orun.status \in {"RUNNING", "WAITING"}
     /\ EndSender(c) /\ MayRedelegate(t, a)
     /\ delegations' = Append(delegations,
          [task |-> t, agent |-> a, retry |-> Previous(t).retry,
           redelegation |-> Previous(t).redelegation + 1])
     /\ orun' = [orun EXCEPT !.status = "RUNNING"]
     /\ handoffs' = [handoffs EXCEPT ![h] = [sender |-> c, parent |-> @.parent, depth |-> @.depth,
                                             status |-> "ACCEPTED", late |-> FALSE,
                                             delegation |-> Len(delegations) + 1]]
     /\ UNCHANGED <<goal, plans, materialized, calls>>

\* resolve_handoff after the deadline.
ResolveLate(h) ==
  /\ handoffs[h].status = "REQUESTED" /\ handoffs[h].late
  /\ SetHandoff(h, "TIMED_OUT")
  /\ UNCHANGED vars

\* Mutant: any result of the task completes the handoff.
TaskDelivered(h) == Delivered(HandoffTask(h))

\* The last child of the delegation the handoff made has succeeded.
Fulfilled(h) ==
  LET own == ChildrenOf(handoffs[h].delegation) IN
  own # {} /\ children[Last(own)].status = "SUCCEEDED"

\* complete_handoff; the deadline is not looked at.
CompleteHandoff(h) ==
  /\ handoffs[h].status = "ACCEPTED" /\ Fulfilled(h)
  /\ SetHandoff(h, "COMPLETED")
  /\ UNCHANGED vars

\* expire: one transaction over all handoffs of the run.
Overdue == {h \in DOMAIN handoffs : /\ handoffs[h].status \in {"REQUESTED", "ACCEPTED"}
                                    /\ handoffs[h].late}

ExpireHandoffs ==
  /\ Overdue # {}
  /\ handoffs' = [h \in DOMAIN handoffs |->
                    IF h \in Overdue THEN [handoffs[h] EXCEPT !.status = "TIMED_OUT"]
                    ELSE handoffs[h]]
  /\ UNCHANGED vars

\* The clock reaches the deadline of a handoff that is still open.
DeadlinePasses(h) ==
  /\ handoffs[h].status \notin HandoffTerminal /\ ~handoffs[h].late
  /\ handoffs' = [handoffs EXCEPT ![h].late = TRUE]
  /\ UNCHANGED vars

HandoffStep ==
  \/ \E c \in DOMAIN children : \E p \in DOMAIN handoffs \cup {0} : RequestHandoff(c, p)
  \/ \E h \in DOMAIN handoffs :
       \/ RejectHandoff(h) \/ ResolveLate(h) \/ CompleteHandoff(h) \/ DeadlinePasses(h)
       \/ \E a \in Agents : AcceptHandoff(h, a)
  \/ ExpireHandoffs

HandoffNext ==
  \/ Next /\ UNCHANGED handoffs
  \/ HandoffStep

HandoffSpec == HandoffInit /\ [][HandoffNext]_hvars

-----------------------------------------------------------------------------
Accepted(h) == handoffs[h].delegation # 0

\* A run hands its task over at most once, however many of its requests are resolved and
\* in whatever order, and a run that did so never delivers: yield_for_handoff ends it.
OneTransferPerRun ==
  \A h \in {h \in DOMAIN handoffs : Accepted(h)} :
    /\ children[handoffs[h].sender].status = "FAILED"
    /\ \A g \in DOMAIN handoffs \ {h} :
         Accepted(g) => /\ handoffs[g].sender # handoffs[h].sender
                        /\ handoffs[g].delegation # handoffs[h].delegation

\* A completed handoff has the result of the very transfer it made, by an agent its
\* lineage does not name, although the task may have been retried or handed on since.
CompletionIsTheTransfers ==
  \A h \in DOMAIN handoffs : handoffs[h].status = "COMPLETED" =>
    /\ tasks[HandoffTask(h)] = "COMPLETED"
    /\ \E c \in ChildrenOf(handoffs[h].delegation) :
         /\ children[c].status = "SUCCEEDED" /\ TaskOf(c) = HandoffTask(h)
         /\ \A g \in Chain[h] : AgentOf(handoffs[g].sender) # AgentOf(c)
=============================================================================
