----------------------- MODULE OrchestrationRefinement -----------------------
(***************************************************************************)
(* Orchestration implements DeliveryPromise: planners, delegations, child  *)
(* runs that wait or are retried, shared executions and reconciliations    *)
(* are invisible to the promise.                                           *)
(***************************************************************************)
EXTENDS Orchestration

outcomeBar ==
  CASE goal = "ACTIVE"    -> "open"
    [] goal = "SATISFIED" -> "delivered"
    [] OTHER              -> "closed"

planBar == IF plans = <<>> THEN <<>> ELSE Plan

acceptedBar == {t \in Tasks : tasks[t] # Absent}

doneBar == {t \in Tasks : tasks[t] = "COMPLETED"}

droppedBar == {t \in Tasks : tasks[t] = "CANCELLED"}

Workers(t) ==
  {delegations[children[c].delegation].agent :
     c \in {c \in DOMAIN children : TaskOf(c) = t /\ LiveChild(c)}}

handsBar == [t \in Tasks |-> Workers(t)]

Delivery == INSTANCE DeliveryPromise
  WITH outcome <- outcomeBar, plan <- planBar, accepted <- acceptedBar, done <- doneBar,
       dropped <- droppedBar, hands <- handsBar, Plans <- Proposals

\* An orchestration keeps the promise of its goal: every planning answer, child and
\* reconciliation is one step of DeliveryPromise or invisible to it (_accept_plan,
\* materialize, start_delegation, _reconcile_result, cancel).
ImplementsDelivery == Delivery!Spec
=============================================================================
