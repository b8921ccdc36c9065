--------------------------- MODULE DeliveryPromise ---------------------------
(***************************************************************************)
(* What several agents working on one goal promise whoever set it, without *)
(* planners, delegations, executions or budgets: work follows the plan in  *)
(* force, which never loses work that was accepted; an item is in the      *)
(* hands of one agent at a time, begun only after what it needs, and what  *)
(* was dropped is never finished; the goal is delivered when all of the    *)
(* plan is done and nobody works any more.                                 *)
(***************************************************************************)
CONSTANTS Tasks, Agents, Plans    \* Plans: functions from a task to what it needs

VARIABLES
  outcome,    \* "open", "delivered" or "closed"
  plan,       \* the plan in force, without tasks before there is one
  accepted,   \* the tasks taken on
  done, dropped,
  hands       \* hands[t]: the agents working on t

vars == <<outcome, plan, accepted, done, dropped, hands>>

Init ==
  /\ outcome = "open" /\ DOMAIN plan = {}
  /\ accepted = {} /\ done = {} /\ dropped = {}
  /\ hands = [t \in Tasks |-> {}]

Adopt(p) ==
  /\ outcome = "open" /\ accepted \subseteq DOMAIN p
  /\ plan' = p
  /\ UNCHANGED <<outcome, accepted, done, dropped, hands>>

Accept ==
  /\ outcome = "open"
  /\ accepted' = accepted \cup DOMAIN plan
  /\ UNCHANGED <<outcome, plan, done, dropped, hands>>

Begin(t, a) ==
  /\ outcome = "open"
  /\ t \in accepted \ (done \cup dropped) /\ plan[t] \subseteq done
  /\ hands[t] = {} /\ hands' = [hands EXCEPT ![t] = {a}]
  /\ UNCHANGED <<outcome, plan, accepted, done, dropped>>

Finish(t) ==
  /\ outcome = "open" /\ hands[t] # {} /\ t \notin dropped
  /\ done' = done \cup {t}
  /\ hands' = [hands EXCEPT ![t] = {}]
  /\ UNCHANGED <<outcome, plan, accepted, dropped>>

\* Whoever works on a task stops, also long after the goal was closed.
LetGo(t) ==
  /\ hands[t] # {} /\ hands' = [hands EXCEPT ![t] = {}]
  /\ dropped' \in {dropped, dropped \cup {t}}
  /\ UNCHANGED <<outcome, plan, accepted, done>>

\* Tasks are given up, with the goal or without; nobody is stopped by it.
Abandon(ts) ==
  /\ outcome # "delivered" /\ ts \subseteq accepted \ done
  /\ dropped' = dropped \cup ts
  /\ outcome' \in {outcome, "closed"}
  /\ UNCHANGED <<plan, accepted, done, hands>>

Deliver ==
  /\ outcome = "open" /\ accepted # {}
  /\ accepted = DOMAIN plan /\ done = accepted
  /\ \A t \in Tasks : hands[t] = {}
  /\ outcome' = "delivered"
  /\ UNCHANGED <<plan, accepted, done, dropped, hands>>

Next ==
  \/ \E p \in Plans : Adopt(p)
  \/ Accept \/ Deliver
  \/ \E t \in Tasks : Finish(t) \/ LetGo(t) \/ \E a \in Agents : Begin(t, a)
  \/ \E ts \in SUBSET Tasks : Abandon(ts)

Spec == Init /\ [][Next]_vars
=============================================================================
