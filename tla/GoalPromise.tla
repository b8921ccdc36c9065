----------------------------- MODULE GoalPromise -----------------------------
(***************************************************************************)
(* What a Goal promises whoever set it, without attempts, executions or    *)
(* versions: work is accepted only while the goal is open, an item of work *)
(* is done only once somebody produced evidence for it, and the goal is    *)
(* delivered only when there is work and all of it is done.  Nothing       *)
(* settled is ever unsettled.                                              *)
(***************************************************************************)
CONSTANTS Goals, Tasks

VARIABLES
  outcome,   \* outcome[g] \in {"draft", "open", "delivered", "closed"}
  work,      \* work[g]: the tasks accepted for g
  fate,      \* fate[t] \in {"todo", "done", "dropped"}
  evidence   \* the tasks somebody succeeded at

vars == <<outcome, work, fate, evidence>>

Init ==
  /\ outcome  = [g \in Goals |-> "draft"]
  /\ work     = [g \in Goals |-> {}]
  /\ fate     = [t \in Tasks |-> "todo"]
  /\ evidence = {}

Open(g) ==
  /\ outcome[g] = "draft"
  /\ outcome' = [outcome EXCEPT ![g] = "open"]
  /\ UNCHANGED <<work, fate, evidence>>

Accept(g, t) ==
  /\ outcome[g] = "open"
  /\ \A h \in Goals : t \notin work[h]
  /\ work' = [work EXCEPT ![g] = @ \cup {t}]
  /\ UNCHANGED <<outcome, fate, evidence>>

\* Evidence arises only for accepted work that is still to be done.
Prove(t) ==
  /\ \E g \in Goals : t \in work[g]
  /\ evidence' = evidence \cup {t}
  /\ UNCHANGED <<outcome, work, fate>>

Finish(t) ==
  /\ fate[t] = "todo" /\ t \in evidence
  /\ fate' = [fate EXCEPT ![t] = "done"]
  /\ UNCHANGED <<outcome, work, evidence>>

Drop(t) ==
  /\ fate[t] = "todo" /\ \E g \in Goals : t \in work[g]
  /\ fate' = [fate EXCEPT ![t] = "dropped"]
  /\ UNCHANGED <<outcome, work, evidence>>

Deliver(g) ==
  /\ outcome[g] = "open"
  /\ work[g] # {} /\ \A t \in work[g] : fate[t] = "done"
  /\ outcome' = [outcome EXCEPT ![g] = "delivered"]
  /\ UNCHANGED <<work, fate, evidence>>

Close(g) ==
  /\ outcome[g] \in {"draft", "open"}
  /\ outcome' = [outcome EXCEPT ![g] = "closed"]
  /\ UNCHANGED <<work, fate, evidence>>

Next ==
  \/ \E g \in Goals : Open(g) \/ Deliver(g) \/ Close(g) \/ \E t \in Tasks : Accept(g, t)
  \/ \E t \in Tasks : Prove(t) \/ Finish(t) \/ Drop(t)

Spec == Init /\ [][Next]_vars
=============================================================================
