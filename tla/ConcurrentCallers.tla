-------------------------- MODULE ConcurrentCallers --------------------------
(***************************************************************************)
(* Several callers of DomainService at once.  A caller reads an entity,    *)
(* keeps the returned snapshot while the others go on, and later sends a   *)
(* command with the version of that snapshot (expected_version).  The      *)
(* service returns the saved entity, which becomes the caller's snapshot.  *)
(***************************************************************************)
EXTENDS DomainLifecycle

CONSTANT Callers

VARIABLES
  snapshot,  \* snapshot[c]: kind, id, version, status of what c last read
  actor,     \* history: the caller of the last command, None after anything else
  outdated   \* history: callers whose entity somebody else changed since they read it

callerVars == <<vars, snapshot, actor, outdated>>

NoSnapshot == [kind |-> "none", id |-> None, version |-> 0, status |-> Absent]

SnapshotOf(kind, id, entity) ==
  [kind |-> kind, id |-> id, version |-> entity.version, status |-> entity.status]

CallersInit ==
  /\ Init
  /\ snapshot = [c \in Callers |-> NoSnapshot]
  /\ actor = None /\ outdated = {}

Remember(c, kind, id, entity) ==
  snapshot' = [snapshot EXCEPT ![c] = SnapshotOf(kind, id, entity)]

Holds(c, kind, id) == snapshot[c].kind = kind /\ snapshot[c].id = id

\* The read queries of the store; only stored entities are returned.
Read(c) ==
  /\ \/ \E g \in Goals : goals[g].status # Absent /\ Remember(c, "goal", g, goals[g])
     \/ \E t \in Tasks : tasks[t].status # Absent /\ Remember(c, "task", t, tasks[t])
     \/ \E e \in Executions :
          executions[e].status # Absent /\ Remember(c, "execution", e, executions[e])
     \/ \E a \in Attempts :
          attempts[a].status # Absent /\ Remember(c, "attempt", a, attempts[a])
  /\ actor' = None /\ outdated' = outdated \ {c}
  /\ UNCHANGED vars

\* A command on the entity of the snapshot, with the snapshot's version.
Command(c) ==
  LET v == snapshot[c].version IN
    /\ \/ \E g \in Goals : /\ Holds(c, "goal", g) /\ GoalCommand(g, v)
                           /\ Remember(c, "goal", g, goals'[g])
       \/ \E t \in Tasks : /\ Holds(c, "task", t) /\ TaskCommand(t, v)
                           /\ Remember(c, "task", t, tasks'[t])
       \/ \E e \in Executions : /\ Holds(c, "execution", e) /\ ExecutionCommand(e, v)
                                /\ Remember(c, "execution", e, executions'[e])
       \/ \E a \in Attempts : /\ Holds(c, "attempt", a) /\ AttemptCommand(a, v)
                              /\ Remember(c, "attempt", a, attempts'[a])
    /\ actor' = c
    /\ outdated' = (outdated \ {c})
                     \cup {d \in Callers \ {c} : Holds(d, snapshot[c].kind, snapshot[c].id)}

CallersNext ==
  \/ Create /\ actor' = None /\ UNCHANGED <<snapshot, outdated>>
  \/ \E c \in Callers : Read(c) \/ Command(c)

CallersSpec == CallersInit /\ [][CallersNext]_callerVars

-----------------------------------------------------------------------------
\* The caller of this step knew the entity it changes: it holds it in its present
\* version and status, and nobody has changed it since the caller read it.
ActorKnew(kind, id, entity) ==
  /\ actor' \in Callers
  /\ Holds(actor', kind, id)
  /\ snapshot[actor'].version = entity.version /\ snapshot[actor'].status = entity.status
  /\ actor' \notin outdated

\* No lost update (DOMAIN_MODEL invariant 18): a stored entity changes only by the command
\* of a caller that knows it as it is.  Whoever lost a race, or holds a snapshot of a
\* status that has come back since (RUNNING, WAITING, RUNNING), is refused: versions are
\* compared by service.py and by the save of the store, and every save raises them.
NoLostUpdate ==
  [][/\ \A g \in Goals :
          goals[g].status # Absent /\ goals'[g] # goals[g] => ActorKnew("goal", g, goals[g])
     /\ \A t \in Tasks :
          tasks[t].status # Absent /\ tasks'[t] # tasks[t] => ActorKnew("task", t, tasks[t])
     /\ \A e \in Executions :
          executions[e].status # Absent /\ executions'[e] # executions[e] =>
            ActorKnew("execution", e, executions[e])
     /\ \A a \in Attempts :
          attempts[a].status # Absent /\ attempts'[a] # attempts[a] =>
            ActorKnew("attempt", a, attempts[a])
    ]_callerVars
=============================================================================
