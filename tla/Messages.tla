------------------------------ MODULE Messages ------------------------------
(***************************************************************************)
(* Messages between the agents of one orchestration, as                    *)
(* application/communication.py (AgentCommunicationService) sends,         *)
(* delivers and ends them, under the organization the orchestration was    *)
(* started with.                                                           *)
(*                                                                         *)
(* send looks its message id up before it opens the transaction, so two    *)
(* calls with one id can both come to the transaction.  Payloads and       *)
(* references are left out, whether they are refused is a choice; so are   *)
(* the roles that definitions and policy let an agent address.             *)
(***************************************************************************)
EXTENDS OrganizationGraphs

CONSTANTS Runs, AgentOf(_), TaskOf(_),    \* AgentRuns of the orchestration
          Ids, Threads, Correlations,
          MaxPerThread, MaxPerAgent, MaxPerRun, MaxRequests,   \* CommunicationPolicy
          Timeout,                                             \* response_timeout_seconds
          MaxCalls                                             \* bound of the instance

ASSUME MessageAssumption ==
  {MaxPerThread, MaxPerAgent, MaxPerRun, MaxRequests, Timeout} \subseteq Nat \ {0}

VARIABLES orchestration,   \* OrchestrationRun: status, organization version it is pinned to
          runs,            \* AgentRuns: status
          threads,         \* threads that exist
          messages,        \* AgentMessage of an id, or NoMessage
          calls            \* calls of send that found no message of their id

vars == <<now, organizationVars, orchestration, runs, threads, messages, calls>>

NoMessage == [status |-> "ABSENT"]

MessageEnd == {"CONSUMED", "TIMED_OUT"}

Sent == {i \in Ids : messages[i] # NoMessage}

Init ==
  /\ now = 0
  /\ OrganizationInit
  /\ orchestration = [status |-> "NONE", pinned |-> 0]
  /\ runs = [r \in Runs |-> "NONE"]
  /\ threads = {}
  /\ messages = [i \in Ids |-> NoMessage]
  /\ calls = {}

-----------------------------------------------------------------------------
\* create_orchestration captures the active version; nothing changes it afterwards.
StartOrchestration ==
  /\ orchestration.status = "NONE" /\ graph.active # 0
  /\ orchestration' = [status |-> "RUNNING", pinned |-> graph.active]
  /\ UNCHANGED <<now, organizationVars, runs, threads, messages, calls>>

EndOrchestration ==
  /\ orchestration.status = "RUNNING"
  /\ orchestration' = [orchestration EXCEPT !.status = "OVER"]
  /\ calls' = {}
  /\ UNCHANGED <<now, organizationVars, runs, threads, messages>>

\* A child is started when none of its task is under way.
StartRun(r) ==
  /\ orchestration.status = "RUNNING" /\ runs[r] = "NONE"
  /\ \A q \in Runs : TaskOf(q) = TaskOf(r) => runs[q] # "LIVE"
  /\ runs' = [runs EXCEPT ![r] = "LIVE"]
  /\ UNCHANGED <<now, organizationVars, orchestration, threads, messages, calls>>

\* Its runtime moves it on or ends it.  Calls name the versions of their parties and
\* of the orchestration: those that name a former one can only be refused.
MoveRun(r) ==
  /\ runs[r] = "LIVE"
  /\ \E status \in {"LIVE", "ENDED"} : runs' = [runs EXCEPT ![r] = status]
  /\ calls' = {c \in calls : r \notin {c.from, c.to}}
  /\ UNCHANGED <<now, organizationVars, orchestration, threads, messages>>

CreateThread(t, r) ==
  /\ t \notin threads
  /\ orchestration.status = "RUNNING" /\ runs[r] # "NONE"
  /\ threads' = threads \cup {t}
  /\ UNCHANGED <<now, organizationVars, orchestration, runs, messages, calls>>

-----------------------------------------------------------------------------
\* send up to its transaction (runs that ended, or one run with itself, can only be refused).
LookUp(i, from, to) ==
  /\ messages[i] = NoMessage /\ Cardinality(calls) < MaxCalls
  /\ from # to /\ runs[from] = "LIVE" /\ runs[to] = "LIVE"
  /\ calls' = calls \cup {[id |-> i, from |-> from, to |-> to]}
  /\ UNCHANGED <<now, organizationVars, orchestration, runs, threads, messages>>

Refuse(c) ==
  /\ calls' = calls \ {c}
  /\ UNCHANGED <<now, organizationVars, orchestration, runs, threads, messages>>

\* What a call carries: a thread, and the request it answers if it is a response.
Contents == [thread : Threads, kind : {"INFORMATION", "REQUEST", "RESPONSE"},
             reply : Ids \cup {"none"}, correlation : Correlations]

\* Mutant: routes are those of the organization that is active now.
RouteNow(c) == RouteOpen(graph.active, AgentOf(c.from), AgentOf(c.to), now)

Route(c) == RouteOpen(orchestration.pinned, AgentOf(c.from), AgentOf(c.to), now)

Participants(c) ==
  /\ orchestration.status = "RUNNING"
  /\ c.from # c.to
  /\ runs[c.from] = "LIVE" /\ runs[c.to] = "LIVE"
  /\ Route(c)

IsRequest(i, m) ==
  /\ i \in Sent
  /\ messages[i].kind = "REQUEST"
  /\ messages[i].thread = m.thread /\ messages[i].correlation = m.correlation

\* Mutant: a response may go to anybody in the thread.
CorrelationOfThread(c, m) ==
  IF m.kind = "RESPONSE" THEN IsRequest(m.reply, m) ELSE m.reply = "none"

\* The status of the request is not looked at: it may have timed out or been answered.
CorrelationHolds(c, m) ==
  IF m.kind = "RESPONSE"
  THEN /\ IsRequest(m.reply, m)
       /\ messages[m.reply].from = c.to /\ messages[m.reply].to = c.from
  ELSE m.reply = "none"

OfThread(t) == {i \in Sent : messages[i].thread = t}

OfAgent(r) == {i \in Sent : r \in {messages[i].from, messages[i].to}}

RequestsOf(t) == {i \in Sent : messages[i].kind = "REQUEST" /\ TaskOf(messages[i].from) = t}

\* Mutant: requests are counted per run of the agent.
RequestBudgetOfRun(c, m) ==
  /\ Cardinality(Sent) < MaxPerRun
  /\ Cardinality(OfThread(m.thread)) < MaxPerThread
  /\ Cardinality(OfAgent(c.from)) < MaxPerAgent
  /\ m.kind = "REQUEST" =>
       Cardinality({i \in Sent : messages[i].kind = "REQUEST" /\ messages[i].from = c.from})
         < MaxRequests

\* What an agent received counts for it too, but only when it sends.
Budgets(c, m) ==
  /\ Cardinality(Sent) < MaxPerRun
  /\ Cardinality(OfThread(m.thread)) < MaxPerThread
  /\ Cardinality(OfAgent(c.from)) < MaxPerAgent
  /\ m.kind = "REQUEST" => Cardinality(RequestsOf(TaskOf(c.from))) < MaxRequests

\* Mutant: the look-up before the transaction is the only one.
AddWithoutCheck(i) == TRUE

\* add_message refuses an id that exists by now.
NewId(i) == messages[i] = NoMessage

\* The transaction of send: created and delivered at once.
Send(c, m) ==
  /\ m.thread \in threads
  /\ Participants(c) /\ CorrelationHolds(c, m) /\ Budgets(c, m)
  /\ NewId(c.id)
  /\ messages' = [messages EXCEPT ![c.id] =
                    [status |-> "DELIVERED", from |-> c.from, to |-> c.to, at |-> now,
                     thread |-> m.thread, kind |-> m.kind, reply |-> m.reply,
                     correlation |-> m.correlation]]
  /\ calls' = calls \ {c}
  /\ UNCHANGED <<now, organizationVars, orchestration, runs, threads>>

\* AgentMessage.evolve out of DELIVERED, for some messages at once.
Moved(ids, status) ==
  [i \in Ids |-> IF i \in ids THEN [messages[i] EXCEPT !.status = status] ELSE messages[i]]

\* The deadline does not matter until expire has run.
Consume(i) ==
  /\ messages[i].status = "DELIVERED" /\ runs[messages[i].to] = "LIVE"
  /\ messages' = Moved({i}, "CONSUMED")
  /\ UNCHANGED <<now, organizationVars, orchestration, runs, threads, calls>>

Overdue == {i \in Sent : messages[i].status = "DELIVERED" /\ now >= messages[i].at + Timeout}

\* expire, one sweep over the messages of the orchestration.
Expire ==
  /\ Overdue # {}
  /\ messages' = Moved(Overdue, "TIMED_OUT")
  /\ UNCHANGED <<now, organizationVars, orchestration, runs, threads, calls>>

Tick ==
  /\ now < MaxTime
  /\ now' = now + 1
  /\ UNCHANGED <<organizationVars, orchestration, runs, threads, messages, calls>>

Organize ==
  /\ CreateGraph \/ (\E g \in Drafts : PublishGraph(g)) \/ (\E v \in DOMAIN versions : ActivateGraph(v))
  /\ UNCHANGED <<orchestration, runs, threads, messages, calls>>

Next ==
  \/ Organize \/ StartOrchestration \/ EndOrchestration
  \/ \E r \in Runs : (StartRun(r) \/ MoveRun(r)) \/ \E t \in Threads : CreateThread(t, r)
  \/ \E i \in Ids, from, to \in Runs : LookUp(i, from, to)
  \/ \E c \in calls : Refuse(c) \/ \E m \in Contents : Send(c, m)
  \/ \E i \in Sent : Consume(i)
  \/ Expire \/ Tick

Spec == Init /\ [][Next]_vars

-----------------------------------------------------------------------------
\* A message is delivered once and ends once: replaying its id, also while the
\* first call is under way, neither changes nor revives it (ADR-010).
MessagesMoveOn ==
  [][\A i \in Sent :
       /\ messages[i].status \in MessageEnd => messages'[i] = messages[i]
       /\ [messages'[i] EXCEPT !.status = "DELIVERED"]
            = [messages[i] EXCEPT !.status = "DELIVERED"]]_vars

\* Each message went along a route that was open when it was sent in the
\* organization its orchestration was started with, whatever was published or
\* activated since (organization.py 161-191, orchestration.py 226-236).
MessagesFollowRoutes ==
  \A i \in Sent :
    RouteOpen(orchestration.pinned, AgentOf(messages[i].from), AgentOf(messages[i].to),
              messages[i].at)

\* A response goes back from whom the request was sent to, to whom it came from.
ResponsesGoBack ==
  \A i \in Sent : messages[i].kind = "RESPONSE" =>
    /\ messages[i].reply \in Sent
    /\ LET request == messages[messages[i].reply] IN
         /\ request.kind = "REQUEST" /\ request.at <= messages[i].at
         /\ request.from = messages[i].to /\ request.to = messages[i].from

\* The budgets of the policy hold for what was sent, also over the several runs
\* of one task and with several calls at once.
BudgetsHold ==
  /\ Cardinality(Sent) <= MaxPerRun
  /\ \A t \in Threads : Cardinality(OfThread(t)) <= MaxPerThread
  /\ \A r \in Runs : Cardinality({i \in Sent : messages[i].from = r}) <= MaxPerAgent
  /\ \A r \in Runs : Cardinality(RequestsOf(TaskOf(r))) <= MaxRequests
=============================================================================
