--------------------------- MODULE MessagesProofs ---------------------------
(***************************************************************************)
(* Theorems about Messages for every organization, every set of runs and   *)
(* identifiers and every budget.                                           *)
(*                                                                         *)
(* A step sends one message under a new id, moves the status of some       *)
(* delivered ones, or leaves the messages alone; organization versions are *)
(* only appended, and an orchestration is pinned before anything is sent.  *)
(***************************************************************************)
EXTENDS Messages, FiniteSetTheorems, WellFoundedInduction, TLAPS

MessageRecords ==
  [status : {"DELIVERED", "CONSUMED", "TIMED_OUT"}, from : Runs, to : Runs, at : Nat,
   thread : Threads, kind : {"INFORMATION", "REQUEST", "RESPONSE"},
   reply : Ids \cup {"none"}, correlation : Correlations]

Calls == [id : Ids, from : Runs, to : Runs]

MessagesOK ==
  /\ now \in Nat
  /\ calls \subseteq Calls
  /\ messages \in [Ids -> {NoMessage} \cup MessageRecords]
  /\ \A i \in Sent : messages[i].at <= now

LEMMA MessagesAreSent ==
  ASSUME MessagesOK
  PROVE  /\ NoMessage \notin MessageRecords
         /\ \A i \in Ids : i \in Sent <=> messages[i] \in MessageRecords
         /\ \A i \in Ids : messages[i].status # "ABSENT" => i \in Sent
<1>1. NoMessage \notin MessageRecords
  <2>1. DOMAIN NoMessage = {"status"}
    BY DEF NoMessage
  <2>2. \A m \in MessageRecords : "from" \in DOMAIN m
    BY DEF MessageRecords
  <2> QED
    BY <2>1, <2>2
<1>2. NoMessage.status = "ABSENT"
  BY DEF NoMessage
<1> QED
  BY <1>1, <1>2 DEF MessagesOK, Sent

\* What is sent, and what becomes of what was sent.
Sending ==
  \E c \in calls, m \in Contents : Send(c, m)

Moving ==
  \E ids \in SUBSET Sent, status \in MessageEnd :
    /\ \A i \in ids : messages[i].status = "DELIVERED"
    /\ messages' = Moved(ids, status)

LEMMA StepsOfMessages ==
  ASSUME MessagesOK, [Next]_vars
  PROVE  /\ Sending \/ Moving \/ UNCHANGED messages
         /\ ~ UNCHANGED messages => UNCHANGED <<now, versions, orchestration>>
         /\ now' = now \/ now' = now + 1
         /\ \/ UNCHANGED versions
            \/ \E g : versions' = Append(versions, g)
<1> USE DEF organizationVars
<1>1. CASE Sending
  BY <1>1 DEF Sending, Send
<1>2. ASSUME NEW i \in Sent, Consume(i)
      PROVE  Moving /\ UNCHANGED <<now, versions, orchestration>>
  BY <1>2 DEF Consume, Moving, MessageEnd
<1>3. ASSUME Expire
      PROVE  Moving /\ UNCHANGED <<now, versions, orchestration>>
  BY <1>3 DEF Expire, Overdue, Moving, MessageEnd
<1>4. CASE Organize
  <2>1. CASE CreateGraph
    BY <1>4, <2>1 DEF Organize, CreateGraph
  <2>2. ASSUME NEW g \in Drafts, PublishGraph(g), UNCHANGED messages
        PROVE  versions' = Append(versions, g) /\ UNCHANGED <<now, messages>>
    BY <2>2 DEF PublishGraph, AddVersion
  <2>3. ASSUME NEW v \in DOMAIN versions, ActivateGraph(v), UNCHANGED messages
        PROVE  UNCHANGED <<now, versions, messages>>
    BY <2>3 DEF ActivateGraph
  <2> QED
    BY <1>4, <2>1, <2>2, <2>3 DEF Organize
<1>5. CASE Tick
  BY <1>5 DEF Tick
<1>6. CASE StartOrchestration \/ EndOrchestration
  BY <1>6 DEF StartOrchestration, EndOrchestration
<1>7. ASSUME NEW r \in Runs, StartRun(r) \/ MoveRun(r) \/ \E t \in Threads : CreateThread(t, r)
      PROVE  UNCHANGED <<now, versions, messages>>
  BY <1>7 DEF StartRun, MoveRun, CreateThread
<1>8. ASSUME NEW i \in Ids, NEW from \in Runs, NEW to \in Runs, LookUp(i, from, to)
      PROVE  UNCHANGED <<now, versions, messages>>
  BY <1>8 DEF LookUp
<1>9. ASSUME NEW c \in calls, Refuse(c)
      PROVE  UNCHANGED <<now, versions, messages>>
  BY <1>9 DEF Refuse
<1>10. CASE UNCHANGED vars
  BY <1>10 DEF vars
<1> QED
  BY <1>1, <1>2, <1>3, <1>4, <1>5, <1>6, <1>7, <1>8, <1>9, <1>10 DEF Next, Sending

\* Moving changes the status of a message and nothing else.
LEMMA MovedMessages ==
  ASSUME MessagesOK, NEW ids \in SUBSET Sent, NEW status \in MessageEnd, messages' = Moved(ids, status)
  PROVE  /\ messages' \in [Ids -> {NoMessage} \cup MessageRecords]
         /\ Sent' = Sent
         /\ \A i \in Ids \ ids : messages'[i] = messages[i]
         /\ \A i \in Sent :
              /\ messages'[i].from = messages[i].from /\ messages'[i].to = messages[i].to
              /\ messages'[i].at = messages[i].at /\ messages'[i].thread = messages[i].thread
              /\ messages'[i].kind = messages[i].kind /\ messages'[i].reply = messages[i].reply
              /\ messages'[i].correlation = messages[i].correlation
<1>1. \A i \in Sent : messages[i] \in MessageRecords /\ i \in Ids
  BY MessagesAreSent DEF Sent
<1>2. messages' = [i \in Ids |-> IF i \in ids THEN [messages[i] EXCEPT !.status = status]
                                              ELSE messages[i]]
  BY DEF Moved
<1>3. ASSUME NEW m \in MessageRecords
      PROVE  LET x == [m EXCEPT !.status = status] IN
               /\ x \in MessageRecords
               /\ x.from = m.from /\ x.to = m.to /\ x.at = m.at /\ x.thread = m.thread
               /\ x.kind = m.kind /\ x.reply = m.reply /\ x.correlation = m.correlation
  BY DEF MessageRecords, MessageEnd
<1>4. \A i \in ids : /\ messages[i] \in MessageRecords
                     /\ messages'[i] = [messages[i] EXCEPT !.status = status]
  BY <1>1, <1>2
<1>5. \A i \in Ids \ ids : messages'[i] = messages[i]
  BY <1>2
<1>6. \A i \in ids : messages'[i] \in MessageRecords
  BY <1>3, <1>4
<1>7. messages' \in [Ids -> {NoMessage} \cup MessageRecords]
  BY <1>2, <1>5, <1>6 DEF MessagesOK
<1>8. Sent' = Sent
  BY <1>1, <1>5, <1>6, MessagesAreSent DEF Sent
<1>9. ASSUME NEW i \in Sent
      PROVE  /\ messages'[i].from = messages[i].from /\ messages'[i].to = messages[i].to
             /\ messages'[i].at = messages[i].at /\ messages'[i].thread = messages[i].thread
             /\ messages'[i].kind = messages[i].kind /\ messages'[i].reply = messages[i].reply
             /\ messages'[i].correlation = messages[i].correlation
  <2>1. CASE i \in ids
    BY <1>3, <1>4, <2>1
  <2>2. CASE i \notin ids
    BY <1>1, <1>5, <2>2
  <2> QED
    BY <2>1, <2>2
<1> QED
  BY <1>5, <1>7, <1>8, <1>9

\* Sending adds one message and leaves the others.
LEMMA SentMessages ==
  ASSUME MessagesOK, NEW c \in calls, NEW m \in Contents, Send(c, m)
  PROVE  /\ c.id \in Ids \ Sent /\ Sent' = Sent \cup {c.id}
         /\ messages' \in [Ids -> {NoMessage} \cup MessageRecords]
         /\ \A i \in Ids : i # c.id => messages'[i] = messages[i]
         /\ messages'[c.id] =
              [status |-> "DELIVERED", from |-> c.from, to |-> c.to, at |-> now,
               thread |-> m.thread, kind |-> m.kind, reply |-> m.reply,
               correlation |-> m.correlation]
<1> DEFINE new == [status |-> "DELIVERED", from |-> c.from, to |-> c.to, at |-> now,
                   thread |-> m.thread, kind |-> m.kind, reply |-> m.reply,
                   correlation |-> m.correlation]
<1>1. c.id \in Ids /\ new \in MessageRecords
  BY DEF MessagesOK, Calls, Contents, MessageRecords
<1>2. messages' = [messages EXCEPT ![c.id] = new] /\ messages[c.id] = NoMessage
  BY DEF Send, NewId
<1> HIDE DEF new
<1>3. /\ messages' \in [Ids -> {NoMessage} \cup MessageRecords]
      /\ \A i \in Ids : i # c.id => messages'[i] = messages[i]
      /\ messages'[c.id] = new
  BY <1>1, <1>2 DEF MessagesOK
<1>4. c.id \notin Sent /\ Sent' = Sent \cup {c.id}
  BY <1>1, <1>2, <1>3, MessagesAreSent DEF Sent
<1> QED
  BY <1>1, <1>3, <1>4 DEF new

LEMMA MessagesStayOK ==
  ASSUME MessagesOK, [Next]_vars
  PROVE  MessagesOK'
<1>1. calls' \subseteq Calls
  <2>1. ASSUME NEW i \in Ids, NEW from \in Runs, NEW to \in Runs, LookUp(i, from, to)
        PROVE  calls' \subseteq Calls
    BY <2>1 DEF LookUp, MessagesOK, Calls
  <2>2. CASE calls' \subseteq calls
    BY <2>2 DEF MessagesOK
  <2>3. (\E i \in Ids, from, to \in Runs : LookUp(i, from, to)) \/ calls' \subseteq calls
    BY DEF Next, vars, Organize, StartOrchestration, EndOrchestration, StartRun, MoveRun,
           CreateThread, Refuse, Send, Consume, Expire, Tick
  <2> QED
    BY <2>1, <2>2, <2>3
<1>2. now' \in Nat /\ now <= now'
  BY StepsOfMessages DEF MessagesOK
<1>3. CASE Sending
  <2>1. PICK c \in calls, m \in Contents : Send(c, m)
    BY <1>3 DEF Sending
  <2>2. \A i \in Sent' : messages'[i].at <= now'
    <3>1. \A i \in Sent : messages'[i] = messages[i]
      BY <2>1, SentMessages DEF Sent
    <3>2. messages'[c.id] = [status |-> "DELIVERED", from |-> c.from, to |-> c.to, at |-> now,
                             thread |-> m.thread, kind |-> m.kind, reply |-> m.reply,
                             correlation |-> m.correlation]
      BY <2>1, SentMessages
    <3>3. messages'[c.id].at = now
      BY <3>2
    <3>4. now' = now
      BY <2>1 DEF Send
    <3>5. Sent' = Sent \cup {c.id}
      BY <2>1, SentMessages
    <3> QED
      BY <3>1, <3>3, <3>4, <3>5 DEF MessagesOK
  <2> QED
    BY <1>1, <1>2, <2>1, <2>2, SentMessages DEF MessagesOK
<1>4. CASE Moving
  <2>1. PICK ids \in SUBSET Sent, status \in MessageEnd : messages' = Moved(ids, status)
    BY <1>4 DEF Moving
  <2>2. /\ messages' \in [Ids -> {NoMessage} \cup MessageRecords] /\ Sent' = Sent
        /\ \A i \in Sent : messages'[i].at = messages[i].at
    BY <2>1, MovedMessages
  <2>3. \A i \in Sent' : messages'[i].at <= now'
    <3>1. \A i \in Sent : messages[i].at \in Nat /\ messages[i].at <= now
      BY MessagesAreSent DEF MessagesOK, MessageRecords, Sent
    <3> QED
      BY <1>2, <2>2, <3>1 DEF MessagesOK
  <2> QED
    BY <1>1, <1>2, <2>2, <2>3 DEF MessagesOK
<1>5. CASE UNCHANGED messages
  <2>1. \A i \in Sent : messages[i].at \in Nat /\ messages[i].at <= now
    BY MessagesAreSent DEF MessagesOK, MessageRecords, Sent
  <2>2. Sent' = Sent
    BY <1>5 DEF Sent
  <2> QED
    BY <1>1, <1>2, <1>5, <2>1, <2>2 DEF MessagesOK
<1> QED
  BY <1>3, <1>4, <1>5, StepsOfMessages

LEMMA MessagesStartOK == Init => MessagesOK
BY DEF Init, MessagesOK, Sent

THEOREM MessagesStay == Spec => []MessagesOK
<1>1. MessagesOK /\ [Next]_vars => MessagesOK'
  BY MessagesStayOK
<1> QED
  BY <1>1, MessagesStartOK, PTL DEF Spec

-----------------------------------------------------------------------------
\* Messages are records, told apart by their fields.
LEMMA SameBut ==
  ASSUME NEW m \in MessageRecords, NEW n \in MessageRecords,
         n.from = m.from, n.to = m.to, n.at = m.at, n.thread = m.thread,
         n.kind = m.kind, n.reply = m.reply, n.correlation = m.correlation
  PROVE  [n EXCEPT !.status = "DELIVERED"] = [m EXCEPT !.status = "DELIVERED"]
<1>1. /\ m = [status |-> m.status, from |-> m.from, to |-> m.to, at |-> m.at,
              thread |-> m.thread, kind |-> m.kind, reply |-> m.reply,
              correlation |-> m.correlation]
      /\ n = [status |-> n.status, from |-> n.from, to |-> n.to, at |-> n.at,
              thread |-> n.thread, kind |-> n.kind, reply |-> n.reply,
              correlation |-> n.correlation]
  BY DEF MessageRecords
<1>2. ASSUME NEW a, NEW b, NEW c, NEW d, NEW e, NEW f, NEW g, NEW h
      PROVE  [[status |-> a, from |-> b, to |-> c, at |-> d, thread |-> e, kind |-> f,
               reply |-> g, correlation |-> h] EXCEPT !.status = "DELIVERED"]
               = [status |-> "DELIVERED", from |-> b, to |-> c, at |-> d, thread |-> e,
                  kind |-> f, reply |-> g, correlation |-> h]
  OBVIOUS
<1> QED
  BY <1>1, <1>2

\* A message ends once, and nothing but its status changes (ADR-010).
THEOREM MessagesEndOnce == Spec => MessagesMoveOn
<1>1. MessagesOK /\ [Next]_vars => MessagesOK'
  BY MessagesStayOK
<1>2. ASSUME MessagesOK, [Next]_vars, NEW i \in Sent
      PROVE  /\ messages[i].status \in MessageEnd => messages'[i] = messages[i]
             /\ [messages'[i] EXCEPT !.status = "DELIVERED"]
                  = [messages[i] EXCEPT !.status = "DELIVERED"]
  <2>1. CASE Sending
    <3>1. messages'[i] = messages[i]
      BY <1>2, <2>1, SentMessages DEF Sending, Sent
    <3> QED
      BY <3>1
  <2>2. CASE Moving
    <3>1. PICK ids \in SUBSET Sent, status \in MessageEnd :
            messages' = Moved(ids, status) /\ \A j \in ids : messages[j].status = "DELIVERED"
      BY <2>2 DEF Moving
    <3>2. messages[i].status \in MessageEnd => messages'[i] = messages[i]
      BY <1>2, <3>1, MovedMessages DEF MessageEnd, Sent
    <3>3. messages[i] \in MessageRecords
      BY <1>2, MessagesAreSent DEF Sent
    <3>4. messages'[i] \in MessageRecords
      <4>1. i \in Sent'
        BY <1>2, <3>1, MovedMessages
      <4>2. messages'[i] # NoMessage /\ i \in Ids
        BY <4>1 DEF Sent
      <4> QED
        BY <1>2, <3>1, <4>2, MovedMessages
    <3>5. /\ messages'[i].from = messages[i].from /\ messages'[i].to = messages[i].to
          /\ messages'[i].at = messages[i].at /\ messages'[i].thread = messages[i].thread
          /\ messages'[i].kind = messages[i].kind /\ messages'[i].reply = messages[i].reply
          /\ messages'[i].correlation = messages[i].correlation
      BY <1>2, <3>1, MovedMessages
    <3> QED
      BY <3>2, <3>3, <3>4, <3>5, SameBut
  <2>3. CASE UNCHANGED messages
    BY <2>3
  <2> QED
    BY <1>2, <2>1, <2>2, <2>3, StepsOfMessages
<1>3. MessagesOK /\ [Next]_vars =>
        [\A i \in Sent :
           /\ messages[i].status \in MessageEnd => messages'[i] = messages[i]
           /\ [messages'[i] EXCEPT !.status = "DELIVERED"]
                = [messages[i] EXCEPT !.status = "DELIVERED"]]_vars
  BY <1>2
<1> QED
  BY <1>1, <1>3, MessagesStartOK, PTL DEF Spec, MessagesMoveOn

-----------------------------------------------------------------------------
\* The fields of a message that was just sent.
LEMMA SentFields ==
  ASSUME MessagesOK, NEW c \in calls, NEW m \in Contents, Send(c, m)
  PROVE  /\ messages'[c.id].from = c.from /\ messages'[c.id].to = c.to
         /\ messages'[c.id].at = now /\ messages'[c.id].thread = m.thread
         /\ messages'[c.id].kind = m.kind /\ messages'[c.id].reply = m.reply
         /\ Sent' = Sent \cup {c.id} /\ c.id \notin Sent
         /\ \A i \in Sent : messages'[i] = messages[i]
<1>1. messages'[c.id] = [status |-> "DELIVERED", from |-> c.from, to |-> c.to, at |-> now,
                         thread |-> m.thread, kind |-> m.kind, reply |-> m.reply,
                         correlation |-> m.correlation]
  BY SentMessages
<1>2. \A i \in Sent : messages'[i] = messages[i]
  BY SentMessages DEF Sent
<1> QED
  BY <1>1, <1>2, SentMessages

\* What the other invariants read of a message is never changed by a move.
SameFields(i) ==
  /\ messages'[i].from = messages[i].from /\ messages'[i].to = messages[i].to
  /\ messages'[i].at = messages[i].at /\ messages'[i].thread = messages[i].thread
  /\ messages'[i].kind = messages[i].kind /\ messages'[i].reply = messages[i].reply

LEMMA OnlySendingShows ==
  ASSUME MessagesOK, [Next]_vars, ~ Sending
  PROVE  Sent' = Sent /\ \A i \in Sent : SameFields(i)
<1>1. CASE Moving
  BY <1>1, MovedMessages DEF Moving, SameFields
<1>2. CASE UNCHANGED messages
  BY <1>2 DEF Sent, SameFields
<1> QED
  BY <1>1, <1>2, StepsOfMessages

ResponseInv == MessagesOK /\ ResponsesGoBack

LEMMA ResponsesKept ==
  ASSUME ResponseInv, [Next]_vars
  PROVE  ResponsesGoBack'
<1> USE DEF ResponseInv
<1> SUFFICES ASSUME NEW i \in Sent', messages'[i].kind = "RESPONSE"
             PROVE  LET q == messages'[i].reply IN
                      /\ q \in Sent'
                      /\ messages'[q].kind = "REQUEST" /\ messages'[q].at <= messages'[i].at
                      /\ messages'[q].from = messages'[i].to /\ messages'[q].to = messages'[i].from
  BY DEF ResponsesGoBack
<1>1. CASE ~ Sending
  BY <1>1, OnlySendingShows DEF SameFields, ResponsesGoBack
<1>2. CASE Sending
  <2>1. PICK c \in calls, m \in Contents : Send(c, m)
    BY <1>2 DEF Sending
  <2>2. CASE i \in Sent
    BY <2>1, <2>2, SentFields DEF ResponsesGoBack
  <2>3. CASE i = c.id
    <3>1. m.kind = "RESPONSE" /\ messages'[i].reply = m.reply /\ messages'[i].at = now
          /\ messages'[i].from = c.from /\ messages'[i].to = c.to
      BY <2>1, <2>3, SentFields
    <3>2. /\ m.reply \in Sent /\ messages[m.reply].kind = "REQUEST"
          /\ messages[m.reply].from = c.to /\ messages[m.reply].to = c.from
      BY <2>1, <3>1 DEF Send, CorrelationHolds, IsRequest
    <3>3. messages[m.reply].at <= now
      BY <3>2 DEF MessagesOK
    <3>4. messages'[m.reply] = messages[m.reply] /\ m.reply \in Sent'
      BY <2>1, <3>2, SentFields
    <3> QED
      BY <3>1, <3>2, <3>3, <3>4
  <2> QED
    BY <2>1, <2>2, <2>3, SentFields
<1> QED
  BY <1>1, <1>2

\* A response goes back the way its request came (communication.py _validate_correlation).
THEOREM ResponsesAlwaysGoBack == Spec => []ResponsesGoBack
<1>1. Init => ResponseInv
  BY MessagesStartOK DEF Init, ResponseInv, ResponsesGoBack, Sent
<1>2. ResponseInv /\ [Next]_vars => ResponseInv'
  BY ResponsesKept, MessagesStayOK DEF ResponseInv
<1>3. ResponseInv => ResponsesGoBack
  BY DEF ResponseInv
<1> QED
  BY <1>1, <1>2, <1>3, PTL DEF Spec

-----------------------------------------------------------------------------
\* An orchestration that was started is pinned to a version that exists,
\* and nothing is sent before.
Pinned ==
  IF orchestration.status = "NONE" THEN Sent = {} ELSE orchestration.pinned \in DOMAIN versions


\* The graph points to a version that exists.
GraphOK == versions \in Seq(Drafts) /\ graph.active \in 0..Len(versions)

RouteInv == MessagesOK /\ GraphOK /\ Pinned /\ MessagesFollowRoutes

\* Routes are those of a version, whatever versions come after it.
LEMMA RoutesStay ==
  ASSUME NEW i, NEW v, NEW x, NEW y, NEW at, RouteOpen(v, AgentOf(x), AgentOf(y), at),
         versions'[v] = versions[v], orchestration'.pinned = v,
         messages'[i].from = x, messages'[i].to = y, messages'[i].at = at
  PROVE  RouteOpen(orchestration.pinned, AgentOf(messages[i].from),
                   AgentOf(messages[i].to), messages[i].at)'
BY DEF RouteOpen, Discoverable, DepartmentsOf, Allows, MembersAt

LEMMA VersionsStay ==
  ASSUME MessagesOK, versions \in Seq(Drafts), [Next]_vars
  PROVE  \A v \in DOMAIN versions : v \in DOMAIN versions' /\ versions'[v] = versions[v]
<1>1. CASE UNCHANGED versions
  BY <1>1
<1>2. ASSUME NEW g, versions' = Append(versions, g)
      PROVE  \A v \in DOMAIN versions : v \in DOMAIN versions' /\ versions'[v] = versions[v]
  BY <1>2
<1> QED
  BY <1>1, <1>2, StepsOfMessages

LEMMA GraphStaysOK ==
  ASSUME GraphOK, [Next]_vars
  PROVE  GraphOK'
<1> USE DEF GraphOK, organizationVars
<1>1. CASE CreateGraph
  <2>1. graph'.active = graph.active
    BY <1>1 DEF CreateGraph
  <2> QED
    BY <1>1, <2>1 DEF CreateGraph
<1>2. ASSUME NEW g \in Drafts, PublishGraph(g)
      PROVE  GraphOK'
  <2>1. versions' = Append(versions, g)
    BY <1>2 DEF PublishGraph, AddVersion
  <2>2. graph'.active = graph.active
    BY <1>2 DEF PublishGraph, SaveGraph
  <2>3. versions' \in Seq(Drafts) /\ Len(versions') = Len(versions) + 1
    BY <2>1
  <2> QED
    BY <2>2, <2>3
<1>3. ASSUME NEW v \in DOMAIN versions, ActivateGraph(v)
      PROVE  GraphOK'
  <2>1. versions' = versions /\ graph'.active = v
    BY <1>3 DEF ActivateGraph, SaveGraph
  <2> QED
    BY <2>1
<1>4. CASE UNCHANGED organizationVars
  BY <1>4
<1>5. \/ CreateGraph
      \/ \E g \in Drafts : PublishGraph(g)
      \/ \E v \in DOMAIN versions : ActivateGraph(v)
      \/ UNCHANGED organizationVars
  BY DEF Next, vars, Organize, StartOrchestration, EndOrchestration, StartRun, MoveRun,
         CreateThread, LookUp, Refuse, Send, Consume, Expire, Tick
<1> QED
  BY <1>1, <1>2, <1>3, <1>4, <1>5

LEMMA PinnedStays ==
  ASSUME MessagesOK, GraphOK, Pinned, [Next]_vars
  PROVE  Pinned'
<1>1. CASE StartOrchestration
  <2>1. orchestration'.status = "RUNNING" /\ orchestration'.pinned = graph.active
    BY <1>1 DEF StartOrchestration
  <2>2. graph.active \in DOMAIN versions /\ versions' = versions
    BY <1>1 DEF StartOrchestration, GraphOK, organizationVars
  <2> QED
    BY <2>1, <2>2 DEF Pinned
<1>2. CASE EndOrchestration
  <2>1. orchestration'.status = "OVER" /\ orchestration'.pinned = orchestration.pinned
    BY <1>2 DEF EndOrchestration
  <2>2. orchestration.status = "RUNNING" /\ versions' = versions
    BY <1>2 DEF EndOrchestration, organizationVars
  <2> QED
    BY <2>1, <2>2 DEF Pinned
<1>3. CASE Sending
  BY <1>3 DEF Sending, Send, Participants, Pinned, organizationVars
<1>4. CASE UNCHANGED orchestration /\ ~ Sending
  BY <1>4, VersionsStay, OnlySendingShows DEF Pinned, GraphOK
<1>5. StartOrchestration \/ EndOrchestration \/ Sending \/ UNCHANGED orchestration
  BY DEF Next, vars, Organize, StartRun, MoveRun,
         CreateThread, LookUp, Refuse, Sending, Consume, Expire, Tick
<1> QED
  BY <1>1, <1>2, <1>3, <1>4, <1>5

LEMMA RoutesKept ==
  ASSUME RouteInv, [Next]_vars
  PROVE  MessagesFollowRoutes'
<1> USE DEF RouteInv
<1> SUFFICES ASSUME NEW i \in Sent'
             PROVE  RouteOpen(orchestration.pinned, AgentOf(messages[i].from),
                              AgentOf(messages[i].to), messages[i].at)'
  BY DEF MessagesFollowRoutes
<1>1. ASSUME i \in Sent, SameFields(i)
      PROVE  RouteOpen(orchestration.pinned, AgentOf(messages[i].from),
                       AgentOf(messages[i].to), messages[i].at)'
  <2>1. orchestration.pinned \in DOMAIN versions /\ orchestration.status # "NONE"
    BY <1>1 DEF Pinned
  <2>2. orchestration'.pinned = orchestration.pinned
    <3>1. CASE EndOrchestration
      BY <3>1 DEF EndOrchestration
    <3>2. UNCHANGED orchestration \/ EndOrchestration \/ StartOrchestration
      BY DEF Next, vars, Organize, StartRun, MoveRun, CreateThread, LookUp, Refuse, Send,
             Consume, Expire, Tick
    <3> QED
      BY <2>1, <3>1, <3>2 DEF StartOrchestration
  <2>3. versions'[orchestration.pinned] = versions[orchestration.pinned]
    BY <2>1, VersionsStay DEF GraphOK
  <2> QED
    BY <1>1, <2>2, <2>3, RoutesStay DEF SameFields, MessagesFollowRoutes
<1>2. CASE ~ Sending
  BY <1>1, <1>2, OnlySendingShows
<1>3. CASE Sending
  <2>1. PICK c \in calls, m \in Contents : Send(c, m)
    BY <1>3 DEF Sending
  <2>2. CASE i \in Sent
    BY <1>1, <2>1, <2>2, SentFields DEF SameFields
  <2>3. CASE i = c.id
    <3>1. RouteOpen(orchestration.pinned, AgentOf(c.from), AgentOf(c.to), now)
      BY <2>1 DEF Send, Participants, Route
    <3>2. UNCHANGED <<now, versions, orchestration>>
      BY <2>1 DEF Send, organizationVars
    <3>3. messages'[i].from = c.from /\ messages'[i].to = c.to /\ messages'[i].at = now
      BY <2>1, <2>3, SentFields
    <3> QED
      BY <3>1, <3>2, <3>3, RoutesStay
  <2> QED
    BY <2>1, <2>2, <2>3, SentFields
<1> QED
  BY <1>2, <1>3

\* A message goes along a route of the organization its orchestration is pinned to.
THEOREM MessagesAlwaysFollowRoutes == Spec => []MessagesFollowRoutes
<1>1. Init => RouteInv
  BY MessagesStartOK DEF Init, OrganizationInit, RouteInv, GraphOK, Pinned, MessagesFollowRoutes, Sent
<1>2. RouteInv /\ [Next]_vars => RouteInv'
  BY RoutesKept, GraphStaysOK, PinnedStays, MessagesStayOK DEF RouteInv
<1>3. RouteInv => MessagesFollowRoutes
  BY DEF RouteInv
<1> QED
  BY <1>1, <1>2, <1>3, PTL DEF Spec


-----------------------------------------------------------------------------
BudgetInv == MessagesOK /\ IsFiniteSet(Sent) /\ BudgetsHold

\* A count below its limit may grow by one, a count within it may not.
LEMMA OneMore ==
  ASSUME NEW S, IsFiniteSet(S), NEW T, NEW x, T \subseteq S \cup {x},
         NEW max \in Nat, Cardinality(S) < max
  PROVE  Cardinality(T) <= max
<1>1. IsFiniteSet(S \cup {x}) /\ Cardinality(S \cup {x}) <= Cardinality(S) + 1
  <2>1. Cardinality(S) \in Nat
    BY FS_CardinalityType
  <2>2. CASE x \in S
    <3>1. S \cup {x} = S
      BY <2>2
    <3>2. IsFiniteSet(S \cup {x}) /\ Cardinality(S \cup {x}) = Cardinality(S)
      BY <3>1, Zenon
    <3> QED
      BY <2>1, <3>2
  <2>3. CASE x \notin S
    BY <2>1, <2>3, FS_AddElement
  <2> QED
    BY <2>2, <2>3
<1>2. Cardinality(T) <= Cardinality(S \cup {x}) /\ IsFiniteSet(T)
  BY <1>1, FS_Subset
<1>3. {Cardinality(S), Cardinality(T), Cardinality(S \cup {x})} \subseteq Nat
  BY <1>1, <1>2, FS_CardinalityType
<1> QED
  BY <1>1, <1>2, <1>3

LEMMA NoMore ==
  ASSUME NEW S, IsFiniteSet(S), NEW T, T \subseteq S, NEW max \in Nat, Cardinality(S) <= max
  PROVE  Cardinality(T) <= max
<1>1. Cardinality(T) <= Cardinality(S) /\ IsFiniteSet(T)
  BY FS_Subset
<1>2. {Cardinality(S), Cardinality(T)} \subseteq Nat
  BY <1>1, FS_CardinalityType
<1> QED
  BY <1>1, <1>2

\* What run r sent.
OfSender(r) == {i \in Sent : messages[i].from = r}

LEMMA BudgetsKept ==
  ASSUME BudgetInv, [Next]_vars
  PROVE  IsFiniteSet(Sent') /\ BudgetsHold'
<1> USE DEF BudgetInv
<1> DEFINE Within == /\ Cardinality(Sent') <= MaxPerRun
                     /\ \A t \in Threads : Cardinality(OfThread(t)') <= MaxPerThread
                     /\ \A r \in Runs : Cardinality(OfSender(r)') <= MaxPerAgent
                     /\ \A r \in Runs : Cardinality(RequestsOf(TaskOf(r))') <= MaxRequests
<1>1. {MaxPerRun, MaxPerThread, MaxPerAgent, MaxRequests} \subseteq Nat
  BY MessageAssumption
<1>2. /\ \A t : IsFiniteSet(OfThread(t))
      /\ \A r : IsFiniteSet(OfSender(r)) /\ IsFiniteSet(OfAgent(r))
      /\ \A t : IsFiniteSet(RequestsOf(t))
  BY FS_Subset DEF OfThread, OfSender, OfAgent, RequestsOf
<1>3. CASE ~ Sending
  <2>1. Sent' = Sent /\ \A i \in Sent : SameFields(i)
    BY <1>3, OnlySendingShows
  <2>2. /\ \A t : OfThread(t)' \subseteq OfThread(t)
        /\ \A r : OfSender(r)' \subseteq OfSender(r)
        /\ \A t : RequestsOf(t)' \subseteq RequestsOf(t)
    BY <2>1 DEF OfThread, OfSender, RequestsOf, SameFields
  <2>3. Within
    BY <1>1, <1>2, <2>1, <2>2, NoMore DEF BudgetsHold, OfSender
  <2> QED
    BY <2>1, <2>3 DEF BudgetsHold, OfSender
<1>4. CASE Sending
  <2>1. PICK c \in calls, m \in Contents : Send(c, m)
    BY <1>4 DEF Sending
  <2>2. c.from \in Runs /\ m.thread \in Threads
    BY DEF MessagesOK, Calls, Contents
  <2>3. /\ Sent' = Sent \cup {c.id}
        /\ \A i \in Sent : messages'[i] = messages[i]
        /\ messages'[c.id].from = c.from /\ messages'[c.id].thread = m.thread
        /\ messages'[c.id].kind = m.kind
    BY <2>1, SentFields
  <2>4. /\ Cardinality(Sent) < MaxPerRun
        /\ Cardinality(OfThread(m.thread)) < MaxPerThread
        /\ Cardinality(OfAgent(c.from)) < MaxPerAgent
        /\ m.kind = "REQUEST" => Cardinality(RequestsOf(TaskOf(c.from))) < MaxRequests
    BY <2>1 DEF Send, Budgets
  <2>5. Cardinality(Sent') <= MaxPerRun
    BY <1>1, <2>3, <2>4, OneMore
  <2>6. ASSUME NEW t \in Threads
        PROVE  Cardinality(OfThread(t)') <= MaxPerThread
    <3>1. CASE t = m.thread
      <4>1. OfThread(t)' \subseteq OfThread(m.thread) \cup {c.id}
        BY <2>3, <3>1 DEF OfThread
      <4> QED
        BY <1>1, <1>2, <2>4, <4>1, OneMore
    <3>2. CASE t # m.thread
      <4>1. OfThread(t)' \subseteq OfThread(t)
        BY <2>3, <3>2 DEF OfThread
      <4> QED
        BY <1>1, <1>2, <4>1, NoMore DEF BudgetsHold
    <3> QED
      BY <3>1, <3>2
  <2>7. ASSUME NEW r \in Runs
        PROVE  Cardinality(OfSender(r)') <= MaxPerAgent
    <3>1. CASE r = c.from
      <4>1. OfSender(r)' \subseteq OfAgent(c.from) \cup {c.id}
        BY <2>3, <3>1 DEF OfSender, OfAgent
      <4> QED
        BY <1>1, <1>2, <2>4, <4>1, OneMore
    <3>2. CASE r # c.from
      <4>1. OfSender(r)' \subseteq OfSender(r)
        BY <2>3, <3>2 DEF OfSender
      <4> QED
        BY <1>1, <1>2, <4>1, NoMore DEF BudgetsHold, OfSender
    <3> QED
      BY <3>1, <3>2
  <2>8. ASSUME NEW r \in Runs
        PROVE  Cardinality(RequestsOf(TaskOf(r))') <= MaxRequests
    <3>1. CASE m.kind = "REQUEST" /\ TaskOf(r) = TaskOf(c.from)
      <4>1. RequestsOf(TaskOf(r))' \subseteq RequestsOf(TaskOf(c.from)) \cup {c.id}
        BY <2>3, <3>1 DEF RequestsOf
      <4> QED
        BY <1>1, <1>2, <2>4, <3>1, <4>1, OneMore
    <3>2. CASE ~ (m.kind = "REQUEST" /\ TaskOf(r) = TaskOf(c.from))
      <4>1. RequestsOf(TaskOf(r))' \subseteq RequestsOf(TaskOf(r))
        BY <2>3, <3>2 DEF RequestsOf
      <4> QED
        BY <1>1, <1>2, <4>1, NoMore DEF BudgetsHold
    <3> QED
      BY <3>1, <3>2
  <2>9. IsFiniteSet(Sent')
    BY <2>3, FS_AddElement
  <2> QED
    BY <2>5, <2>6, <2>7, <2>8, <2>9 DEF BudgetsHold, OfSender
<1> QED
  BY <1>3, <1>4

\* No order of calls, over however many runs of a task, exceeds a budget of the policy
\* (communication.py _validate_budgets).
THEOREM BudgetsAlwaysHold == Spec => []BudgetsHold
<1>1. Init => BudgetInv
  <2>1. ASSUME Init
        PROVE  Sent = {} /\ \A S \in SUBSET Sent : Cardinality(S) = 0
    <3>1. Sent = {}
      BY <2>1 DEF Init, Sent
    <3> QED
      BY <3>1, FS_EmptySet
  <2>2. ASSUME Init
        PROVE  BudgetsHold
    BY <2>1, <2>2, MessageAssumption DEF BudgetsHold, OfThread, RequestsOf
  <2> QED
    BY <2>1, <2>2, MessagesStartOK, FS_EmptySet DEF BudgetInv
<1>2. BudgetInv /\ [Next]_vars => BudgetInv'
  BY BudgetsKept, MessagesStayOK DEF BudgetInv
<1>3. BudgetInv => BudgetsHold
  BY DEF BudgetInv
<1> QED
  BY <1>1, <1>2, <1>3, PTL DEF Spec

-----------------------------------------------------------------------------
\* The walk up the managers of a valid graph comes to its end, so no group of agents
\* reports only to itself.

\* The least element of a nonempty set of naturals.
LEMMA LeastOf ==
  ASSUME NEW S \in SUBSET Nat, S # {}
  PROVE  \E m \in S : \A y \in S : m <= y
<1>1. PICK m \in S : \A y \in S : <<y, m>> \notin OpToRel(<, Nat)
  BY NatLessThanWellFounded, WFMin, Zenon
<1>2. ASSUME NEW y \in S PROVE m <= y
  <2>1. y \in Nat /\ m \in Nat
    OBVIOUS
  <2>2. ASSUME y < m PROVE <<y, m>> \in OpToRel(<, Nat)
    BY <2>1, <2>2 DEF OpToRel
  <2>3. ~ (y < m)
    BY <1>1, <2>2
  <2> QED
    BY <2>1, <2>3
<1> QED
  BY <1>2

\* The recursion of the walk, up to step n.
Managers(g, agents) == {p[2] : p \in {q \in g.reports : q[1] \in agents}} \cap Reporting(g)

IsWalk(up, g, n) ==
  up = [k \in 0..n |-> IF k = 0 THEN Reporting(g) ELSE Managers(g, up[k - 1])]

LEMMA WalksExist ==
  ASSUME NEW g, NEW n \in Nat
  PROVE  \E up : IsWalk(up, g, n)
<1> DEFINE Bad == {m \in Nat : ~\E up : IsWalk(up, g, m)}
<1> SUFFICES ASSUME Bad # {} PROVE FALSE
  OBVIOUS
<1>1. PICK m \in Bad : \A y \in Bad : m <= y
  <2>1. Bad \in SUBSET Nat
    OBVIOUS
  <2> HIDE DEF Bad
  <2> QED
    BY <2>1, LeastOf
<1>2. m \in Nat /\ ~\E up : IsWalk(up, g, m)
  OBVIOUS
<1>3. CASE m = 0
  <2>1. IsWalk([k \in 0..0 |-> Reporting(g)], g, 0)
    BY DEF IsWalk
  <2> QED
    BY <1>2, <1>3, <2>1
<1>4. CASE m # 0
  <2>1. m - 1 \in Nat /\ m - 1 \notin Bad
    <3>1. m - 1 \in Nat /\ ~ (m <= m - 1)
      BY <1>2, <1>4
    <3> HIDE DEF Bad
    <3> QED
      BY <1>1, <3>1
  <2>2. PICK up : IsWalk(up, g, m - 1)
    BY <2>1
  <2> DEFINE f == [k \in 0..m |-> IF k < m THEN up[k] ELSE Managers(g, up[m - 1])]
  <2>3. ASSUME NEW k \in 0..m
        PROVE  f[k] = IF k = 0 THEN Reporting(g) ELSE Managers(g, f[k - 1])
    <3>1. k # 0 => k - 1 \in 0..m /\ f[k - 1] = up[k - 1]
      BY <1>2
    <3>2. CASE k < m
      <4>1. k \in 0..(m - 1)
        BY <1>2, <3>2
      <4>2. up[k] = IF k = 0 THEN Reporting(g) ELSE Managers(g, up[k - 1])
        BY <2>2, <4>1 DEF IsWalk
      <4>3. f[k] = up[k]
        BY <3>2
      <4> HIDE DEF f
      <4> QED
        BY <3>1, <4>2, <4>3
    <3>3. CASE k = m
      <4>1. f[k] = Managers(g, up[m - 1])
        BY <1>2, <3>3
      <4> HIDE DEF f
      <4> QED
        BY <1>4, <3>1, <3>3, <4>1
    <3> QED
      BY <1>2, <3>2, <3>3
  <2>4. IsWalk(f, g, m)
    BY <2>3 DEF IsWalk
  <2> HIDE DEF f
  <2> QED
    BY <1>2, <2>4
<1> QED
  BY <1>3, <1>4

LEMMA ReachedIsAWalk ==
  ASSUME NEW g
  PROVE  IsWalk(Reached(g), g, ReportingDepth)
<1>1. ReportingDepth \in Nat
  BY OrganizationAssumption DEF OrganizationAssumption
<1>2. \E up : IsWalk(up, g, ReportingDepth)
  BY <1>1, WalksExist
<1>3. Reached(g) = CHOOSE up : IsWalk(up, g, ReportingDepth)
  BY Zenon DEF Reached, IsWalk, Managers
<1> QED
  BY <1>2, <1>3

\* A group that reports only to itself is never left.
LEMMA GroupsAreNotLeft ==
  ASSUME NEW g, NEW group, group # {},
         \A a \in group : \E b \in group : <<a, b>> \in g.reports
  PROVE  ~ ReportingEnds(g)
<1> DEFINE up == Reached(g)
           Bad == {n \in 0..ReportingDepth : up[n] \cap group = {}}
<1>1. ReportingDepth \in Nat
  BY OrganizationAssumption DEF OrganizationAssumption
<1>2. \A k \in 0..ReportingDepth :
        up[k] = IF k = 0 THEN Reporting(g) ELSE Managers(g, up[k - 1])
  BY ReachedIsAWalk DEF IsWalk
<1>3. group \subseteq Reporting(g)
  <2> SUFFICES ASSUME NEW a \in group PROVE a \in Reporting(g)
    OBVIOUS
  <2>1. PICK b \in group : <<a, b>> \in g.reports
    OBVIOUS
  <2> QED
    BY <2>1 DEF Reporting
<1> HIDE DEF up
<1>4. Bad = {}
  <2> SUFFICES ASSUME Bad # {} PROVE FALSE
    OBVIOUS
  <2>1. PICK m \in Bad : \A y \in Bad : m <= y
    <3>1. Bad \in SUBSET Nat
      BY <1>1
    <3> HIDE DEF Bad
    <3> QED
      BY <3>1, LeastOf
  <2>2. m \in 0..ReportingDepth /\ up[m] \cap group = {}
    OBVIOUS
  <2>3. m # 0
    BY <1>2, <1>3, <2>2
  <2>4. m - 1 \in 0..ReportingDepth /\ m - 1 \notin Bad
    <3>1. m - 1 \in 0..ReportingDepth /\ ~ (m <= m - 1)
      BY <1>1, <2>2, <2>3
    <3> HIDE DEF Bad
    <3> QED
      BY <2>1, <3>1
  <2>5. PICK a \in group : a \in up[m - 1]
    BY <2>4
  <2>6. PICK b \in group : <<a, b>> \in g.reports
    OBVIOUS
  <2>7. b \in Managers(g, up[m - 1])
    BY <1>3, <2>5, <2>6 DEF Managers
  <2> QED
    BY <1>2, <2>2, <2>3, <2>7
<1>5. up[ReportingDepth] # {}
  <2>1. ReportingDepth \in 0..ReportingDepth
    BY <1>1
  <2> QED
    BY <1>4, <2>1
<1> QED
  BY <1>5 DEF up, ReportingEnds

\* A line with more steps than the bound is still walked when the bound is reached.
LEMMA LongLinesAreWalked ==
  ASSUME NEW g, NEW line \in [0..ReportingDepth -> g.reports],
         \A n \in 1..ReportingDepth : line[n - 1][2] = line[n][1]
  PROVE  ~ ReportingEnds(g)
<1> DEFINE up == Reached(g)
           Bad == {n \in 0..ReportingDepth : line[n][1] \notin up[n]}
<1>1. ReportingDepth \in Nat
  BY OrganizationAssumption DEF OrganizationAssumption
<1>2. \A k \in 0..ReportingDepth :
        up[k] = IF k = 0 THEN Reporting(g) ELSE Managers(g, up[k - 1])
  BY ReachedIsAWalk DEF IsWalk
<1>3. \A n \in 0..ReportingDepth : line[n] \in g.reports /\ line[n][1] \in Reporting(g)
  BY DEF Reporting
<1> HIDE DEF up
<1>4. Bad = {}
  <2> SUFFICES ASSUME Bad # {} PROVE FALSE
    OBVIOUS
  <2>1. PICK m \in Bad : \A y \in Bad : m <= y
    <3>1. Bad \in SUBSET Nat
      BY <1>1
    <3> HIDE DEF Bad
    <3> QED
      BY <3>1, LeastOf
  <2>2. m \in 0..ReportingDepth /\ line[m][1] \notin up[m]
    OBVIOUS
  <2>3. m # 0
    BY <1>1, <1>2, <1>3, <2>2
  <2>4. m - 1 \in 0..ReportingDepth /\ m - 1 \notin Bad
    <3>1. m - 1 \in 0..ReportingDepth /\ ~ (m <= m - 1)
      BY <1>1, <2>2, <2>3
    <3> HIDE DEF Bad
    <3> QED
      BY <2>1, <3>1
  <2>5. line[m - 1][1] \in up[m - 1] /\ line[m - 1] \in g.reports
    BY <1>3, <2>4
  <2>6. line[m - 1][2] = line[m][1]
    BY <1>1, <2>2, <2>3
  <2>7. line[m][1] \in Managers(g, up[m - 1])
    BY <1>3, <2>2, <2>5, <2>6 DEF Managers
  <2> QED
    BY <1>2, <2>2, <2>3, <2>7
<1>5. up[ReportingDepth] # {}
  <2>1. ReportingDepth \in 0..ReportingDepth
    BY <1>1
  <2> QED
    BY <1>4, <2>1
<1> QED
  BY <1>5 DEF up, ReportingEnds

\* Only graphs that are valid become versions.
VersionsOK == versions \in Seq(Drafts) /\ \A v \in DOMAIN versions : ValidGraph(versions[v])

LEMMA VersionsKept ==
  ASSUME VersionsOK, [Next]_vars
  PROVE  VersionsOK'
<1>1. CASE UNCHANGED versions
  BY <1>1 DEF VersionsOK
<1>2. ASSUME NEW g \in Drafts, PublishGraph(g)
      PROVE  VersionsOK'
  <2>1. versions' = Append(versions, g) /\ ValidGraph(g)
    BY <1>2 DEF PublishGraph, AddVersion
  <2>2. /\ versions' \in Seq(Drafts) /\ DOMAIN versions' = DOMAIN versions \cup {Len(versions) + 1}
        /\ versions'[Len(versions) + 1] = g
        /\ \A v \in DOMAIN versions : versions'[v] = versions[v]
    BY <2>1 DEF VersionsOK
  <2>3. ASSUME NEW v \in DOMAIN versions' PROVE ValidGraph(versions'[v])
    <3>1. CASE v \in DOMAIN versions
      <4>1. ValidGraph(versions[v]) /\ versions'[v] = versions[v]
        BY <2>2, <3>1 DEF VersionsOK
      <4> QED
        BY <4>1, Zenon
    <3>2. CASE v = Len(versions) + 1
      BY <2>1, <2>2, <3>2, Zenon
    <3> QED
      BY <2>2, <3>1, <3>2
  <2> QED
    BY <2>2, <2>3, Zenon DEF VersionsOK
<1>3. UNCHANGED versions \/ \E g \in Drafts : PublishGraph(g)
  BY DEF Next, vars, organizationVars, Organize, CreateGraph, ActivateGraph, StartOrchestration,
         EndOrchestration, StartRun, MoveRun, CreateThread, LookUp, Refuse, Send, Consume,
         Expire, Tick
<1> QED
  BY <1>1, <1>2, <1>3

\* However far apart the two ends of a cycle are, the validator of a graph finds it, and
\* it finds every line that is too long (domain/organization.py, the walk of the reporting
\* lines).
THEOREM VersionsAreHierarchies == Spec => []OrganizationsAreHierarchies
<1>1. Init => VersionsOK
  BY DEF Init, OrganizationInit, VersionsOK
<1>2. VersionsOK /\ [Next]_vars => VersionsOK'
  BY VersionsKept
<1>3. VersionsOK => OrganizationsAreHierarchies
  <2> SUFFICES ASSUME VersionsOK, NEW v \in DOMAIN versions
               PROVE  /\ \A group \in (SUBSET Agents) \ {{}} :
                           \E head \in group : \A a \in group : <<head, a>> \notin versions[v].reports
                      /\ \A line \in [0..ReportingDepth -> versions[v].reports] :
                           \E n \in 1..ReportingDepth : line[n - 1][2] # line[n][1]
    BY DEF OrganizationsAreHierarchies
  <2> DEFINE g == versions[v]
  <2>1. ReportingEnds(g)
    BY DEF VersionsOK, ValidGraph
  <2> HIDE DEF g
  <2>2. ASSUME NEW group \in (SUBSET Agents) \ {{}},
               \A a \in group : \E b \in group : <<a, b>> \in g.reports
        PROVE  FALSE
    <3>1. group # {}
      BY Zenon
    <3> QED
      BY <2>1, <2>2, <3>1, GroupsAreNotLeft
  <2>3. ASSUME NEW line \in [0..ReportingDepth -> g.reports],
               \A n \in 1..ReportingDepth : line[n - 1][2] = line[n][1]
        PROVE  FALSE
    BY <2>1, <2>3, LongLinesAreWalked
  <2> QED
    BY <2>2, <2>3 DEF g
<1> QED
  BY <1>1, <1>2, <1>3, PTL DEF Spec

=============================================================================
