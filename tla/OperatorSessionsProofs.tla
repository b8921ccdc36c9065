----------------------- MODULE OperatorSessionsProofs -----------------------
(***************************************************************************)
(* Theorems about OperatorSessions for every set of operators, tokens and  *)
(* workers.                                                                *)
(*                                                                         *)
(* What a worker was authenticated for while it holds the identity         *)
(* transaction stays true until it lets go, because every change of the    *)
(* identity database needs that transaction; and an account that was       *)
(* disabled is neither enabled nor provisioned again.                      *)
(***************************************************************************)
EXTENDS OperatorSessions, TLAPS

Accounts == [role : Roles, enabled : BOOLEAN, version : Nat]

Sessions == [principal : Operators, version : Nat, expires : Nat, revoked : BOOLEAN]

Commands == {"local_provision", "disabled", "session_created", "session_revoked"}

Entries == [by : Operators, command : Commands, target : Operators]

Modes == {"NORMAL", "MAINTENANCE", "RESTORE_QUARANTINE"}

Requests == {Idle, [pc |-> "login"]}
              \cup [pc : {"command", "locked"}, token : Tokens, to : Modes]

IdentityOK ==
  /\ now \in Nat
  /\ accounts \in [Operators -> {NoAccount} \cup Accounts]
  /\ sessions \in [Tokens -> {NoSession} \cup Sessions]
  /\ audit \in Seq(Entries)

LEMMA AccountsExist == NoAccount \notin Accounts
<1>1. DOMAIN NoAccount = {"enabled"}
  BY DEF NoAccount
<1>2. ASSUME NEW a \in Accounts PROVE "role" \in DOMAIN a
  BY DEF Accounts
<1> QED
  BY <1>1, <1>2

LEMMA SessionsExist == NoSession \notin Sessions
<1>1. DOMAIN NoSession = {"revoked"}
  BY DEF NoSession
<1>2. ASSUME NEW s \in Sessions PROVE "principal" \in DOMAIN s
  BY DEF Sessions
<1> QED
  BY <1>1, <1>2

\* The steps that touch the identity database: provisioning, disabling, and the
\* logins and logouts of workers.  All of them need its lock.
LEMMA IdentitySteps ==
  ASSUME [Next]_vars, identity' # identity
  PROVE  /\ lock = "free" /\ UNCHANGED <<now, lock>>
         /\ \/ \E o \in Operators, role \in Roles : Provision(o, role)
            \/ \E t \in Tokens, target \in Operators, expected \in {1, 2} :
                 Disable(t, target, expected)
            \/ \E o \in Operators, t \in Tokens : OpenSession(o, t) /\ UNCHANGED accounts
            \/ \E w \in Workers, t \in Tokens : Logout(w, t)
<1>1. Next
  BY DEF vars
<1>2. ~ Restart /\ ~ ProposeIntent /\ ~ Tick
  BY DEF Restart, ProposeIntent, Tick, identity
<1>3. ASSUME NEW w \in Workers
      PROVE  /\ ~ AskLogin(w) /\ ~ Enter(w) /\ ~ Change(w) /\ ~ Refuse(w)
             /\ \A t \in Tokens, to \in Modes : ~ Command(w, t, to)
  BY DEF AskLogin, Enter, Change, Refuse, Command, identity
<1>4. ASSUME NEW w \in Workers, Login(w)
      PROVE  /\ \E o \in Operators, t \in Tokens : OpenSession(o, t)
             /\ lock = "free" /\ UNCHANGED <<now, lock, accounts>>
  BY <1>4 DEF Login, identity
<1>5. ASSUME NEW o \in Operators, NEW role \in Roles, Provision(o, role)
      PROVE  lock = "free" /\ UNCHANGED <<now, lock>>
  BY <1>5 DEF Provision
<1>6. ASSUME NEW t \in Tokens, NEW target \in Operators, NEW expected \in {1, 2},
             Disable(t, target, expected)
      PROVE  lock = "free" /\ UNCHANGED <<now, lock>>
  BY <1>6 DEF Disable
<1>7. ASSUME NEW w \in Workers, NEW t \in Tokens, Logout(w, t)
      PROVE  lock = "free" /\ UNCHANGED <<now, lock>>
  BY <1>7 DEF Logout, host
<1> QED
  BY <1>1, <1>2, <1>3, <1>4, <1>5, <1>6, <1>7 DEF Next, Modes

-----------------------------------------------------------------------------
\* One more record of the audit leaves the earlier ones.
LEMMA RecordAppends ==
  ASSUME audit \in Seq(Entries), NEW by \in Operators, NEW command \in Commands,
         NEW target \in Operators,
         audit' = Append(audit, [by |-> by, command |-> command, target |-> target])
  PROVE  /\ audit' \in Seq(Entries)
         /\ DOMAIN audit' = 1..(Len(audit) + 1) /\ DOMAIN audit = 1..Len(audit)
         /\ \A i \in DOMAIN audit : audit'[i] = audit[i] /\ audit[i].target \in Operators
         /\ audit'[Len(audit) + 1] = [by |-> by, command |-> command, target |-> target]
<1> DEFINE entry == [by |-> by, command |-> command, target |-> target]
<1>1. entry \in Entries
  BY DEF Entries
<1>2. audit' = Append(audit, entry)
  OBVIOUS
<1>3. \A i \in DOMAIN audit : audit[i] \in Entries
  OBVIOUS
<1>4. \A i \in DOMAIN audit : audit[i].target \in Operators
  BY <1>3 DEF Entries
<1> HIDE DEF entry
<1>5. /\ audit' \in Seq(Entries) /\ DOMAIN audit' = 1..(Len(audit) + 1)
      /\ DOMAIN audit = 1..Len(audit) /\ audit'[Len(audit) + 1] = entry
      /\ \A i \in DOMAIN audit : audit'[i] = audit[i]
  BY <1>1, <1>2
<1> QED
  BY <1>4, <1>5 DEF entry

\* A record of the audit never names an operator that nobody provisioned, and a
\* session never names an operator without an account.
LEMMA IdentityStaysOK ==
  ASSUME IdentityOK, [Next]_vars
  PROVE  IdentityOK'
<1> USE DEF IdentityOK
<1>1. CASE identity' # identity
  <2>1. UNCHANGED now
    BY <1>1, IdentitySteps
  <2>2. ASSUME NEW o \in Operators, NEW role \in Roles, Provision(o, role)
        PROVE  IdentityOK'
    <3>1. NewAccount(role) \in Accounts
      BY DEF NewAccount, Accounts
    <3>2. accounts' \in [Operators -> {NoAccount} \cup Accounts]
      BY <2>2, <3>1 DEF Provision
    <3>3. audit' \in Seq(Entries)
      <4>2. audit' = Append(audit, [by |-> o, command |-> "local_provision", target |-> o])
        BY <2>2 DEF Provision, Record
      <4> QED
        BY <4>2, RecordAppends DEF Commands
    <3> QED
      BY <2>1, <2>2, <3>2, <3>3 DEF Provision
  <2>3. ASSUME NEW t \in Tokens, NEW target \in Operators, NEW expected \in {1, 2},
               Disable(t, target, expected)
        PROVE  IdentityOK'
    <3>1. sessions[t] \in Sessions /\ accounts[target] \in Accounts
      BY <2>3 DEF Disable, MayAdminister, Authentic, DisableAccount, NoAccount
    <3>2. accounts' \in [Operators -> {NoAccount} \cup Accounts]
      <4>1. accounts'[target] \in Accounts
        BY <2>3, <3>1 DEF Disable, DisableAccount, Accounts
      <4> QED
        BY <2>3, <4>1 DEF Disable, DisableAccount
    <3>3. audit' \in Seq(Entries)
      <4>1. Principal(t) \in Operators
        BY <3>1 DEF Principal, Sessions
      <4>2. audit' = Append(audit, [by |-> Principal(t), command |-> "disabled", target |-> target])
        BY <2>3 DEF Disable, Record
      <4> QED
        BY <4>1, <4>2, RecordAppends DEF Commands
    <3> QED
      BY <2>1, <2>3, <3>2, <3>3 DEF Disable
  <2>4. ASSUME NEW o \in Operators, NEW t \in Tokens, OpenSession(o, t), UNCHANGED accounts
        PROVE  IdentityOK'
    <3>1. accounts[o] \in Accounts
      BY <2>4 DEF OpenSession, MayLogIn, NoAccount
    <3>2. NewSession(o) \in Sessions
      BY <3>1, OperatorAssumption DEF NewSession, Sessions, Accounts, OperatorAssumption
    <3>3. sessions' \in [Tokens -> {NoSession} \cup Sessions]
      BY <2>4, <3>2 DEF OpenSession
    <3>4. audit' \in Seq(Entries)
      <4>2. audit' = Append(audit, [by |-> o, command |-> "session_created", target |-> o])
        BY <2>4 DEF OpenSession, Record
      <4> QED
        BY <4>2, RecordAppends DEF Commands
    <3> QED
      BY <2>1, <2>4, <3>3, <3>4
  <2>5. ASSUME NEW w \in Workers, NEW t \in Tokens, Logout(w, t)
        PROVE  IdentityOK'
    <3>1. sessions[t] \in Sessions
      BY <2>5 DEF Logout, Authentic
    <3>2. [sessions[t] EXCEPT !.revoked = TRUE] \in Sessions
      BY <3>1 DEF Sessions
    <3>3. sessions' \in [Tokens -> {NoSession} \cup Sessions]
      <4>1. sessions' = [sessions EXCEPT ![t] = [sessions[t] EXCEPT !.revoked = TRUE]]
        BY <2>5 DEF Logout
      <4> QED
        BY <4>1, <3>2
    <3>4. audit' \in Seq(Entries)
      <4>1. Principal(t) \in Operators
        BY <3>1 DEF Principal, Sessions
      <4>2. audit' = Append(audit, [by |-> Principal(t), command |-> "session_revoked", target |-> Principal(t)])
        BY <2>5 DEF Logout, Record
      <4> QED
        BY <4>1, <4>2, RecordAppends DEF Commands
    <3> QED
      BY <2>1, <2>5, <3>3, <3>4 DEF Logout
  <2> QED
    BY <1>1, <2>2, <2>3, <2>4, <2>5, IdentitySteps
<1>2. CASE identity' = identity
  <2>1. now' \in Nat
    <3>1. CASE Tick
      BY <3>1 DEF Tick
    <3>2. CASE ~ Tick
      BY <3>2 DEF Next, vars, Provision, Disable, AskLogin, Login, Enter, Change, Refuse,
                  Logout, Command, Restart, ProposeIntent
    <3> QED
      BY <3>1, <3>2
  <2> QED
    BY <1>2, <2>1 DEF identity
<1> QED
  BY <1>1, <1>2

THEOREM IdentityStays == Spec => []IdentityOK
<1>1. Init => IdentityOK
  BY DEF Init, IdentityOK
<1>2. IdentityOK /\ [Next]_vars => IdentityOK'
  BY IdentityStaysOK
<1> QED
  BY <1>1, <1>2, PTL DEF Spec

-----------------------------------------------------------------------------
\* A disabled account exists, so it is not provisioned again, and stays disabled.
DisabledStays ==
  \A i \in DOMAIN audit :
    audit[i].command = "disabled" =>
      accounts[audit[i].target] # NoAccount /\ ~accounts[audit[i].target].enabled

SilenceInv == IdentityOK /\ DisabledStays /\ NothingAfterDisabling

\* One more record keeps the promise if its actor is not disabled at the time.
LEMMA RecordAfterDisabling ==
  ASSUME SilenceInv, NEW by \in Operators, NEW command \in Commands, NEW target \in Operators,
         Record(by, command, target),
         accounts[by] = NoAccount \/ accounts[by].enabled
  PROVE  NothingAfterDisabling'
<1> SUFFICES ASSUME NEW i \in DOMAIN audit', NEW j \in DOMAIN audit',
                    i < j, audit'[i].command = "disabled"
             PROVE  audit'[j].by # audit'[i].target
  BY DEF NothingAfterDisabling
<1>1. /\ i \in DOMAIN audit /\ audit'[i] = audit[i]
      /\ j \in DOMAIN audit => audit'[j] = audit[j]
      /\ j \notin DOMAIN audit => audit'[j].by = by
  BY RecordAppends DEF SilenceInv, IdentityOK, Record
<1> QED
  BY <1>1 DEF SilenceInv, NothingAfterDisabling, DisabledStays

LEMMA RecordKeepsDisabled ==
  ASSUME SilenceInv, NEW by \in Operators, NEW command \in Commands, NEW target \in Operators,
         Record(by, command, target),
         \A o \in Operators : accounts[o] # NoAccount /\ ~accounts[o].enabled
                             => accounts'[o] # NoAccount /\ ~accounts'[o].enabled,
         command = "disabled" => accounts'[target] # NoAccount /\ ~accounts'[target].enabled
  PROVE  DisabledStays'
<1> SUFFICES ASSUME NEW i \in DOMAIN audit', audit'[i].command = "disabled"
             PROVE  LET o == audit'[i].target IN accounts'[o] # NoAccount /\ ~accounts'[o].enabled
  BY DEF DisabledStays
<1>1. CASE i \in DOMAIN audit
  <2>1. audit'[i] = audit[i] /\ audit[i].target \in Operators
    BY <1>1, RecordAppends DEF SilenceInv, IdentityOK, Record
  <2> QED
    BY <1>1, <2>1 DEF SilenceInv, DisabledStays
<1>2. CASE i \notin DOMAIN audit
  BY <1>2, RecordAppends DEF SilenceInv, IdentityOK, Record
<1> QED
  BY <1>1, <1>2

LEMMA SilenceKept ==
  ASSUME SilenceInv, [Next]_vars
  PROVE  SilenceInv'
<1>1. IdentityOK'
  BY IdentityStaysOK DEF SilenceInv
<1>2. CASE identity' # identity
  <2>1. ASSUME NEW o \in Operators, NEW role \in Roles, Provision(o, role)
        PROVE  DisabledStays' /\ NothingAfterDisabling'
    <3>1. Record(o, "local_provision", o) /\ accounts[o] = NoAccount
      BY <2>1 DEF Provision
    <3>2. \A p \in Operators : p # o => accounts'[p] = accounts[p]
      BY <2>1 DEF Provision, SilenceInv, IdentityOK
    <3> QED
      BY <3>1, <3>2, RecordAfterDisabling, RecordKeepsDisabled DEF Commands
  <2>2. ASSUME NEW t \in Tokens, NEW target \in Operators, NEW expected \in {1, 2},
               Disable(t, target, expected)
        PROVE  DisabledStays' /\ NothingAfterDisabling'
    <3>1. sessions[t] \in Sessions /\ accounts[target] \in Accounts
      BY <2>2 DEF Disable, MayAdminister, Authentic, DisableAccount, NoAccount, SilenceInv, IdentityOK
    <3>2. Principal(t) \in Operators /\ accounts[Principal(t)].enabled
      BY <2>2, <3>1 DEF Disable, MayAdminister, Authentic, Principal, Sessions
    <3>3. /\ accounts'[target] \in Accounts /\ ~accounts'[target].enabled
          /\ \A p \in Operators : p # target => accounts'[p] = accounts[p]
      BY <2>2, <3>1 DEF Disable, DisableAccount, Accounts, SilenceInv, IdentityOK
    <3>4. accounts'[target] # NoAccount
      BY <3>3, AccountsExist
    <3>5. Record(Principal(t), "disabled", target)
      BY <2>2 DEF Disable
    <3> QED
      BY <3>2, <3>3, <3>4, <3>5, RecordAfterDisabling, RecordKeepsDisabled DEF Commands
  <2>3. ASSUME NEW o \in Operators, NEW t \in Tokens, OpenSession(o, t), UNCHANGED accounts
        PROVE  DisabledStays' /\ NothingAfterDisabling'
    <3>1. Record(o, "session_created", o) /\ accounts[o].enabled
      BY <2>3 DEF OpenSession, MayLogIn
    <3> QED
      BY <2>3, <3>1, RecordAfterDisabling, RecordKeepsDisabled DEF Commands
  <2>4. ASSUME NEW w \in Workers, NEW t \in Tokens, Logout(w, t)
        PROVE  DisabledStays' /\ NothingAfterDisabling'
    <3>1. sessions[t] \in Sessions
      BY <2>4 DEF Logout, Authentic, SilenceInv, IdentityOK
    <3>2. Principal(t) \in Operators /\ accounts[Principal(t)].enabled
      BY <2>4, <3>1 DEF Logout, Authentic, Principal, Sessions
    <3>3. Record(Principal(t), "session_revoked", Principal(t)) /\ UNCHANGED accounts
      BY <2>4 DEF Logout
    <3> QED
      BY <3>2, <3>3, RecordAfterDisabling, RecordKeepsDisabled DEF Commands
  <2> QED
    BY <1>1, <1>2, <2>1, <2>2, <2>3, <2>4, IdentitySteps DEF SilenceInv
<1>3. CASE identity' = identity
  BY <1>1, <1>3 DEF identity, SilenceInv, DisabledStays, NothingAfterDisabling
<1> QED
  BY <1>2, <1>3

\* The audit holds nothing in the name of an operator after its disabling
\* (operator.py 78-162).
THEOREM DisabledActorsAreSilent == Spec => []NothingAfterDisabling
<1>1. Init => SilenceInv
  <2>1. Init => IdentityOK
    BY DEF Init, IdentityOK
  <2> QED
    BY <2>1 DEF Init, SilenceInv, DisabledStays, NothingAfterDisabling
<1>2. SilenceInv /\ [Next]_vars => SilenceInv'
  BY SilenceKept
<1>3. SilenceInv => NothingAfterDisabling
  BY DEF SilenceInv
<1> QED
  BY <1>1, <1>2, <1>3, PTL DEF Spec

-----------------------------------------------------------------------------
AdminInv == IdentityOK /\ AnAdminRemains

LEMMA AdminsLast ==
  ASSUME AdminInv, [Next]_vars
  PROVE  AnAdminRemains'
<1> USE DEF AdminInv
<1>1. CASE identity' # identity
  <2>1. ASSUME NEW o \in Operators, NEW role \in Roles, Provision(o, role)
        PROVE  AnAdminRemains'
    <3>1. /\ audit' = Append(audit, [by |-> o, command |-> "local_provision", target |-> o])
          /\ accounts[o] = NoAccount
          /\ \A p \in Operators : p # o => accounts'[p] = accounts[p]
      BY <2>1 DEF Provision, Record, IdentityOK
    <3>2. \A p \in Operators : accounts[p].enabled => accounts'[p] = accounts[p]
      BY <3>1 DEF NoAccount
    <3> QED
      BY <3>1, <3>2, RecordAppends DEF Commands, IdentityOK, AnAdminRemains
  <2>2. ASSUME NEW t \in Tokens, NEW target \in Operators, NEW expected \in {1, 2},
               Disable(t, target, expected)
        PROVE  AnAdminRemains'
    <3>1. sessions[t] \in Sessions
      BY <2>2 DEF Disable, MayAdminister, Authentic, IdentityOK
    <3>2. /\ Principal(t) \in Operators
          /\ accounts[Principal(t)].enabled /\ accounts[Principal(t)].role = "ADMIN"
      BY <2>2, <3>1 DEF Disable, MayAdminister, Authentic, Principal, RoleOf, Sessions
    <3>3. /\ audit' = Append(audit, [by |-> Principal(t), command |-> "disabled", target |-> target])
          /\ \A p \in Operators : p # target => accounts'[p] = accounts[p]
      BY <2>2 DEF Disable, DisableAccount, Record, IdentityOK
    <3>4. /\ Len(audit) + 1 \in DOMAIN audit'
          /\ audit'[Len(audit) + 1].command = "disabled"
          /\ audit'[Len(audit) + 1].by = Principal(t)
          /\ audit'[Len(audit) + 1].target = target
      BY <3>2, <3>3, RecordAppends DEF Commands, IdentityOK
    <3>5. CASE Principal(t) = target
      BY <3>4, <3>5 DEF AnAdminRemains
    <3>6. CASE Principal(t) # target
      BY <3>2, <3>3, <3>6 DEF AnAdminRemains
    <3> QED
      BY <3>5, <3>6
  <2>3. ASSUME NEW o \in Operators, NEW t \in Tokens, OpenSession(o, t), UNCHANGED accounts
        PROVE  AnAdminRemains'
    <3>1. audit' = Append(audit, [by |-> o, command |-> "session_created", target |-> o])
      BY <2>3 DEF OpenSession, Record
    <3> QED
      BY <2>3, <3>1, RecordAppends DEF Commands, IdentityOK, AnAdminRemains
  <2>4. ASSUME NEW w \in Workers, NEW t \in Tokens, Logout(w, t)
        PROVE  AnAdminRemains'
    <3>1. sessions[t] \in Sessions
      BY <2>4 DEF Logout, Authentic, IdentityOK
    <3>2. Principal(t) \in Operators
      BY <3>1 DEF Principal, Sessions
    <3>3. /\ audit' = Append(audit, [by |-> Principal(t), command |-> "session_revoked",
                                    target |-> Principal(t)])
          /\ UNCHANGED accounts
      BY <2>4 DEF Logout, Record
    <3> QED
      BY <3>2, <3>3, RecordAppends DEF Commands, IdentityOK, AnAdminRemains
  <2> QED
    BY <1>1, <2>1, <2>2, <2>3, <2>4, IdentitySteps
<1>2. CASE identity' = identity
  BY <1>2 DEF identity, AnAdminRemains
<1> QED
  BY <1>1, <1>2

\* Admins that disable each other do not both succeed (operator.py 139-155).
THEOREM AnAdminAlwaysRemains == Spec => []AnAdminRemains
<1>1. Init => AdminInv
  BY DEF Init, AdminInv, IdentityOK, AnAdminRemains
<1>2. AdminInv /\ [Next]_vars => AdminInv'
  BY AdminsLast, IdentityStaysOK DEF AdminInv
<1>3. AdminInv => AnAdminRemains
  BY DEF AdminInv
<1> QED
  BY <1>1, <1>2, <1>3, PTL DEF Spec

-----------------------------------------------------------------------------
\* Still true in the transaction: what the principal was authenticated for.
Standing(request) ==
  LET s == sessions[request.token]  a == accounts[s.principal] IN
    /\ ~s.revoked /\ a.enabled /\ a.version = s.version
    /\ request.to # "NORMAL" => a.role = "ADMIN"

LockInv ==
  /\ requests \in [Workers -> Requests]
  /\ \A w \in Workers : requests[w].pc = "locked" => lock = w /\ Standing(requests[w])

LEMMA RequestKinds ==
  /\ Idle \in Requests /\ [pc |-> "login"] \in Requests
  /\ Idle.pc # "locked" /\ [pc |-> "login"].pc # "locked"
  /\ \A t \in Tokens, to \in Modes :
       LET r == [pc |-> "command", token |-> t, to |-> to] IN r \in Requests /\ r.pc # "locked"
BY DEF Requests, Idle

\* A worker that goes on to a request that is not locked leaves the others alone.
LEMMA OneWorkerSteps ==
  ASSUME LockInv, NEW w \in Workers, NEW request \in Requests, request.pc # "locked",
         Step(w, request), UNCHANGED <<accounts, sessions>>,
         lock' = lock \/ lock = w
  PROVE  LockInv'
<1>1. requests' \in [Workers -> Requests]
  BY DEF LockInv, Step
<1>2. ASSUME NEW x \in Workers, requests'[x].pc = "locked"
      PROVE  lock' = x /\ Standing(requests[x])' 
  <2>1. x # w /\ requests'[x] = requests[x]
    BY <1>2 DEF LockInv, Step
  <2>2. lock = x /\ Standing(requests[x])
    BY <1>2, <2>1 DEF LockInv
  <2> QED
    BY <2>1, <2>2 DEF Standing
<1> QED
  BY <1>1, <1>2 DEF LockInv

LEMMA AuthorityStands ==
  ASSUME LockInv, [Next]_vars
  PROVE  LockInv'
<1>1. CASE identity' # identity
  <2>1. lock = "free"
    BY <1>1, IdentitySteps
  <2>2. \A w \in Workers : requests[w].pc # "locked"
    BY <2>1, OperatorAssumption DEF LockInv, OperatorAssumption
  <2>3. CASE requests' = requests
    BY <2>2, <2>3 DEF LockInv
  <2>4. CASE \E w \in Workers : Login(w)
    BY <2>2, <2>4, RequestKinds DEF LockInv, Login, Step
  <2>5. requests' = requests \/ \E w \in Workers : Login(w)
    BY <1>1 DEF Next, vars, identity, host, Provision, Disable, AskLogin, Enter, Change,
                Refuse, Logout, Command, Restart, ProposeIntent, Tick
  <2> QED
    BY <2>3, <2>4, <2>5
<1>2. CASE identity' = identity
  <2> USE <1>2 DEF identity
  <2>1. ASSUME NEW w \in Workers, AskLogin(w) PROVE LockInv'
    <3>1. PICK request \in {Idle, [pc |-> "login"]} : Step(w, request)
      BY <2>1 DEF AskLogin
    <3> QED
      BY <2>1, <3>1, RequestKinds, OneWorkerSteps DEF AskLogin
  <2>2. ASSUME NEW w \in Workers, Login(w) PROVE LockInv'
    BY <2>2, RequestKinds, OneWorkerSteps DEF Login
  <2>3. ASSUME NEW w \in Workers, Enter(w) PROVE LockInv'
    <3> DEFINE request == [requests[w] EXCEPT !.pc = "locked"]
    <3>1. requests[w] \in [pc : {"command", "locked"}, token : Tokens, to : Modes]
      BY <2>3 DEF Enter, LockInv, Requests, Idle
    <3>2. request \in Requests /\ request.token = requests[w].token /\ request.to = requests[w].to
      BY <3>1 DEF Requests
    <3>3. Standing(requests[w])
      BY <2>3 DEF Enter, Allowed, Authentic, Principal, RoleOf, Standing
    <3>4. lock = "free" /\ lock' = w /\ requests' = [requests EXCEPT ![w] = request]
      BY <2>3 DEF Enter, Step
    <3> HIDE DEF request
    <3>5. \A x \in Workers : requests[x].pc # "locked"
      BY <3>4, OperatorAssumption DEF LockInv, OperatorAssumption
    <3>6. \A x \in Workers : requests'[x].pc = "locked" => x = w /\ requests'[x] = request
      BY <3>4, <3>5 DEF LockInv
    <3>7. Standing(requests[w])'
      <4>1. requests'[w] = request
        BY <3>4 DEF LockInv
      <4> QED
        BY <3>2, <3>3, <4>1 DEF Standing
    <3>8. requests' \in [Workers -> Requests]
      BY <3>2, <3>4 DEF LockInv
    <3> QED
      BY <3>4, <3>6, <3>7, <3>8 DEF LockInv
  <2>4. ASSUME NEW w \in Workers, Change(w) PROVE LockInv'
    <3>1. lock = w
      BY <2>4 DEF Change, LockInv
    <3> QED
      BY <2>4, <3>1, RequestKinds, OneWorkerSteps DEF Change
  <2>5. ASSUME NEW w \in Workers, Refuse(w) PROVE LockInv'
    BY <2>5, RequestKinds, OneWorkerSteps DEF Refuse
  <2>6. ASSUME NEW w \in Workers, NEW t \in Tokens, NEW to \in Modes, Command(w, t, to)
        PROVE  LockInv'
    <3> DEFINE request == [pc |-> "command", token |-> t, to |-> to]
    <3>1. request \in Requests /\ request.pc # "locked"
      BY RequestKinds
    <3>2. Step(w, request) /\ lock' = lock
      BY <2>6 DEF Command
    <3> QED
      BY <3>1, <3>2, OneWorkerSteps
  <2>7. CASE Restart
    BY <2>7, RequestKinds DEF Restart, LockInv
  <2>8. CASE requests' = requests /\ lock' = lock
    BY <2>8 DEF LockInv, Standing
  <2>9. (requests' = requests /\ lock' = lock)
        \/ Restart
        \/ \E w \in Workers :
             \/ AskLogin(w) \/ Login(w) \/ Enter(w) \/ Change(w) \/ Refuse(w)
             \/ \E t \in Tokens, to \in Modes : Command(w, t, to)
    BY DEF Next, vars, host, Modes, Provision, Disable, Logout, ProposeIntent, Tick
  <2> QED
    BY <2>1, <2>2, <2>3, <2>4, <2>5, <2>6, <2>7, <2>8, <2>9
<1> QED
  BY <1>1, <1>2

\* The mode changes in the name of an admin that still is one when the canonical
\* database commits, and becomes normal only after a restore (operations.py 39-69).
THEOREM OnlyAdminsChangeTheMode == Spec => ModesChangeUnderAuthority
<1>1. Init => LockInv
  BY RequestKinds DEF Init, LockInv
<1>2. LockInv /\ [Next]_vars => LockInv'
  BY AuthorityStands
<1>3. ASSUME LockInv, [Next]_vars, mode' # mode
      PROVE  \E w \in Workers :
               /\ requests[w].pc = "locked" /\ requests[w].to = mode'
               /\ LET s == sessions[requests[w].token]  a == accounts[s.principal] IN
                    ~s.revoked /\ a.enabled /\ a.version = s.version /\ a.role = "ADMIN"
               /\ mode' = "NORMAL" => restored /\ ~unfenced
  <2>1. PICK w \in Workers : Change(w)
    BY <1>3 DEF Next, vars, canonical, Provision, Disable, AskLogin, Login, Enter, Refuse,
                Logout, Command, Restart, ProposeIntent, Tick
  <2>2. requests[w].pc = "locked" /\ requests[w].to = mode'
    BY <2>1 DEF Change
  <2>3. Standing(requests[w])
    BY <1>3, <2>2 DEF LockInv
  <2>4. mode' = "NORMAL" => MayRelease(requests[w].token)
    BY <2>1 DEF Change
  <2> QED
    BY <2>2, <2>3, <2>4 DEF Standing, MayRelease, RoleOf, Principal
<1>4. LockInv /\ [Next]_vars =>
        [mode' # mode =>
           \E w \in Workers :
             /\ requests[w].pc = "locked" /\ requests[w].to = mode'
             /\ LET s == sessions[requests[w].token]  a == accounts[s.principal] IN
                  ~s.revoked /\ a.enabled /\ a.version = s.version /\ a.role = "ADMIN"
             /\ mode' = "NORMAL" => restored /\ ~unfenced]_vars
  BY <1>3
<1> QED
  BY <1>1, <1>2, <1>4, PTL DEF Spec, ModesChangeUnderAuthority

=============================================================================
