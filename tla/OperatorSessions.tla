-------------------------- MODULE OperatorSessions --------------------------
(***************************************************************************)
(* Operators of a workspace and what they may do to its operational mode:  *)
(* application/operator.py over the identity database, and                 *)
(* application/operations.py as the threads of operator_host.py call it.   *)
(*                                                                         *)
(* A command that changes the mode is authenticated twice: the host looks  *)
(* the principal up, then the service begins a transaction of the identity *)
(* database, authenticates again and holds the transaction, which excludes *)
(* every other one, until the canonical database has committed.  Between   *)
(* these steps other threads, and the local administration, go on.         *)
(***************************************************************************)
EXTENDS Naturals, Sequences

CONSTANTS Operators, Tokens,
          Workers,          \* threads of the host (4 of them)
          SessionSeconds,
          Budget, Window,   \* logins the host lets through in that time (5 in 60 s)
          MaxTime, MaxRestarts

ASSUME OperatorAssumption ==
  /\ {SessionSeconds, Budget, Window} \subseteq Nat \ {0}
  /\ {MaxTime, MaxRestarts} \subseteq Nat
  /\ "free" \notin Workers

VARIABLES now,
          accounts, sessions, audit,   \* identity database
          lock,                        \* worker that holds its write transaction, or "free"
          mode, restored, unfenced,    \* canonical database: mode, a restore is on record,
                                       \* some intent is not held
          charged,                     \* times of the logins in the host's bucket
          requests,                    \* what each worker is about
          restarts

identity == <<accounts, sessions, audit>>
canonical == <<mode, restored, unfenced>>
host == <<charged, requests, restarts>>
vars == <<now, identity, lock, canonical, host>>

\* OperatorRole: what sets viewers, auditors and operators apart is only what they may read.
Roles == {"OTHER", "ADMIN"}

NoAccount == [enabled |-> FALSE]

NoSession == [revoked |-> TRUE]

NewAccount(role) == [role |-> role, enabled |-> TRUE, version |-> 1]

NewSession(o) == [principal |-> o, version |-> accounts[o].version,
                  expires |-> now + SessionSeconds, revoked |-> FALSE]

Idle == [pc |-> "idle"]

\* A new workspace, or one that was restored: its intents are held.
Init ==
  /\ now = 0
  /\ accounts = [o \in Operators |-> NoAccount]
  /\ sessions = [t \in Tokens |-> NoSession]
  /\ audit = <<>>
  /\ lock = "free"
  /\ restored \in BOOLEAN /\ unfenced = FALSE
  /\ mode = IF restored THEN "RESTORE_QUARANTINE" ELSE "NORMAL"
  /\ charged = <<>>
  /\ requests = [w \in Workers |-> Idle]
  /\ restarts = 0

-----------------------------------------------------------------------------
\* OperatorService._principal.
Authentic(t) ==
  /\ sessions[t] # NoSession
  /\ ~sessions[t].revoked /\ now < sessions[t].expires
  /\ accounts[sessions[t].principal].enabled
  /\ accounts[sessions[t].principal].version = sessions[t].version

Principal(t) == sessions[t].principal

RoleOf(t) == accounts[Principal(t)].role

Record(by, command, target) == audit' = Append(audit, [by |-> by, command |-> command, target |-> target])

\* provision_local: an operation of the local administration, ids are unique.
Provision(o, role) ==
  /\ lock = "free" /\ accounts[o] = NoAccount
  /\ accounts' = [accounts EXCEPT ![o] = NewAccount(role)]
  /\ Record(o, "local_provision", o)
  /\ UNCHANGED <<now, sessions, lock, canonical, host>>

\* Mutant: disabling an account does not end the use of its credential.
AnyAccount(o) == accounts[o] # NoAccount

MayLogIn(o) == accounts[o].enabled

\* login, with the credential of o.
OpenSession(o, t) ==
  /\ MayLogIn(o) /\ sessions[t] = NoSession
  /\ sessions' = [sessions EXCEPT ![t] = NewSession(o)]
  /\ Record(o, "session_created", o)

\* Mutant: whoever is logged in administers the accounts.
AnyRole(t) == Authentic(t)

MayAdminister(t) == Authentic(t) /\ RoleOf(t) = "ADMIN"

\* The store's disable, of the version the admin has seen.
DisableAccount(o, expected) ==
  /\ accounts[o].enabled /\ accounts[o].version = expected
  /\ accounts' = [accounts EXCEPT ![o] = [role |-> @.role, enabled |-> FALSE,
                                          version |-> @.version + 1]]

\* An admin may also disable itself, and the last one.
Disable(t, target, expected) ==
  /\ lock = "free"
  /\ MayAdminister(t)
  /\ DisableAccount(target, expected)
  /\ Record(Principal(t), "disabled", target)
  /\ UNCHANGED <<now, sessions, lock, canonical, host>>

-----------------------------------------------------------------------------
Step(w, request) == requests' = [requests EXCEPT ![w] = request]

\* login_allowed: one bucket, charged before the credential is looked at.
AskLogin(w) ==
  LET recent == SelectSeq(charged, LAMBDA at : now - at < Window)
      allowed == Len(recent) < Budget
  IN /\ requests[w] = Idle
     /\ charged' = IF allowed THEN Append(recent, now) ELSE recent
     /\ Step(w, IF allowed THEN [pc |-> "login"] ELSE Idle)
     /\ UNCHANGED <<now, identity, lock, canonical, restarts>>

Login(w) ==
  /\ requests[w].pc = "login" /\ lock = "free"
  /\ \/ \E o \in Operators, t \in Tokens : OpenSession(o, t)
     \/ UNCHANGED <<sessions, audit>>      \* not a credential, or of a disabled account
  /\ Step(w, Idle)
  /\ UNCHANGED <<now, accounts, lock, canonical, charged, restarts>>

Logout(w, t) ==
  /\ requests[w] = Idle /\ lock = "free"
  /\ Authentic(t)
  /\ sessions' = [sessions EXCEPT ![t].revoked = TRUE]
  /\ Record(Principal(t), "session_revoked", Principal(t))
  /\ UNCHANGED <<now, accounts, lock, canonical, host>>

\* The host finds the principal and its workspace in a transaction of their own.
Command(w, t, to) ==
  /\ requests[w] = Idle /\ lock = "free"
  /\ Authentic(t)
  /\ Step(w, [pc |-> "command", token |-> t, to |-> to])
  /\ UNCHANGED <<now, identity, lock, canonical, charged, restarts>>

\* Who may not restrict is refused here, who may not release only below.
Allowed(t, to) == Authentic(t) /\ (to # "NORMAL" => RoleOf(t) = "ADMIN")

\* Mutant: the identity transaction ends when it has authenticated.
EnterUnlocked(w) ==
  /\ requests[w].pc = "command" /\ lock = "free"
  /\ Allowed(requests[w].token, requests[w].to)
  /\ Step(w, [requests[w] EXCEPT !.pc = "locked"])
  /\ UNCHANGED <<now, identity, lock, canonical, charged, restarts>>

Enter(w) ==
  /\ requests[w].pc = "command" /\ lock = "free"
  /\ Allowed(requests[w].token, requests[w].to)
  /\ lock' = w
  /\ Step(w, [requests[w] EXCEPT !.pc = "locked"])
  /\ UNCHANGED <<now, identity, canonical, charged, restarts>>

\* A release is decided on what the canonical transaction finds.
MayRelease(t) ==
  /\ RoleOf(t) = "ADMIN"
  /\ mode = "RESTORE_QUARANTINE" /\ restored /\ ~unfenced

\* Quarantine is not left by a restriction.
Change(w) ==
  LET t == requests[w].token  to == requests[w].to IN
  /\ requests[w].pc = "locked"
  /\ IF to = "NORMAL" THEN MayRelease(t) ELSE mode = "RESTORE_QUARANTINE" => to = mode
  /\ mode' = to
  /\ lock' = "free" /\ Step(w, Idle)
  /\ UNCHANGED <<now, identity, restored, unfenced, charged, restarts>>

\* Refused, or the storage fails; an open identity transaction is rolled back.
Refuse(w) ==
  /\ requests[w] # Idle
  /\ lock' = IF lock = w THEN "free" ELSE lock
  /\ Step(w, Idle)
  /\ UNCHANGED <<now, identity, canonical, charged, restarts>>

\* The host dies and starts again: its bucket is empty, its connections are gone.
Restart ==
  /\ restarts < MaxRestarts
  /\ restarts' = restarts + 1
  /\ lock' = "free" /\ requests' = [w \in Workers |-> Idle] /\ charged' = <<>>
  /\ UNCHANGED <<now, identity, canonical>>

\* A governed run proposes an action.
ProposeIntent ==
  /\ unfenced' = TRUE
  /\ UNCHANGED <<now, identity, lock, mode, restored, host>>

Tick ==
  /\ now < MaxTime
  /\ now' = now + 1
  /\ UNCHANGED <<identity, lock, canonical, host>>

Next ==
  \/ \E o \in Operators, role \in Roles : Provision(o, role)
  \/ \E t \in Tokens, target \in Operators, expected \in {1, 2} : Disable(t, target, expected)
  \/ \E w \in Workers :
       \/ AskLogin(w) \/ Login(w) \/ Enter(w) \/ Change(w) \/ Refuse(w)
       \/ \E t \in Tokens : Logout(w, t)
       \/ \E t \in Tokens, to \in {"NORMAL", "MAINTENANCE", "RESTORE_QUARANTINE"} : Command(w, t, to)
  \/ Restart \/ ProposeIntent \/ Tick

Spec == Init /\ [][Next]_vars

-----------------------------------------------------------------------------
\* Whatever was disabled or logged out while a command was under way, the mode
\* changes in the name of an enabled admin whose session stands, and becomes
\* normal only after a restore whose intents are all held (operations.py 39-69).
ModesChangeUnderAuthority ==
  [][mode' # mode =>
       \E w \in Workers :
         /\ requests[w].pc = "locked" /\ requests[w].to = mode'
         /\ LET s == sessions[requests[w].token]  a == accounts[s.principal] IN
              ~s.revoked /\ a.enabled /\ a.version = s.version /\ a.role = "ADMIN"
         /\ mode' = "NORMAL" => restored /\ ~unfenced]_vars

\* Nothing is on record in the name of an operator after the record of its
\* disabling: neither a login with its credential nor a command of a session
\* that was open (operator.py 78-162).
NothingAfterDisabling ==
  \A i, j \in DOMAIN audit :
    i < j /\ audit[i].command = "disabled" => audit[j].by # audit[i].target

\* Two admins that disable each other do not both succeed: a workspace that lost
\* its last admin lost it by an admin that disabled itself (operator.py 139-155).
AnAdminRemains ==
  (\E i \in DOMAIN audit : audit[i].command = "disabled") =>
    \/ \E o \in Operators : accounts[o].enabled /\ accounts[o].role = "ADMIN"
    \/ \E i \in DOMAIN audit : audit[i].command = "disabled" /\ audit[i].by = audit[i].target
=============================================================================
