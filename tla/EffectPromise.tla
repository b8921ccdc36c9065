---------------------------- MODULE EffectPromise ----------------------------
(***************************************************************************)
(* What the governed runtime promises about one consequential action: it   *)
(* is carried out only under a permission nobody took back before the      *)
(* commitment, at most once, and what is later recorded about its outcome  *)
(* is either the truth or an admission of ignorance, recorded for good.    *)
(* Runs, iterations, drivers, versions and clocks are not mentioned.       *)
(***************************************************************************)
CONSTANT Ids

VARIABLES
  permission,  \* permission[i] \in {"none", "asked", "given", "gone"}
  committed,   \* the actions the runtime has bound itself to carry out
  effect,      \* effect[i] \in {"none", "success", "failure"}: what really happened
  verdict      \* verdict[i] \in {"none", "observed", "observed_failure", "unknown"}

vars == <<permission, committed, effect, verdict>>

Init ==
  /\ permission = [i \in Ids |-> "none"]
  /\ committed = {}
  /\ effect  = [i \in Ids |-> "none"]
  /\ verdict = [i \in Ids |-> "none"]

\* Permission is asked for, or refused at once by the policy.
Ask(i) ==
  /\ permission[i] = "none"
  /\ \E p \in {"asked", "gone"} : permission' = [permission EXCEPT ![i] = p]
  /\ UNCHANGED <<committed, effect, verdict>>

Give(i) ==
  /\ permission[i] = "asked"
  /\ permission' = [permission EXCEPT ![i] = "given"]
  /\ UNCHANGED <<committed, effect, verdict>>

\* Permission is refused, withdrawn or lapses: possible until the commitment.
Withdraw(i) ==
  /\ permission[i] \in {"asked", "given"} /\ i \notin committed
  /\ permission' = [permission EXCEPT ![i] = "gone"]
  /\ UNCHANGED <<committed, effect, verdict>>

\* Commitment, under a given permission or one the policy grants on the spot.
Commit(i) ==
  /\ permission[i] \in {"none", "given"} /\ i \notin committed
  /\ permission' = [permission EXCEPT ![i] = "given"]
  /\ committed' = committed \cup {i}
  /\ UNCHANGED <<effect, verdict>>

Happen(i, e) ==
  /\ i \in committed /\ effect[i] = "none"
  /\ effect' = [effect EXCEPT ![i] = e]
  /\ UNCHANGED <<permission, committed, verdict>>

Learn(i, v) ==
  /\ i \in committed /\ verdict[i] = "none"
  /\ v = "observed" => effect[i] = "success"
  /\ v = "observed_failure" => effect[i] = "failure"
  /\ verdict' = [verdict EXCEPT ![i] = v]
  /\ UNCHANGED <<permission, committed, effect>>

Next == \E i \in Ids :
  \/ Ask(i) \/ Give(i) \/ Withdraw(i) \/ Commit(i)
  \/ \E e \in {"success", "failure"} : Happen(i, e)
  \/ \E v \in {"observed", "observed_failure", "unknown"} : Learn(i, v)

Spec == Init /\ [][Next]_vars
=============================================================================
