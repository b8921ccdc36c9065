----------------------- MODULE GovernedExecutionProofs -----------------------
(***************************************************************************)
(* Theorems about GovernedExecution, and that it implements EffectPromise, *)
(* for every set of identifiers, drivers and effects, and all bounds.      *)
(*                                                                         *)
(* What holds of an action while its driver is between two transactions    *)
(* is the heart of each proof: the invariants tie the position and the     *)
(* locals of a driver to the store and to the ledger.                      *)
(***************************************************************************)
EXTENDS GovernedRefinement, FiniteSetTheorems, TLAPS

Positions == {"idle", "claim", "model", "invoke", "dispatch", "landed", "settle",
              "fail", "cancelled", "resume", "rewait"}

RunRecords == [status : {"RUNNING", "WAITING", "SUCCEEDED", "FAILED", "CANCELLED"},
               version : Nat, pending : BOOLEAN, iteration : Nat]

ParentRecords ==
  [goal : {"ACTIVE", "CANCELLED"},
   task : {"IN_PROGRESS", "READY", "COMPLETED", "CANCELLED"},
   attempt : {"RUNNING", "SUCCEEDED", "FAILED", "CANCELLED"},
   execution : {"RUNNING", "WAITING", "SUCCEEDED", "FAILED", "CANCELLED"},
   ver : Nat]

IntentRecords ==
  [effect : {"none", "ALLOW", "REQUIRED", "DENY"}, policy : Nat, expires : Nat,
   iteration : Nat, decision : {"none", "APPROVED", "REJECTED", "REVOKED", "EXPIRED"},
   cancelled : BOOLEAN, consumed : BOOLEAN]

InvocationRecords ==
  [status : {"none", "RUNNING", "SUCCEEDED", "FAILED", "CANCELLED"}, runVersion : Nat,
   parents : Nat, revision : Nat]

Locals == [v : Nat, pv : Nat, id : Ids \cup {"none"}, flow : {"drive", "resume"}]

StoreOK ==
  /\ run \in RunRecords /\ parents \in ParentRecords
  /\ intents \in [Ids -> IntentRecords]
  /\ invocations \in [Ids -> InvocationRecords]
  /\ receipts \in [Ids -> {"none", "observed", "observed_failure", "unknown"}]

WorldOK ==
  /\ ledger \in [Ids -> {"none", "success", "failure"}] /\ entered \in [Ids -> Nat]
  /\ now \in Nat /\ policy \in Nat /\ tool \in [enabled : BOOLEAN, revision : Nat]

\* A driver past its model call, or resuming, has an action.
DriversOK ==
  /\ pc \in [Drivers -> Positions] /\ loc \in [Drivers -> Locals]
  /\ rec \in [pc : {"idle", "lookup", "commit", "repair"}, id : Ids \cup {"none"},
              seen : {"none", "success", "failure", "unknown"}]
  /\ \A d \in Drivers :
       pc[d] \in {"invoke", "dispatch", "landed", "settle", "resume", "rewait"} => loc[d].id \in Ids
  /\ rec.pc # "idle" => rec.id \in Ids

GovernedOK == StoreOK /\ WorldOK /\ DriversOK

-----------------------------------------------------------------------------
\* The helpers.

LEMMA Evolves ==
  ASSUME run \in RunRecords,
         NEW status \in {"RUNNING", "WAITING", "SUCCEEDED", "FAILED", "CANCELLED"},
         NEW pending \in BOOLEAN
  PROVE  /\ Evolved(status, pending) \in RunRecords
         /\ Evolved(status, pending).status = status
         /\ Evolved(status, pending).pending = pending
         /\ Evolved(status, pending).version = run.version + 1
         /\ Evolved(status, pending).iteration = run.iteration
BY DEF Evolved, RunRecords

Kinds == {"goal", "task", "attempt", "execution"}

LEMMA Moves ==
  ASSUME NEW p \in ParentRecords, NEW changes, DOMAIN changes \subseteq Kinds,
         "goal" \in DOMAIN changes => changes.goal = "CANCELLED",
         "task" \in DOMAIN changes => changes.task \in {"READY", "COMPLETED", "CANCELLED"},
         "attempt" \in DOMAIN changes => changes.attempt \in {"SUCCEEDED", "FAILED", "CANCELLED"},
         "execution" \in DOMAIN changes =>
           changes.execution \in {"RUNNING", "WAITING", "SUCCEEDED", "FAILED", "CANCELLED"}
  PROVE  /\ Move(p, changes) \in ParentRecords
         /\ Move(p, changes).goal = IF "goal" \in DOMAIN changes THEN changes.goal ELSE p.goal
         /\ Move(p, changes).task = IF "task" \in DOMAIN changes THEN changes.task ELSE p.task
         /\ Move(p, changes).attempt =
              IF "attempt" \in DOMAIN changes THEN changes.attempt ELSE p.attempt
         /\ Move(p, changes).execution =
              IF "execution" \in DOMAIN changes THEN changes.execution ELSE p.execution
<1>1. IsFiniteSet(Kinds)
  <2>1. Kinds = ((({} \cup {"goal"}) \cup {"task"}) \cup {"attempt"}) \cup {"execution"}
    BY DEF Kinds
  <2>2. IsFiniteSet(((({} \cup {"goal"}) \cup {"task"}) \cup {"attempt"}) \cup {"execution"})
    BY FS_EmptySet, FS_AddElement
  <2> QED
    BY <2>1, <2>2
<1>2. Cardinality(DOMAIN changes) \in Nat
  BY <1>1, FS_Subset, FS_CardinalityType
<1> HIDE DEF Kinds
<1> QED
  BY <1>2 DEF Move, ParentRecords

LEMMA Stops ==
  ASSUME StoreOK, NEW cancel \in BOOLEAN, Stopped(cancel)
  PROVE  /\ run' \in RunRecords /\ parents' \in ParentRecords
         /\ run'.status \in {"FAILED", "CANCELLED"} /\ ~ run'.pending
         /\ parents'.attempt # "RUNNING" /\ parents'.task # "IN_PROGRESS"
         /\ parents'.execution \notin {"RUNNING", "WAITING"}
<1> DEFINE cancelled == cancel \/ parents.execution = "CANCELLED" \/ parents.task = "CANCELLED"
           final == IF cancelled THEN "CANCELLED" ELSE "FAILED"
           changed == {k \in {"attempt", "task", "execution"} :
                        \/ k = "attempt" /\ parents.attempt = "RUNNING"
                        \/ k = "task" /\ parents.task = "IN_PROGRESS"
                        \/ k = "execution" /\ parents.execution \in {"RUNNING", "WAITING"}}
           changes == [k \in changed |-> IF k = "task" /\ ~cancelled THEN "READY" ELSE final]
<1>1. run' = Evolved(final, FALSE) /\ parents' = Move(parents, changes)
  BY DEF Stopped
<1>2. final \in {"FAILED", "CANCELLED"}
  OBVIOUS
<1>3. run' \in RunRecords /\ run'.status \in {"FAILED", "CANCELLED"} /\ ~ run'.pending
  BY <1>1, <1>2, Evolves DEF StoreOK
<1>4. DOMAIN changes = changed /\ changed \subseteq Kinds
  BY DEF Kinds
<1>5. /\ "goal" \notin changed
      /\ "task" \in changed => changes.task \in {"READY", "CANCELLED"}
      /\ "attempt" \in changed => changes.attempt \in {"FAILED", "CANCELLED"}
      /\ "execution" \in changed => changes.execution \in {"FAILED", "CANCELLED"}
  OBVIOUS
<1>6. /\ "task" \in changed <=> parents.task = "IN_PROGRESS"
      /\ "attempt" \in changed <=> parents.attempt = "RUNNING"
      /\ "execution" \in changed <=> parents.execution \in {"RUNNING", "WAITING"}
  OBVIOUS
<1>7. parents \in ParentRecords
  BY DEF StoreOK
<1> HIDE DEF changes, changed
<1>8. /\ parents' \in ParentRecords
      /\ parents'.task = IF "task" \in changed THEN changes.task ELSE parents.task
      /\ parents'.attempt = IF "attempt" \in changed THEN changes.attempt ELSE parents.attempt
      /\ parents'.execution = IF "execution" \in changed THEN changes.execution ELSE parents.execution
  BY <1>1, <1>4, <1>5, <1>7, Moves
<1> QED
  BY <1>3, <1>5, <1>6, <1>8


-----------------------------------------------------------------------------
\* Types.

LEMMA TypesStart == Init => GovernedOK
BY DEF Init, GovernedOK, StoreOK, WorldOK, DriversOK, NoIntent, NoInvocation, NoLocals,
       RunRecords, ParentRecords, IntentRecords, InvocationRecords, Locals, Positions

\* The steps of a driver that leave the store alone.
LEMMA LocalSteps ==
  ASSUME GovernedOK, NEW d \in Drivers,
         \/ BeginDrive(d) \/ RefuseIteration(d) \/ ModelFails(d) \/ DecisionStale(d)
         \/ \E i \in Ids : DecideCallTool(d, i)
         \/ InvokeRefused(d) \/ InvokeBlocked(d) \/ ReconcileFails(d) \/ ResumeDenied(d)
         \/ \E answer \in {"success", "failure"} : Land(d, answer)
  PROVE  GovernedOK'
<1> USE DEF db, env, Goto, Raise
<1>1. StoreOK'
  BY DEF GovernedOK, StoreOK, BeginDrive, RefuseIteration, ModelFails, DecisionStale, DecideCallTool,
         InvokeRefused, InvokeBlocked, ReconcileFails, ResumeDenied, Land
<1>2. WorldOK'
  <2>1. ASSUME NEW answer \in {"success", "failure"}, Land(d, answer)
        PROVE  WorldOK'
    <3>1. loc[d].id \in Ids
      BY <2>1 DEF GovernedOK, DriversOK, Land
    <3> QED
      BY <2>1, <3>1 DEF GovernedOK, WorldOK, Land
  <2>2. CASE UNCHANGED remote
    BY <2>2 DEF remote, GovernedOK, WorldOK, BeginDrive, RefuseIteration, ModelFails, DecisionStale,
                DecideCallTool, InvokeRefused, InvokeBlocked, ReconcileFails, ResumeDenied, Land
  <2>3. UNCHANGED remote \/ \E answer \in {"success", "failure"} : Land(d, answer)
    BY DEF BeginDrive, RefuseIteration, ModelFails, DecisionStale, DecideCallTool,
           InvokeRefused, InvokeBlocked, ReconcileFails, ResumeDenied
  <2> QED
    BY <2>1, <2>2, <2>3
<1>3. DriversOK'
  <2>1. CASE BeginDrive(d)
    BY <2>1 DEF GovernedOK, DriversOK, BeginDrive, Positions, NoLocals, Locals
  <2>2. ASSUME NEW i \in Ids, DecideCallTool(d, i)
        PROVE  DriversOK'
    BY <2>2 DEF GovernedOK, DriversOK, DecideCallTool, Positions, Locals
  <2>3. CASE RefuseIteration(d) \/ ModelFails(d) \/ DecisionStale(d) \/ InvokeRefused(d)
               \/ InvokeBlocked(d) \/ ReconcileFails(d) \/ ResumeDenied(d)
    BY <2>3 DEF GovernedOK, DriversOK, Positions, RefuseIteration, ModelFails, DecisionStale,
                InvokeRefused, InvokeBlocked, InvokeOpen, ReconcileFails, ResumeDenied
  <2>4. ASSUME NEW answer \in {"success", "failure"}, Land(d, answer)
        PROVE  DriversOK'
    BY <2>4 DEF GovernedOK, DriversOK, Positions, Land
  <2> QED
    BY <2>1, <2>2, <2>3, <2>4
<1> QED
  BY <1>1, <1>2, <1>3 DEF GovernedOK

\* The action a claim works with, new or validated.
LEMMA CandidateTypes ==
  ASSUME GovernedOK, NEW i \in Ids, NEW r \in Candidates(i)
  PROVE  /\ r \in IntentRecords /\ r.effect # "none" /\ r.policy = policy
         /\ intents[i].effect # "none" => r = intents[i]
         /\ intents[i].effect = "none" => r.decision = "none" /\ ~ r.cancelled /\ ~ r.consumed
                                          /\ r.iteration = run.iteration
<1>1. CASE intents[i].effect = "none"
  <2>1. PICK e \in Effects : r = Prepared(e)
    BY <1>1 DEF Candidates
  <2>2. e \in {"ALLOW", "REQUIRED", "DENY"} /\ Deadline \in Nat /\ Expiry \in Nat
    BY GovernedAssumption
  <2>3. policy \in Nat /\ run.iteration \in Nat /\ now \in Nat
    BY DEF GovernedOK, StoreOK, WorldOK, RunRecords
  <2> QED
    BY <1>1, <2>1, <2>2, <2>3 DEF Prepared, IntentRecords
<1>2. CASE intents[i].effect # "none"
  <2>1. r = intents[i] /\ intents[i] \in IntentRecords /\ Valid(i)
    BY <1>2 DEF Candidates, GovernedOK, StoreOK
  <2> QED
    BY <1>2, <2>1 DEF Valid
<1> QED
  BY <1>1, <1>2

\* A driver moves to a position where it needs no action, or keeps its action.
LEMMA DriversStayOK ==
  ASSUME DriversOK, NEW d \in Drivers, NEW l \in Positions, Goto(d, l),
         l \in {"invoke", "dispatch", "landed", "settle", "resume", "rewait"} => loc'[d].id \in Ids,
         rec' = rec, loc' = loc
  PROVE  DriversOK'
BY DEF DriversOK, Goto

\* invoke: its transaction ends the claim, waits, or claims the dispatch.
LEMMA InvokeSteps ==
  ASSUME GovernedOK, NEW d \in Drivers,
         InvokeRejected(d) \/ InvokeDenied(d) \/ InvokeWaits(d) \/ InvokeClaims(d)
  PROVE  GovernedOK'
<1> DEFINE i == loc[d].id
<1>1. i \in Ids /\ pc[d] = "invoke"
  BY DEF GovernedOK, DriversOK, InvokeRejected, InvokeDenied, InvokeWaits, InvokeClaims, InvokeOpen
<1>2. WorldOK'
  BY DEF env, remote, GovernedOK, WorldOK, InvokeRejected, InvokeDenied, InvokeWaits, InvokeClaims
<1>3. DriversOK'
  <2>1. rec' = rec /\ loc' = loc
    BY DEF InvokeRejected, InvokeDenied, InvokeWaits, InvokeClaims
  <2>2. \/ Goto(d, "claim") \/ Goto(d, "idle")
        \/ Goto(d, "dispatch")
    BY DEF InvokeRejected, InvokeDenied, InvokeWaits, InvokeClaims, Proceed, Goto
  <2> QED
    BY <1>1, <2>1, <2>2, DriversStayOK DEF GovernedOK, Positions
<1>4. intents' \in [Ids -> IntentRecords]
  <2>1. UNCHANGED intents \/ \E r \in Candidates(i) : intents' = [intents EXCEPT ![i] = r]
    BY DEF InvokeRejected, InvokeDenied, InvokeWaits, InvokeClaims
  <2> QED
    BY <1>1, <2>1, CandidateTypes DEF GovernedOK, StoreOK
<1>5. run' \in RunRecords
  <2>1. \E status \in {run.status, "RUNNING", "WAITING"}, pending \in BOOLEAN :
          run' = Evolved(status, pending)
    BY DEF InvokeRejected, InvokeDenied, InvokeWaits, InvokeClaims, Observed, GovernedOK, StoreOK,
           RunRecords
  <2> QED
    BY <2>1, Evolves DEF GovernedOK, StoreOK, RunRecords
<1>6. parents' \in ParentRecords
  <2>1. parents' = parents \/ parents' = Move(parents, [execution |-> "WAITING"])
    BY DEF InvokeRejected, InvokeDenied, InvokeWaits, InvokeClaims
  <2> QED
    BY <2>1, Moves DEF GovernedOK, StoreOK, Kinds
<1>7. invocations' \in [Ids -> InvocationRecords] /\ receipts' = receipts
  <2>1. CASE InvokeClaims(d)
    <3>1. [status |-> "RUNNING", runVersion |-> run.version + 1, parents |-> ParentVersions,
           revision |-> tool.revision] \in InvocationRecords
      BY DEF GovernedOK, StoreOK, WorldOK, RunRecords, ParentRecords, ParentVersions,
             InvocationRecords
    <3> QED
      BY <1>1, <2>1, <3>1 DEF InvokeClaims, GovernedOK, StoreOK
  <2>2. CASE ~ InvokeClaims(d)
    BY <2>2 DEF InvokeRejected, InvokeDenied, InvokeWaits, GovernedOK, StoreOK
  <2> QED
    BY <2>1, <2>2
<1> QED
  BY <1>2, <1>3, <1>4, <1>5, <1>6, <1>7 DEF GovernedOK, StoreOK


Errors == {"none", "REJECTED", "TIMEOUT", "CANCELLED", "INTERNAL", "STALE_RESULT"}

\* Only what was consumed changes of an intent when a result is recorded or repaired.
SameIntent(j) ==
  /\ intents'[j].effect = intents[j].effect /\ intents'[j].decision = intents[j].decision
  /\ intents'[j].cancelled = intents[j].cancelled /\ intents'[j].policy = intents[j].policy
  /\ intents'[j].iteration = intents[j].iteration /\ intents'[j].expires = intents[j].expires

LEMMA Consumption ==
  ASSUME StoreOK, NEW i \in Ids,
         intents' = [intents EXCEPT ![i].consumed = @ \/ intents[i].effect = "REQUIRED"]
  PROVE  intents' \in [Ids -> IntentRecords] /\ \A j \in Ids : SameIntent(j)
<1> DEFINE c == intents[i].consumed \/ intents[i].effect = "REQUIRED"
<1>1. intents[i] \in IntentRecords /\ c \in BOOLEAN
  BY DEF StoreOK
<1>2. intents' = [intents EXCEPT ![i] = [intents[i] EXCEPT !.consumed = c]]
  OBVIOUS
<1> HIDE DEF c
<1>3. LET r == [intents[i] EXCEPT !.consumed = c] IN
        /\ r \in IntentRecords
        /\ r.effect = intents[i].effect /\ r.decision = intents[i].decision
        /\ r.cancelled = intents[i].cancelled /\ r.policy = intents[i].policy
        /\ r.iteration = intents[i].iteration /\ r.expires = intents[i].expires
  BY <1>1 DEF IntentRecords
<1> DEFINE new == [intents[i] EXCEPT !.consumed = c]
<1>4. intents' = [intents EXCEPT ![i] = new] /\ new \in IntentRecords
  BY <1>2, <1>3
<1> HIDE DEF new
<1>5. intents'[i] = new /\ \A j \in Ids \ {i} : intents'[j] = intents[j]
  BY <1>4 DEF StoreOK
<1>6. intents' \in [Ids -> IntentRecords]
  BY <1>4 DEF StoreOK
<1>7. SameIntent(i)
  BY <1>3, <1>5 DEF new, SameIntent
<1> QED
  BY <1>5, <1>6, <1>7 DEF SameIntent

LEMMA Recording ==
  ASSUME StoreOK, NEW i \in Ids, NEW error \in Errors, Record(i, error)
  PROVE  /\ intents' \in [Ids -> IntentRecords] /\ \A j \in Ids : SameIntent(j)
         /\ invocations' \in [Ids -> InvocationRecords]
         /\ receipts' \in [Ids -> {"none", "observed", "observed_failure", "unknown"}]
         /\ receipts[i] = "none" /\ receipts'[i] = Outcome(error) /\ receipts'[i] # "none"
         /\ \A j \in Ids : j # i => receipts'[j] = receipts[j] /\ invocations'[j] = invocations[j]
         /\ invocations'[i].status # "none"
         /\ \A j \in Ids : invocations'[j].runVersion = invocations[j].runVersion
<1>1. Finished(error) \in {"SUCCEEDED", "FAILED", "CANCELLED"}
  BY DEF Finished
<1>2. Outcome(error) \in {"observed", "observed_failure", "unknown"}
  BY DEF Outcome
<1>3. invocations[i] \in InvocationRecords
  BY DEF StoreOK
<1> DEFINE new == [invocations[i] EXCEPT !.status = Finished(error)]
<1>4. /\ new \in InvocationRecords /\ new.status # "none"
      /\ new.runVersion = invocations[i].runVersion
  BY <1>1, <1>3 DEF InvocationRecords
<1>5. invocations' = [invocations EXCEPT ![i] = new]
  BY DEF Record
<1> HIDE DEF new
<1>6. /\ invocations' \in [Ids -> InvocationRecords] /\ invocations'[i].status # "none"
      /\ \A j \in Ids : j # i => invocations'[j] = invocations[j]
      /\ invocations'[i].runVersion = invocations[i].runVersion
  BY <1>4, <1>5 DEF StoreOK
<1>7. intents' \in [Ids -> IntentRecords] /\ \A j \in Ids : SameIntent(j)
  BY Consumption DEF Record
<1> QED
  BY <1>2, <1>6, <1>7 DEF Record, StoreOK

LEMMA ErrorsOfCalls ==
  ASSUME NEW d, NEW i, NEW error
  PROVE  /\ CallErrors(d) \subseteq Errors
         /\ error \in Errors => FinalError(i, error) \in Errors
         /\ FinalError(i, error) \in {"none", "REJECTED"} => FinalError(i, error) = error
BY DEF CallErrors, FinalError, Errors

LEMMA ReconcileSteps ==
  ASSUME GovernedOK, NEW d \in Drivers, NEW error, Reconcile(d, error)
  PROVE  /\ GovernedOK'
         /\ loc[d].id \in Ids /\ error \in Errors
         /\ Record(loc[d].id, FinalError(loc[d].id, error))
         /\ pc[d] \in {"dispatch", "landed", "settle"}
         /\ pc' = [pc EXCEPT ![d] = pc'[d]]
         /\ pc'[d] \in {"fail", "rewait", "cancelled", "idle", "claim"}
<1> DEFINE i == loc[d].id
<1>1. i \in Ids /\ pc[d] \in {"dispatch", "landed", "settle"} /\ loc' = loc /\ rec' = rec
  BY DEF GovernedOK, DriversOK, Reconcile
<1>2. error \in Errors /\ FinalError(i, error) \in Errors /\ Record(i, FinalError(i, error))
  BY ErrorsOfCalls DEF Reconcile, Errors
<1>3. /\ intents' \in [Ids -> IntentRecords] /\ invocations' \in [Ids -> InvocationRecords]
      /\ receipts' \in [Ids -> {"none", "observed", "observed_failure", "unknown"}]
  BY <1>1, <1>2, Recording DEF GovernedOK
<1>4. run' \in RunRecords /\ parents' = parents
  <2>1. Observed \in RunRecords
    BY Evolves DEF Observed, GovernedOK, StoreOK, RunRecords
  <2> QED
    BY <2>1 DEF Reconcile, GovernedOK, StoreOK
<1>5. \E l \in {"fail", "rewait", "cancelled", "idle", "claim"} : Goto(d, l)
  BY DEF Reconcile, AfterReconcile, Raise, Proceed
<1>6. pc' = [pc EXCEPT ![d] = pc'[d]] /\ pc'[d] \in {"fail", "rewait", "cancelled", "idle", "claim"}
  BY <1>5 DEF Goto, GovernedOK, DriversOK
<1>7. DriversOK'
  BY <1>1, <1>5, DriversStayOK DEF GovernedOK, Positions
<1>8. WorldOK'
  BY DEF Reconcile, remote, env, GovernedOK, WorldOK
<1> QED
  BY <1>1, <1>2, <1>3, <1>4, <1>6, <1>7, <1>8 DEF GovernedOK, StoreOK


\* The other steps of a driver move its run, and intents only when they expire.
RunStep(d) ==
  \/ Fail(d) \/ ClaimIteration(d) \/ DecideContinue(d) \/ DecideWait(d)
  \/ \E lastTask \in BOOLEAN : DecideComplete(d, lastTask)
  \/ ResumeIntent(d) \/ Rewait(d)

LEMMA Completions ==
  ASSUME StoreOK, NEW d \in Drivers, NEW lastTask \in BOOLEAN, DecideComplete(d, lastTask)
  PROVE  /\ run' \in RunRecords /\ parents' \in ParentRecords
         /\ run'.status = "SUCCEEDED" /\ ~ run'.pending
         /\ parents'.task = "COMPLETED" /\ parents'.attempt = "SUCCEEDED"
<1> DEFINE changed == {"attempt", "task"} \cup (IF lastTask THEN {"execution"} ELSE {})
           changes == [k \in changed |-> IF k = "task" THEN "COMPLETED" ELSE "SUCCEEDED"]
<1>1. run' = Evolved("SUCCEEDED", FALSE) /\ parents' = Move(parents, changes)
  BY DEF DecideComplete
<1>2. run' \in RunRecords /\ run'.status = "SUCCEEDED" /\ ~ run'.pending
  BY <1>1, Evolves DEF StoreOK
<1>3. /\ DOMAIN changes \subseteq Kinds /\ "goal" \notin DOMAIN changes
      /\ "task" \in DOMAIN changes /\ "attempt" \in DOMAIN changes
      /\ changes.task = "COMPLETED" /\ changes.attempt = "SUCCEEDED"
      /\ "execution" \in DOMAIN changes => changes.execution = "SUCCEEDED"
  BY DEF Kinds
<1> HIDE DEF changes
<1>4. /\ parents' \in ParentRecords
      /\ parents'.task = "COMPLETED" /\ parents'.attempt = "SUCCEEDED"
  BY <1>1, <1>3, Moves DEF StoreOK
<1> QED
  BY <1>2, <1>4

LEMMA RunSteps ==
  ASSUME GovernedOK, NEW d \in Drivers, RunStep(d)
  PROVE  GovernedOK'
<1> USE DEF GovernedOK
<1>1. /\ WorldOK' /\ rec' = rec
      /\ intents' = intents /\ invocations' = invocations /\ receipts' = receipts
  BY DEF RunStep, Fail, ClaimIteration, DecideContinue, DecideWait, DecideComplete, ResumeIntent,
         Rewait, env, remote, WorldOK
<1>2. run' \in RunRecords /\ parents' \in ParentRecords
  <2>1. CASE Fail(d)
    BY <2>1, Stops DEF Fail, StoreOK
  <2>2. CASE ClaimIteration(d)
    <3>1. Evolved("RUNNING", TRUE) \in RunRecords
      BY Evolves DEF StoreOK
    <3>2. \A r \in RunRecords : [r EXCEPT !.iteration = @ + 1] \in RunRecords
      BY DEF RunRecords
    <3>3. run' \in RunRecords
      BY <2>2, <3>1, <3>2 DEF ClaimIteration
    <3> QED
      BY <2>2, <3>3 DEF ClaimIteration, StoreOK
  <2>3. CASE DecideContinue(d)
    BY <2>3, Evolves DEF DecideContinue, Observed, StoreOK, RunRecords
  <2>4. CASE DecideWait(d)
    BY <2>4, Evolves, Moves DEF DecideWait, StoreOK, Kinds
  <2>5. ASSUME NEW lastTask \in BOOLEAN, DecideComplete(d, lastTask)
        PROVE  run' \in RunRecords /\ parents' \in ParentRecords
    BY <2>5, Completions
  <2>6. CASE ResumeIntent(d)
    BY <2>6, Evolves, Moves DEF ResumeIntent, StoreOK, Kinds, RunRecords
  <2>7. CASE Rewait(d)
    BY <2>7, Evolves, Moves DEF Rewait, StoreOK, Kinds, RunRecords
  <2> QED
    BY <2>1, <2>2, <2>3, <2>4, <2>5, <2>6, <2>7 DEF RunStep
<1>3. DriversOK'
  <2>1. run.version \in Nat /\ ParentVersions \in Nat
    BY DEF StoreOK, RunRecords, ParentRecords, ParentVersions
  <2>2. CASE ClaimIteration(d)
    <3>1. [v |-> run.version + 1, pv |-> ParentVersions, id |-> "none", flow |-> "drive"] \in Locals
      BY <2>1 DEF Locals
    <3> QED
      BY <1>1, <2>2, <3>1 DEF ClaimIteration, Goto, DriversOK, Positions
  <2>3. CASE ResumeIntent(d)
    <3>1. loc[d] \in Locals /\ loc[d].id \in Ids
      BY <2>3 DEF ResumeIntent, DriversOK
    <3> DEFINE new == [loc[d] EXCEPT !.v = run.version + 1]
    <3>2. new \in Locals /\ new.id = loc[d].id
      BY <2>1, <3>1 DEF Locals
    <3>3. loc' = [loc EXCEPT ![d] = new] /\ pc' = [pc EXCEPT ![d] = "invoke"]
      BY <2>3 DEF ResumeIntent, Goto
    <3> HIDE DEF new
    <3> QED
      BY <1>1, <3>1, <3>2, <3>3 DEF DriversOK, Positions
  <2>4. CASE ~ ClaimIteration(d) /\ ~ ResumeIntent(d)
    <3>1. loc' = loc /\ (Goto(d, "idle") \/ Goto(d, "claim"))
      BY <2>4 DEF RunStep, Fail, DecideContinue, DecideWait, DecideComplete, Rewait
    <3> QED
      BY <1>1, <3>1, DriversStayOK DEF Positions
  <2> QED
    BY <2>2, <2>3, <2>4
<1> QED
  BY <1>1, <1>2, <1>3 DEF StoreOK

LEMMA BeginResumeTypes ==
  ASSUME GovernedOK, NEW d \in Drivers, NEW i \in Ids, BeginResume(d, i)
  PROVE  /\ GovernedOK'
         /\ intents' = intents \/ (Lapsed(i) /\ intents' = [intents EXCEPT ![i].decision = "EXPIRED"])
<1> USE DEF GovernedOK
<1>1. WorldOK' /\ rec' = rec
  BY DEF BeginResume, env, remote, WorldOK
<1>2. intents' = intents \/ (Lapsed(i) /\ intents' = [intents EXCEPT ![i].decision = "EXPIRED"])
  <2>1. intents' = IF Lapsed(i) THEN [intents EXCEPT ![i].decision = "EXPIRED"] ELSE intents
    BY DEF BeginResume
  <2>2. CASE Lapsed(i)
    BY <2>1, <2>2
  <2>3. CASE ~ Lapsed(i)
    BY <2>1, <2>3
  <2> QED
    BY <2>2, <2>3
<1>3. [intents EXCEPT ![i].decision = "EXPIRED"] \in [Ids -> IntentRecords]
  BY DEF StoreOK, IntentRecords
<1>4. StoreOK'
  BY <1>2, <1>3 DEF BeginResume, StoreOK
<1>5. [v |-> run.version, pv |-> 0, id |-> i, flow |-> "resume"] \in Locals
  BY DEF StoreOK, RunRecords, Locals
<1>6. DriversOK'
  BY <1>1, <1>5 DEF BeginResume, Goto, DriversOK, Positions
<1> QED
  BY <1>1, <1>2, <1>4, <1>6


-----------------------------------------------------------------------------
\* Recovery and the environment.

LEMMA Repairing ==
  ASSUME GovernedOK, NEW i \in Ids, Repair(i)
  PROVE  /\ run' \in RunRecords /\ intents' \in [Ids -> IntentRecords]
         /\ \A j \in Ids : SameIntent(j)
         /\ run'.status = run.status
         /\ run' # run => ~ Stale(i) /\ run.status = "RUNNING" /\ run.pending /\ ~ run'.pending
         /\ rec'.pc = "idle"
         /\ UNCHANGED procs => DriversOK'
<1>1. intents' \in [Ids -> IntentRecords] /\ \A j \in Ids : SameIntent(j)
  BY Consumption DEF Repair, GovernedOK
<1>2. Observed \in RunRecords /\ Observed.status = run.status /\ ~ Observed.pending
  BY Evolves DEF Observed, GovernedOK, StoreOK, RunRecords
<1>3. run' = run \/ (run' = Observed /\ ~ Stale(i) /\ run.status = "RUNNING" /\ run.pending)
  BY DEF Repair
<1>4. rec' = [pc |-> "idle", id |-> "none", seen |-> "none"]
  BY DEF Repair
<1>5. ASSUME UNCHANGED procs
      PROVE  DriversOK'
  BY <1>4, <1>5 DEF procs, GovernedOK, DriversOK
<1>6. run' \in RunRecords
  BY <1>2, <1>3 DEF GovernedOK, StoreOK
<1> QED
  BY <1>1, <1>2, <1>3, <1>4, <1>5, <1>6

LEMMA RecoverySteps ==
  ASSUME GovernedOK, RecoveryStep
  PROVE  GovernedOK'
<1> USE DEF GovernedOK
<1>1. WorldOK' /\ UNCHANGED procs
  BY DEF RecoveryStep, RecoverDetect, RecoverLookup, RecoverCommit, RecoverRepair, env, remote, WorldOK
<1>2. parents' = parents
  BY DEF RecoveryStep, RecoverDetect, RecoverLookup, RecoverCommit, RecoverRepair, Repair, Record, db
<1>3. ASSUME NEW i \in Ids, Repair(i)
      PROVE  GovernedOK'
  <2>1. invocations' = invocations /\ receipts' = receipts
    BY <1>3 DEF Repair
  <2> QED
    BY <1>1, <1>2, <1>3, <2>1, Repairing DEF StoreOK
<1>4. ASSUME UNCHANGED db, rec'.pc \in {"idle", "lookup", "commit"}, rec'.id \in Ids \cup {"none"},
             rec'.seen \in {"none", "success", "failure", "unknown"},
             rec' = [pc |-> rec'.pc, id |-> rec'.id, seen |-> rec'.seen],
             rec'.pc # "idle" => rec'.id \in Ids
      PROVE  GovernedOK'
  <2>1. StoreOK'
    BY <1>4 DEF db, StoreOK
  <2>2. DriversOK'
    BY <1>1, <1>4 DEF procs, DriversOK
  <2> QED
    BY <1>1, <2>1, <2>2
<1>5. ASSUME NEW i \in Ids, RecoverDetect(i)
      PROVE  GovernedOK'
  <2>1. Repair(i) \/ (rec' = [pc |-> "lookup", id |-> i, seen |-> "none"] /\ UNCHANGED db)
    BY <1>5 DEF RecoverDetect
  <2> QED
    BY <1>3, <1>4, <2>1
<1>6. CASE RecoverLookup
  <2>4. PICK s \in {ledger[rec.id], "unknown"} : rec' = [pc |-> "commit", id |-> rec.id, seen |-> s]
    BY <1>6 DEF RecoverLookup
  <2>5. rec.id \in Ids /\ s \in {"none", "success", "failure", "unknown"}
    BY <1>6 DEF RecoverLookup, DriversOK, WorldOK
  <2>6. UNCHANGED db
    BY <1>6 DEF RecoverLookup
  <2> QED
    BY <1>4, <2>4, <2>5, <2>6
<1>7. CASE RecoverCommit
  <2>1. rec.id \in Ids
    BY <1>7 DEF RecoverCommit, DriversOK
  <2>2. CASE Repair(rec.id)
    BY <1>3, <2>1, <2>2
  <2>3. CASE rec' = [pc |-> "idle", id |-> "none", seen |-> "none"] /\ UNCHANGED db
    BY <1>4, <2>3
  <2>4. CASE /\ Record(rec.id, IF rec.seen = "success" THEN "none" ELSE "REJECTED")
             /\ rec' = [rec EXCEPT !.pc = "repair"]
             /\ UNCHANGED <<run, parents>>
    <3>1. StoreOK'
      BY <2>1, <2>4, Recording DEF StoreOK, Errors
    <3>2. DriversOK'
      BY <1>1, <2>1, <2>4 DEF DriversOK, procs
    <3> QED
      BY <1>1, <3>1, <3>2
  <2> QED
    BY <1>7, <2>2, <2>3, <2>4 DEF RecoverCommit
<1>8. CASE RecoverRepair
  BY <1>3, <1>8 DEF RecoverRepair, DriversOK
<1> QED
  BY <1>5, <1>6, <1>7, <1>8 DEF RecoveryStep


LEMMA Cancelling ==
  ASSUME StoreOK, NEW kind \in OperatorKinds, CancelParent(kind)
  PROVE  /\ parents' \in ParentRecords
         /\ parents.task = "COMPLETED" => parents'.task = "COMPLETED"
         /\ parents.attempt = "SUCCEEDED" => parents'.attempt = "SUCCEEDED"
         /\ parents.task # "IN_PROGRESS" => parents'.task # "IN_PROGRESS"
         /\ parents.attempt # "RUNNING" => parents'.attempt # "RUNNING"
         /\ parents.execution \notin {"RUNNING", "WAITING"} =>
              parents'.execution \notin {"RUNNING", "WAITING"}
<1> DEFINE changes == [k \in {kind} |-> "CANCELLED"]
<1>1. kind \in Kinds /\ DOMAIN changes = {kind} /\ changes[kind] = "CANCELLED"
  BY GovernedAssumption DEF Kinds
<1>2. parents' = Move(parents, changes) /\ parents \in ParentRecords
  BY DEF CancelParent, StoreOK
<1>3. kind = "task" => parents.task # "COMPLETED"
  BY DEF CancelParent, Table, TaskAllowed
<1>4. kind = "attempt" => parents.attempt # "SUCCEEDED"
  BY DEF CancelParent, Table, AttemptAllowed
<1> HIDE DEF changes
<1>5. /\ parents' \in ParentRecords
      /\ parents'.task = IF kind = "task" THEN "CANCELLED" ELSE parents.task
      /\ parents'.attempt = IF kind = "attempt" THEN "CANCELLED" ELSE parents.attempt
      /\ parents'.execution = IF kind = "execution" THEN "CANCELLED" ELSE parents.execution
  BY <1>1, <1>2, Moves DEF Kinds
<1> QED
  BY <1>3, <1>4, <1>5

\* An operator stops the run, or its context is supplied or comes too late.
LEMMA RunsByOperators ==
  ASSUME GovernedOK, ResumeContext \/ \E cancel \in BOOLEAN : StopRun(cancel)
  PROVE  GovernedOK'
<1>1. run' \in RunRecords /\ parents' \in ParentRecords
  <2>1. CASE \E cancel \in BOOLEAN : Stopped(cancel)
    BY <2>1, Stops DEF GovernedOK
  <2>2. CASE run' = Evolved("RUNNING", run.pending)
             /\ parents' = Move(parents, [execution |-> "RUNNING"])
    BY <2>2, Evolves, Moves DEF GovernedOK, StoreOK, RunRecords, Kinds
  <2> QED
    BY <2>1, <2>2 DEF ResumeContext, StopRun
<1> QED
  BY <1>1 DEF ResumeContext, StopRun, GovernedOK, StoreOK, WorldOK, DriversOK, env, remote, procs, Rest

LEMMA EnvironmentSteps ==
  ASSUME GovernedOK, Environment
  PROVE  GovernedOK'
<1> USE DEF GovernedOK, db, env, remote, procs, Rest
<1>1. ASSUME NEW i \in Ids, NEW kind \in {"APPROVED", "REJECTED", "REVOKED"}, Decide(i, kind)
      PROVE  GovernedOK'
  <2>1. intents' \in [Ids -> IntentRecords]
    BY <1>1 DEF Decide, StoreOK, IntentRecords
  <2> QED
    BY <1>1, <2>1 DEF Decide, StoreOK, WorldOK, DriversOK
<1>2. ASSUME NEW i \in Ids, CancelIntent(i)
      PROVE  GovernedOK'
  <2>1. intents' \in [Ids -> IntentRecords]
    BY <1>2 DEF CancelIntent, StoreOK, IntentRecords
  <2> QED
    BY <1>2, <2>1 DEF CancelIntent, StoreOK, WorldOK, DriversOK
<1>3. ASSUME NEW kind \in OperatorKinds, CancelParent(kind)
      PROVE  GovernedOK'
  <2>1. parents' \in ParentRecords
    BY <1>3, Cancelling
  <2> QED
    BY <1>3, <2>1 DEF CancelParent, StoreOK, WorldOK, DriversOK
<1>4. CASE PublishPolicy \/ (\E b \in BOOLEAN : SetEnabled(b)) \/ Tick
           \/ (\E m \in Restrictions : RestrictMode(m))
  <2>1. /\ UNCHANGED <<run, parents, intents, invocations, receipts>>
        /\ UNCHANGED <<ledger, entered, pc, loc, rec>>
    BY <1>4 DEF PublishPolicy, SetEnabled, Tick, RestrictMode
  <2>2. now' \in Nat /\ policy' \in Nat /\ tool' \in [enabled : BOOLEAN, revision : Nat]
    BY <1>4 DEF PublishPolicy, SetEnabled, Tick, RestrictMode, WorldOK
  <2> QED
    BY <2>1, <2>2 DEF StoreOK, WorldOK, DriversOK
<1>5. CASE Crash
  BY <1>5 DEF Crash, StoreOK, WorldOK, DriversOK, Locals, NoLocals, Positions
<1> QED
  BY <1>1, <1>2, <1>3, <1>4, <1>5, RunsByOperators DEF Environment

LEMMA TypesKept ==
  ASSUME GovernedOK, [Next]_vars
  PROVE  GovernedOK'
<1>1. ASSUME NEW d \in Drivers, BeginDrive(d) \/ DriverStep(d) \/ \E i \in Ids : BeginResume(d, i)
      PROVE  GovernedOK'
  <2>1. CASE \E i \in Ids : BeginResume(d, i)
    BY <2>1, BeginResumeTypes
  <2>2. CASE \E error \in Errors : Reconcile(d, error)
    BY <2>2, ReconcileSteps
  <2>3. CASE RunStep(d)
    BY <2>3, RunSteps
  <2>4. CASE InvokeRejected(d) \/ InvokeDenied(d) \/ InvokeWaits(d) \/ InvokeClaims(d)
    BY <2>4, InvokeSteps
  <2> QED
    BY <1>1, <2>1, <2>2, <2>3, <2>4, LocalSteps DEF DriverStep, RunStep, Errors
<1>2. CASE UNCHANGED vars
  BY <1>2 DEF vars, db, env, remote, procs, GovernedOK, StoreOK, WorldOK, DriversOK
<1> QED
  BY <1>1, <1>2, RecoverySteps, EnvironmentSteps DEF Next

THEOREM GovernedTypes == Spec => []GovernedOK
<1>1. GovernedOK /\ [Next]_vars => GovernedOK'
  BY TypesKept
<1> QED
  BY <1>1, TypesStart, PTL DEF Spec


-----------------------------------------------------------------------------
\* Dispatches.

Holding == {"dispatch", "landed", "settle"}

\* A driver between the claim and the receipt holds a claimed action; before it calls
\* the executor it is the only one to do so and nobody has called for this action.
HoldInv ==
  /\ \A d \in Drivers : pc[d] \in Holding => Claimed(loc[d].id)
  /\ rec.pc # "idle" => Claimed(rec.id)
  /\ rec.pc = "repair" => receipts[rec.id] # "none"
  /\ \A d \in Drivers : pc[d] = "dispatch" => entered[loc[d].id] = 0
  /\ \A d, e \in Drivers :
       pc[d] = "dispatch" /\ pc[e] = "dispatch" /\ loc[d].id = loc[e].id => d = e

Landing(d) == \E answer \in {"success", "failure"} : Land(d, answer)

\* Where drivers are after a step.
LEMMA DriverMoves ==
  ASSUME GovernedOK, [Next]_vars
  PROVE  \/ UNCHANGED procs
         \/ Crash
         \/ \E d \in Drivers :
              /\ \A e \in Drivers \ {d} : pc'[e] = pc[e] /\ loc'[e] = loc[e]
              /\ \/ InvokeClaims(d) \/ Landing(d) \/ ReconcileFails(d) \/ ResumeIntent(d)
                 \/ \E i \in Ids : DecideCallTool(d, i) \/ BeginResume(d, i)
                 \/ pc'[d] \notin Holding \cup {"invoke", "resume"}
<1> USE DEF GovernedOK, DriversOK, Goto, Raise, Proceed
<1>1. ASSUME NEW d \in Drivers, BeginDrive(d) \/ DriverStep(d) \/ \E i \in Ids : BeginResume(d, i)
      PROVE  /\ \A e \in Drivers \ {d} : pc'[e] = pc[e] /\ loc'[e] = loc[e]
             /\ \/ InvokeClaims(d) \/ Landing(d) \/ ReconcileFails(d) \/ ResumeIntent(d)
                \/ \E i \in Ids : DecideCallTool(d, i) \/ BeginResume(d, i)
                \/ pc'[d] \notin Holding \cup {"invoke", "resume"}
  <2>1. CASE \E error \in Errors : Reconcile(d, error)
    <3>1. loc' = loc
      BY <2>1 DEF Reconcile
    <3> QED
      BY <2>1, <3>1, ReconcileSteps DEF Holding
  <2>2. CASE InvokeClaims(d) \/ Landing(d) \/ ReconcileFails(d) \/ ResumeIntent(d)
    BY <2>2 DEF InvokeClaims, Landing, Land, ReconcileFails, ResumeIntent
  <2>3. CASE \E i \in Ids : DecideCallTool(d, i) \/ BeginResume(d, i)
    BY <2>3 DEF DecideCallTool, BeginResume
  <2>4. CASE BeginDrive(d) \/ RefuseIteration(d) \/ ModelFails(d) \/ DecisionStale(d)
             \/ InvokeRefused(d) \/ InvokeBlocked(d) \/ ResumeDenied(d)
    BY <2>4 DEF BeginDrive, RefuseIteration, ModelFails, DecisionStale, InvokeRefused, InvokeBlocked,
                ResumeDenied, Holding
  <2>5. CASE Fail(d) \/ ClaimIteration(d) \/ DecideContinue(d) \/ DecideWait(d)
             \/ (\E lastTask \in BOOLEAN : DecideComplete(d, lastTask)) \/ Rewait(d)
    BY <2>5 DEF Fail, ClaimIteration, DecideContinue, DecideWait, DecideComplete, Rewait, Holding
  <2>6. CASE InvokeRejected(d) \/ InvokeDenied(d) \/ InvokeWaits(d)
    BY <2>6 DEF InvokeRejected, InvokeDenied, InvokeWaits, Holding
  <2> QED
    BY <1>1, <2>1, <2>2, <2>3, <2>4, <2>5, <2>6 DEF DriverStep, Errors, Landing
<1>2. CASE RecoveryStep
  BY <1>2 DEF RecoveryStep, RecoverDetect, RecoverLookup, RecoverCommit, RecoverRepair
<1>3. CASE Environment /\ ~ Crash
  BY <1>3 DEF Environment, ResumeContext, Decide, CancelIntent, StopRun, CancelParent, PublishPolicy,
              SetEnabled, RestrictMode, Tick, Rest
<1>4. CASE UNCHANGED vars
  BY <1>4 DEF vars
<1> QED
  BY <1>1, <1>2, <1>3, <1>4 DEF Next

\* Every other driver stays where it is.
LEMMA OtherDrivers ==
  ASSUME GovernedOK, NEW d \in Drivers, NEW e \in Drivers, d # e,
         BeginDrive(d) \/ DriverStep(d) \/ \E i \in Ids : BeginResume(d, i)
  PROVE  pc'[e] = pc[e] /\ loc'[e] = loc[e]
<1> USE DEF GovernedOK, DriversOK, Goto, Raise, Proceed, Holding
<1>1. CASE \E error \in Errors : Reconcile(d, error)
  <2>1. loc' = loc
    BY <1>1 DEF Reconcile
  <2> QED
    BY <1>1, <2>1, ReconcileSteps
<1>2. CASE BeginDrive(d) \/ (\E i \in Ids : BeginResume(d, i)) \/ Fail(d) \/ ClaimIteration(d)
           \/ RefuseIteration(d) \/ ModelFails(d) \/ DecisionStale(d) \/ DecideContinue(d)
           \/ DecideWait(d) \/ \E i \in Ids : DecideCallTool(d, i)
  BY <1>2 DEF BeginDrive, BeginResume, Fail, ClaimIteration, RefuseIteration, ModelFails,
              DecisionStale, DecideContinue, DecideWait, DecideCallTool
<1>3. CASE (\E lastTask \in BOOLEAN : DecideComplete(d, lastTask)) \/ InvokeRefused(d)
           \/ InvokeRejected(d) \/ InvokeDenied(d) \/ InvokeWaits(d) \/ InvokeClaims(d)
           \/ InvokeBlocked(d)
  BY <1>3 DEF DecideComplete, InvokeRefused, InvokeRejected, InvokeDenied, InvokeWaits,
              InvokeClaims, InvokeBlocked
<1>4. CASE Landing(d) \/ ReconcileFails(d) \/ ResumeIntent(d) \/ ResumeDenied(d) \/ Rewait(d)
  BY <1>4 DEF Landing, Land, ReconcileFails, ResumeIntent, ResumeDenied, Rewait
<1> QED
  BY <1>1, <1>2, <1>3, <1>4 DEF DriverStep, Errors, Landing

LEMMA RecoveryMoves ==
  ASSUME [Next]_vars
  PROVE  rec' = rec \/ Crash \/ RecoveryStep
BY DEF Next, DriverStep, Land, BeginDrive, BeginResume, Fail, ClaimIteration, RefuseIteration,
       ModelFails, DecisionStale, DecideContinue, DecideWait, DecideCallTool, DecideComplete,
       InvokeRefused, InvokeRejected, InvokeDenied, InvokeWaits, InvokeClaims, InvokeBlocked,
       Reconcile, ReconcileFails, ResumeIntent, ResumeDenied, Rewait,
       Environment, ResumeContext, Decide, CancelIntent, StopRun, CancelParent, PublishPolicy,
       SetEnabled, RestrictMode, Tick, Rest, vars

\* Only the executor call reaches the remote side.
LEMMA LedgerSteps ==
  ASSUME [Next]_vars
  PROVE  UNCHANGED remote \/ \E d \in Drivers : Landing(d)
<1>1. ASSUME NEW d \in Drivers, BeginDrive(d) \/ DriverStep(d) \/ \E i \in Ids : BeginResume(d, i)
      PROVE  UNCHANGED remote \/ Landing(d)
  BY <1>1 DEF DriverStep, Landing, BeginDrive, BeginResume, Fail, ClaimIteration, RefuseIteration,
              ModelFails, DecisionStale, DecideContinue, DecideWait, DecideCallTool, DecideComplete,
              InvokeRefused, InvokeRejected, InvokeDenied, InvokeWaits, InvokeClaims, InvokeBlocked,
              Reconcile, ReconcileFails, ResumeIntent, ResumeDenied, Rewait
<1>2. CASE RecoveryStep
  BY <1>2 DEF RecoveryStep, RecoverDetect, RecoverLookup, RecoverCommit, RecoverRepair
<1>3. CASE Environment
  BY <1>3 DEF Environment, ResumeContext, Decide, CancelIntent, StopRun, CancelParent, PublishPolicy,
              SetEnabled, RestrictMode, Tick, Crash, Rest
<1>4. CASE UNCHANGED vars
  BY <1>4 DEF vars
<1> QED
  BY <1>1, <1>2, <1>3, <1>4 DEF Next

\* Who writes invocations and receipts: a claim, or a result recorded for a claimed action.
LEMMA ClaimSteps ==
  ASSUME GovernedOK, HoldInv, [Next]_vars
  PROVE  \/ \E d \in Drivers : InvokeClaims(d)
         \/ UNCHANGED <<invocations, receipts>>
         \/ \E d \in Drivers, error \in Errors : Reconcile(d, error) /\ Claimed(loc[d].id)
         \/ /\ RecoverCommit /\ Claimed(rec.id) /\ rec.id \in Ids
            /\ rec.seen \in {"success", "failure"}
            /\ Record(rec.id, IF rec.seen = "success" THEN "none" ELSE "REJECTED")
<1>1. ASSUME NEW d \in Drivers, BeginDrive(d) \/ DriverStep(d) \/ \E i \in Ids : BeginResume(d, i)
      PROVE  \/ InvokeClaims(d)
             \/ UNCHANGED <<invocations, receipts>>
             \/ \E error \in Errors : Reconcile(d, error) /\ Claimed(loc[d].id)
  <2>1. CASE \E error \in Errors : Reconcile(d, error)
    BY <2>1 DEF Reconcile, HoldInv, Holding
  <2>2. CASE ~ \E error \in Errors : Reconcile(d, error)
    BY <1>1, <2>2 DEF db, DriverStep, Errors, Land, BeginDrive, BeginResume, Fail, ClaimIteration,
              RefuseIteration, ModelFails, DecisionStale, DecideContinue, DecideWait, DecideCallTool,
              DecideComplete, InvokeRefused, InvokeRejected, InvokeDenied, InvokeWaits, InvokeBlocked,
              ReconcileFails, ResumeIntent, ResumeDenied, Rewait
  <2> QED
    BY <2>1, <2>2
<1>2. CASE RecoveryStep
  BY <1>2 DEF RecoveryStep, RecoverDetect, RecoverLookup, RecoverCommit, RecoverRepair, Repair, db,
              HoldInv, GovernedOK, DriversOK
<1>3. CASE Environment
  BY <1>3 DEF Environment, ResumeContext, Decide, CancelIntent, StopRun, CancelParent, PublishPolicy,
              SetEnabled, RestrictMode, Tick, Crash, Rest, db
<1>4. CASE UNCHANGED vars
  BY <1>4 DEF vars, db
<1> QED
  BY <1>1, <1>2, <1>3, <1>4 DEF Next


LEMMA Claims ==
  ASSUME GovernedOK, NEW d \in Drivers, InvokeClaims(d)
  PROVE  /\ loc[d].id \in Ids /\ ~ Claimed(loc[d].id) /\ Claimed(loc[d].id)'
         /\ \A i \in Ids : i # loc[d].id => invocations'[i] = invocations[i] /\ intents'[i] = intents[i]
         /\ UNCHANGED <<receipts, ledger, entered, rec, loc>>
         /\ pc[d] = "invoke" /\ pc' = [pc EXCEPT ![d] = "dispatch"]
<1>1. loc[d].id \in Ids /\ pc[d] = "invoke" /\ ~ Claimed(loc[d].id)
  BY DEF InvokeClaims, InvokeOpen, GovernedOK, DriversOK
<1>2. Claimed(loc[d].id)' /\ \A i \in Ids : i # loc[d].id => invocations'[i] = invocations[i]
  BY <1>1 DEF InvokeClaims, Claimed, GovernedOK, StoreOK
<1>3. \A i \in Ids : i # loc[d].id => intents'[i] = intents[i]
  BY <1>1 DEF InvokeClaims, GovernedOK, StoreOK
<1> QED
  BY <1>1, <1>2, <1>3 DEF InvokeClaims, remote, Goto

\* What is claimed stays claimed, and a step that is not a claim claims nothing.
LEMMA ClaimsStay ==
  ASSUME GovernedOK, HoldInv, [Next]_vars, NEW i \in Ids
  PROVE  /\ Claimed(i) => Claimed(i)'
         /\ Claimed(i)' => Claimed(i) \/ \E d \in Drivers : InvokeClaims(d) /\ loc[d].id = i
<1>1. ASSUME NEW d \in Drivers, InvokeClaims(d)
      PROVE  /\ Claimed(i) => Claimed(i)'
             /\ Claimed(i)' => Claimed(i) \/ loc[d].id = i
  BY <1>1, Claims DEF Claimed
<1>2. ASSUME NEW j \in Ids, NEW error \in Errors, Record(j, error), Claimed(j)
      PROVE  Claimed(i) <=> Claimed(i)'
  BY <1>2, Recording DEF Claimed, GovernedOK
<1>3. ASSUME NEW d \in Drivers, NEW error \in Errors, Reconcile(d, error), Claimed(loc[d].id)
      PROVE  Claimed(i) <=> Claimed(i)'
  BY <1>2, <1>3, ReconcileSteps, ErrorsOfCalls
<1>4. CASE UNCHANGED invocations
  BY <1>4 DEF Claimed
<1> QED
  BY <1>1, <1>2, <1>3, <1>4, ClaimSteps DEF Errors

\* What is recorded is recorded for good.
LEMMA ReceiptsStay ==
  ASSUME GovernedOK, HoldInv, [Next]_vars, NEW i \in Ids, receipts[i] # "none"
  PROVE  receipts'[i] = receipts[i]
<1>1. ASSUME NEW d \in Drivers, InvokeClaims(d)
      PROVE  receipts' = receipts
  BY <1>1 DEF InvokeClaims
<1>2. ASSUME NEW j \in Ids, NEW error \in Errors, Record(j, error)
      PROVE  receipts'[i] = receipts[i]
  BY <1>2, Recording DEF GovernedOK
<1>3. ASSUME NEW d \in Drivers, NEW error \in Errors, Reconcile(d, error)
      PROVE  receipts'[i] = receipts[i]
  BY <1>2, <1>3, ReconcileSteps, ErrorsOfCalls
<1> QED
  BY <1>1, <1>2, <1>3, ClaimSteps DEF Errors

LEMMA Landings ==
  ASSUME GovernedOK, NEW d \in Drivers, Landing(d)
  PROVE  /\ loc[d].id \in Ids /\ pc[d] = "dispatch" /\ pc' = [pc EXCEPT ![d] = "landed"]
         /\ entered' = [entered EXCEPT ![loc[d].id] = @ + 1]
         /\ \A i \in Ids : /\ ledger[i] # "none" => ledger'[i] = ledger[i]
                           /\ i # loc[d].id => ledger'[i] = ledger[i]
         /\ ledger'[loc[d].id] # "none"
         /\ UNCHANGED <<db, loc, rec>>
BY DEF Landing, Land, GovernedOK, WorldOK, DriversOK, Goto

LEMMA HoldingKept ==
  ASSUME GovernedOK, HoldInv, [Next]_vars,
         \A d \in Drivers : InvokeClaims(d) => entered[loc[d].id] = 0
  PROVE  HoldInv'
<1>1. rec'.pc # "idle" => rec'.id \in Ids /\ Claimed(rec'.id)
  <2>1. CASE rec' = rec
    BY <2>1 DEF HoldInv, GovernedOK, DriversOK
  <2>2. CASE Crash
    BY <2>2 DEF Crash
  <2>3. CASE RecoveryStep
    BY <2>3 DEF RecoveryStep, RecoverDetect, RecoverLookup, RecoverCommit, RecoverRepair, Repair,
                HoldInv, GovernedOK, DriversOK
  <2> QED
    BY <2>1, <2>2, <2>3, RecoveryMoves
<1>2. rec'.pc # "idle" => Claimed(rec.id)'
  BY <1>1, ClaimsStay DEF Claimed
<1>8. rec'.pc = "repair" => receipts'[rec'.id] # "none"
  <2>1. CASE rec' = rec
    BY <2>1, ReceiptsStay DEF HoldInv, GovernedOK, DriversOK
  <2>2. CASE Crash
    BY <2>2 DEF Crash
  <2>3. CASE RecoveryStep
    <3>1. rec'.pc # "repair" \/ RecoverCommit
      BY <2>3 DEF RecoveryStep, RecoverDetect, RecoverLookup, RecoverRepair, Repair
    <3>2. CASE RecoverCommit
      <4>1. \/ rec'.pc # "repair"
            \/ /\ Record(rec.id, IF rec.seen = "success" THEN "none" ELSE "REJECTED")
               /\ rec' = [rec EXCEPT !.pc = "repair"]
        BY <3>2 DEF RecoverCommit, Repair
      <4>2. rec.id \in Ids
        BY <3>2 DEF RecoverCommit, GovernedOK, DriversOK
      <4> QED
        BY <4>1, <4>2, Recording DEF GovernedOK, DriversOK, Errors
    <3> QED
      BY <3>1, <3>2
  <2> QED
    BY <2>1, <2>2, <2>3, RecoveryMoves
<1>3. \A d \in Drivers : pc[d] \in Holding => loc[d].id \in Ids
  BY DEF GovernedOK, DriversOK, Holding
<1> DEFINE Held == /\ \A d \in Drivers : pc'[d] \in Holding => Claimed(loc[d].id)'
                   /\ \A d \in Drivers : pc'[d] = "dispatch" => entered'[loc'[d].id] = 0
                   /\ \A d, e \in Drivers :
                        pc'[d] = "dispatch" /\ pc'[e] = "dispatch" /\ loc'[d].id = loc'[e].id => d = e
<1>4. ASSUME NEW d \in Drivers, Landing(d)
      PROVE  Held
  <2>1. /\ \A e \in Drivers : e # d => pc'[e] = pc[e]
        /\ pc'[d] = "landed" /\ loc' = loc /\ invocations' = invocations
    BY <1>4, Landings DEF db, GovernedOK, DriversOK
  <2>2. \A e \in Drivers : pc'[e] = "dispatch" => entered'[loc'[e].id] = 0
    BY <1>3, <1>4, <2>1, Landings DEF HoldInv, GovernedOK, WorldOK, Holding
  <2> QED
    BY <1>4, <2>1, <2>2, Landings DEF HoldInv, Claimed, Holding
<1>5. ASSUME NEW d \in Drivers, InvokeClaims(d)
      PROVE  Held
  <2>1. /\ \A e \in Drivers : e # d => pc'[e] = pc[e]
        /\ pc'[d] = "dispatch" /\ loc' = loc /\ entered' = entered
    BY <1>5, Claims DEF GovernedOK, DriversOK
  <2>2. \A e \in Drivers : pc[e] = "dispatch" => loc[e].id # loc[d].id
    BY <1>5, Claims DEF HoldInv, Holding
  <2>3. \A e \in Drivers : pc'[e] \in Holding => Claimed(loc[e].id)'
    BY <1>3, <1>5, <2>1, Claims, ClaimsStay DEF HoldInv, Claimed
  <2> QED
    BY <1>5, <2>1, <2>2, <2>3 DEF HoldInv
<1>6. ASSUME UNCHANGED remote, ~ \E d \in Drivers : InvokeClaims(d)
      PROVE  Held
  <2>1. \A e \in Drivers : /\ pc'[e] \in Holding => pc[e] \in Holding /\ loc'[e].id = loc[e].id
                           /\ pc'[e] = "dispatch" => pc[e] = "dispatch"
    <3>1. CASE UNCHANGED procs
      BY <3>1 DEF procs
    <3>2. CASE Crash
      BY <3>2 DEF Crash, Holding
    <3>3. ASSUME NEW d \in Drivers, ReconcileFails(d)
          PROVE  /\ pc[d] \in Holding /\ loc' = loc /\ pc'[d] # "dispatch"
      BY <3>3 DEF ReconcileFails, Goto, Raise, Holding, GovernedOK, DriversOK
    <3>4. ASSUME NEW d \in Drivers, ResumeIntent(d) \/ \E i \in Ids : DecideCallTool(d, i) \/ BeginResume(d, i)
          PROVE  pc'[d] \notin Holding
      BY <3>4 DEF ResumeIntent, DecideCallTool, BeginResume, Goto, Holding, GovernedOK, DriversOK
    <3>5. ~ \E d \in Drivers : Landing(d)
      <4>1. SUFFICES ASSUME NEW d \in Drivers, Landing(d)
                     PROVE  FALSE
        OBVIOUS
      <4>2. entered[loc[d].id] \in Nat /\ entered'[loc[d].id] = entered[loc[d].id] + 1
        BY <4>1, Landings DEF GovernedOK, WorldOK
      <4> QED
        BY <1>6, <4>2 DEF remote
    <3> QED
      BY <1>6, <3>1, <3>2, <3>3, <3>4, <3>5, DriverMoves DEF Holding
  <2>2. \A e \in Drivers : pc'[e] \in Holding => Claimed(loc[e].id)'
    BY <1>3, <2>1, ClaimsStay DEF HoldInv, Claimed
  <2> QED
    BY <1>6, <2>1, <2>2 DEF HoldInv, remote, Holding
<1>7. Held
  <2>1. ASSUME NEW d \in Drivers, InvokeClaims(d)
        PROVE  UNCHANGED remote
    BY <2>1 DEF InvokeClaims
  <2> QED
    BY <1>4, <1>5, <1>6, <2>1, LedgerSteps
<1> QED
  BY <1>2, <1>7, <1>8 DEF HoldInv

DispatchInv == GovernedOK /\ HoldInv /\ AtMostOnceDispatch

LEMMA DispatchesKept ==
  ASSUME DispatchInv, [Next]_vars
  PROVE  DispatchInv'
<1> USE DEF DispatchInv
<1>1. \A d \in Drivers : InvokeClaims(d) => entered[loc[d].id] = 0
  BY Claims DEF AtMostOnceDispatch, GovernedOK, WorldOK
<1>2. AtMostOnceDispatch'
  <2> SUFFICES ASSUME NEW i \in Ids
               PROVE  entered'[i] <= IF Claimed(i)' THEN 1 ELSE 0
    BY DEF AtMostOnceDispatch
  <2>1. entered[i] \in Nat /\ entered[i] <= IF Claimed(i) THEN 1 ELSE 0
    BY DEF AtMostOnceDispatch, GovernedOK, WorldOK
  <2>2. CASE UNCHANGED remote
    BY <2>1, <2>2, ClaimsStay DEF remote
  <2>3. ASSUME NEW d \in Drivers, Landing(d)
        PROVE  entered'[i] <= IF Claimed(i)' THEN 1 ELSE 0
    <3>1. CASE i = loc[d].id
      <4>1. Claimed(i) /\ entered[i] = 0
        BY <2>3, <3>1, Landings DEF HoldInv, Holding
      <4>2. entered'[i] = 1
        BY <2>3, <3>1, <4>1, Landings DEF GovernedOK, WorldOK
      <4> QED
        BY <4>1, <4>2, ClaimsStay
    <3>2. CASE i # loc[d].id
      <4>1. entered'[i] = entered[i]
        BY <2>3, <3>2, Landings DEF GovernedOK, WorldOK
      <4> QED
        BY <2>1, <4>1, ClaimsStay
    <3> QED
      BY <3>1, <3>2
  <2> QED
    BY <2>2, <2>3, LedgerSteps
<1> QED
  BY <1>1, <1>2, HoldingKept, TypesKept

LEMMA DispatchesStart == Init => DispatchInv
<1>1. Init => GovernedOK
  BY TypesStart
<1>2. Init => HoldInv /\ AtMostOnceDispatch
  BY DEF Init, HoldInv, Holding, AtMostOnceDispatch, Claimed, NoInvocation
<1> QED
  BY <1>1, <1>2 DEF DispatchInv

\* No interleaving of drives, resumes, crashes, failed commits and recovery takes an
\* action to its executor twice, or without its claim.
THEOREM DispatchedAtMostOnce == Spec => []AtMostOnceDispatch
<1>1. DispatchInv /\ [Next]_vars => DispatchInv'
  BY DispatchesKept
<1>2. DispatchInv => AtMostOnceDispatch
  BY DEF DispatchInv
<1> QED
  BY <1>1, <1>2, DispatchesStart, PTL DEF Spec


-----------------------------------------------------------------------------
\* The safety half of DispatchIsRecorded.

\* While the process lives and at most one commit fails, a dispatch without a
\* receipt has a driver that still owes it one (_reconcile tries its commit twice).
DispatchIsCarried ==
  crashes = 0 /\ faults < 2 =>
    \A i \in Ids : Claimed(i) /\ receipts[i] = "none" =>
      \E d \in Drivers : pc[d] \in Holding /\ loc[d].id = i

\* A driver at its second attempt for a missing receipt has seen a commit fail.
CarriedOK ==
  /\ crashes \in Nat /\ faults \in Nat
  /\ \A d \in Drivers : pc[d] = "settle" /\ receipts[loc[d].id] = "none" => faults > 0
  /\ DispatchIsCarried

LEMMA CountsGrow ==
  ASSUME crashes \in Nat, faults \in Nat, [Next]_vars
  PROVE  /\ crashes' \in Nat /\ crashes' >= crashes /\ (Crash => crashes' # 0)
         /\ faults' \in Nat /\ faults' >= faults
<1>1. ASSUME NEW d \in Drivers, BeginDrive(d) \/ DriverStep(d) \/ \E i \in Ids : BeginResume(d, i)
      PROVE  UNCHANGED counts \/ ReconcileFails(d)
  BY <1>1 DEF DriverStep, Land, BeginDrive, BeginResume, Fail, ClaimIteration, RefuseIteration,
              ModelFails, DecisionStale, DecideContinue, DecideWait, DecideCallTool, DecideComplete,
              InvokeRefused, InvokeRejected, InvokeDenied, InvokeWaits, InvokeClaims, InvokeBlocked,
              Reconcile, ReconcileFails, ResumeIntent, ResumeDenied, Rewait
<1>2. RecoveryStep => UNCHANGED counts
  BY DEF RecoveryStep, RecoverDetect, RecoverLookup, RecoverCommit, RecoverRepair, counts
<1>3. Environment => UNCHANGED counts \/ Crash
  BY DEF Environment, ResumeContext, Decide, CancelIntent, StopRun, CancelParent, PublishPolicy,
              SetEnabled, RestrictMode, Tick, Rest, counts
<1>4. UNCHANGED vars => UNCHANGED counts
  BY DEF vars, counts
<1>5. ASSUME NEW d \in Drivers, ReconcileFails(d)
      PROVE  crashes' = crashes /\ (faults' = faults \/ faults' = faults + 1)
  BY <1>5 DEF ReconcileFails
<1>6. Crash => crashes' = crashes + 1 /\ faults' = faults
  BY DEF Crash
<1>7. \/ crashes' = crashes /\ faults' = faults
      \/ crashes' = crashes /\ faults' = faults + 1
      \/ crashes' = crashes + 1 /\ faults' = faults
  <2>1. CASE UNCHANGED counts
    BY <2>1 DEF counts
  <2> QED
    BY <1>1, <1>2, <1>3, <1>4, <1>5, <1>6, <2>1 DEF Next
<1> QED
  BY <1>6, <1>7

\* A failed commit that had something to record is counted, and is not the last attempt
\* unless an earlier one was counted too.
LEMMA FailedCommits ==
  ASSUME GovernedOK, NEW d \in Drivers, ReconcileFails(d)
  PROVE  /\ pc[d] \in Holding /\ loc' = loc /\ UNCHANGED <<invocations, receipts>>
         /\ \A e \in Drivers \ {d} : pc'[e] = pc[e]
         /\ receipts[loc[d].id] = "none" => faults' = faults + 1
         /\ pc[d] # "settle" => pc'[d] = "settle"
BY DEF ReconcileFails, Goto, Raise, Holding, GovernedOK, DriversOK, db

\* Where a driver with a claimed action is after a step.
LEMMA HoldersMove ==
  ASSUME GovernedOK, [Next]_vars, ~ Crash, NEW e \in Drivers, pc[e] \in Holding
  PROVE  \/ pc'[e] \in Holding /\ loc'[e].id = loc[e].id /\ (pc'[e] = "settle" => pc[e] = "settle")
         \/ ReconcileFails(e)
         \/ \E error \in Errors : Reconcile(e, error)
<1>1. ASSUME BeginDrive(e) \/ DriverStep(e) \/ \E i \in Ids : BeginResume(e, i)
      PROVE  \/ pc'[e] = "landed" /\ loc' = loc
             \/ ReconcileFails(e)
             \/ \E error \in Errors : Reconcile(e, error)
  BY <1>1, Landings DEF DriverStep, Errors, Landing, BeginDrive, BeginResume, Fail, ClaimIteration,
          RefuseIteration, ModelFails, DecisionStale, DecideContinue, DecideWait, DecideCallTool,
          DecideComplete, InvokeRefused, InvokeRejected, InvokeDenied, InvokeWaits, InvokeClaims,
          InvokeBlocked, InvokeOpen, ResumeIntent, ResumeDenied, Rewait, Holding, GovernedOK, DriversOK
<1>2. CASE RecoveryStep
  BY <1>2 DEF RecoveryStep, RecoverDetect, RecoverLookup, RecoverCommit, RecoverRepair, procs
<1>3. CASE Environment
  BY <1>3 DEF Environment, ResumeContext, Decide, CancelIntent, StopRun, CancelParent, PublishPolicy,
              SetEnabled, RestrictMode, Tick, Rest, procs
<1>4. CASE UNCHANGED vars
  BY <1>4 DEF vars, procs
<1> QED
  BY <1>1, <1>2, <1>3, <1>4, OtherDrivers DEF Next, Holding

LEMMA CarriedKept ==
  ASSUME GovernedOK, HoldInv, CarriedOK, [Next]_vars
  PROVE  CarriedOK'
<1>1. /\ crashes' \in Nat /\ crashes' >= crashes /\ (Crash => crashes' # 0)
      /\ faults' \in Nat /\ faults' >= faults
  BY CountsGrow DEF CarriedOK
<1>2. \A d \in Drivers : pc[d] \in Holding => loc[d].id \in Ids
  BY DEF GovernedOK, DriversOK, Holding
<1>3. ASSUME NEW e \in Drivers, pc'[e] = "settle", receipts'[loc'[e].id] = "none"
      PROVE  faults' > 0
  <2>1. ~ Crash
    BY <1>3 DEF Crash
  <2>2. pc[e] \in Holding
    <3>1. ASSUME NEW d \in Drivers, InvokeClaims(d) \/ Landing(d) \/ ReconcileFails(d)
                   \/ ResumeIntent(d) \/ (\E i \in Ids : DecideCallTool(d, i) \/ BeginResume(d, i))
          PROVE  d = e => pc[d] \in Holding
      BY <1>3, <3>1, Claims, FailedCommits DEF Landing, Land, ResumeIntent, DecideCallTool,
         BeginResume, InvokeClaims, Goto, GovernedOK, DriversOK, Holding
    <3>2. CASE UNCHANGED procs
      BY <1>3, <3>2 DEF procs, Holding
    <3> QED
      BY <1>3, <2>1, <3>1, <3>2, DriverMoves DEF Holding
  <2>3. loc[e].id \in Ids
    BY <1>2, <2>2
  <2>4. CASE pc[e] = "settle" /\ loc'[e].id = loc[e].id
    <3>1. receipts[loc[e].id] = "none"
      BY <1>3, <2>3, <2>4, ReceiptsStay
    <3> QED
      BY <1>1, <2>4, <3>1 DEF CarriedOK
  <2>5. CASE ReconcileFails(e)
    <3>1. faults' = faults + 1
      BY <1>3, <2>5, FailedCommits
    <3> QED
      BY <1>1, <3>1 DEF CarriedOK
  <2>6. CASE \E error \in Errors : Reconcile(e, error)
    BY <1>3, <2>6, ReconcileSteps
  <2> QED
    BY <1>3, <2>1, <2>2, <2>4, <2>5, <2>6, HoldersMove
<1>4. DispatchIsCarried'
  <2> SUFFICES ASSUME crashes' = 0, faults' < 2, NEW i \in Ids, Claimed(i)', receipts'[i] = "none"
               PROVE  \E d \in Drivers : pc'[d] \in Holding /\ loc'[d].id = i
    BY DEF DispatchIsCarried
  <2>1. crashes = 0 /\ faults < 2 /\ ~ Crash
    BY <1>1 DEF CarriedOK
  <2>2. CASE Claimed(i)
    <3>1. receipts[i] = "none"
      BY ReceiptsStay
    <3>2. PICK e \in Drivers : pc[e] \in Holding /\ loc[e].id = i
      BY <2>1, <2>2, <3>1 DEF CarriedOK, DispatchIsCarried
    <3>3. CASE ReconcileFails(e)
      <4>1. faults' = faults + 1 /\ loc' = loc
        BY <3>1, <3>2, <3>3, FailedCommits
      <4>2. pc[e] # "settle"
        BY <3>1, <3>2, <4>1 DEF CarriedOK
      <4> QED
        BY <3>2, <3>3, <4>1, <4>2, FailedCommits DEF Holding
    <3>4. ~ \E error \in Errors : Reconcile(e, error)
      <4>1. ASSUME NEW error \in Errors, Reconcile(e, error)
            PROVE  FALSE
        <5>1. Record(i, FinalError(i, error)) /\ FinalError(i, error) \in Errors
          BY <3>2, <4>1, ReconcileSteps, ErrorsOfCalls
        <5> QED
          BY <5>1, Recording DEF GovernedOK
      <4> QED
        BY <4>1
    <3> QED
      BY <2>1, <3>2, <3>3, <3>4, HoldersMove
  <2>3. CASE ~ Claimed(i)
    <3>1. PICK d \in Drivers : InvokeClaims(d) /\ loc[d].id = i
      BY <2>3, ClaimsStay
    <3> QED
      BY <3>1, Claims DEF GovernedOK, DriversOK, Holding
  <2> QED
    BY <2>2, <2>3
<1> QED
  BY <1>1, <1>3, <1>4 DEF CarriedOK

\* No stale run, late recovery or single failed commit leaves a dispatch without
\* receipt and without a driver to write it (ToolRuntimeService._reconcile).
THEOREM DispatchesAreCarried == Spec => []DispatchIsCarried
<1>1. Init => CarriedOK
  BY DEF Init, CarriedOK, DispatchIsCarried, Claimed, NoInvocation
<1>2. DispatchInv /\ CarriedOK /\ [Next]_vars => (DispatchInv /\ CarriedOK)'
  BY DispatchesKept, CarriedKept DEF DispatchInv
<1>3. CarriedOK => DispatchIsCarried
  BY DEF CarriedOK
<1> QED
  BY <1>1, <1>2, <1>3, DispatchesStart, PTL DEF Spec

-----------------------------------------------------------------------------
\* Receipts.

LEMMA LedgerStays ==
  ASSUME GovernedOK, [Next]_vars, NEW i \in Ids, ledger[i] # "none"
  PROVE  ledger'[i] = ledger[i]
<1>1. CASE UNCHANGED remote
  BY <1>1 DEF remote
<1>2. ASSUME NEW d \in Drivers, Landing(d)
      PROVE  ledger'[i] = ledger[i]
  BY <1>2, Landings
<1> QED
  BY <1>1, <1>2, LedgerSteps

\* A driver whose call came back, and recovery that looked, know what the ledger holds.
KnowledgeOK ==
  /\ \A d \in Drivers : pc[d] = "landed" => ledger[loc[d].id] # "none"
  /\ rec.pc = "commit" /\ rec.seen \in {"success", "failure"} => ledger[rec.id] = rec.seen

ReceiptInv == GovernedOK /\ HoldInv /\ KnowledgeOK /\ ReceiptsAreTrue

LEMMA KnowledgeKept ==
  ASSUME GovernedOK, KnowledgeOK, [Next]_vars
  PROVE  KnowledgeOK'
<1>1. ASSUME NEW d \in Drivers, pc'[d] = "landed"
      PROVE  ledger'[loc'[d].id] # "none"
  <2>1. CASE pc[d] = "landed" /\ loc'[d] = loc[d]
    <3>1. loc[d].id \in Ids /\ ledger[loc[d].id] # "none"
      BY <2>1 DEF KnowledgeOK, GovernedOK, DriversOK
    <3> QED
      BY <2>1, <3>1, LedgerStays
  <2>2. CASE Landing(d)
    BY <2>2, Landings
  <2>3. (pc[d] = "landed" /\ loc'[d] = loc[d]) \/ Landing(d)
    <3>1. CASE UNCHANGED procs
      BY <1>1, <3>1 DEF procs
    <3>2. CASE Crash
      BY <1>1, <3>2 DEF Crash
    <3>3. ASSUME InvokeClaims(d) \/ ReconcileFails(d) \/ ResumeIntent(d)
                   \/ \E i \in Ids : DecideCallTool(d, i) \/ BeginResume(d, i)
          PROVE  FALSE
      BY <1>1, <3>3 DEF InvokeClaims, ReconcileFails, ResumeIntent, DecideCallTool, BeginResume,
                        Goto, Raise, GovernedOK, DriversOK
    <3> QED
      BY <1>1, <3>1, <3>2, <3>3, DriverMoves DEF Holding
  <2> QED
    BY <2>1, <2>2, <2>3
<1>2. ASSUME rec'.pc = "commit", rec'.seen \in {"success", "failure"}
      PROVE  ledger'[rec'.id] = rec'.seen
  <2>1. CASE rec' = rec
    <3>1. rec.id \in Ids /\ ledger[rec.id] = rec.seen
      BY <1>2, <2>1 DEF KnowledgeOK, GovernedOK, DriversOK
    <3> QED
      BY <1>2, <2>1, <3>1, LedgerStays
  <2>2. CASE RecoverLookup
    BY <1>2, <2>2 DEF RecoverLookup, remote, GovernedOK, DriversOK
  <2>3. rec' = rec \/ RecoverLookup
    <3>1. CASE Crash
      BY <1>2, <3>1 DEF Crash
    <3>2. CASE RecoveryStep
      BY <1>2, <3>2 DEF RecoveryStep, RecoverDetect, RecoverCommit, RecoverRepair, Repair,
                        GovernedOK, DriversOK
    <3> QED
      BY <3>1, <3>2, RecoveryMoves
  <2> QED
    BY <2>1, <2>2, <2>3
<1> QED
  BY <1>1, <1>2 DEF KnowledgeOK

\* What a driver may record of a call is what the ledger holds.
LEMMA RecordedTruth ==
  ASSUME GovernedOK, KnowledgeOK, NEW d \in Drivers, NEW error \in Errors, Reconcile(d, error)
  PROVE  LET o == Outcome(FinalError(loc[d].id, error)) IN
           /\ o = "observed" => ledger[loc[d].id] = "success"
           /\ o = "observed_failure" => ledger[loc[d].id] = "failure"
<1> DEFINE final == FinalError(loc[d].id, error)
<1>1. final \in Errors /\ (final \in {"none", "REJECTED"} => final = error)
  BY ErrorsOfCalls
<1>2. error \in {"none", "REJECTED"} =>
        /\ pc[d] = "landed"
        /\ IF error = "none" THEN ledger[loc[d].id] = "success" ELSE ledger[loc[d].id] # "success"
  BY DEF Reconcile, CallErrors
<1>3. pc[d] = "landed" => ledger[loc[d].id] \in {"success", "failure"}
  BY DEF KnowledgeOK, GovernedOK, WorldOK, DriversOK
<1> HIDE DEF final
<1>4. /\ Outcome(final) = "observed" => final = "none"
      /\ Outcome(final) = "observed_failure" => final = "REJECTED"
  BY <1>1 DEF Outcome, Errors
<1> QED
  BY <1>1, <1>2, <1>3, <1>4 DEF final

LEMMA ReceiptsKept ==
  ASSUME ReceiptInv, [Next]_vars
  PROVE  ReceiptsAreTrue'
<1> USE DEF ReceiptInv
<1> SUFFICES ASSUME NEW i \in Ids
             PROVE  /\ receipts'[i] = "observed" => ledger'[i] = "success"
                    /\ receipts'[i] = "observed_failure" => ledger'[i] = "failure"
  BY DEF ReceiptsAreTrue
<1>1. ASSUME receipts'[i] = receipts[i]
      PROVE  /\ receipts'[i] = "observed" => ledger'[i] = "success"
             /\ receipts'[i] = "observed_failure" => ledger'[i] = "failure"
  BY <1>1, LedgerStays DEF ReceiptsAreTrue
<1>2. ASSUME NEW d \in Drivers, NEW error \in Errors, Reconcile(d, error)
      PROVE  /\ receipts'[i] = "observed" => ledger'[i] = "success"
             /\ receipts'[i] = "observed_failure" => ledger'[i] = "failure"
  <2>1. /\ loc[d].id \in Ids /\ FinalError(loc[d].id, error) \in Errors
        /\ Record(loc[d].id, FinalError(loc[d].id, error))
    BY <1>2, ReconcileSteps, ErrorsOfCalls
  <2>2. receipts'[loc[d].id] = Outcome(FinalError(loc[d].id, error))
        /\ (i # loc[d].id => receipts'[i] = receipts[i])
    BY <2>1, Recording DEF GovernedOK
  <2>3. ledger' = ledger
    BY <1>2 DEF Reconcile, remote
  <2> QED
    BY <1>1, <1>2, <2>2, <2>3, RecordedTruth
<1>3. CASE /\ RecoverCommit /\ rec.id \in Ids /\ rec.seen \in {"success", "failure"}
           /\ Record(rec.id, IF rec.seen = "success" THEN "none" ELSE "REJECTED")
  <2>1. /\ receipts'[rec.id] = Outcome(IF rec.seen = "success" THEN "none" ELSE "REJECTED")
        /\ i # rec.id => receipts'[i] = receipts[i]
    BY <1>3, Recording DEF GovernedOK, Errors
  <2>2. ledger[rec.id] = rec.seen /\ ledger' = ledger
    BY <1>3 DEF RecoverCommit, KnowledgeOK, remote
  <2> QED
    BY <1>1, <1>3, <2>1, <2>2 DEF Outcome
<1>4. ASSUME NEW d \in Drivers, InvokeClaims(d)
      PROVE  receipts' = receipts
  BY <1>4 DEF InvokeClaims
<1> QED
  BY <1>1, <1>2, <1>3, <1>4, ClaimSteps

LEMMA KnowledgeStart == Init => KnowledgeOK /\ ReceiptsAreTrue
BY DEF Init, KnowledgeOK, ReceiptsAreTrue

\* What is recorded of an action happened, whoever recorded it and however late.
THEOREM ReceiptsStayTrue == Spec => []ReceiptsAreTrue
<1>1. Init => DispatchInv /\ ReceiptInv
  BY DispatchesStart, KnowledgeStart DEF DispatchInv, ReceiptInv
<1>2. DispatchInv /\ ReceiptInv /\ [Next]_vars => (DispatchInv /\ ReceiptInv)'
  BY DispatchesKept, KnowledgeKept, ReceiptsKept DEF DispatchInv, ReceiptInv
<1>3. ReceiptInv => ReceiptsAreTrue
  BY DEF ReceiptInv
<1> QED
  BY <1>1, <1>2, <1>3, PTL DEF Spec


-----------------------------------------------------------------------------
\* Authorization.

\* Who writes intents: what a claim commits, and, before the claim, reviewers and time.
LEMMA IntentSteps ==
  ASSUME GovernedOK, [Next]_vars, NEW j \in Ids
  PROVE  \/ SameIntent(j)
         \/ \E d \in Drivers : /\ InvokeDenied(d) \/ InvokeWaits(d) \/ InvokeClaims(d)
                               /\ loc[d].id = j
         \/ /\ ~ Claimed(j) /\ intents[j].effect # "none"
            /\ intents'[j].effect = intents[j].effect
            /\ intents'[j].iteration = intents[j].iteration
<1> USE DEF GovernedOK
<1>1. ASSUME UNCHANGED intents
      PROVE  SameIntent(j)
  BY <1>1 DEF SameIntent
<1>2. ASSUME NEW d \in Drivers, InvokeDenied(d) \/ InvokeWaits(d) \/ InvokeClaims(d)
      PROVE  loc[d].id = j \/ SameIntent(j)
  <2>1. loc[d].id \in Ids
    BY <1>2 DEF InvokeDenied, InvokeWaits, InvokeClaims, InvokeOpen, DriversOK
  <2>2. j # loc[d].id => intents'[j] = intents[j]
    BY <1>2, <2>1 DEF InvokeDenied, InvokeWaits, InvokeClaims, StoreOK
  <2> QED
    BY <2>2 DEF SameIntent
<1>3. ASSUME NEW d \in Drivers, NEW error \in Errors, Reconcile(d, error)
      PROVE  SameIntent(j)
  BY <1>3, ReconcileSteps, ErrorsOfCalls, Recording
<1>4. ASSUME NEW d \in Drivers, NEW i \in Ids, BeginResume(d, i)
      PROVE  \/ SameIntent(j)
             \/ /\ ~ Claimed(j) /\ intents[j].effect # "none"
                /\ intents'[j].effect = intents[j].effect
                /\ intents'[j].iteration = intents[j].iteration
  <2>1. CASE intents' = intents
    BY <1>1, <2>1
  <2>2. CASE Lapsed(i) /\ intents' = [intents EXCEPT ![i].decision = "EXPIRED"]
    BY <2>2 DEF Lapsed, StoreOK, IntentRecords, SameIntent
  <2> QED
    BY <1>4, <2>1, <2>2, BeginResumeTypes
<1>5. CASE RecoveryStep
  <2>1. ASSUME NEW i \in Ids, Repair(i)
        PROVE  SameIntent(j)
    BY <2>1, Repairing
  <2>2. ASSUME rec.id \in Ids, NEW error \in Errors, Record(rec.id, error)
        PROVE  SameIntent(j)
    BY <2>2, Recording
  <2>3. \/ UNCHANGED intents
        \/ \E i \in Ids : Repair(i)
        \/ rec.id \in Ids /\ \E error \in Errors : Record(rec.id, error)
    BY <1>5 DEF RecoveryStep, RecoverDetect, RecoverLookup, RecoverCommit, RecoverRepair, db, DriversOK,
                Errors
  <2> QED
    BY <1>1, <2>1, <2>2, <2>3
<1>6. ASSUME NEW i \in Ids, NEW kind \in {"APPROVED", "REJECTED", "REVOKED"},
             Decide(i, kind) \/ CancelIntent(i)
      PROVE  \/ SameIntent(j)
             \/ /\ ~ Claimed(j) /\ intents[j].effect # "none"
                /\ intents'[j].effect = intents[j].effect
                /\ intents'[j].iteration = intents[j].iteration
  BY <1>6 DEF Decide, CancelIntent, StoreOK, IntentRecords, SameIntent
<1>7. \/ UNCHANGED intents
      \/ \E d \in Drivers : InvokeDenied(d) \/ InvokeWaits(d) \/ InvokeClaims(d)
      \/ \E d \in Drivers, error \in Errors : Reconcile(d, error)
      \/ \E d \in Drivers, i \in Ids : BeginResume(d, i)
      \/ RecoveryStep
      \/ \E i \in Ids, kind \in {"APPROVED", "REJECTED", "REVOKED"} : Decide(i, kind) \/ CancelIntent(i)
  BY DEF Next, DriverStep, Land, BeginDrive, Fail, ClaimIteration, RefuseIteration,
         ModelFails, DecisionStale, DecideContinue, DecideWait, DecideCallTool, DecideComplete,
         InvokeRefused, InvokeRejected, InvokeBlocked, ReconcileFails, ResumeIntent, ResumeDenied,
         Rewait, Errors, Environment, ResumeContext, StopRun, CancelParent, PublishPolicy,
         SetEnabled, RestrictMode, Tick, Crash, Rest, vars, db
<1> QED
  BY <1>1, <1>2, <1>3, <1>4, <1>5, <1>6, <1>7

\* What the claim commits.
LEMMA ClaimIsAuthorized ==
  ASSUME GovernedOK, NEW d \in Drivers, InvokeClaims(d)
  PROVE  LET i == loc[d].id IN
           /\ intents'[i].effect \in {"ALLOW", "REQUIRED"} /\ ~ intents'[i].cancelled
           /\ intents'[i].effect = "REQUIRED" => intents'[i].decision = "APPROVED"
           /\ intents'[i].policy = policy /\ now < intents'[i].expires
<1>1. loc[d].id \in Ids
  BY Claims
<1>2. PICK r \in Candidates(loc[d].id) :
        Allowed(r, loc[d].id) /\ intents' = [intents EXCEPT ![loc[d].id] = r]
  BY DEF InvokeClaims
<1>3. r.policy = policy
  BY <1>1, CandidateTypes
<1>4. intents'[loc[d].id] = r
  BY <1>1, <1>2 DEF GovernedOK, StoreOK
<1> QED
  BY <1>2, <1>3, <1>4 DEF Allowed

AuthorizedInv == DispatchInv /\ ClaimedStaysAuthorized

LEMMA AuthorityKept ==
  ASSUME GovernedOK, HoldInv, ClaimedStaysAuthorized, [Next]_vars
  PROVE  ClaimedStaysAuthorized'
<1> SUFFICES ASSUME NEW i \in Ids, Claimed(i)'
             PROVE  /\ intents'[i].effect \in {"ALLOW", "REQUIRED"} /\ ~ intents'[i].cancelled
                    /\ intents'[i].effect = "REQUIRED" => intents'[i].decision = "APPROVED"
  BY DEF ClaimedStaysAuthorized
<1>1. CASE \E d \in Drivers : InvokeClaims(d) /\ loc[d].id = i
  BY <1>1, ClaimIsAuthorized
<1>2. CASE Claimed(i) /\ ~ \E d \in Drivers : InvokeClaims(d) /\ loc[d].id = i
  <2>1. ~ \E d \in Drivers : (InvokeDenied(d) \/ InvokeWaits(d)) /\ loc[d].id = i
    BY <1>2 DEF InvokeDenied, InvokeWaits, InvokeOpen
  <2>2. SameIntent(i)
    BY <1>2, <2>1, IntentSteps
  <2> QED
    BY <1>2, <2>2 DEF SameIntent, ClaimedStaysAuthorized
<1> QED
  BY <1>1, <1>2, ClaimsStay

\* Nothing takes the permission of an action back once its dispatch is claimed.
THEOREM ClaimedStays == Spec => []ClaimedStaysAuthorized
<1>1. Init => AuthorizedInv
  <2>1. Init => ClaimedStaysAuthorized
    BY DEF Init, ClaimedStaysAuthorized, Claimed, NoInvocation
  <2> QED
    BY <2>1, DispatchesStart DEF AuthorizedInv
<1>2. AuthorizedInv /\ [Next]_vars => AuthorizedInv'
  BY AuthorityKept, DispatchesKept DEF AuthorizedInv, DispatchInv
<1>3. AuthorizedInv => ClaimedStaysAuthorized
  BY DEF AuthorizedInv
<1> QED
  BY <1>1, <1>2, <1>3, PTL DEF Spec

\* Every check of the claim holds in the transaction that commits it.
THEOREM ClaimsFindEverythingOpen == Spec => ClaimsOnlyWhenOpen
<1>1. DispatchInv /\ [Next]_vars => DispatchInv'
  BY DispatchesKept
<1>2. ASSUME DispatchInv, [Next]_vars, NEW i \in Ids, ~ Claimed(i), Claimed(i)'
      PROVE  /\ mode = "NORMAL" /\ i \notin held
             /\ intents'[i].policy = policy /\ now < intents'[i].expires
             /\ tool.enabled /\ run.status = "RUNNING" /\ run.pending /\ ParentsActive
  <2>1. PICK d \in Drivers : InvokeClaims(d) /\ loc[d].id = i
    BY <1>2, ClaimsStay DEF DispatchInv
  <2>2. intents'[i].policy = policy /\ now < intents'[i].expires
    BY <1>2, <2>1, ClaimIsAuthorized DEF DispatchInv
  <2> QED
    BY <2>1, <2>2 DEF InvokeClaims, InvokeOpen, DispatchOpen
<1>3. DispatchInv /\ [Next]_vars =>
        [\A i \in Ids : ~Claimed(i) /\ Claimed(i)' =>
           /\ mode = "NORMAL" /\ i \notin held
           /\ intents'[i].policy = policy /\ now < intents'[i].expires
           /\ tool.enabled /\ run.status = "RUNNING" /\ run.pending /\ ParentsActive]_vars
  BY <1>2
<1> QED
  BY <1>1, <1>3, DispatchesStart, PTL DEF Spec, ClaimsOnlyWhenOpen


-----------------------------------------------------------------------------
\* Ends of runs.

\* How a step moves the run and its parents, as far as their ends go.
LEMMA RunEnds ==
  ASSUME GovernedOK, [Next]_vars
  PROVE  \/ run'.status = run.status /\ parents' = parents
         \/ \E kind \in OperatorKinds : CancelParent(kind)
         \/ \E d \in Drivers, lastTask \in BOOLEAN : DecideComplete(d, lastTask)
         \/ \E cancel \in BOOLEAN : Stopped(cancel)
         \/ run'.status \in {"RUNNING", "WAITING"}
<1> USE DEF GovernedOK
<1>1. run.status \in {"RUNNING", "WAITING", "SUCCEEDED", "FAILED", "CANCELLED"}
      /\ run.pending \in BOOLEAN /\ run \in RunRecords
  BY DEF StoreOK, RunRecords
<1>2. /\ Observed.status = run.status
      /\ \A pending \in BOOLEAN : Evolved("RUNNING", pending).status = "RUNNING"
                                  /\ Evolved("WAITING", pending).status = "WAITING"
  BY <1>1, Evolves DEF Observed
<1>3. [Evolved("RUNNING", TRUE) EXCEPT !.iteration = @ + 1].status = "RUNNING"
  <2>1. \A r \in RunRecords : [r EXCEPT !.iteration = @ + 1].status = r.status
    BY DEF RunRecords
  <2> QED
    BY <1>1, <1>2, <2>1, Evolves
<1>4. ASSUME NEW d \in Drivers, BeginDrive(d) \/ DriverStep(d) \/ \E i \in Ids : BeginResume(d, i)
      PROVE  \/ run'.status = run.status /\ parents' = parents
             \/ \E lastTask \in BOOLEAN : DecideComplete(d, lastTask)
             \/ \E cancel \in BOOLEAN : Stopped(cancel)
             \/ run'.status \in {"RUNNING", "WAITING"}
  <2>1. CASE ClaimIteration(d) \/ DecideWait(d) \/ InvokeWaits(d) \/ InvokeClaims(d) \/ ResumeIntent(d)
    BY <1>1, <1>2, <1>3, <2>1 DEF ClaimIteration, DecideWait, InvokeWaits, InvokeClaims, ResumeIntent
  <2>2. CASE DecideContinue(d) \/ InvokeRejected(d) \/ InvokeDenied(d)
               \/ \E error \in Errors : Reconcile(d, error)
    BY <1>2, <2>2 DEF DecideContinue, InvokeRejected, InvokeDenied, Reconcile
  <2>3. CASE Fail(d) \/ Rewait(d)
    BY <1>1, <1>2, <2>3 DEF Fail, Rewait
  <2>4. CASE BeginDrive(d) \/ RefuseIteration(d) \/ ModelFails(d) \/ DecisionStale(d)
               \/ (\E i \in Ids : DecideCallTool(d, i)) \/ InvokeRefused(d) \/ InvokeBlocked(d)
               \/ (\E answer \in {"success", "failure"} : Land(d, answer))
               \/ ReconcileFails(d) \/ ResumeDenied(d) \/ \E i \in Ids : BeginResume(d, i)
    BY <2>4 DEF db, BeginDrive, RefuseIteration, ModelFails, DecisionStale, DecideCallTool,
           InvokeRefused, InvokeBlocked, Land, ReconcileFails, ResumeDenied, BeginResume
  <2> QED
    BY <1>4, <2>1, <2>2, <2>3, <2>4 DEF DriverStep, Errors
<1>5. CASE RecoveryStep
  <2>1. parents' = parents
    BY <1>5 DEF RecoveryStep, RecoverDetect, RecoverLookup, RecoverCommit, RecoverRepair, Repair, db
  <2>2. run'.status = run.status
    BY <1>2, <1>5 DEF RecoveryStep, RecoverDetect, RecoverLookup, RecoverCommit, RecoverRepair, Repair, db
  <2> QED
    BY <2>1, <2>2
<1>6. CASE Environment
  <2>1. CASE ResumeContext \/ \E cancel \in BOOLEAN : StopRun(cancel)
    BY <1>1, <1>2, <2>1 DEF ResumeContext, StopRun
  <2>2. CASE ~ ResumeContext /\ ~ \E cancel \in BOOLEAN : StopRun(cancel)
    BY <1>6, <2>2 DEF Environment, Decide, CancelIntent, PublishPolicy, SetEnabled, RestrictMode, Tick,
                      Crash, db
  <2> QED
    BY <2>1, <2>2
<1>7. CASE UNCHANGED vars
  BY <1>7 DEF vars, db
<1> QED
  BY <1>4, <1>5, <1>6, <1>7 DEF Next

EndedInv == GovernedOK /\ EndedRunLeavesNoLiveParent

LEMMA EndsKept ==
  ASSUME EndedInv, [Next]_vars
  PROVE  EndedRunLeavesNoLiveParent'
<1> USE DEF EndedInv, GovernedOK, EndedRunLeavesNoLiveParent, Terminated, Terminal
<1>1. CASE run'.status = run.status /\ parents' = parents
  BY <1>1
<1>2. ASSUME NEW kind \in OperatorKinds, CancelParent(kind)
      PROVE  EndedRunLeavesNoLiveParent'
  BY <1>2, Cancelling DEF CancelParent
<1>3. ASSUME NEW d \in Drivers, NEW lastTask \in BOOLEAN, DecideComplete(d, lastTask)
      PROVE  EndedRunLeavesNoLiveParent'
  BY <1>3, Completions
<1>4. ASSUME NEW cancel \in BOOLEAN, Stopped(cancel)
      PROVE  EndedRunLeavesNoLiveParent'
  BY <1>4, Stops
<1>5. CASE run'.status \in {"RUNNING", "WAITING"}
  BY <1>5
<1> QED
  BY <1>1, <1>2, <1>3, <1>4, <1>5, RunEnds

\* A run that ended leaves no attempt, task or, unless it succeeded, execution alive.
THEOREM EndedRunsAreOver == Spec => []EndedRunLeavesNoLiveParent
<1>1. Init => EndedInv
  <2>1. Init => EndedRunLeavesNoLiveParent
    BY DEF Init, EndedRunLeavesNoLiveParent, Terminated, Terminal
  <2> QED
    BY <2>1, TypesStart DEF EndedInv
<1>2. EndedInv /\ [Next]_vars => EndedInv'
  BY EndsKept, TypesKept DEF EndedInv
<1>3. EndedInv => EndedRunLeavesNoLiveParent
  BY DEF EndedInv
<1> QED
  BY <1>1, <1>2, <1>3, PTL DEF Spec

SuccessInv == DispatchInv /\ ReceiptInv /\ SuccessIsProven

LEMMA SuccessKept ==
  ASSUME ReceiptInv, SuccessIsProven, [Next]_vars
  PROVE  SuccessIsProven'
<1> USE DEF ReceiptInv
<1> SUFFICES ASSUME run'.status = "SUCCEEDED"
             PROVE  /\ \A i \in Ids : intents'[i].effect # "none" => ledger'[i] = "success"
                    /\ parents'.task = "COMPLETED" /\ parents'.attempt = "SUCCEEDED"
  BY DEF SuccessIsProven
<1>1. ASSUME run.status = "SUCCEEDED", NEW i \in Ids, intents'[i].effect # "none"
      PROVE  ledger'[i] = "success"
  <2>1. ~ \E d \in Drivers : InvokeDenied(d) \/ InvokeWaits(d) \/ InvokeClaims(d)
    BY <1>1 DEF InvokeDenied, InvokeWaits, InvokeClaims, InvokeOpen
  <2>2. intents[i].effect # "none"
    BY <1>1, <2>1, IntentSteps DEF SameIntent
  <2> QED
    BY <1>1, <2>2, LedgerStays DEF SuccessIsProven
<1>2. CASE run'.status = run.status /\ parents' = parents
  BY <1>1, <1>2 DEF SuccessIsProven
<1>3. ASSUME NEW kind \in OperatorKinds, CancelParent(kind)
      PROVE  /\ \A i \in Ids : intents'[i].effect # "none" => ledger'[i] = "success"
             /\ parents'.task = "COMPLETED" /\ parents'.attempt = "SUCCEEDED"
  <2>1. run.status = "SUCCEEDED"
    BY <1>3 DEF CancelParent
  <2> QED
    BY <1>1, <1>3, <2>1, Cancelling DEF SuccessIsProven, GovernedOK
<1>4. ASSUME NEW d \in Drivers, NEW lastTask \in BOOLEAN, DecideComplete(d, lastTask)
      PROVE  /\ \A i \in Ids : intents'[i].effect # "none" => ledger'[i] = "success"
             /\ parents'.task = "COMPLETED" /\ parents'.attempt = "SUCCEEDED"
  <2>1. \A i \in Ids : intents[i].effect # "none" => receipts[i] = "observed"
    BY <1>4 DEF DecideComplete, Unresolved
  <2>2. intents' = intents /\ ledger' = ledger
    BY <1>4 DEF DecideComplete, remote
  <2> QED
    BY <1>4, <2>1, <2>2, Completions DEF ReceiptInv, ReceiptsAreTrue, GovernedOK
<1>5. ~ \E cancel \in BOOLEAN : Stopped(cancel)
  BY Stops DEF GovernedOK
<1> QED
  BY <1>2, <1>3, <1>4, <1>5, RunEnds

\* A run that succeeded has carried out everything it ever requested.
THEOREM SuccessStaysProven == Spec => []SuccessIsProven
<1>1. Init => SuccessInv
  <2>1. Init => SuccessIsProven
    BY DEF Init, SuccessIsProven
  <2> QED
    BY <2>1, DispatchesStart, KnowledgeStart DEF SuccessInv, DispatchInv, ReceiptInv
<1>2. SuccessInv /\ [Next]_vars => SuccessInv'
  BY SuccessKept, DispatchesKept, KnowledgeKept, ReceiptsKept DEF SuccessInv, DispatchInv, ReceiptInv
<1>3. SuccessInv => SuccessIsProven
  BY DEF SuccessInv
<1> QED
  BY <1>1, <1>2, <1>3, PTL DEF Spec


-----------------------------------------------------------------------------
\* Open actions.  What the store holds of a run is stated of any tables, the tables of
\* a backup among them.

OpenIn(inv, rc) == {i \in Ids : inv[i].status # "none" /\ rc[i] = "none"}

AwaitedIn(r, ins, inv) ==
  {i \in Ids : /\ ins[i].effect \in {"ALLOW", "REQUIRED"}
               /\ ins[i].iteration = r.iteration /\ inv[i].status = "none"}

\* A claim is known by the version it gave the run.  While its outcome is open, the
\* run keeps version and iteration, unless it ends; a run that waits for an approval
\* has the intent to be approved.
HeldIn(r, ins, inv, rc) ==
  /\ \A i \in Ids : inv[i].status # "none" => inv[i].runVersion <= r.version
  /\ \A i, j \in Ids :
       /\ inv[i].status # "none" /\ inv[j].status # "none"
       /\ inv[i].runVersion = inv[j].runVersion
       => i = j
  /\ \A i \in OpenIn(inv, rc) :
       \/ r.status \in {"SUCCEEDED", "FAILED", "CANCELLED"}
       \/ r.status = "RUNNING" /\ r.pending /\ r.version = inv[i].runVersion
  /\ r.status = "WAITING" /\ r.pending => AwaitedIn(r, ins, inv) # {}

Open == OpenIn(invocations, receipts)

Awaited == AwaitedIn(run, intents, invocations)

\* A driver whose version is still the version of the run finds nothing open, and, if
\* it resumes an approval, what the run waited for.
CurrentOK(d) ==
  /\ loc[d].v <= run.version
  /\ pc[d] \in Holding => loc[d].v < run.version
  /\ pc[d] = "model" => loc[d].flow = "drive"
  /\ pc[d] = "rewait" => loc[d].flow = "resume"
  /\ pc[d] \in {"model", "invoke", "rewait"} /\ loc[d].v = run.version =>
       /\ run.status = "RUNNING" /\ run.pending /\ Open = {}
       /\ loc[d].flow = "resume" => Awaited # {}

OpenInv ==
  /\ GovernedOK /\ HoldInv
  /\ HeldIn(run, intents, invocations, receipts)
  /\ \A d \in Drivers : CurrentOK(d)

LEMMA OpenHolds == OpenInv => OpenActionHoldsIteration
<1>1. ASSUME OpenInv, run.status = "RUNNING", ~ run.pending, NEW i \in Ids, Claimed(i)
      PROVE  receipts[i] # "none"
  BY <1>1 DEF OpenInv, HeldIn, OpenIn, Claimed
<1>2. ASSUME OpenInv, run.status = "WAITING", run.pending
      PROVE  \E i \in Ids : /\ intents[i].effect \in {"ALLOW", "REQUIRED"}
                            /\ intents[i].iteration = run.iteration
                            /\ ~Claimed(i)
  BY <1>2 DEF OpenInv, HeldIn, AwaitedIn, Claimed
<1> QED
  BY <1>1, <1>2 DEF OpenActionHoldsIteration

\* The transactions of a run: each raises its version by one.
RunTransaction ==
  \/ \E cancel \in BOOLEAN : Stopped(cancel)
  \/ \E d \in Drivers :
       \/ ClaimIteration(d) \/ DecideContinue(d) \/ DecideWait(d)
       \/ \E lastTask \in BOOLEAN : DecideComplete(d, lastTask)
       \/ InvokeRejected(d) \/ InvokeDenied(d) \/ InvokeWaits(d) \/ InvokeClaims(d)
       \/ \E error \in Errors : Reconcile(d, error) /\ Applies(loc[d].id)
       \/ ResumeIntent(d) \/ Rewait(d)
  \/ \E i \in Ids : Repair(i) /\ Claimed(i) /\ receipts[i] # "none"
  \/ ResumeContext

LEMMA RunMoves ==
  ASSUME GovernedOK, HoldInv, [Next]_vars
  PROVE  \/ run' = run
         \/ /\ RunTransaction /\ run'.version = run.version + 1
            /\ run'.iteration = run.iteration \/ \E d \in Drivers : ClaimIteration(d)
<1> USE DEF GovernedOK
<1>1. /\ run.pending \in BOOLEAN /\ run \in RunRecords
      /\ run.status \in {"RUNNING", "WAITING", "SUCCEEDED", "FAILED", "CANCELLED"}
  BY DEF StoreOK, RunRecords
<1> DEFINE Raised == run'.version = run.version + 1 /\ run'.iteration = run.iteration
<1>2. ASSUME NEW status \in {"RUNNING", "WAITING", "SUCCEEDED", "FAILED", "CANCELLED"},
             NEW pending \in BOOLEAN, run' = Evolved(status, pending)
      PROVE  Raised
  BY <1>1, <1>2, Evolves
<1>3. ASSUME NEW cancel \in BOOLEAN, Stopped(cancel)
      PROVE  Raised
  BY <1>2, <1>3 DEF Stopped
<1>4. ASSUME NEW d \in Drivers, BeginDrive(d) \/ DriverStep(d) \/ \E i \in Ids : BeginResume(d, i)
      PROVE  \/ run' = run
             \/ /\ RunTransaction /\ run'.version = run.version + 1
                /\ run'.iteration = run.iteration \/ ClaimIteration(d)
  <2>1. CASE ClaimIteration(d)
    <3>1. \A r \in RunRecords : [r EXCEPT !.iteration = @ + 1].version = r.version
      BY DEF RunRecords
    <3>2. run'.version = Evolved("RUNNING", TRUE).version
      BY <1>1, <2>1, <3>1, Evolves DEF ClaimIteration
    <3> QED
      BY <1>1, <2>1, <3>2, Evolves DEF RunTransaction
  <2>2. CASE DecideContinue(d) \/ DecideWait(d) \/ InvokeRejected(d) \/ InvokeDenied(d)
               \/ InvokeWaits(d) \/ InvokeClaims(d) \/ ResumeIntent(d)
    <3>1. \E status \in {run.status, "WAITING", "RUNNING"}, pending \in BOOLEAN :
            run' = Evolved(status, pending)
      BY <1>1, <2>2 DEF DecideContinue, DecideWait, InvokeRejected, InvokeDenied, InvokeWaits,
                        InvokeClaims, ResumeIntent, Observed
    <3> QED
      BY <1>1, <1>2, <2>2, <3>1 DEF RunTransaction
  <2>3. ASSUME NEW lastTask \in BOOLEAN, DecideComplete(d, lastTask)
        PROVE  Raised /\ RunTransaction
    BY <1>2, <2>3 DEF DecideComplete, RunTransaction
  <2>4. ASSUME NEW error \in Errors, Reconcile(d, error)
        PROVE  run' = run \/ (Raised /\ RunTransaction)
    <3>1. CASE Applies(loc[d].id)
      <4>1. run' = Evolved(run.status, FALSE)
        BY <2>4, <3>1 DEF Reconcile, Observed
      <4> QED
        BY <1>1, <1>2, <2>4, <3>1, <4>1 DEF RunTransaction
    <3>2. CASE ~ Applies(loc[d].id)
      BY <2>4, <3>2 DEF Reconcile
    <3> QED
      BY <3>1, <3>2
  <2>5. CASE Fail(d)
    BY <1>3, <2>5 DEF Fail, RunTransaction
  <2>6. CASE Rewait(d)
    <3>1. run' = run \/ run' = Evolved("WAITING", run.pending)
      BY <2>6 DEF Rewait
    <3> QED
      BY <1>1, <1>2, <2>6, <3>1 DEF RunTransaction
  <2>7. CASE BeginDrive(d) \/ RefuseIteration(d) \/ ModelFails(d) \/ DecisionStale(d)
               \/ (\E i \in Ids : DecideCallTool(d, i)) \/ InvokeRefused(d) \/ InvokeBlocked(d)
               \/ (\E answer \in {"success", "failure"} : Land(d, answer))
               \/ ReconcileFails(d) \/ ResumeDenied(d) \/ \E i \in Ids : BeginResume(d, i)
    BY <2>7 DEF db, BeginDrive, RefuseIteration, ModelFails, DecisionStale, DecideCallTool,
           InvokeRefused, InvokeBlocked, Land, ReconcileFails, ResumeDenied, BeginResume
  <2> QED
    BY <1>4, <2>1, <2>2, <2>3, <2>4, <2>5, <2>6, <2>7 DEF DriverStep, Errors
<1>5. CASE RecoveryStep
  <2>1. ASSUME NEW i \in Ids, Repair(i), Claimed(i), receipts[i] # "none"
        PROVE  run' = run \/ (Raised /\ RunTransaction)
    <3>1. run' = run \/ run' = Evolved(run.status, FALSE)
      BY <2>1 DEF Repair, Observed
    <3> QED
      BY <1>1, <1>2, <2>1, <3>1 DEF RunTransaction
  <2>2. \/ run' = run
        \/ \E i \in Ids : Repair(i) /\ Claimed(i) /\ receipts[i] # "none"
    BY <1>5 DEF RecoveryStep, RecoverDetect, RecoverLookup, RecoverCommit, RecoverRepair, db,
                HoldInv, DriversOK
  <2> QED
    BY <2>1, <2>2
<1>6. CASE Environment
  <2>1. CASE ResumeContext
    <3>1. run' = Evolved("RUNNING", run.pending) \/ \E cancel \in BOOLEAN : Stopped(cancel)
      BY <2>1 DEF ResumeContext
    <3> QED
      BY <1>1, <1>2, <1>3, <2>1, <3>1 DEF RunTransaction
  <2>2. ASSUME NEW cancel \in BOOLEAN, StopRun(cancel)
        PROVE  Raised /\ RunTransaction
    BY <1>3, <2>2 DEF StopRun, RunTransaction
  <2>3. CASE ~ ResumeContext /\ ~ \E cancel \in BOOLEAN : StopRun(cancel)
    BY <1>6, <2>3 DEF Environment, Decide, CancelIntent, CancelParent, PublishPolicy, SetEnabled,
                      RestrictMode, Tick, Crash, db
  <2> QED
    BY <2>1, <2>2, <2>3
<1>7. CASE UNCHANGED vars
  BY <1>7 DEF vars, db
<1> QED
  BY <1>4, <1>5, <1>6, <1>7 DEF Next

\* The version a claim gave the run is kept with it.
LEMMA VersionsStay ==
  ASSUME GovernedOK, HoldInv, [Next]_vars, NEW i \in Ids, Claimed(i)
  PROVE  invocations'[i].runVersion = invocations[i].runVersion
<1>1. ASSUME NEW d \in Drivers, InvokeClaims(d)
      PROVE  invocations'[i].runVersion = invocations[i].runVersion
  BY <1>1, Claims
<1>2. ASSUME NEW j \in Ids, NEW error \in Errors, Record(j, error)
      PROVE  invocations'[i].runVersion = invocations[i].runVersion
  BY <1>2, Recording DEF GovernedOK
<1>3. ASSUME NEW d \in Drivers, NEW error \in Errors, Reconcile(d, error)
      PROVE  invocations'[i].runVersion = invocations[i].runVersion
  BY <1>2, <1>3, ReconcileSteps, ErrorsOfCalls
<1> QED
  BY <1>1, <1>2, <1>3, ClaimSteps DEF Errors

\* Only a claim opens an action.
LEMMA OpensByClaim ==
  ASSUME GovernedOK, HoldInv, [Next]_vars, ~ \E d \in Drivers : InvokeClaims(d)
  PROVE  Open' \subseteq Open
<1>1. ASSUME NEW i \in Ids, Claimed(i)', receipts'[i] = "none"
      PROVE  Claimed(i) /\ receipts[i] = "none"
  BY <1>1, ClaimsStay, ReceiptsStay
<1> QED
  BY <1>1 DEF Open, OpenIn, Claimed

\* A step that leaves the run alone keeps what the run waits for.
LEMMA AwaitedStays ==
  ASSUME GovernedOK, HoldInv, [Next]_vars, run' = run
  PROVE  /\ ~ \E d \in Drivers : InvokeClaims(d)
         /\ Awaited \subseteq Awaited'
<1>1. run \in RunRecords /\ run.pending \in BOOLEAN
      /\ run.status \in {"RUNNING", "WAITING", "SUCCEEDED", "FAILED", "CANCELLED"}
  BY DEF GovernedOK, StoreOK, RunRecords
<1>2. ASSUME NEW status \in {"RUNNING", "WAITING", run.status}, NEW pending \in BOOLEAN
      PROVE  run' # Evolved(status, pending)
  <2>1. Evolved(status, pending).version = run.version + 1 /\ run.version \in Nat
    BY <1>1, Evolves DEF RunRecords
  <2> QED
    BY <2>1
<1>3. \A d \in Drivers : ~ (InvokeDenied(d) \/ InvokeWaits(d) \/ InvokeClaims(d))
  BY <1>1, <1>2 DEF InvokeDenied, InvokeWaits, InvokeClaims, Observed
<1>4. ASSUME NEW i \in Ids, intents[i].effect \in {"ALLOW", "REQUIRED"},
             intents[i].iteration = run.iteration, ~ Claimed(i)
      PROVE  /\ intents'[i].effect \in {"ALLOW", "REQUIRED"}
             /\ intents'[i].iteration = run'.iteration /\ ~ Claimed(i)'
  BY <1>3, <1>4, IntentSteps, ClaimsStay DEF SameIntent
<1> QED
  BY <1>3, <1>4 DEF Awaited, AwaitedIn, Claimed

LEMMA HeldWhileUntouched ==
  ASSUME OpenInv, [Next]_vars, run' = run
  PROVE  HeldIn(run, intents, invocations, receipts)'
<1> USE DEF OpenInv
<1>1. Open' \subseteq Open /\ Awaited \subseteq Awaited'
  BY AwaitedStays, OpensByClaim
<1>2. \A i \in Ids : invocations'[i].status # "none" =>
                       /\ invocations[i].status # "none"
                       /\ invocations'[i].runVersion = invocations[i].runVersion
  BY AwaitedStays, ClaimsStay, VersionsStay DEF Claimed
<1>3. \A i \in OpenIn(invocations', receipts') :
        i \in Ids /\ i \in OpenIn(invocations, receipts) /\ invocations'[i].status # "none"
  BY <1>1 DEF Open, OpenIn
<1>4. \A i \in OpenIn(invocations', receipts') :
       \/ run'.status \in {"SUCCEEDED", "FAILED", "CANCELLED"}
       \/ run'.status = "RUNNING" /\ run'.pending /\ run'.version = invocations'[i].runVersion
  BY <1>2, <1>3 DEF HeldIn
<1>5. run'.status = "WAITING" /\ run'.pending => AwaitedIn(run', intents', invocations') # {}
  BY <1>1 DEF HeldIn, Awaited
<1> QED
  BY <1>2, <1>4, <1>5 DEF HeldIn

\* Where a driver is after a step, and with which locals.
LEMMA Places ==
  ASSUME GovernedOK, [Next]_vars, NEW e \in Drivers
  PROVE  \/ pc'[e] = pc[e] /\ loc'[e] = loc[e]
         \/ loc'[e] = NoLocals /\ pc'[e] \in {"idle", "claim"}
         \/ /\ loc'[e] = loc[e]
            /\ \/ pc'[e] \in {"idle", "claim", "fail", "cancelled"}
               \/ pc'[e] = "rewait" /\ loc[e].flow # "drive" /\ pc[e] \in Holding \cup {"invoke"}
               \/ pc[e] \in Holding /\ pc'[e] \in Holding
         \/ InvokeClaims(e) \/ ClaimIteration(e) \/ ResumeIntent(e)
         \/ \E i \in Ids : DecideCallTool(e, i) \/ BeginResume(e, i)
<1> USE DEF GovernedOK, DriversOK, Goto, Raise, Proceed, Holding
<1>1. ASSUME BeginDrive(e) \/ DriverStep(e) \/ \E i \in Ids : BeginResume(e, i)
      PROVE  \/ loc'[e] = NoLocals /\ pc'[e] \in {"idle", "claim"}
             \/ /\ loc'[e] = loc[e]
                /\ \/ pc'[e] \in {"idle", "claim", "fail", "cancelled"}
                   \/ pc'[e] = "rewait" /\ loc[e].flow # "drive" /\ pc[e] \in Holding \cup {"invoke"}
                   \/ pc[e] \in Holding /\ pc'[e] \in Holding
             \/ InvokeClaims(e) \/ ClaimIteration(e) \/ ResumeIntent(e)
             \/ \E i \in Ids : DecideCallTool(e, i) \/ BeginResume(e, i)
  <2>1. ASSUME NEW error \in Errors, Reconcile(e, error)
        PROVE  /\ loc'[e] = loc[e] /\ pc[e] \in Holding
               /\ \/ pc'[e] \in {"idle", "claim", "cancelled", "fail"}
                  \/ pc'[e] = "rewait" /\ loc[e].flow # "drive"
    BY <2>1 DEF Reconcile, AfterReconcile
  <2>2. CASE InvokeClaims(e) \/ ClaimIteration(e) \/ ResumeIntent(e)
             \/ \E i \in Ids : DecideCallTool(e, i) \/ BeginResume(e, i)
    BY <2>2
  <2>3. CASE BeginDrive(e)
    BY <2>3 DEF BeginDrive
  <2>4. CASE Landing(e) \/ ReconcileFails(e)
    BY <2>4 DEF Landing, Land, ReconcileFails
  <2>5. CASE InvokeRefused(e) \/ InvokeBlocked(e)
    BY <2>5 DEF InvokeRefused, InvokeBlocked, InvokeOpen
  <2>6. CASE Fail(e) \/ RefuseIteration(e) \/ ModelFails(e) \/ DecisionStale(e) \/ DecideContinue(e)
             \/ DecideWait(e) \/ (\E lastTask \in BOOLEAN : DecideComplete(e, lastTask))
             \/ ResumeDenied(e) \/ Rewait(e)
    BY <2>6 DEF Fail, RefuseIteration, ModelFails, DecisionStale, DecideContinue, DecideWait,
                DecideComplete, ResumeDenied, Rewait
  <2>7. CASE InvokeRejected(e) \/ InvokeDenied(e) \/ InvokeWaits(e)
    BY <2>7 DEF InvokeRejected, InvokeDenied, InvokeWaits
  <2> QED
    BY <1>1, <2>1, <2>2, <2>3, <2>4, <2>5, <2>6, <2>7 DEF DriverStep, Errors, Landing
<1>2. ASSUME NEW d \in Drivers, d # e,
             BeginDrive(d) \/ DriverStep(d) \/ \E i \in Ids : BeginResume(d, i)
      PROVE  pc'[e] = pc[e] /\ loc'[e] = loc[e]
  BY <1>2, OtherDrivers
<1>3. CASE RecoveryStep
  BY <1>3 DEF RecoveryStep, RecoverDetect, RecoverLookup, RecoverCommit, RecoverRepair, procs
<1>4. CASE Environment
  BY <1>4 DEF Environment, ResumeContext, Decide, CancelIntent, StopRun, CancelParent, PublishPolicy,
              SetEnabled, RestrictMode, Tick, Crash, Rest, procs
<1>5. CASE UNCHANGED vars
  BY <1>5 DEF vars, procs
<1> QED
  BY <1>1, <1>2, <1>3, <1>4, <1>5 DEF Next

\* A run that does not hold its iteration, waits or ended has nothing open.
LEMMA NothingOpen ==
  ASSUME OpenInv, \/ run.status = "RUNNING" /\ ~ run.pending
                  \/ run.status = "WAITING"
  PROVE  Open = {}
BY DEF OpenInv, HeldIn, Open, OpenIn

LEMMA CurrentKept ==
  ASSUME OpenInv, [Next]_vars, NEW e \in Drivers
  PROVE  CurrentOK(e)'
<1> USE DEF OpenInv
<1>1. /\ loc \in [Drivers -> Locals] /\ pc \in [Drivers -> Positions]
      /\ loc[e].v \in Nat /\ run.version \in Nat /\ run.pending \in BOOLEAN
      /\ run.status \in {"RUNNING", "WAITING", "SUCCEEDED", "FAILED", "CANCELLED"}
      /\ loc[e].flow \in {"drive", "resume"}
  BY DEF GovernedOK, StoreOK, DriversOK, RunRecords, Locals
<1>2. CASE run' = run
  <2>1. ~ InvokeClaims(e) /\ Open' \subseteq Open /\ Awaited \subseteq Awaited'
    BY <1>2, AwaitedStays, OpensByClaim
  <2>2. ~ ClaimIteration(e) /\ ~ ResumeIntent(e)
    <3>1. run # Evolved("RUNNING", run.pending)
      BY <1>1, Evolves DEF GovernedOK, StoreOK
    <3> DEFINE claim == [Evolved("RUNNING", TRUE) EXCEPT !.iteration = @ + 1]
    <3>2. run # claim
      <4>1. \A r \in RunRecords : [r EXCEPT !.iteration = @ + 1].version = r.version
        BY DEF RunRecords
      <4>2. /\ Evolved("RUNNING", TRUE) \in RunRecords
            /\ Evolved("RUNNING", TRUE).version = run.version + 1
        BY <1>1, Evolves DEF GovernedOK, StoreOK
      <4>3. claim.version = run.version + 1
        BY <4>1, <4>2
      <4> HIDE DEF claim
      <4> QED
        BY <1>1, <4>3
    <3> QED
      BY <1>2, <3>1, <3>2 DEF ClaimIteration, ResumeIntent
  <2>3. CASE pc'[e] = pc[e] /\ loc'[e] = loc[e]
    BY <1>2, <2>1, <2>3 DEF CurrentOK
  <2>4. CASE loc'[e] = NoLocals /\ pc'[e] \in {"idle", "claim"}
    BY <1>1, <1>2, <2>4 DEF CurrentOK, NoLocals, Holding
  <2>5. CASE /\ loc'[e] = loc[e]
             /\ \/ pc'[e] \in {"idle", "claim", "fail", "cancelled"}
                \/ pc'[e] = "rewait" /\ loc[e].flow # "drive" /\ pc[e] \in Holding \cup {"invoke"}
                \/ pc[e] \in Holding /\ pc'[e] \in Holding
    BY <1>1, <1>2, <2>1, <2>5 DEF CurrentOK, Holding
  <2>6. ASSUME NEW i \in Ids, DecideCallTool(e, i)
        PROVE  CurrentOK(e)'
    <3>1. /\ loc'[e].v = loc[e].v /\ loc'[e].flow = loc[e].flow
          /\ pc'[e] = "invoke" /\ pc[e] = "model"
      BY <1>1, <2>6 DEF DecideCallTool, Goto, Locals
    <3> QED
      BY <1>2, <2>1, <3>1 DEF CurrentOK, Holding
  <2>7. ASSUME NEW i \in Ids, BeginResume(e, i)
        PROVE  CurrentOK(e)'
    BY <1>1, <1>2, <2>7 DEF BeginResume, Goto, CurrentOK, Holding
  <2> QED
    BY <2>1, <2>2, <2>3, <2>4, <2>5, <2>6, <2>7, Places
<1>3. CASE run' # run
  <2>1. run'.version = run.version + 1
    BY <1>3, RunMoves
  <2>2. CASE pc'[e] = pc[e] /\ loc'[e] = loc[e]
    BY <1>1, <2>1, <2>2 DEF CurrentOK
  <2>3. CASE loc'[e] = NoLocals /\ pc'[e] \in {"idle", "claim"}
    BY <1>1, <2>1, <2>3 DEF CurrentOK, NoLocals, Holding
  <2>4. CASE /\ loc'[e] = loc[e]
             /\ \/ pc'[e] \in {"idle", "claim", "fail", "cancelled"}
                \/ pc'[e] = "rewait" /\ loc[e].flow # "drive" /\ pc[e] \in Holding \cup {"invoke"}
                \/ pc[e] \in Holding /\ pc'[e] \in Holding
    BY <1>1, <2>1, <2>4 DEF CurrentOK, Holding
  <2>5. CASE InvokeClaims(e)
    <3>1. loc'[e] = loc[e] /\ pc'[e] = "dispatch"
      BY <1>1, <2>5, Claims
    <3> QED
      BY <1>1, <2>1, <3>1 DEF CurrentOK
  <2>6. CASE ClaimIteration(e)
    <3>1. /\ loc'[e].v = run.version + 1 /\ loc'[e].flow = "drive" /\ pc'[e] = "model"
          /\ run.status = "RUNNING" /\ ~ run.pending /\ Open' = Open
      BY <1>1, <2>6 DEF ClaimIteration, MayClaim, Goto, Open, OpenIn
    <3>2. run'.status = "RUNNING" /\ run'.pending
      <4>1. \A r \in RunRecords : LET s == [r EXCEPT !.iteration = @ + 1] IN
                                  s.status = r.status /\ s.pending = r.pending
        BY DEF RunRecords
      <4> QED
        BY <1>1, <2>6, <4>1, Evolves DEF ClaimIteration, GovernedOK, StoreOK
    <3>3. Open' = {}
      BY <3>1, NothingOpen
    <3> QED
      BY <1>1, <2>1, <3>1, <3>2, <3>3 DEF CurrentOK, Holding
  <2>7. CASE ResumeIntent(e)
    <3>1. /\ loc'[e].v = run.version + 1 /\ pc'[e] = "invoke"
          /\ run.status = "WAITING" /\ run.pending /\ Open' = Open
          /\ intents' = intents /\ invocations' = invocations
      BY <1>1, <2>7 DEF ResumeIntent, MayResume, Goto, Open, OpenIn, Locals
    <3>2. run'.status = "RUNNING" /\ run'.pending /\ run'.iteration = run.iteration
      BY <1>1, <2>7, <3>1, Evolves DEF ResumeIntent, GovernedOK, StoreOK
    <3>3. Awaited' = Awaited /\ Awaited # {}
      BY <3>1, <3>2 DEF Awaited, AwaitedIn, HeldIn
    <3>4. Open' = {}
      BY <3>1, NothingOpen
    <3> QED
      BY <1>1, <2>1, <3>1, <3>2, <3>3, <3>4 DEF CurrentOK, Holding
  <2>8. ~ \E i \in Ids : DecideCallTool(e, i) \/ BeginResume(e, i)
    BY <1>3 DEF DecideCallTool, BeginResume, db
  <2> QED
    BY <2>2, <2>3, <2>4, <2>5, <2>6, <2>7, <2>8, Places
<1> QED
  BY <1>2, <1>3

LEMMA HeldAfterClaim ==
  ASSUME OpenInv, [Next]_vars, NEW d \in Drivers, InvokeClaims(d)
  PROVE  HeldIn(run, intents, invocations, receipts)'
<1> DEFINE i == loc[d].id
<1> USE DEF OpenInv
<1>1. /\ i \in Ids /\ ~ Claimed(i) /\ receipts' = receipts
      /\ \A j \in Ids : j # i => invocations'[j] = invocations[j]
  BY Claims
<1>2. run.version = loc[d].v /\ run.version \in Nat /\ run \in RunRecords /\ Open = {}
  BY DEF InvokeClaims, InvokeOpen, CurrentOK, GovernedOK, StoreOK, RunRecords
<1>3. run'.status = "RUNNING" /\ run'.pending /\ run'.version = run.version + 1
  BY <1>2, Evolves DEF InvokeClaims
<1>4. invocations'[i].runVersion = run.version + 1
  <2>1. [status |-> "RUNNING", runVersion |-> run.version + 1, parents |-> ParentVersions,
         revision |-> tool.revision].runVersion = run.version + 1
    OBVIOUS
  <2> QED
    BY <1>1, <2>1 DEF InvokeClaims, GovernedOK, StoreOK
<1>5. \A j \in Ids : invocations[j].status # "none" => invocations[j].runVersion \in Nat
                                                       /\ invocations[j].runVersion <= run.version
  BY DEF HeldIn, GovernedOK, StoreOK, InvocationRecords
<1>6. \A j \in OpenIn(invocations', receipts') : j = i
  BY <1>1, <1>2 DEF Open, OpenIn
<1> HIDE DEF i
<1>7. \A j \in Ids : invocations'[j].status # "none" => invocations'[j].runVersion <= run'.version
  BY <1>1, <1>2, <1>3, <1>4, <1>5
<1>8. \A j, k \in Ids :
        /\ invocations'[j].status # "none" /\ invocations'[k].status # "none"
        /\ invocations'[j].runVersion = invocations'[k].runVersion
        => j = k
  <2>1. \A j \in Ids : j # i /\ invocations'[j].status # "none" =>
                       invocations'[j].runVersion # invocations'[i].runVersion
    BY <1>1, <1>2, <1>4, <1>5
  <2> QED
    BY <1>1, <2>1 DEF HeldIn
<1> QED
  BY <1>3, <1>4, <1>6, <1>7, <1>8 DEF HeldIn

\* A result that is applied is the result of the one open action.
LEMMA AppliedIsTheOpenOne ==
  ASSUME OpenInv, [Next]_vars, ~ \E d \in Drivers : InvokeClaims(d),
         NEW i \in Ids, Claimed(i), run.version = invocations[i].runVersion,
         run.status \notin {"SUCCEEDED", "FAILED", "CANCELLED"}, receipts'[i] # "none"
  PROVE  Open' = {}
<1>1. ASSUME NEW j \in Open'
      PROVE  FALSE
  <2>1. j \in Open /\ j \in Ids /\ receipts'[j] = "none"
    BY <1>1, OpensByClaim DEF OpenInv, Open, OpenIn
  <2>2. Claimed(j) /\ invocations[j].runVersion = run.version
    BY <2>1 DEF OpenInv, HeldIn, Open, OpenIn, Claimed
  <2>3. j = i
    BY <2>2, <2>1 DEF OpenInv, HeldIn, Claimed
  <2> QED
    BY <2>1, <2>3
<1> QED
  BY <1>1

LEMMA OpenAfterTransaction ==
  ASSUME OpenInv, [Next]_vars, run' # run, ~ \E d \in Drivers : InvokeClaims(d)
  PROVE  /\ Open' = {} \/ run'.status \in {"SUCCEEDED", "FAILED", "CANCELLED"}
         /\ run'.status = "WAITING" /\ run'.pending => Awaited' # {}
<1> USE DEF OpenInv
<1> DEFINE Over == run'.status \in {"SUCCEEDED", "FAILED", "CANCELLED"}
           Idle == ~ (run'.status = "WAITING" /\ run'.pending)
<1>1. /\ run \in RunRecords /\ run.pending \in BOOLEAN /\ run.version \in Nat
      /\ run.status \in {"RUNNING", "WAITING", "SUCCEEDED", "FAILED", "CANCELLED"}
  BY DEF GovernedOK, StoreOK, RunRecords
<1>2. Open' \subseteq Open
  BY OpensByClaim
<1>3. ASSUME NEW cancel \in BOOLEAN, Stopped(cancel)
      PROVE  Over /\ Idle
  BY <1>3, Stops DEF GovernedOK
<1>4. ASSUME NEW d \in Drivers, ClaimIteration(d)
      PROVE  Open = {} /\ Idle
  <2>1. run'.status = "RUNNING"
    <3>1. \A r \in RunRecords : [r EXCEPT !.iteration = @ + 1].status = r.status
      BY DEF RunRecords
    <3> QED
      BY <1>1, <1>4, <3>1, Evolves DEF ClaimIteration
  <2> QED
    BY <1>4, <2>1, NothingOpen DEF ClaimIteration, MayClaim
<1>5. ASSUME NEW d \in Drivers,
             DecideContinue(d) \/ DecideWait(d) \/ InvokeRejected(d) \/ InvokeDenied(d)
             \/ \E lastTask \in BOOLEAN : DecideComplete(d, lastTask)
      PROVE  Open = {} /\ Idle
  <2>1. pc[d] \in {"model", "invoke"} /\ run.version = loc[d].v
    BY <1>5 DEF DecideContinue, DecideWait, DecideComplete, StillCurrent, InvokeRejected,
                InvokeDenied, InvokeOpen
  <2>2. PICK status \in {run.status, "WAITING", "SUCCEEDED"} : run' = Evolved(status, FALSE)
    BY <1>5 DEF DecideContinue, DecideWait, DecideComplete, InvokeRejected, InvokeDenied, Observed
  <2>3. Idle
    BY <1>1, <2>2, Evolves
  <2>4. Open = {}
    BY <2>1 DEF CurrentOK
  <2> QED
    BY <2>3, <2>4
<1>6. ASSUME NEW d \in Drivers, InvokeWaits(d)
      PROVE  Open = {} /\ Awaited' # {}
  <2> DEFINE i == loc[d].id
  <2>1. /\ pc[d] = "invoke" /\ run.version = loc[d].v /\ i \in Ids /\ ~ Claimed(i)
        /\ intents[i].effect # "none" => intents[i].iteration = run.iteration
        /\ invocations' = invocations /\ run'.iteration = run.iteration
    BY <1>1, <1>6, Evolves DEF InvokeWaits, InvokeOpen, GovernedOK, DriversOK
  <2>2. PICK r \in Candidates(i) : r.effect # "DENY" /\ intents' = [intents EXCEPT ![i] = r]
    BY <1>6 DEF InvokeWaits
  <2>3. r.effect \in {"ALLOW", "REQUIRED"} /\ r.iteration = run.iteration
    BY <2>1, <2>2, CandidateTypes DEF IntentRecords
  <2>4. intents'[i] = r
    BY <2>1, <2>2 DEF GovernedOK, StoreOK
  <2>5. i \in Awaited'
    BY <2>1, <2>3, <2>4 DEF Awaited, AwaitedIn, Claimed
  <2> QED
    BY <2>1, <2>5 DEF CurrentOK
<1>7. ASSUME NEW d \in Drivers, NEW error \in Errors, Reconcile(d, error), Applies(loc[d].id)
      PROVE  Open' = {} /\ Idle
  <2>1. /\ loc[d].id \in Ids /\ Claimed(loc[d].id) /\ receipts'[loc[d].id] # "none"
        /\ pc[d] \in Holding
    BY <1>7, ReconcileSteps, ErrorsOfCalls, Recording DEF GovernedOK, HoldInv, Holding
  <2>2. /\ run.version = invocations[loc[d].id].runVersion
        /\ run.status \notin {"SUCCEEDED", "FAILED", "CANCELLED"}
    BY <1>7 DEF Applies, Terminated, Terminal, Stale
  <2>3. run' = Evolved(run.status, FALSE)
    BY <1>7 DEF Reconcile, Observed
  <2> QED
    BY <1>1, <2>1, <2>2, <2>3, Evolves, AppliedIsTheOpenOne
<1>8. ASSUME NEW i \in Ids, Repair(i), Claimed(i), receipts[i] # "none"
      PROVE  Open' = {} /\ Idle
  <2>1. ~ Stale(i) /\ run.status = "RUNNING" /\ ~ run'.pending /\ receipts'[i] # "none"
    BY <1>8, Repairing DEF Repair
  <2> QED
    BY <1>8, <2>1, AppliedIsTheOpenOne DEF Stale
<1>9. ASSUME NEW d \in Drivers, ResumeIntent(d)
      PROVE  Open = {} /\ Idle
  <2>1. run'.status = "RUNNING"
    BY <1>1, <1>9, Evolves DEF ResumeIntent
  <2> QED
    BY <1>9, <2>1, NothingOpen DEF ResumeIntent, MayResume
<1>10. ASSUME NEW d \in Drivers, Rewait(d)
       PROVE  Open = {} /\ Awaited' # {}
  <2>1. /\ pc[d] = "rewait" /\ run.version = loc[d].v /\ run' = Evolved("WAITING", run.pending)
        /\ intents' = intents /\ invocations' = invocations
    BY <1>10 DEF Rewait
  <2>2. Open = {} /\ Awaited # {}
    BY <2>1 DEF CurrentOK
  <2>3. Awaited' = Awaited
    BY <1>1, <2>1, Evolves DEF Awaited, AwaitedIn
  <2> QED
    BY <2>2, <2>3
<1>11. ASSUME ResumeContext
       PROVE  Idle /\ (Open = {} \/ Over)
  <2>1. CASE run' = Evolved("RUNNING", run.pending)
    BY <1>1, <1>11, <2>1, Evolves, NothingOpen DEF ResumeContext
  <2>2. CASE Stopped(FALSE)
    BY <1>3, <2>2
  <2> QED
    BY <1>11, <2>1, <2>2 DEF ResumeContext
<1>12. RunTransaction
  BY RunMoves
<1> QED
  BY <1>2, <1>3, <1>4, <1>5, <1>6, <1>7, <1>8, <1>9, <1>10, <1>11, <1>12 DEF RunTransaction

LEMMA HeldAfterTransaction ==
  ASSUME OpenInv, [Next]_vars, run' # run, ~ \E d \in Drivers : InvokeClaims(d)
  PROVE  HeldIn(run, intents, invocations, receipts)'
<1> USE DEF OpenInv
<1>1. \A i \in Ids : invocations'[i].status # "none" =>
                       /\ invocations[i].status # "none"
                       /\ invocations'[i].runVersion = invocations[i].runVersion
  BY ClaimsStay, VersionsStay DEF Claimed
<1>2. /\ run'.version = run.version + 1 /\ run.version \in Nat
      /\ \A i \in Ids : invocations[i].runVersion \in Nat
  BY RunMoves DEF GovernedOK, StoreOK, RunRecords, InvocationRecords
<1>3. \A i \in Ids : invocations'[i].status # "none" => invocations'[i].runVersion <= run'.version
  BY <1>1, <1>2 DEF HeldIn
<1>4. \A i, j \in Ids :
        /\ invocations'[i].status # "none" /\ invocations'[j].status # "none"
        /\ invocations'[i].runVersion = invocations'[j].runVersion
        => i = j
  BY <1>1 DEF HeldIn
<1>5. \/ OpenIn(invocations', receipts') = {}
      \/ run'.status \in {"SUCCEEDED", "FAILED", "CANCELLED"}
  BY OpenAfterTransaction DEF Open
<1>6. run'.status = "WAITING" /\ run'.pending => AwaitedIn(run', intents', invocations') # {}
  BY OpenAfterTransaction DEF Awaited
<1> QED
  BY <1>3, <1>4, <1>5, <1>6 DEF HeldIn

LEMMA OpenKept ==
  ASSUME OpenInv, [Next]_vars, HoldInv'
  PROVE  OpenInv'
<1>1. GovernedOK' /\ HoldInv'
  BY TypesKept DEF OpenInv
<1>2. HeldIn(run, intents, invocations, receipts)'
  BY HeldWhileUntouched, HeldAfterClaim, HeldAfterTransaction
<1>3. \A d \in Drivers : CurrentOK(d)'
  BY CurrentKept
<1> QED
  BY <1>1, <1>2, <1>3 DEF OpenInv

LEMMA NothingHeldAtFirst == Init => OpenInv
<1>1. Init => GovernedOK /\ HoldInv
  BY TypesStart, DispatchesStart DEF DispatchInv
<1>2. Init => HeldIn(run, intents, invocations, receipts)
  BY DEF Init, HeldIn, OpenIn, NoInvocation
<1>3. Init => \A d \in Drivers : CurrentOK(d)
  BY DEF Init, CurrentOK, NoLocals, Holding
<1> QED
  BY <1>1, <1>2, <1>3 DEF OpenInv

\* THEOREM.  A run free to claim its next iteration has no dispatch of unrecorded outcome
\* behind it, and a run that waits with its iteration claimed has the undispatched intent
\* of that iteration to be approved (_approval_wait, resume_intent, reconcile_receipt).
THEOREM OpenActionsHoldTheirIteration == Spec => []OpenActionHoldsIteration
<1>1. Init => DispatchInv /\ OpenInv
  BY DispatchesStart, NothingHeldAtFirst
<1>2. DispatchInv /\ OpenInv /\ [Next]_vars => DispatchInv' /\ OpenInv'
  BY DispatchesKept, OpenKept DEF DispatchInv
<1>3. OpenInv => OpenActionHoldsIteration
  BY OpenHolds
<1> QED
  BY <1>1, <1>2, <1>3, PTL DEF Spec

-----------------------------------------------------------------------------
\* The safety half of IterationIsReleased.

Busy == run.status = "RUNNING" /\ run.pending

\* Where a driver answers for the iteration its run has claimed.
Carrying == {"model", "invoke", "fail", "cancelled"} \cup Holding

Unattended == crashes = 0 /\ \A i \in Ids : intents[i].effect # "REQUIRED"

\* While the process lives and no approval is involved, a claimed iteration has a
\* driver that will release it, if only by failing the run.
IterationIsCarried == Unattended /\ Busy => \E d \in Drivers : pc[d] \in Carrying

\* The action of a driver that did not resume an intent is its own, and has no intent
\* before the driver's transaction.
FreshOK ==
  /\ \A i \in Ids : intents[i].effect # "none" => i \in issued
  /\ \A d \in Drivers : pc[d] = "resume" => loc[d].flow = "resume"
  /\ \A d \in Drivers : pc[d] \in {"resume", "invoke"} /\ loc[d].flow = "resume" =>
       intents[loc[d].id].effect # "none"
  /\ \A d \in Drivers : pc[d] = "invoke" /\ loc[d].flow = "drive" =>
       loc[d].id \in issued /\ intents[loc[d].id].effect = "none"
  /\ \A d, e \in Drivers :
       /\ pc[d] = "invoke" /\ loc[d].flow = "drive"
       /\ pc[e] = "invoke" /\ loc[e].flow = "drive"
       /\ loc[d].id = loc[e].id
       => d = e

\* Without approvals no run waits with its iteration claimed, so nothing is resumed.
IterationOK ==
  /\ crashes \in Nat /\ faults \in Nat
  /\ Unattended =>
       /\ ~ (run.status = "WAITING" /\ run.pending)
       /\ \A d \in Drivers : /\ pc[d] # "rewait"
                             /\ pc[d] \in Holding \cup {"invoke"} => loc[d].flow = "drive"
  /\ IterationIsCarried

LEMMA IssuedStay ==
  ASSUME [Next]_vars
  PROVE  issued \subseteq issued'
<1>1. ASSUME NEW d \in Drivers, BeginDrive(d) \/ DriverStep(d) \/ \E i \in Ids : BeginResume(d, i)
      PROVE  issued \subseteq issued'
  BY <1>1 DEF DriverStep, Land, BeginDrive, BeginResume, Fail, ClaimIteration, RefuseIteration,
              ModelFails, DecisionStale, DecideContinue, DecideWait, DecideCallTool, DecideComplete,
              InvokeRefused, InvokeRejected, InvokeDenied, InvokeWaits, InvokeClaims, InvokeBlocked,
              Reconcile, ReconcileFails, ResumeIntent, ResumeDenied, Rewait
<1>2. CASE RecoveryStep
  BY <1>2 DEF RecoveryStep, RecoverDetect, RecoverLookup, RecoverCommit, RecoverRepair
<1>3. CASE Environment
  BY <1>3 DEF Environment, ResumeContext, Decide, CancelIntent, StopRun, CancelParent, PublishPolicy,
              SetEnabled, RestrictMode, Tick, Crash, Rest
<1>4. CASE UNCHANGED vars
  BY <1>4 DEF vars
<1> QED
  BY <1>1, <1>2, <1>3, <1>4 DEF Next

\* An intent gets its effect once, from the transaction of a driver that invokes it.
LEMMA EffectsAppear ==
  ASSUME GovernedOK, [Next]_vars, NEW i \in Ids
  PROVE  \/ intents'[i].effect = intents[i].effect
         \/ /\ intents[i].effect = "none"
            /\ \E d \in Drivers : /\ InvokeDenied(d) \/ InvokeWaits(d) \/ InvokeClaims(d)
                                  /\ loc[d].id = i /\ pc[d] = "invoke" /\ pc'[d] # "invoke"
<1>1. ASSUME NEW d \in Drivers, InvokeDenied(d) \/ InvokeWaits(d) \/ InvokeClaims(d), loc[d].id = i
      PROVE  /\ intents[i].effect # "none" => intents'[i].effect = intents[i].effect
             /\ pc[d] = "invoke" /\ pc'[d] # "invoke"
  <2>1. \E r \in Candidates(i) : intents' = [intents EXCEPT ![i] = r]
    BY <1>1 DEF InvokeDenied, InvokeWaits, InvokeClaims
  <2>2. intents[i].effect # "none" => intents'[i].effect = intents[i].effect
    BY <2>1, CandidateTypes DEF GovernedOK, StoreOK
  <2>3. pc[d] = "invoke" /\ (Goto(d, "claim") \/ Goto(d, "idle") \/ Goto(d, "dispatch"))
    BY <1>1 DEF InvokeDenied, InvokeWaits, InvokeClaims, InvokeOpen, Proceed, Goto
  <2> QED
    BY <2>2, <2>3 DEF Goto, GovernedOK, DriversOK
<1> QED
  BY <1>1, IntentSteps DEF SameIntent

LEMMA FreshKept ==
  ASSUME OpenInv, FreshOK, [Next]_vars
  PROVE  FreshOK'
<1> USE DEF OpenInv
<1>1. /\ loc \in [Drivers -> Locals] /\ pc \in [Drivers -> Positions] /\ issued \subseteq issued'
      /\ \A d \in Drivers : loc[d].flow \in {"drive", "resume"}
      /\ \A d \in Drivers : pc[d] \in {"resume", "invoke"} => loc[d].id \in Ids
  BY IssuedStay DEF GovernedOK, DriversOK, Locals
\* Only a driver alone with a fresh action makes its intent.
<1>2. ASSUME NEW i \in Ids, intents'[i].effect # intents[i].effect
      PROVE  \E d \in Drivers : /\ loc[d].id = i /\ pc[d] = "invoke" /\ pc'[d] # "invoke"
                                /\ loc[d].flow = "drive" /\ i \in issued
  <2>1. PICK d \in Drivers : /\ intents[i].effect = "none" /\ loc[d].id = i
                             /\ pc[d] = "invoke" /\ pc'[d] # "invoke"
    BY <1>2, EffectsAppear
  <2> QED
    BY <1>1, <2>1 DEF FreshOK
<1>3. \A i \in Ids : intents[i].effect # "none" => intents'[i].effect = intents[i].effect
  BY EffectsAppear
\* How a driver comes to invoke or to resume.
<1>4. ASSUME NEW e \in Drivers, pc'[e] \in {"resume", "invoke"}
      PROVE  \/ pc'[e] = pc[e] /\ loc'[e] = loc[e]
             \/ /\ ResumeIntent(e) /\ pc[e] = "resume" /\ pc'[e] = "invoke"
                /\ loc'[e].id = loc[e].id /\ loc'[e].flow = loc[e].flow
             \/ \E i \in Ids : /\ DecideCallTool(e, i) /\ i \notin issued /\ i \in issued'
                               /\ loc'[e].id = i /\ loc'[e].flow = "drive" /\ intents' = intents
                               /\ pc'[e] = "invoke" /\ \A d \in Drivers : d # e => pc'[d] = pc[d] /\ loc'[d] = loc[d]
             \/ \E i \in Ids : /\ loc'[e].id = i /\ loc'[e].flow = "resume" /\ pc'[e] = "resume"
                               /\ intents[i].effect # "none"
  <2>1. CASE ResumeIntent(e)
    BY <1>1, <2>1 DEF ResumeIntent, Goto, Locals
  <2>2. ASSUME NEW i \in Ids, DecideCallTool(e, i)
        PROVE  /\ i \notin issued /\ i \in issued' /\ loc'[e].id = i /\ loc'[e].flow = "drive"
               /\ intents' = intents /\ pc'[e] = "invoke"
               /\ \A d \in Drivers : d # e => pc'[d] = pc[d] /\ loc'[d] = loc[d]
    <3>1. pc[e] = "model" /\ loc[e].flow = "drive"
      BY <2>2 DEF DecideCallTool, CurrentOK
    <3> QED
      BY <1>1, <2>2, <3>1 DEF DecideCallTool, Goto, Locals, db
  <2>3. ASSUME NEW i \in Ids, BeginResume(e, i)
        PROVE  /\ loc'[e].id = i /\ loc'[e].flow = "resume" /\ pc'[e] = "resume"
               /\ intents[i].effect # "none"
    BY <1>1, <2>3 DEF BeginResume, Goto
  <2>4. InvokeClaims(e) => pc'[e] = "dispatch"
    BY <1>1, Claims
  <2>5. ClaimIteration(e) => pc'[e] = "model"
    BY <1>1 DEF ClaimIteration, Goto
  <2> QED
    BY <1>4, <2>1, <2>2, <2>3, <2>4, <2>5, Places DEF Holding
<1>5. \A i \in Ids : intents'[i].effect # "none" => i \in issued'
  BY <1>1, <1>2 DEF FreshOK
<1>6. \A e \in Drivers : pc'[e] = "resume" => loc'[e].flow = "resume"
  BY <1>4 DEF FreshOK
<1>7. \A e \in Drivers : pc'[e] \in {"resume", "invoke"} /\ loc'[e].flow = "resume" =>
        intents'[loc'[e].id].effect # "none"
  BY <1>1, <1>3, <1>4 DEF FreshOK
<1>8. ASSUME NEW e \in Drivers, pc'[e] = "invoke", loc'[e].flow = "drive"
      PROVE  loc'[e].id \in issued' /\ intents'[loc'[e].id].effect = "none"
  <2>1. CASE pc'[e] = pc[e] /\ loc'[e] = loc[e]
    <3>1. loc[e].id \in Ids /\ loc[e].id \in issued /\ intents[loc[e].id].effect = "none"
      BY <1>1, <1>8, <2>1 DEF FreshOK
    <3>2. intents'[loc[e].id].effect = intents[loc[e].id].effect
      <4>1. SUFFICES ASSUME intents'[loc[e].id].effect # intents[loc[e].id].effect
                     PROVE  FALSE
        OBVIOUS
      <4>2. PICK d \in Drivers : /\ loc[d].id = loc[e].id /\ pc[d] = "invoke" /\ pc'[d] # "invoke"
                                 /\ loc[d].flow = "drive"
        BY <1>2, <3>1, <4>1
      <4>3. d = e
        BY <1>8, <2>1, <4>2 DEF FreshOK
      <4> QED
        BY <1>8, <4>2, <4>3
    <3> QED
      BY <1>1, <2>1, <3>1, <3>2
  <2>2. ASSUME NEW i \in Ids, i \notin issued, i \in issued', loc'[e].id = i, intents' = intents
        PROVE  loc'[e].id \in issued' /\ intents'[loc'[e].id].effect = "none"
    BY <2>2 DEF FreshOK
  <2>3. ~ (ResumeIntent(e) /\ pc[e] = "resume" /\ loc'[e].flow = loc[e].flow)
    BY <1>8 DEF FreshOK
  <2> QED
    BY <1>4, <1>8, <2>1, <2>2, <2>3
<1>9. ASSUME NEW d \in Drivers, NEW e \in Drivers,
             pc'[d] = "invoke", loc'[d].flow = "drive",
             pc'[e] = "invoke", loc'[e].flow = "drive", loc'[d].id = loc'[e].id
      PROVE  d = e
  <2>1. ASSUME NEW f \in Drivers, pc'[f] = "invoke", loc'[f].flow = "drive"
        PROVE  \/ pc'[f] = pc[f] /\ loc'[f] = loc[f] /\ loc'[f].id \in issued
               \/ /\ loc'[f].id \notin issued
                  /\ \A g \in Drivers : g # f => pc'[g] = pc[g] /\ loc'[g] = loc[g]
    <3>1. ~ (ResumeIntent(f) /\ pc[f] = "resume" /\ loc'[f].flow = loc[f].flow)
      BY <2>1 DEF FreshOK
    <3>2. pc'[f] = pc[f] /\ loc'[f] = loc[f] => loc'[f].id \in issued
      BY <2>1 DEF FreshOK
    <3> QED
      BY <1>4, <2>1, <3>1, <3>2
  <2>2. CASE pc'[d] = pc[d] /\ loc'[d] = loc[d] /\ pc'[e] = pc[e] /\ loc'[e] = loc[e]
    BY <1>9, <2>2 DEF FreshOK
  <2> QED
    BY <1>9, <2>1, <2>2
<1> QED
  BY <1>5, <1>6, <1>7, <1>8, <1>9 DEF FreshOK

\* A fresh action waits only for an approval.
LEMMA WaitsForApproval ==
  ASSUME GovernedOK, NEW d \in Drivers, InvokeWaits(d), intents[loc[d].id].effect = "none"
  PROVE  loc[d].id \in Ids /\ intents'[loc[d].id].effect = "REQUIRED"
<1> DEFINE i == loc[d].id
<1>1. i \in Ids /\ ~ Claimed(i) /\ ~ Expired
  BY DEF InvokeWaits, InvokeOpen, GovernedOK, DriversOK
<1>2. PICK r \in Candidates(i) : /\ r.effect # "DENY" /\ ~Allowed(r, i)
                                 /\ intents' = [intents EXCEPT ![i] = r]
  BY DEF InvokeWaits
<1>3. PICK e \in Effects : r = Prepared(e)
  BY DEF Candidates
<1>4. /\ r.effect = e /\ ~ r.cancelled /\ ~ r.consumed
      /\ r.expires = IF now + Expiry < Deadline THEN now + Expiry ELSE Deadline
  BY <1>3 DEF Prepared
<1>5. now < r.expires
  BY <1>1, <1>4, GovernedAssumption DEF Expired, GovernedOK, WorldOK
<1>6. e \in {"ALLOW", "REQUIRED", "DENY"}
  BY GovernedAssumption
<1>7. r.effect = "REQUIRED"
  BY <1>1, <1>2, <1>4, <1>5, <1>6 DEF Allowed
<1> QED
  BY <1>1, <1>2, <1>7 DEF GovernedOK, StoreOK

\* An iteration becomes busy when it is claimed, or when an approval is resumed.
LEMMA IterationsBegin ==
  ASSUME GovernedOK, HoldInv, [Next]_vars, Busy', ~ Busy
  PROVE  \E d \in Drivers : ClaimIteration(d) \/ ResumeIntent(d)
<1> USE DEF GovernedOK
<1>1. run.pending \in BOOLEAN /\ run \in RunRecords
      /\ run.status \in {"RUNNING", "WAITING", "SUCCEEDED", "FAILED", "CANCELLED"}
  BY DEF StoreOK, RunRecords
<1>2. RunTransaction
  BY RunMoves DEF Busy
<1>3. ASSUME NEW status \in {"RUNNING", "WAITING", "SUCCEEDED", "FAILED", "CANCELLED"},
             NEW pending \in BOOLEAN, run' = Evolved(status, pending)
      PROVE  status = "RUNNING" /\ pending
  BY <1>1, <1>3, Evolves DEF Busy
<1>4. ~ \E cancel \in BOOLEAN : Stopped(cancel)
  BY Stops DEF Busy
<1>5. ASSUME NEW d \in Drivers
      PROVE  /\ ~ DecideContinue(d) /\ ~ DecideWait(d)
             /\ ~ \E lastTask \in BOOLEAN : DecideComplete(d, lastTask)
             /\ ~ InvokeRejected(d) /\ ~ InvokeDenied(d) /\ ~ InvokeWaits(d) /\ ~ InvokeClaims(d)
             /\ ~ \E error \in Errors : Reconcile(d, error) /\ Applies(loc[d].id)
             /\ ~ Rewait(d)
  <2>1. run' # Observed
    BY <1>1, <1>3 DEF Observed
  <2>2. run' # Evolved("WAITING", FALSE) /\ run' # Evolved("SUCCEEDED", FALSE)
    BY <1>3
  <2>3. ~ InvokeOpen(d)
    BY DEF InvokeOpen, Busy
  <2>4. run' # Evolved("WAITING", run.pending) /\ run' # run
    BY <1>1, <1>3 DEF Busy
  <2> QED
    BY <2>1, <2>2, <2>3, <2>4 DEF DecideContinue, DecideWait, DecideComplete, InvokeRejected, InvokeDenied,
       InvokeWaits, InvokeClaims, Reconcile, Rewait
<1>6. ~ \E i \in Ids : Repair(i)
  <2>1. run' # Observed /\ run' # run
    BY <1>1, <1>3 DEF Observed, Busy
  <2> QED
    BY <2>1 DEF Repair
<1>7. ~ ResumeContext
  <2>1. ~ run.pending => run' # Evolved("RUNNING", run.pending)
    BY <1>1, <1>3
  <2> QED
    BY <1>4, <2>1 DEF ResumeContext
<1> QED
  BY <1>2, <1>4, <1>5, <1>6, <1>7 DEF RunTransaction

\* A driver that answers for the iteration goes on doing so, or releases it.
LEMMA CarriersMove ==
  ASSUME GovernedOK, HoldInv, [Next]_vars, ~ Crash, NEW e \in Drivers, pc[e] \in Carrying,
         pc[e] \in Holding \cup {"invoke"} => loc[e].flow = "drive"
  PROVE  pc'[e] \in Carrying \/ ~ Busy'
<1> USE DEF GovernedOK
<1>1. /\ run.pending \in BOOLEAN /\ run \in RunRecords /\ pc \in [Drivers -> Positions]
      /\ run.status \in {"RUNNING", "WAITING", "SUCCEEDED", "FAILED", "CANCELLED"}
  BY DEF StoreOK, RunRecords, DriversOK
<1>2. Observed.pending = FALSE
  BY <1>1, Evolves DEF Observed
<1>3. /\ Evolved("WAITING", FALSE).status = "WAITING" /\ Evolved("SUCCEEDED", FALSE).status = "SUCCEEDED"
      /\ Evolved("WAITING", run.pending).status = "WAITING"
  BY <1>1, Evolves
<1>4. ASSUME BeginDrive(e) \/ DriverStep(e) \/ \E i \in Ids : BeginResume(e, i)
      PROVE  pc'[e] \in Carrying \/ ~ Busy'
  <2> USE DEF Carrying, Holding, Goto
  <2>1. CASE Fail(e)
    <3>1. CASE run.status \in {"RUNNING", "WAITING"}
      <4>1. \E cancel \in BOOLEAN : Stopped(cancel)
        BY <2>1, <3>1 DEF Fail
      <4> QED
        BY <4>1, Stops DEF Busy
    <3>2. CASE run.status \notin {"RUNNING", "WAITING"}
      BY <2>1, <3>2 DEF Fail, Busy
    <3> QED
      BY <3>1, <3>2
  <2>2. CASE ModelFails(e) \/ DecisionStale(e) \/ \E i \in Ids : DecideCallTool(e, i)
    BY <1>1, <2>2 DEF ModelFails, DecisionStale, DecideCallTool
  <2>3. CASE DecideContinue(e) \/ DecideWait(e) \/ \E lastTask \in BOOLEAN : DecideComplete(e, lastTask)
    BY <1>2, <1>3, <2>3 DEF DecideContinue, DecideWait, DecideComplete, Busy
  <2>4. CASE InvokeRejected(e) \/ InvokeDenied(e) \/ InvokeWaits(e)
    BY <1>2, <1>3, <2>4 DEF InvokeRejected, InvokeDenied, InvokeWaits, Busy
  <2>5. CASE InvokeRefused(e) \/ InvokeBlocked(e) \/ InvokeClaims(e) \/ Landing(e) \/ ReconcileFails(e)
    BY <1>1, <2>5 DEF InvokeRefused, InvokeBlocked, InvokeClaims, Landing, Land, ReconcileFails, Raise,
       InvokeOpen
  <2>6. ASSUME NEW error \in Errors, Reconcile(e, error)
        PROVE  pc'[e] \in Carrying \/ ~ Busy'
    <3>1. pc[e] \in Holding /\ loc[e].flow = "drive"
      BY <2>6 DEF Reconcile
    <3> QED
      BY <1>1, <2>6, <3>1 DEF Reconcile, AfterReconcile, Raise, Proceed, Busy
  <2>7. ~ (BeginDrive(e) \/ ClaimIteration(e) \/ RefuseIteration(e) \/ ResumeIntent(e) \/ ResumeDenied(e)
           \/ Rewait(e) \/ \E i \in Ids : BeginResume(e, i))
    BY DEF BeginDrive, ClaimIteration, RefuseIteration, ResumeIntent, ResumeDenied, Rewait, BeginResume
  <2> QED
    BY <1>4, <2>1, <2>2, <2>3, <2>4, <2>5, <2>6, <2>7 DEF DriverStep, Errors, Landing
<1>5. CASE RecoveryStep
  BY <1>5 DEF RecoveryStep, RecoverDetect, RecoverLookup, RecoverCommit, RecoverRepair, procs
<1>6. CASE Environment
  BY <1>6 DEF Environment, ResumeContext, Decide, CancelIntent, StopRun, CancelParent, PublishPolicy,
              SetEnabled, RestrictMode, Tick, Rest, procs
<1>7. CASE UNCHANGED vars
  BY <1>7 DEF vars, procs
<1> QED
  BY <1>4, <1>5, <1>6, <1>7, OtherDrivers DEF Next

LEMMA IterationKept ==
  ASSUME OpenInv, FreshOK, IterationOK, [Next]_vars
  PROVE  IterationOK'
<1> USE DEF OpenInv
<1>1. /\ crashes' \in Nat /\ crashes' >= crashes /\ (Crash => crashes' # 0) /\ faults' \in Nat
  BY CountsGrow DEF IterationOK
<1>2. Unattended' => Unattended /\ ~ Crash
  <2>1. \A i \in Ids : intents[i].effect = "REQUIRED" => intents'[i].effect = "REQUIRED"
    BY EffectsAppear
  <2> QED
    BY <1>1, <2>1 DEF Unattended, IterationOK
<1> SUFFICES ASSUME Unattended'
             PROVE  /\ ~ (run'.status = "WAITING" /\ run'.pending)
                    /\ \A d \in Drivers : /\ pc'[d] # "rewait"
                                          /\ pc'[d] \in Holding \cup {"invoke"} => loc'[d].flow = "drive"
                    /\ Busy' => \E d \in Drivers : pc'[d] \in Carrying
  BY <1>1 DEF IterationOK, IterationIsCarried
<1>3. /\ Unattended /\ ~ Crash /\ ~ (run.status = "WAITING" /\ run.pending)
      /\ \A d \in Drivers : /\ pc[d] # "rewait"
                            /\ pc[d] \in Holding \cup {"invoke"} => loc[d].flow = "drive"
  BY <1>2 DEF IterationOK
<1>4. \A d \in Drivers : ~ ResumeIntent(d) /\ ~ Rewait(d)
  BY <1>3 DEF ResumeIntent, MayResume, Rewait
<1>5. \A d \in Drivers : ~ InvokeWaits(d)
  <2> SUFFICES ASSUME NEW d \in Drivers, InvokeWaits(d)
               PROVE  FALSE
    OBVIOUS
  <2>1. pc[d] = "invoke"
    BY DEF InvokeWaits, InvokeOpen
  <2>2. intents[loc[d].id].effect = "none"
    BY <1>3, <2>1 DEF FreshOK
  <2> QED
    BY <2>2, WaitsForApproval DEF Unattended
<1>6. ~ (run'.status = "WAITING" /\ run'.pending)
  <2> SUFFICES ASSUME run'.status = "WAITING", run'.pending
               PROVE  FALSE
    OBVIOUS
  <2>1. run.pending \in BOOLEAN /\ run \in RunRecords
        /\ run.status \in {"RUNNING", "WAITING", "SUCCEEDED", "FAILED", "CANCELLED"}
    BY DEF GovernedOK, StoreOK, RunRecords
  <2>2. RunTransaction
    BY <1>3, RunMoves
  <2>3. ASSUME NEW status \in {"RUNNING", "WAITING", "SUCCEEDED", "FAILED", "CANCELLED"},
               NEW pending \in BOOLEAN, run' = Evolved(status, pending)
        PROVE  status = "WAITING" /\ pending
    BY <2>1, <2>3, Evolves
  <2>4. ~ \E cancel \in BOOLEAN : Stopped(cancel)
    BY Stops DEF GovernedOK
  <2>5. run' # Observed /\ run' # run
    BY <1>3, <2>1, <2>3 DEF Observed
  <2>6. ASSUME NEW d \in Drivers
        PROVE  /\ ~ DecideContinue(d) /\ ~ DecideWait(d)
               /\ ~ \E lastTask \in BOOLEAN : DecideComplete(d, lastTask)
               /\ ~ InvokeRejected(d) /\ ~ InvokeDenied(d) /\ ~ InvokeClaims(d)
               /\ ~ \E error \in Errors : Reconcile(d, error) /\ Applies(loc[d].id)
    <3>1. /\ run' # Evolved("WAITING", FALSE) /\ run' # Evolved("SUCCEEDED", FALSE)
          /\ run' # Evolved("RUNNING", TRUE)
      BY <2>3
    <3> QED
      BY <2>5, <3>1 DEF DecideContinue, DecideWait, DecideComplete, InvokeRejected, InvokeDenied,
         InvokeClaims, Reconcile
  <2>7. ASSUME NEW d \in Drivers, ClaimIteration(d)
        PROVE  FALSE
    <3>1. \A r \in RunRecords : [r EXCEPT !.iteration = @ + 1].status = r.status
      BY DEF RunRecords
    <3>2. run'.status = "RUNNING"
      BY <2>1, <2>7, <3>1, Evolves DEF ClaimIteration
    <3> QED
      BY <3>2
  <2>8. ~ \E i \in Ids : Repair(i)
    BY <2>5 DEF Repair
  <2>9. ~ ResumeContext
    <3>1. run' # Evolved("RUNNING", run.pending)
      BY <2>1, <2>3
    <3> QED
      BY <2>4, <3>1 DEF ResumeContext
  <2> QED
    BY <1>4, <1>5, <2>2, <2>4, <2>6, <2>7, <2>8, <2>9 DEF RunTransaction
<1>7. ASSUME NEW e \in Drivers
      PROVE  /\ pc'[e] # "rewait"
             /\ pc'[e] \in Holding \cup {"invoke"} => loc'[e].flow = "drive"
  <2>1. loc \in [Drivers -> Locals] /\ pc \in [Drivers -> Positions]
    BY DEF GovernedOK, DriversOK
  <2>2. InvokeClaims(e) => pc[e] = "invoke" /\ pc'[e] = "dispatch" /\ loc' = loc
    BY <2>1, Claims
  <2>3. ClaimIteration(e) => pc'[e] = "model"
    BY <2>1 DEF ClaimIteration, Goto
  <2>4. ASSUME NEW i \in Ids, DecideCallTool(e, i)
        PROVE  pc'[e] = "invoke" /\ loc'[e].flow = "drive"
    <3>1. pc[e] = "model" /\ loc[e].flow = "drive"
      BY <2>4 DEF DecideCallTool, CurrentOK
    <3> QED
      BY <2>1, <2>4, <3>1 DEF DecideCallTool, Goto, Locals
  <2>5. ASSUME NEW i \in Ids, BeginResume(e, i)
        PROVE  pc'[e] = "resume"
    BY <2>1, <2>5 DEF BeginResume, Goto
  <2> QED
    BY <1>3, <1>4, <2>2, <2>3, <2>4, <2>5, Places DEF Holding
<1>8. ASSUME Busy'
      PROVE  \E d \in Drivers : pc'[d] \in Carrying
  <2>1. CASE Busy
    <3>1. PICK e \in Drivers : pc[e] \in Carrying
      BY <1>3, <2>1 DEF IterationOK, IterationIsCarried
    <3> QED
      BY <1>3, <1>8, <3>1, CarriersMove
  <2>2. CASE ~ Busy
    <3>1. PICK d \in Drivers : ClaimIteration(d)
      BY <1>4, <1>8, <2>2, IterationsBegin
    <3>2. pc'[d] = "model"
      BY <3>1 DEF ClaimIteration, Goto, GovernedOK, DriversOK
    <3> QED
      BY <3>2 DEF Carrying
  <2> QED
    BY <2>1, <2>2
<1> QED
  BY <1>6, <1>7, <1>8

\* No failure, stale decision, refused dispatch, late result or lost race leaves a
\* claimed iteration to nobody, as long as no approval is involved (drive, _failure).
THEOREM IterationsAreCarried == Spec => []IterationIsCarried
<1>1. Init => FreshOK /\ IterationOK
  BY DEF Init, FreshOK, IterationOK, IterationIsCarried, Busy, Holding, NoIntent
<1>2. DispatchInv /\ OpenInv /\ [Next]_vars => DispatchInv' /\ OpenInv'
  BY DispatchesKept, OpenKept DEF DispatchInv
<1>3. OpenInv /\ FreshOK /\ [Next]_vars => FreshOK'
  BY FreshKept
<1>4. OpenInv /\ FreshOK /\ IterationOK /\ [Next]_vars => IterationOK'
  BY IterationKept
<1>5. IterationOK => IterationIsCarried
  BY DEF IterationOK
<1> QED
  BY <1>1, <1>2, <1>3, <1>4, <1>5, DispatchesStart, NothingHeldAtFirst, PTL DEF Spec

-----------------------------------------------------------------------------
\* The refinement: the few steps that write an intent, a claim, a receipt or the ledger
\* are each one step of EffectPromise.

promiseVars == <<permissionBar, committedBar, ledger, receipts>>

\* Only what awaits approval is decided.
DecisionsOK ==
  \A i \in Ids : intents[i].effect # "REQUIRED" => intents[i].decision = "none"

LEMMA Permissions ==
  /\ permissionBar = [i \in Ids |-> Permission(intents[i])]
  /\ permissionBar' = [i \in Ids |-> Permission(intents'[i])]
BY DEF permissionBar

\* A step that touches one intent moves one permission.
LEMMA PermissionMoves ==
  ASSUME NEW i \in Ids, \A j \in Ids : j # i => SameIntent(j)
  PROVE  permissionBar' = [permissionBar EXCEPT ![i] = Permission(intents'[i])]
<1>1. \A j \in Ids : j # i => Permission(intents'[j]) = Permission(intents[j])
  BY DEF SameIntent, Permission
<1> QED
  BY <1>1, Permissions

LEMMA PermissionStays ==
  ASSUME \A j \in Ids : SameIntent(j)
  PROVE  permissionBar' = permissionBar
<1>1. \A j \in Ids : Permission(intents'[j]) = Permission(intents[j])
  BY DEF SameIntent, Permission
<1> QED
  BY <1>1, Permissions

\* The steps the promise may see.
LEMMA VisibleSteps ==
  ASSUME GovernedOK, HoldInv, [Next]_vars
  PROVE  \/ UNCHANGED <<intents, invocations, receipts, ledger>>
         \/ \E d \in Drivers : \/ InvokeDenied(d) \/ InvokeWaits(d) \/ InvokeClaims(d) \/ Landing(d)
                               \/ \E error \in Errors : Reconcile(d, error)
                               \/ \E i \in Ids : BeginResume(d, i)
         \/ \E i \in Ids : \/ Repair(i) /\ UNCHANGED <<ledger, entered>>
                           \/ CancelIntent(i)
                           \/ \E kind \in {"APPROVED", "REJECTED", "REVOKED"} : Decide(i, kind)
         \/ /\ RecoverCommit /\ Claimed(rec.id) /\ rec.id \in Ids
            /\ rec.seen \in {"success", "failure"}
            /\ Record(rec.id, IF rec.seen = "success" THEN "none" ELSE "REJECTED")
<1> USE DEF db, remote
<1>1. ASSUME NEW d \in Drivers, BeginDrive(d) \/ DriverStep(d) \/ \E i \in Ids : BeginResume(d, i)
      PROVE  \/ UNCHANGED <<intents, invocations, receipts, ledger>>
             \/ InvokeDenied(d) \/ InvokeWaits(d) \/ InvokeClaims(d) \/ Landing(d)
             \/ \E error \in Errors : Reconcile(d, error)
             \/ \E i \in Ids : BeginResume(d, i)
  BY <1>1 DEF DriverStep, Landing, Errors, BeginDrive, Fail, ClaimIteration, RefuseIteration,
              ModelFails, DecisionStale, DecideContinue, DecideWait, DecideCallTool, DecideComplete,
              InvokeRefused, InvokeRejected, InvokeBlocked, ReconcileFails, ResumeIntent,
              ResumeDenied, Rewait
<1>2. CASE RecoveryStep
  BY <1>2 DEF RecoveryStep, RecoverDetect, RecoverLookup, RecoverCommit, RecoverRepair,
              HoldInv, GovernedOK, DriversOK
<1>3. CASE Environment
  BY <1>3 DEF Environment, ResumeContext, StopRun, CancelParent, PublishPolicy, SetEnabled,
              RestrictMode, Tick, Crash, Rest
<1>4. CASE UNCHANGED vars
  BY <1>4 DEF vars
<1> QED
  BY <1>1, <1>2, <1>3, <1>4 DEF Next

\* A result that is recorded is learned, once and truly.
LEMMA RecordLearns ==
  ASSUME GovernedOK, NEW i \in Ids, NEW error \in Errors, Record(i, error), Claimed(i),
         ledger' = ledger,
         Outcome(error) = "observed" => ledger[i] = "success",
         Outcome(error) = "observed_failure" => ledger[i] = "failure"
  PROVE  Promise!Next
<1>1. /\ \A j \in Ids : SameIntent(j)
      /\ receipts' = [receipts EXCEPT ![i] = Outcome(error)] /\ receipts[i] = "none"
      /\ \A j \in Ids : j # i => invocations'[j] = invocations[j]
      /\ invocations'[i].status # "none"
  BY Recording DEF GovernedOK, Record
<1>2. committedBar' = committedBar /\ i \in committedBar
  BY <1>1 DEF committedBar, Claimed
<1>3. permissionBar' = permissionBar
  BY <1>1, PermissionStays
<1>4. Outcome(error) \in {"observed", "observed_failure", "unknown"}
  BY DEF Outcome
<1> QED
  BY <1>1, <1>2, <1>3, <1>4 DEF Promise!Next, Promise!Learn

LEMMA LandingHappens ==
  ASSUME GovernedOK, HoldInv, NEW d \in Drivers, Landing(d)
  PROVE  Promise!Next \/ UNCHANGED promiseVars
<1>1. PICK answer \in {"success", "failure"} : Land(d, answer)
  BY DEF Landing
<1>2. loc[d].id \in Ids /\ Claimed(loc[d].id) /\ UNCHANGED <<intents, invocations, receipts>>
  BY Landings DEF HoldInv, Holding, db
<1>3. UNCHANGED <<permissionBar, committedBar>> /\ loc[d].id \in committedBar
  BY <1>2 DEF permissionBar, committedBar, Claimed
<1>4. ledger' = [ledger EXCEPT ![loc[d].id] = IF @ = "none" THEN answer ELSE @]
  BY <1>1 DEF Land
<1>5. CASE ledger[loc[d].id] = "none"
  <2>1. ledger' = [ledger EXCEPT ![loc[d].id] = answer]
    BY <1>4, <1>5
  <2> QED
    BY <1>2, <1>3, <1>5, <2>1 DEF Promise!Next, Promise!Happen
<1>6. CASE ledger[loc[d].id] # "none"
  <2>1. ledger' = ledger
    BY <1>2, <1>4, <1>6 DEF GovernedOK, WorldOK
  <2> QED
    BY <1>2, <1>3, <2>1 DEF promiseVars
<1> QED
  BY <1>5, <1>6

\* A new intent asks, or is refused; the claim is the commitment, under a given permission.
LEMMA InvokePromised ==
  ASSUME GovernedOK, DecisionsOK, NEW d \in Drivers, InvokeDenied(d) \/ InvokeWaits(d) \/ InvokeClaims(d)
  PROVE  Promise!Next \/ UNCHANGED promiseVars
<1> DEFINE i == loc[d].id
<1>1. i \in Ids /\ ~ Claimed(i) /\ ~ Expired /\ UNCHANGED <<ledger, receipts>>
  BY DEF InvokeDenied, InvokeWaits, InvokeClaims, InvokeOpen, GovernedOK, DriversOK, remote
<1>2. /\ now \in Nat /\ Deadline \in Nat /\ Expiry \in Nat \ {0}
      /\ intents \in [Ids -> IntentRecords]
  BY GovernedAssumption DEF GovernedOK, WorldOK, StoreOK
<1>3. ASSUME NEW r \in Candidates(i), intents' = [intents EXCEPT ![i] = r]
      PROVE  /\ permissionBar' = [permissionBar EXCEPT ![i] = Permission(r)]
             /\ intents[i].effect # "none" => permissionBar' = permissionBar
  <2>1. intents'[i] = r /\ \A j \in Ids : j # i => SameIntent(j)
    BY <1>1, <1>2, <1>3 DEF SameIntent
  <2>2. intents[i].effect # "none" => r = intents[i]
    BY <1>1, CandidateTypes
  <2> QED
    BY <1>1, <2>1, <2>2, PermissionMoves, Permissions
<1>4. permissionBar[i] = Permission(intents[i])
  BY <1>1, Permissions
<1>5. intents[i].effect = "none" => permissionBar[i] = "none"
  BY <1>4 DEF Permission
<1>6. ASSUME NEW r \in Candidates(i), intents' = [intents EXCEPT ![i] = r],
             invocations' = invocations, r.effect = "DENY" \/ ~ Allowed(r, i)
      PROVE  Promise!Next \/ UNCHANGED promiseVars
  <2>1. committedBar' = committedBar
    BY <1>6 DEF committedBar, Claimed
  <2>2. CASE intents[i].effect # "none"
    BY <1>1, <1>3, <1>6, <2>1, <2>2 DEF promiseVars
  <2>3. CASE intents[i].effect = "none"
    <3>1. PICK e \in Effects : r = Prepared(e)
      BY <2>3 DEF Candidates
    <3>2. /\ r.effect \in {"ALLOW", "REQUIRED", "DENY"} /\ r.decision = "none" /\ ~ r.cancelled
          /\ ~ r.consumed /\ now < r.expires
      BY <1>1, <1>2, <3>1, GovernedAssumption DEF Prepared, Expired
    <3>3. r.effect # "ALLOW"
      BY <1>1, <1>6, <3>2 DEF Allowed
    <3>4. Permission(r) \in {"asked", "gone"}
      BY <3>2, <3>3 DEF Permission
    <3> QED
      BY <1>1, <1>3, <1>5, <1>6, <2>1, <2>3, <3>4 DEF Promise!Next, Promise!Ask
  <2> QED
    BY <2>2, <2>3
<1>7. CASE InvokeClaims(d)
  <2>1. PICK r \in Candidates(i) : Allowed(r, i) /\ intents' = [intents EXCEPT ![i] = r]
    BY <1>7 DEF InvokeClaims
  <2>2. r.effect \in {"ALLOW", "REQUIRED"} /\ ~ r.cancelled
        /\ (r.effect = "REQUIRED" => r.decision = "APPROVED")
        /\ r.decision \in {"none", "APPROVED"}
    <3>1. CASE intents[i].effect = "none"
      BY <1>1, <2>1, <3>1, CandidateTypes DEF Allowed
    <3>2. CASE intents[i].effect # "none"
      BY <1>1, <1>2, <2>1, <3>2, CandidateTypes DEF Allowed, DecisionsOK, IntentRecords
    <3> QED
      BY <3>1, <3>2
  <2>3. Permission(r) = "given"
    BY <2>2 DEF Permission
  <2>4. permissionBar[i] \in {"none", "given"}
    BY <1>1, <1>4, <1>5, <2>1, <2>3, CandidateTypes
  <2>5. committedBar' = committedBar \cup {i} /\ i \notin committedBar
    BY <1>7, Claims DEF committedBar, Claimed
  <2> QED
    BY <1>1, <1>3, <2>1, <2>3, <2>4, <2>5 DEF Promise!Next, Promise!Commit
<1>8. CASE InvokeDenied(d) \/ InvokeWaits(d)
  BY <1>6, <1>8 DEF InvokeDenied, InvokeWaits
<1> QED
  BY <1>7, <1>8

\* Until the claim a permission is given, refused, taken back or lapses.
LEMMA DecisionPromised ==
  ASSUME GovernedOK, DecisionsOK, NEW i \in Ids,
         \/ CancelIntent(i)
         \/ \E kind \in {"APPROVED", "REJECTED", "REVOKED"} : Decide(i, kind)
         \/ \E d \in Drivers : BeginResume(d, i)
  PROVE  Promise!Next \/ UNCHANGED promiseVars
<1> DEFINE r == intents[i]
<1>1. intents \in [Ids -> IntentRecords] /\ r \in IntentRecords
      /\ permissionBar[i] = Permission(r)
  BY Permissions DEF GovernedOK, StoreOK
<1>2. committedBar' = committedBar /\ UNCHANGED <<ledger, receipts>>
  BY DEF CancelIntent, Decide, BeginResume, Rest, remote, committedBar, Claimed
<1>3. CASE intents' = intents
  BY <1>2, <1>3 DEF promiseVars, permissionBar
<1>4. ASSUME NEW q \in IntentRecords, intents' = [intents EXCEPT ![i] = q]
      PROVE  permissionBar' = [permissionBar EXCEPT ![i] = Permission(q)]
  <2>1. intents'[i] = q /\ \A j \in Ids : j # i => SameIntent(j)
    BY <1>1, <1>4 DEF SameIntent
  <2> QED
    BY <2>1, PermissionMoves
<1>5. CASE CancelIntent(i)
  <2> DEFINE q == [r EXCEPT !.cancelled = TRUE]
  <2>1. intents' = [intents EXCEPT ![i] = q] /\ r.effect # "none" /\ i \notin committedBar
    BY <1>5 DEF CancelIntent, committedBar
  <2>2. q \in IntentRecords /\ Permission(q) = "gone"
    BY <1>1, <2>1 DEF IntentRecords, Permission
  <2> HIDE DEF q
  <2>3. permissionBar' = [permissionBar EXCEPT ![i] = "gone"]
    BY <1>4, <2>1, <2>2
  <2>4. permissionBar[i] \in {"asked", "given", "gone"}
    BY <1>1, <2>1 DEF Permission
  <2>5. CASE permissionBar[i] = "gone"
    <3>1. permissionBar' = permissionBar
      BY <2>3, <2>5, Permissions
    <3> QED
      BY <1>2, <3>1 DEF promiseVars
  <2>6. CASE permissionBar[i] # "gone"
    BY <1>2, <2>1, <2>3, <2>4, <2>6 DEF Promise!Next, Promise!Withdraw
  <2> QED
    BY <2>5, <2>6
<1>6. ASSUME NEW kind \in {"APPROVED", "REJECTED", "REVOKED", "EXPIRED"},
             intents' = [intents EXCEPT ![i].decision = kind],
             r.effect = "REQUIRED", ~ r.cancelled, ~ Claimed(i),
             r.decision \in {"none", "APPROVED"}, kind = "APPROVED" => r.decision = "none"
      PROVE  Promise!Next
  <2> DEFINE q == [r EXCEPT !.decision = kind]
  <2>1. intents' = [intents EXCEPT ![i] = q] /\ i \notin committedBar
    BY <1>6 DEF committedBar
  <2>2. q \in IntentRecords /\ Permission(q) = IF kind = "APPROVED" THEN "given" ELSE "gone"
    BY <1>1, <1>6 DEF IntentRecords, Permission
  <2>3. permissionBar[i] = IF r.decision = "none" THEN "asked" ELSE "given"
    BY <1>1, <1>6 DEF Permission
  <2> HIDE DEF q
  <2>4. permissionBar' = [permissionBar EXCEPT ![i] = IF kind = "APPROVED" THEN "given" ELSE "gone"]
    BY <1>4, <2>1, <2>2
  <2>5. CASE kind = "APPROVED"
    BY <1>2, <1>6, <2>3, <2>4, <2>5 DEF Promise!Next, Promise!Give
  <2>6. CASE kind # "APPROVED"
    BY <1>2, <1>6, <2>1, <2>3, <2>4, <2>6 DEF Promise!Next, Promise!Withdraw
  <2> QED
    BY <2>5, <2>6
<1>7. ASSUME NEW kind \in {"APPROVED", "REJECTED", "REVOKED"}, Decide(i, kind)
      PROVE  Promise!Next
  BY <1>6, <1>7 DEF Decide
<1>8. ASSUME NEW d \in Drivers, BeginResume(d, i)
      PROVE  Promise!Next \/ UNCHANGED promiseVars
  <2>1. CASE Lapsed(i) /\ intents' = [intents EXCEPT ![i].decision = "EXPIRED"]
    BY <1>6, <2>1 DEF Lapsed
  <2> QED
    BY <1>3, <1>8, <2>1, BeginResumeTypes
<1> QED
  BY <1>5, <1>7, <1>8

LEMMA DecisionsKept ==
  ASSUME GovernedOK, HoldInv, DecisionsOK, [Next]_vars
  PROVE  DecisionsOK'
<1> USE DEF GovernedOK, StoreOK
<1>1. ASSUME NEW d \in Drivers, InvokeDenied(d) \/ InvokeWaits(d) \/ InvokeClaims(d)
      PROVE  DecisionsOK'
  <2>1. loc[d].id \in Ids
    BY <1>1 DEF InvokeDenied, InvokeWaits, InvokeClaims, InvokeOpen, DriversOK
  <2>2. PICK r \in Candidates(loc[d].id) : intents' = [intents EXCEPT ![loc[d].id] = r]
    BY <1>1 DEF InvokeDenied, InvokeWaits, InvokeClaims
  <2>3. r.effect # "REQUIRED" => r.decision = "none"
    BY <2>1, CandidateTypes DEF DecisionsOK
  <2> QED
    BY <2>1, <2>2, <2>3 DEF DecisionsOK
<1>2. ASSUME NEW i \in Ids,
             \/ CancelIntent(i)
             \/ \E kind \in {"APPROVED", "REJECTED", "REVOKED"} : Decide(i, kind)
             \/ Lapsed(i) /\ intents' = [intents EXCEPT ![i].decision = "EXPIRED"]
      PROVE  DecisionsOK'
  <2>1. ASSUME NEW kind \in {"APPROVED", "REJECTED", "REVOKED", "EXPIRED"},
               intents' = [intents EXCEPT ![i].decision = kind], intents[i].effect = "REQUIRED"
        PROVE  DecisionsOK'
    BY <2>1 DEF DecisionsOK, IntentRecords
  <2>2. CASE CancelIntent(i)
    BY <2>2 DEF CancelIntent, DecisionsOK, IntentRecords
  <2> QED
    BY <1>2, <2>1, <2>2 DEF Decide, Lapsed
<1>3. ASSUME \A j \in Ids : SameIntent(j)
      PROVE  DecisionsOK'
  BY <1>3 DEF SameIntent, DecisionsOK
<1>4. ASSUME NEW d \in Drivers, NEW error \in Errors, Reconcile(d, error)
      PROVE  DecisionsOK'
  BY <1>3, <1>4, ReconcileSteps, ErrorsOfCalls, Recording
<1>5. CASE /\ rec.id \in Ids /\ rec.seen \in {"success", "failure"}
           /\ Record(rec.id, IF rec.seen = "success" THEN "none" ELSE "REJECTED")
  BY <1>3, <1>5, Recording DEF Errors
<1>6. ASSUME NEW i \in Ids, Repair(i)
      PROVE  DecisionsOK'
  BY <1>3, <1>6, Repairing
<1>7. CASE UNCHANGED intents
  BY <1>7 DEF DecisionsOK
<1>8. ASSUME NEW d \in Drivers, Landing(d)
      PROVE  UNCHANGED intents
  BY <1>8, Landings DEF db
<1> QED
  BY <1>1, <1>2, <1>4, <1>5, <1>6, <1>7, <1>8, VisibleSteps, BeginResumeTypes

LEMMA StepPromised ==
  ASSUME ReceiptInv, DecisionsOK, [Next]_vars
  PROVE  Promise!Next \/ UNCHANGED promiseVars
<1> USE DEF ReceiptInv
<1>1. CASE UNCHANGED <<intents, invocations, receipts, ledger>>
  BY <1>1 DEF promiseVars, permissionBar, committedBar, Claimed
<1>2. ASSUME NEW d \in Drivers, NEW error \in Errors, Reconcile(d, error)
      PROVE  Promise!Next
  <2>1. /\ loc[d].id \in Ids /\ FinalError(loc[d].id, error) \in Errors
        /\ Record(loc[d].id, FinalError(loc[d].id, error))
        /\ pc[d] \in Holding
    BY <1>2, ReconcileSteps, ErrorsOfCalls DEF Holding
  <2>2. Claimed(loc[d].id) /\ ledger' = ledger
    BY <1>2, <2>1 DEF HoldInv, Reconcile, remote
  <2> QED
    BY <1>2, <2>1, <2>2, RecordedTruth, RecordLearns
<1>3. CASE /\ RecoverCommit /\ Claimed(rec.id) /\ rec.id \in Ids
           /\ rec.seen \in {"success", "failure"}
           /\ Record(rec.id, IF rec.seen = "success" THEN "none" ELSE "REJECTED")
  <2>1. ledger[rec.id] = rec.seen /\ ledger' = ledger
    BY <1>3 DEF RecoverCommit, KnowledgeOK, remote
  <2>2. CASE rec.seen = "success"
    BY <1>3, <2>1, <2>2, RecordLearns DEF Errors, Outcome
  <2>3. CASE rec.seen = "failure"
    BY <1>3, <2>1, <2>3, RecordLearns DEF Errors, Outcome
  <2> QED
    BY <1>3, <2>2, <2>3
<1>4. ASSUME NEW i \in Ids, Repair(i), UNCHANGED <<ledger, entered>>
      PROVE  UNCHANGED promiseVars
  BY <1>4, Repairing, PermissionStays DEF Repair, promiseVars, committedBar, Claimed
<1> QED
  BY <1>1, <1>2, <1>3, <1>4, VisibleSteps, InvokePromised, LandingHappens, DecisionPromised

\* THEOREM.  Driving, approving, resuming, crashing, failing commits and recovering are, for
\* each action, steps of the promise or invisible to it (invoke, _reconcile, decide, cancel,
\* expire, reconcile).
THEOREM EffectsKeepThePromise == Spec => ImplementsEffectPromise
<1>1. Init => Promise!Init
  BY DEF Init, Promise!Init, permissionBar, committedBar, Permission, Claimed, NoIntent,
         NoInvocation
<1>2. Init => DispatchInv /\ ReceiptInv /\ DecisionsOK
  BY DispatchesStart, KnowledgeStart DEF DispatchInv, ReceiptInv, Init, DecisionsOK, NoIntent
<1>3. DispatchInv /\ ReceiptInv /\ DecisionsOK /\ [Next]_vars
      => (DispatchInv /\ ReceiptInv /\ DecisionsOK)'
  BY DispatchesKept, KnowledgeKept, ReceiptsKept, DecisionsKept DEF DispatchInv, ReceiptInv
<1>4. ReceiptInv /\ DecisionsOK /\ [Next]_vars => [Promise!Next]_Promise!vars
  BY StepPromised DEF promiseVars, Promise!vars
<1> QED
  BY <1>1, <1>2, <1>3, <1>4, PTL DEF Spec, ImplementsEffectPromise, Promise!Spec
=============================================================================
