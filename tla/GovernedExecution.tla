-------------------------- MODULE GovernedExecution --------------------------
(***************************************************************************)
(* One AgentRun from start to end: the drive loop of application/          *)
(* runtime.py, the dispatch claim and result reconciliation of application/*)
(* tool_runtime.py, the approval rules of application/governance.py, the   *)
(* lookup recovery of application/recovery.py and the external ledger the  *)
(* executor writes to.                                                     *)
(*                                                                         *)
(* One store transaction is one action.  Between two transactions the      *)
(* other drivers, the reviewers, the operators, the clock and a process    *)
(* crash may all act; the three awaits of the code (model call, executor   *)
(* call, connector lookup) lie between transactions.                       *)
(*                                                                         *)
(* An identifier names an Action, the ActionIntent made from it (the code  *)
(* derives one from the other) and the one ToolInvocation the store admits *)
(* per action.  Only consequential tools are modelled: a read-only call    *)
(* never creates an intent.                                                *)
(***************************************************************************)
EXTENDS Lifecycles, Naturals, FiniteSets

CONSTANTS
  Ids,            \* action identifiers the generator may issue
  Drivers,        \* coroutines that may drive or resume the run
  Effects,        \* ApprovalEffect values the policy may evaluate to
  OperatorKinds,  \* parent entities an operator may cancel
  Restrictions,   \* operational modes an operator may restrict to
  MaxIterations, MaxToolCalls,   \* RuntimeLimits of the run
  Deadline, Expiry,              \* the run's deadline; policy.expiry_seconds
  MaxTime, MaxVersion, MaxPolicy, MaxRevision, MaxCrashes, MaxFaults  \* model bounds

ASSUME GovernedAssumption ==
  /\ Effects \subseteq {"ALLOW", "REQUIRED", "DENY"}
  /\ OperatorKinds \subseteq {"goal", "task", "attempt", "execution"}
  /\ Restrictions \subseteq {"MAINTENANCE", "RESTORE_QUARANTINE"}
  /\ {MaxIterations, MaxToolCalls, MaxTime, MaxVersion, MaxPolicy, MaxRevision,
      MaxCrashes, MaxFaults} \subseteq Nat
  /\ Deadline \in Nat \ {0} /\ Expiry \in Nat \ {0}

VARIABLES
  run,          \* AgentRun: status, version, pending (invocation_pending), iteration
  parents,      \* statuses of goal, task, attempt, execution; ver: see ParentVersions
  intents,      \* GovernedAction per identifier; effect "none" before it exists
  invocations,  \* ToolInvocation per identifier; status "none" before it exists
  receipts,     \* remote_outcome of the ToolReceipt per identifier, or "none"
  issued,       \* identifiers the generator has handed out
  ledger,       \* what the remote side did: "none", "success", "failure"
  entered,      \* how often the executor was entered per identifier
  now, policy, tool, mode, held,  \* clock, policy version, registry entry,
                                  \* operational mode, restored_intent_holds
  pc, loc,      \* position and locals of each driver
  rec,          \* the recovery operation: pc, id, seen
  crashes, faults  \* crashes and failed commits so far (model bounds)

\* Canonical tables of the store, and what lies outside them.
db     == <<run, parents, intents, invocations, receipts>>
remote == <<ledger, entered>>
env    == <<now, policy, tool, mode, held>>
procs  == <<pc, loc>>
counts == <<crashes, faults>>
vars   == <<db, issued, remote, env, procs, rec, counts>>

NoIntent == [effect |-> "none", policy |-> 0, expires |-> 0, iteration |-> 0,
             decision |-> "none", cancelled |-> FALSE, consumed |-> FALSE]
NoInvocation == [status |-> "none", runVersion |-> 0, parents |-> 0, revision |-> 0]
NoLocals == [v |-> 0, pv |-> 0, id |-> "none", flow |-> "drive"]

Init ==
  /\ run = [status |-> "RUNNING", version |-> 1, pending |-> FALSE, iteration |-> 0]
  /\ parents = [goal |-> "ACTIVE", task |-> "IN_PROGRESS", attempt |-> "RUNNING",
                execution |-> "RUNNING", ver |-> 0]
  /\ intents     = [i \in Ids |-> NoIntent]
  /\ invocations = [i \in Ids |-> NoInvocation]
  /\ receipts    = [i \in Ids |-> "none"]
  /\ issued = {}
  /\ ledger  = [i \in Ids |-> "none"]
  /\ entered = [i \in Ids |-> 0]
  /\ now = 0 /\ policy = 1 /\ mode = "NORMAL" /\ held = {}
  /\ tool = [enabled |-> TRUE, revision |-> 0]
  /\ pc  = [d \in Drivers |-> "idle"]
  /\ loc = [d \in Drivers |-> NoLocals]
  /\ rec = [pc |-> "idle", id |-> "none", seen |-> "none"]
  /\ crashes = 0 /\ faults = 0

-----------------------------------------------------------------------------
(* Conditions the handlers share.                                          *)

ParentsActive ==
  /\ parents.goal = "ACTIVE" /\ parents.task = "IN_PROGRESS"
  /\ parents.attempt = "RUNNING" /\ parents.execution = "RUNNING"

\* The code compares the tuple of the four parent versions.  Every change of a
\* parent raises one of them, so the tuples are equal iff their sums are.
ParentVersions == parents.ver

Expired == now >= Deadline

Claimed(i) == invocations[i].status # "none"

\* GovernanceService.allowed
Allowed(r, i) ==
  /\ ~r.cancelled /\ ~Claimed(i) /\ ~r.consumed
  /\ now < r.expires
  /\ \/ r.effect = "ALLOW"
     \/ r.effect = "REQUIRED" /\ r.decision = "APPROVED"

\* Mutant: the policy version an intent was evaluated under is not compared.
ValidUnderAnyPolicy(i) == tool.enabled

\* The registry answers and the intent still binds the current policy.
Valid(i) == tool.enabled /\ intents[i].policy = policy

Budget == Cardinality({i \in Ids : Claimed(i)}) < MaxToolCalls

\* SqliteRuntimeStore.require_consequential_dispatch
DispatchOpen(i) == mode = "NORMAL" /\ i \notin held

Goto(d, l) == pc' = [pc EXCEPT ![d] = l]

\* A parent entity moves along its table; ver counts the changes.
Move(p, changes) ==
  [goal      |-> IF "goal"      \in DOMAIN changes THEN changes.goal      ELSE p.goal,
   task      |-> IF "task"      \in DOMAIN changes THEN changes.task      ELSE p.task,
   attempt   |-> IF "attempt"   \in DOMAIN changes THEN changes.attempt   ELSE p.attempt,
   execution |-> IF "execution" \in DOMAIN changes THEN changes.execution ELSE p.execution,
   ver       |-> p.ver + Cardinality(DOMAIN changes)]

\* AgentRun.evolve: every change of the run raises its version.
Evolved(status, pending) ==
  [status |-> status, version |-> run.version + 1, pending |-> pending,
   iteration |-> run.iteration]

\* ToolRuntimeService._observe: the iteration's claim on the run ends.
Observed == Evolved(run.status, FALSE)

\* An exception leaves invoke: drive turns it into _failure, resume_intent
\* into its except block.
Raise(d) == Goto(d, IF loc[d].flow = "drive" THEN "fail" ELSE "rewait")

\* invoke returns a running run: drive loops, resume_approval enters drive anew
\* (BeginDrive).
Proceed(d) == Goto(d, IF loc[d].flow = "drive" THEN "claim" ELSE "idle")

-----------------------------------------------------------------------------
(* AgentRuntimeService._failure, common to drivers and operators.          *)

\* Mutant: an execution that waits is not ended with its run.
StoppedRunning(cancel) ==
  LET final   == IF cancel \/ "CANCELLED" \in {parents.execution, parents.task}
                 THEN "CANCELLED" ELSE "FAILED"
      changed == {k \in {"attempt", "execution"} : parents[k] = "RUNNING"}
                   \cup {k \in {"task"} : parents.task = "IN_PROGRESS"}
  IN /\ run' = Evolved(final, FALSE)
     /\ parents' = Move(parents, [k \in changed |->
                     IF k = "task" /\ final = "FAILED" THEN "READY" ELSE final])

Stopped(cancel) ==
  LET cancelled == cancel \/ parents.execution = "CANCELLED" \/ parents.task = "CANCELLED"
      final     == IF cancelled THEN "CANCELLED" ELSE "FAILED"
      attempt   == parents.attempt = "RUNNING"
      task      == parents.task = "IN_PROGRESS"
      execution == parents.execution \in {"RUNNING", "WAITING"}
      changed   == {k \in {"attempt", "task", "execution"} :
                      \/ k = "attempt" /\ attempt
                      \/ k = "task" /\ task
                      \/ k = "execution" /\ execution}
  IN /\ run' = Evolved(final, FALSE)
     /\ parents' = Move(parents, [k \in changed |->
                     IF k = "task" /\ ~cancelled THEN "READY" ELSE final])

\* No version check: a driver that lost its claim still ends the run.
Fail(d) ==
  /\ pc[d] \in {"fail", "cancelled"}
  /\ IF run.status \in {"RUNNING", "WAITING"}
     THEN Stopped(pc[d] = "cancelled") ELSE UNCHANGED <<run, parents>>
  /\ Goto(d, "idle")
  /\ UNCHANGED <<intents, invocations, receipts, issued, remote, env, loc, rec, counts>>

-----------------------------------------------------------------------------
(* AgentRuntimeService.drive                                               *)

BeginDrive(d) ==
  /\ pc[d] = "idle"
  /\ run.status = "RUNNING" /\ ~run.pending
  /\ Goto(d, "claim")
  /\ loc' = [loc EXCEPT ![d] = NoLocals]
  /\ UNCHANGED <<db, issued, remote, env, rec, counts>>

MayClaim ==
  /\ run.status = "RUNNING" /\ ~run.pending
  /\ run.iteration < MaxIterations
  /\ ParentsActive /\ ~Expired

\* Claim one iteration, then call the model outside the transaction.
ClaimIteration(d) ==
  /\ pc[d] = "claim"
  /\ MayClaim
  /\ run' = [Evolved("RUNNING", TRUE) EXCEPT !.iteration = @ + 1]
  /\ Goto(d, "model")
  /\ loc' = [loc EXCEPT ![d] =
               [v |-> run.version + 1, pv |-> ParentVersions, id |-> "none", flow |-> "drive"]]
  /\ UNCHANGED <<parents, intents, invocations, receipts, issued, remote, env, rec, counts>>

RefuseIteration(d) ==
  /\ pc[d] = "claim"
  /\ ~MayClaim
  /\ Goto(d, "fail")
  /\ UNCHANGED <<db, issued, remote, env, loc, rec, counts>>

\* Mutant: an error of the model leaves drive without _failure.
ModelErrorEscapes(d) ==
  /\ pc[d] = "model"
  /\ Goto(d, "idle")
  /\ UNCHANGED <<db, issued, remote, env, loc, rec, counts>>

\* The model call times out, fails, is cancelled, or returns what the policy,
\* the parser or the brief validator refuses.
ModelFails(d) ==
  /\ pc[d] = "model"
  /\ Goto(d, "fail") \/ Goto(d, "cancelled")
  /\ UNCHANGED <<db, issued, remote, env, loc, rec, counts>>

\* The state the model was asked about is still the state of the store.
StillCurrent(d) ==
  /\ run.version = loc[d].v
  /\ ~Expired /\ ParentsActive
  /\ ParentVersions = loc[d].pv

DecisionStale(d) ==
  /\ pc[d] = "model"
  /\ ~StillCurrent(d)
  /\ Goto(d, "fail")
  /\ UNCHANGED <<db, issued, remote, env, loc, rec, counts>>

\* CallTool: the action is recorded, then handed to ToolRuntimeService.invoke.
DecideCallTool(d, i) ==
  /\ pc[d] = "model" /\ StillCurrent(d)
  /\ i \notin issued
  /\ issued' = issued \cup {i}
  /\ loc' = [loc EXCEPT ![d].id = i]
  /\ Goto(d, "invoke")
  /\ UNCHANGED <<db, remote, env, rec, counts>>

\* A decision that only adds an observation.
DecideContinue(d) ==
  /\ pc[d] = "model" /\ StillCurrent(d)
  /\ run' = Observed
  /\ Goto(d, "claim")
  /\ UNCHANGED <<parents, intents, invocations, receipts, issued, remote, env, loc, rec, counts>>

\* Mutant: only dispatched actions count as unresolved.
UnresolvedDispatches == {i \in Ids : Claimed(i) /\ receipts[i] # "observed"}

Unresolved == {i \in Ids : intents[i].effect # "none" /\ receipts[i] # "observed"}

\* CompleteTask: refused while a consequential action lacks a successful
\* receipt; lastTask says whether the goal's other tasks are all completed.
DecideComplete(d, lastTask) ==
  /\ pc[d] = "model" /\ StillCurrent(d)
  /\ Unresolved = {}
  /\ run' = Evolved("SUCCEEDED", FALSE)
  /\ parents' = Move(parents, [k \in {"attempt", "task"}
                                 \cup (IF lastTask THEN {"execution"} ELSE {}) |->
                                 IF k = "task" THEN "COMPLETED" ELSE "SUCCEEDED"])
  /\ Goto(d, "idle")
  /\ UNCHANGED <<intents, invocations, receipts, issued, remote, env, loc, rec, counts>>

\* RequestMoreContext
DecideWait(d) ==
  /\ pc[d] = "model" /\ StillCurrent(d)
  /\ run' = Evolved("WAITING", FALSE)
  /\ parents' = Move(parents, [execution |-> "WAITING"])
  /\ Goto(d, "idle")
  /\ UNCHANGED <<intents, invocations, receipts, issued, remote, env, loc, rec, counts>>

-----------------------------------------------------------------------------
(* ToolRuntimeService.invoke: the dispatch claim                           *)

InvokeOpen(d) ==
  /\ pc[d] = "invoke"
  /\ run.version = loc[d].v
  /\ run.status = "RUNNING" /\ run.pending
  /\ ParentsActive /\ ~Expired
  /\ ~Claimed(loc[d].id)
  /\ intents[loc[d].id].effect # "none" => intents[loc[d].id].iteration = run.iteration

InvokeRefused(d) ==
  /\ pc[d] = "invoke" /\ ~InvokeOpen(d)
  /\ Raise(d)
  /\ UNCHANGED <<db, issued, remote, env, loc, rec, counts>>

\* ToolFailure inside the transaction: unknown or disabled tool, invalid
\* arguments, or an existing intent that no longer validates.
InvokeRejected(d) ==
  /\ InvokeOpen(d)
  /\ intents[loc[d].id].effect # "none" => ~Valid(loc[d].id)
  /\ run' = Observed
  /\ Proceed(d)
  /\ UNCHANGED <<parents, intents, invocations, receipts, issued, remote, env, loc, rec, counts>>

\* GovernanceService.prepare on an action without an intent.
Prepared(effect) ==
  [effect |-> effect, policy |-> policy, iteration |-> run.iteration,
   expires |-> IF now + Expiry < Deadline THEN now + Expiry ELSE Deadline,
   decision |-> "none", cancelled |-> FALSE, consumed |-> FALSE]

\* The governed action the claim works with: a new one, or the validated old one.
Candidates(i) ==
  IF intents[i].effect = "none" THEN {Prepared(e) : e \in Effects}
  ELSE {r \in {intents[i]} : Valid(i)}

\* The policy denies: the intent stays on record and the model is told.
InvokeDenied(d) ==
  /\ InvokeOpen(d) /\ tool.enabled
  /\ \E r \in Candidates(loc[d].id) :
       /\ r.effect = "DENY"
       /\ intents' = [intents EXCEPT ![loc[d].id] = r]
  /\ run' = Observed
  /\ Proceed(d)
  /\ UNCHANGED <<parents, invocations, receipts, issued, remote, env, loc, rec, counts>>

\* Approval is needed: execution and run wait, the iteration stays claimed.
InvokeWaits(d) ==
  /\ InvokeOpen(d) /\ tool.enabled
  /\ \E r \in Candidates(loc[d].id) :
       /\ r.effect # "DENY" /\ ~Allowed(r, loc[d].id)
       /\ intents' = [intents EXCEPT ![loc[d].id] = r]
  /\ run' = Evolved("WAITING", run.pending)
  /\ parents' = Move(parents, [execution |-> "WAITING"])
  /\ Goto(d, "idle")
  /\ UNCHANGED <<invocations, receipts, issued, remote, env, loc, rec, counts>>

\* The claim: run version, invocation and governed action commit together.
InvokeClaims(d) ==
  LET i == loc[d].id IN
  /\ InvokeOpen(d) /\ tool.enabled
  /\ Budget /\ DispatchOpen(i)
  /\ \E r \in Candidates(i) :
       /\ Allowed(r, i)
       /\ intents' = [intents EXCEPT ![i] = r]
  /\ run' = Evolved("RUNNING", TRUE)
  /\ invocations' = [invocations EXCEPT ![i] =
       [status |-> "RUNNING", runVersion |-> run.version + 1,
        parents |-> ParentVersions, revision |-> tool.revision]]
  /\ Goto(d, "dispatch")
  /\ UNCHANGED <<parents, receipts, issued, remote, env, loc, rec, counts>>

\* Out of budget, or dispatch is closed: everything rolls back, a new intent too.
InvokeBlocked(d) ==
  /\ InvokeOpen(d) /\ tool.enabled
  /\ \E r \in Candidates(loc[d].id) : Allowed(r, loc[d].id)
  /\ ~(Budget /\ DispatchOpen(loc[d].id))
  /\ Raise(d)
  /\ UNCHANGED <<db, issued, remote, env, loc, rec, counts>>

-----------------------------------------------------------------------------
(* The executor call and the reconciliation of its result                  *)

\* The executor reaches the remote side, which performs the effect or rejects
\* it; an entry the ledger knows is answered from the ledger.
Land(d, answer) ==
  LET i == loc[d].id IN
  /\ pc[d] = "dispatch"
  /\ entered' = [entered EXCEPT ![i] = @ + 1]
  /\ ledger' = [ledger EXCEPT ![i] = IF @ = "none" THEN answer ELSE @]
  /\ Goto(d, "landed")
  /\ UNCHANGED <<db, issued, env, loc, rec, counts>>

\* Errors the call may end with: none only after a success, REJECTED only after
\* a rejection; a timeout, a cancellation or bad output prove nothing.
CallErrors(d) ==
  {"TIMEOUT", "CANCELLED", "INTERNAL"} \cup
    (IF pc[d] # "landed" THEN {}
     ELSE IF ledger[loc[d].id] = "success" THEN {"none"} ELSE {"REJECTED"})

Terminated(status) == status \in Terminal

\* Version, parents or registry moved since the claim.
Stale(i) ==
  \/ run.version # invocations[i].runVersion
  \/ ~ParentsActive \/ ParentVersions # invocations[i].parents
  \/ ~tool.enabled \/ tool.revision # invocations[i].revision

\* _reconcile's error: state of the run first, then staleness, then the deadline.
FinalError(i, error) ==
  IF Terminated(run.status)
  THEN IF run.status = "CANCELLED" THEN "CANCELLED" ELSE "STALE_RESULT"
  ELSE IF Stale(i) THEN "STALE_RESULT"
  ELSE IF Expired THEN "TIMEOUT" ELSE error

\* Mutant: a call that timed out counts as one that did not happen.
HopefulOutcome(error) ==
  CASE error = "none"                  -> "observed"
    [] error \in {"REJECTED", "TIMEOUT"} -> "observed_failure"
    [] OTHER                           -> "unknown"

Outcome(error) ==
  CASE error = "none"     -> "observed"
    [] error = "REJECTED" -> "observed_failure"
    [] OTHER              -> "unknown"

\* ToolInvocation.finish
Finished(error) ==
  CASE error = "none"      -> "SUCCEEDED"
    [] error = "CANCELLED" -> "CANCELLED"
    [] OTHER               -> "FAILED"

\* finish_tool_invocation and GovernanceService.consumed
Record(i, error) ==
  /\ receipts[i] = "none"
  /\ invocations' = [invocations EXCEPT ![i].status = Finished(error)]
  /\ receipts' = [receipts EXCEPT ![i] = Outcome(error)]
  /\ intents' = [intents EXCEPT ![i].consumed = @ \/ intents[i].effect = "REQUIRED"]

Applies(i) == ~Terminated(run.status) /\ ~Stale(i)

\* What invoke does after its reconciliation committed.
AfterReconcile(d, cancelled, failed) ==
  CASE failed    -> Raise(d)
    [] cancelled -> Goto(d, IF loc[d].flow = "drive" THEN "cancelled" ELSE "idle")
    [] OTHER     -> IF run'.status # "RUNNING" THEN Goto(d, "idle")
                    ELSE IF run'.pending THEN Raise(d) ELSE Proceed(d)

\* The result reaches the store; a stale or late one only as history.
Reconcile(d, error) ==
  LET i == loc[d].id  IN
  /\ pc[d] \in {"dispatch", "landed", "settle"}
  /\ IF pc[d] = "settle" THEN error = "INTERNAL" ELSE error \in CallErrors(d)
  /\ Record(i, FinalError(i, error))
  /\ run' = IF Applies(i) THEN Observed ELSE run
  /\ AfterReconcile(d, error = "CANCELLED", pc[d] = "settle")
  /\ UNCHANGED <<parents, issued, remote, env, loc, rec, counts>>

\* Mutant: the failed reconciliation repeats the call, not only the commit.
ReconcileRepeatsCall(d) ==
  /\ pc[d] \in {"landed", "settle"}
  /\ \/ receipts[loc[d].id] # "none" /\ UNCHANGED faults
     \/ faults < MaxFaults /\ faults' = faults + 1
  /\ Goto(d, "dispatch")
  /\ UNCHANGED <<db, issued, remote, env, loc, rec, crashes>>

\* Mutant: one failed commit and the exception leaves.
ReconcileOnce(d) ==
  /\ pc[d] \in {"dispatch", "landed", "settle"}
  /\ \/ receipts[loc[d].id] # "none" /\ UNCHANGED faults
     \/ faults < MaxFaults /\ faults' = faults + 1
  /\ Raise(d)
  /\ UNCHANGED <<db, issued, remote, env, loc, rec, crashes>>

\* A commit fails: once more with no output, then the exception leaves.  The
\* same happens when recovery already finished the invocation.
ReconcileFails(d) ==
  /\ pc[d] \in {"dispatch", "landed", "settle"}
  /\ \/ receipts[loc[d].id] # "none" /\ UNCHANGED faults
     \/ faults < MaxFaults /\ faults' = faults + 1
  /\ IF pc[d] = "settle" THEN Raise(d) ELSE Goto(d, "settle")
  /\ UNCHANGED <<db, issued, remote, env, loc, rec, crashes>>

-----------------------------------------------------------------------------
(* ToolRuntimeService.resume_intent and AgentRuntimeService.resume         *)

\* GovernanceService.expire
Lapsed(i) ==
  /\ intents[i].effect = "REQUIRED" /\ ~intents[i].cancelled /\ ~Claimed(i)
  /\ now >= intents[i].expires
  /\ intents[i].decision \in {"none", "APPROVED"}

\* The caller names an intent and the run version it expects.
BeginResume(d, i) ==
  /\ pc[d] = "idle"
  /\ intents[i].effect # "none" /\ run.version < MaxVersion
  /\ intents' = IF Lapsed(i) THEN [intents EXCEPT ![i].decision = "EXPIRED"] ELSE intents
  /\ loc' = [loc EXCEPT ![d] = [v |-> run.version, pv |-> 0, id |-> i, flow |-> "resume"]]
  /\ Goto(d, "resume")
  /\ UNCHANGED <<run, parents, invocations, receipts, issued, remote, env, rec, counts>>

MayResume(d) ==
  LET i == loc[d].id IN
  /\ run.version = loc[d].v /\ run.status = "WAITING" /\ run.pending /\ ~Expired
  /\ Valid(i) /\ Allowed(intents[i], i)
  /\ parents.goal = "ACTIVE" /\ parents.task = "IN_PROGRESS"
  /\ parents.attempt = "RUNNING" /\ parents.execution = "WAITING"

ResumeIntent(d) ==
  /\ pc[d] = "resume" /\ MayResume(d)
  /\ run' = Evolved("RUNNING", run.pending)
  /\ parents' = Move(parents, [execution |-> "RUNNING"])
  /\ loc' = [loc EXCEPT ![d].v = run.version + 1]
  /\ Goto(d, "invoke")
  /\ UNCHANGED <<intents, invocations, receipts, issued, remote, env, rec, counts>>

ResumeDenied(d) ==
  /\ pc[d] = "resume" /\ ~MayResume(d)
  /\ Goto(d, "idle")
  /\ UNCHANGED <<db, issued, remote, env, loc, rec, counts>>

\* Mutant: the except block waits again although the intent was claimed.
RewaitAlways(d) ==
  /\ pc[d] = "rewait"
  /\ IF run.status = "RUNNING" /\ run.pending /\ parents.execution = "RUNNING"
     THEN /\ run' = Evolved("WAITING", run.pending)
          /\ parents' = Move(parents, [execution |-> "WAITING"])
     ELSE UNCHANGED <<run, parents>>
  /\ Goto(d, "idle")
  /\ UNCHANGED <<intents, invocations, receipts, issued, remote, env, loc, rec, counts>>

\* invoke raised: only a run nobody touched, with nothing claimed, waits again.
Rewait(d) ==
  /\ pc[d] = "rewait"
  /\ IF /\ ~Claimed(loc[d].id) /\ run.version = loc[d].v
        /\ run.status = "RUNNING" /\ run.pending /\ parents.execution = "RUNNING"
     THEN /\ run' = Evolved("WAITING", run.pending)
          /\ parents' = Move(parents, [execution |-> "WAITING"])
     ELSE UNCHANGED <<run, parents>>
  /\ Goto(d, "idle")
  /\ UNCHANGED <<intents, invocations, receipts, issued, remote, env, loc, rec, counts>>

\* New context for a run that waits for it; past the deadline the run fails.
ResumeContext ==
  /\ run.status = "WAITING" /\ ~run.pending
  /\ \/ Expired /\ Stopped(FALSE)
     \/ /\ ~Expired
        /\ parents.goal = "ACTIVE" /\ parents.task = "IN_PROGRESS"
        /\ parents.attempt = "RUNNING" /\ parents.execution = "WAITING"
        /\ run' = Evolved("RUNNING", run.pending)
        /\ parents' = Move(parents, [execution |-> "RUNNING"])
  /\ UNCHANGED <<intents, invocations, receipts, issued, remote, env, procs, rec, counts>>

-----------------------------------------------------------------------------
(* Reviewers, operators, clock and crash                                   *)

Rest == <<issued, remote, procs, rec, counts>>

\* Mutant: an approval may be revoked while its dispatch is under way.
DecideAnytime(i, kind) ==
  /\ intents[i].effect = "REQUIRED" /\ intents[i].policy = policy
  /\ ~intents[i].cancelled /\ now < intents[i].expires
  /\ intents[i].decision = IF kind = "REVOKED" THEN "APPROVED" ELSE "none"
  /\ intents' = [intents EXCEPT ![i].decision = kind]
  /\ UNCHANGED <<run, parents, invocations, receipts, env, Rest>>

\* GovernanceService.decide: one approval or rejection; only an approval is revoked.
Decide(i, kind) ==
  /\ intents[i].effect = "REQUIRED" /\ intents[i].policy = policy
  /\ ~intents[i].cancelled /\ ~Claimed(i) /\ now < intents[i].expires
  /\ intents[i].decision = IF kind = "REVOKED" THEN "APPROVED" ELSE "none"
  /\ intents' = [intents EXCEPT ![i].decision = kind]
  /\ UNCHANGED <<run, parents, invocations, receipts, env, Rest>>

\* Mutant: an intent may be cancelled after its claim.
CancelClaimedIntent(i) ==
  /\ intents[i].effect # "none" /\ ~intents[i].cancelled
  /\ intents' = [intents EXCEPT ![i].cancelled = TRUE]
  /\ UNCHANGED <<run, parents, invocations, receipts, env, Rest>>

\* GovernanceService.cancel
CancelIntent(i) ==
  /\ intents[i].effect # "none" /\ ~intents[i].cancelled /\ ~Claimed(i)
  /\ intents' = [intents EXCEPT ![i].cancelled = TRUE]
  /\ UNCHANGED <<run, parents, invocations, receipts, env, Rest>>

\* cancel and yield_for_handoff
StopRun(cancel) ==
  /\ run.status \in {"RUNNING", "WAITING"}
  /\ Stopped(cancel)
  /\ UNCHANGED <<intents, invocations, receipts, env, Rest>>

Table(kind) ==
  CASE kind = "goal" -> GoalAllowed [] kind = "task" -> TaskAllowed
    [] kind = "attempt" -> AttemptAllowed [] kind = "execution" -> ExecutionAllowed

\* DomainService.cancel_goal, cancel_task, cancel_task_attempt, cancel_execution
CancelParent(kind) ==
  /\ "CANCELLED" \in Table(kind)[parents[kind]]
  /\ parents' = Move(parents, [k \in {kind} |-> "CANCELLED"])
  /\ UNCHANGED <<run, intents, invocations, receipts, env, Rest>>

PublishPolicy ==
  /\ policy < MaxPolicy /\ policy' = policy + 1
  /\ UNCHANGED <<db, now, tool, mode, held, Rest>>

SetEnabled(b) ==
  /\ tool.revision < MaxRevision
  /\ tool' = [enabled |-> b, revision |-> tool.revision + 1]
  /\ UNCHANGED <<db, now, policy, mode, held, Rest>>

\* OperationalModeStore.restrict: never back to NORMAL, never out of quarantine.
RestrictMode(m) ==
  /\ mode = "RESTORE_QUARANTINE" => m = mode
  /\ mode' = m
  /\ UNCHANGED <<db, now, policy, tool, held, Rest>>

Tick ==
  /\ now < MaxTime /\ now' = now + 1
  /\ UNCHANGED <<db, policy, tool, mode, held, Rest>>

\* The process dies: drivers and recovery vanish, the store keeps its commits.
Crash ==
  /\ crashes < MaxCrashes /\ crashes' = crashes + 1
  /\ pc' = [d \in Drivers |-> "idle"] /\ loc' = [d \in Drivers |-> NoLocals]
  /\ rec' = [pc |-> "idle", id |-> "none", seen |-> "none"]
  /\ UNCHANGED <<db, issued, remote, env, faults>>

-----------------------------------------------------------------------------
(* RecoveryService.reconcile: never dispatches                             *)

\* reconcile_receipt: evidence is applied to the run it was claimed for, or not.
Repair(i) ==
  /\ intents' = [intents EXCEPT ![i].consumed = @ \/ intents[i].effect = "REQUIRED"]
  /\ run' = IF run.status = "RUNNING" /\ run.pending /\ ~Expired /\ ~Stale(i)
            THEN Observed ELSE run
  /\ rec' = [pc |-> "idle", id |-> "none", seen |-> "none"]
  /\ UNCHANGED <<parents, invocations, receipts>>

RecoverDetect(i) ==
  /\ rec.pc = "idle" /\ Claimed(i)
  /\ IF receipts[i] # "none" THEN Repair(i)
     ELSE rec' = [pc |-> "lookup", id |-> i, seen |-> "none"] /\ UNCHANGED db
  /\ UNCHANGED <<issued, remote, env, procs, counts>>

\* The connector reports what the ledger holds, or that it does not know.
RecoverLookup ==
  /\ rec.pc = "lookup"
  /\ \E s \in {ledger[rec.id], "unknown"} :
       rec' = [pc |-> "commit", id |-> rec.id, seen |-> s]
  /\ UNCHANGED <<db, issued, remote, env, procs, counts>>

RecoverCommit ==
  LET i == rec.id IN
  /\ rec.pc = "commit"
  /\ \/ receipts[i] # "none" /\ Repair(i)
     \/ /\ receipts[i] = "none" /\ rec.seen \in {"none", "unknown"}
        /\ rec' = [pc |-> "idle", id |-> "none", seen |-> "none"]
        /\ UNCHANGED db
     \/ /\ rec.seen \in {"success", "failure"}
        /\ Record(i, IF rec.seen = "success" THEN "none" ELSE "REJECTED")
        /\ rec' = [rec EXCEPT !.pc = "repair"]
        /\ UNCHANGED <<run, parents>>
  /\ UNCHANGED <<issued, remote, env, procs, counts>>

RecoverRepair ==
  /\ rec.pc = "repair"
  /\ Repair(rec.id)
  /\ UNCHANGED <<issued, remote, env, procs, counts>>

-----------------------------------------------------------------------------
\* Steps a running coroutine owes; the awaits return because wait_for bounds them.
DriverStep(d) ==
  \/ Fail(d) \/ ClaimIteration(d) \/ RefuseIteration(d)
  \/ ModelFails(d) \/ DecisionStale(d) \/ DecideContinue(d) \/ DecideWait(d)
  \/ \E i \in Ids : DecideCallTool(d, i)
  \/ \E lastTask \in BOOLEAN : DecideComplete(d, lastTask)
  \/ InvokeRefused(d) \/ InvokeRejected(d) \/ InvokeDenied(d) \/ InvokeWaits(d)
  \/ InvokeClaims(d) \/ InvokeBlocked(d)
  \/ \E answer \in {"success", "failure"} : Land(d, answer)
  \/ \E error \in {"none", "REJECTED", "TIMEOUT", "CANCELLED", "INTERNAL"} : Reconcile(d, error)
  \/ ReconcileFails(d)
  \/ ResumeIntent(d) \/ ResumeDenied(d) \/ Rewait(d)

RecoveryStep == \/ \E i \in Ids : RecoverDetect(i)
                \/ RecoverLookup \/ RecoverCommit \/ RecoverRepair

Environment ==
  \/ ResumeContext
  \/ \E i \in Ids, kind \in {"APPROVED", "REJECTED", "REVOKED"} : Decide(i, kind)
  \/ \E i \in Ids : CancelIntent(i)
  \/ \E cancel \in BOOLEAN : StopRun(cancel)
  \/ \E kind \in OperatorKinds : CancelParent(kind)
  \/ PublishPolicy \/ \E b \in BOOLEAN : SetEnabled(b)
  \/ \E m \in Restrictions : RestrictMode(m)
  \/ Tick \/ Crash

Next ==
  \/ \E d \in Drivers : BeginDrive(d) \/ DriverStep(d) \/ \E i \in Ids : BeginResume(d, i)
  \/ RecoveryStep
  \/ Environment

Spec == Init /\ [][Next]_vars

-----------------------------------------------------------------------------
(* Properties.                                                             *)

\* However drives, resumes, crashes, failed commits and recovery interleave, an
\* action enters the executor at most once, and never without its claim.
AtMostOnceDispatch ==
  \A i \in Ids : entered[i] <= IF Claimed(i) THEN 1 ELSE 0

\* What was dispatched under approval stays approved: after the claim neither
\* revocation, rejection, expiry nor cancellation reaches the record
\* (GovernanceService.decide, cancel, expire against claim).
ClaimedStaysAuthorized ==
  \A i \in Ids : Claimed(i) =>
    /\ intents[i].effect \in {"ALLOW", "REQUIRED"}
    /\ ~intents[i].cancelled
    /\ intents[i].effect = "REQUIRED" => intents[i].decision = "APPROVED"

\* A receipt claims no more than what the remote side did, whichever of driver
\* and recovery wrote it and however late (ToolReceipt.remote_outcome).
ReceiptsAreTrue ==
  \A i \in Ids :
    /\ receipts[i] = "observed" => ledger[i] = "success"
    /\ receipts[i] = "observed_failure" => ledger[i] = "failure"

\* A run succeeds only with a successful receipt, hence a real effect, for every
\* consequential action it ever requested, and with its task and attempt.
SuccessIsProven ==
  run.status = "SUCCEEDED" =>
    /\ \A i \in Ids : intents[i].effect # "none" => ledger[i] = "success"
    /\ parents.task = "COMPLETED" /\ parents.attempt = "SUCCEEDED"

\* An open action holds its iteration.  A run free to claim the next one has no
\* dispatch of unrecorded outcome behind it, so the model is never asked again over
\* an open effect; a run waiting with its iteration claimed has the undispatched
\* intent of that iteration that resume_intent can name (_approval_wait).
OpenActionHoldsIteration ==
  /\ run.status = "RUNNING" /\ ~run.pending =>
       \A i \in Ids : Claimed(i) => receipts[i] # "none"
  /\ run.status = "WAITING" /\ run.pending =>
       \E i \in Ids : /\ intents[i].effect \in {"ALLOW", "REQUIRED"}
                      /\ intents[i].iteration = run.iteration
                      /\ ~Claimed(i)

\* A run that ended leaves no attempt running, no task in progress and, unless
\* it succeeded, no execution running or waiting (_failure, CompleteTask).
EndedRunLeavesNoLiveParent ==
  Terminated(run.status) =>
    /\ parents.attempt # "RUNNING" /\ parents.task # "IN_PROGRESS"
    /\ run.status # "SUCCEEDED" => parents.execution \notin {"RUNNING", "WAITING"}

\* A dispatch is claimed only while the mode is normal, the policy is the one
\* the intent was evaluated under, the intent has not expired and the run with
\* all its parents is active: checks made in earlier transactions do not count.
ClaimsOnlyWhenOpen ==
  [][\A i \in Ids : ~Claimed(i) /\ Claimed(i)' =>
       /\ mode = "NORMAL" /\ i \notin held
       /\ intents'[i].policy = policy /\ now < intents'[i].expires
       /\ tool.enabled /\ run.status = "RUNNING" /\ run.pending /\ ParentsActive]_vars
=============================================================================
