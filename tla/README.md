# Verification of Agent Company OS

TLA+ specifications of the core of Agent Company OS (`src/src/agent_company_os`),
TLC configurations that check them on small instances, and machine-checked proofs.
Paths below are relative to `src/src/agent_company_os` unless they start with `docs`.

Run a configuration with `tlc -config <Name>.cfg <Module>` (the module of each run is
in the table of section 3) and the proofs with `tlapm <Module>.tla` for each module
whose name ends in `Proofs`. Deadlock is checked where the modelled part never stops
(`Operators`, `Durable`). In the other runs it is not, because both the program and the
instance stop when all work has ended or a bound is reached.

## 1. The system

Agent Company OS keeps *goals* of a workspace, breaks them into *tasks*, and lets
bounded agent runs work on them. It is an asyncio program over one transactional
store; an operator host with threads administers it. A transaction (`store.atomic()`)
excludes every other one; the interesting interleavings are between transactions, that
is, at each `await` of a model, planner or tool call, between callers with old
snapshots, between the identity and the canonical database, and around crashes.

| Component | State it keeps | Operations | Talks to |
|---|---|---|---|
| Canonical domain service (`application/service.py`, `adapters/in_memory.py`) | Goal, Task, Execution, TaskAttempt with status and version; transitions and events | create, activate, satisfy, close, cancel, ready, start, complete, fail, retry ... (25 commands, each one transaction) | called by everything below |
| Agent runtime (`application/runtime.py`) | AgentRun: status, iteration, `invocation_pending`, deadline, version | `start`, `drive`, `resume`, `cancel`, `_failure` | domain service, model, tool runtime |
| Tool runtime (`application/tool_runtime.py`) | ToolInvocation, ToolReceipt | `invoke`, `resume_intent`, `_reconcile` | governance, registry, executor |
| Governance (`application/governance.py`) | GovernedAction: intent, decision, consumption; ApprovalPolicy | `prepare`, `validate`, `decide`, `cancel`, `expire`, `claim`, `consumed` | called by the tool runtime and reviewers |
| Recovery (`application/recovery.py`) | none of its own | `classify`, `reconcile` (lookup, then commit), `_repair_receipt` | executor lookup, tool runtime |
| Operational modes, backup, restore (`application/operations.py`, `adapters/operational_store.py`, `adapters/sqlite_backup.py`) | mode and version, restore generation, held intents | `restrict`, `release`, `create`, `restore` | blocks dispatch claims |
| Orchestration (`application/orchestration.py`) | OrchestrationRun, PlanVersion, PlanMaterialization, Delegation, DelegationAttempt | `start`, `replan`, `materialize`, `delegate`, `start_delegation`, `resume_delegation`, `reconcile_child`, `cancel` | planner, domain service, runtime |
| Communication (`application/communication.py`) | threads, messages, handoffs with deadlines | `create_thread`, `send`, `consume`, `expire`, `request_handoff`, `resolve_handoff`, `complete_handoff` | orchestration, organization, runtime |
| Organization (`application/organization.py`) | graph revision, immutable versions, active version | `create`, `publish`, `activate`, `capture`, `require_route` | orchestration, communication |
| Knowledge (`application/knowledge.py`) | sources, versions, chunks, evidence packs | `publish_source`, `publish_version`, `disable_source`, `retrieve` | runtime |
| Memory (`application/memory.py`) | candidates, entries, context packs | `propose`, `approve`, `reject`, `revoke`, `retrieve` | runtime, knowledge |
| Operator identity (`application/operator.py`) | operators, credentials, sessions, audit | `provision_local`, `login`, `logout`, `disable`, `authorize` | host, operational modes |
| Operator host (`operator_host.py`) | worker threads, login bucket | the commands over HTTP | identity, operational modes |
| SQLite unit of work (`adapters/sqlite_store.py`, `adapters/sqlite_database.py`) | rows of all of the above | begin, load, nested transactions, flush, commit, rollback | everything |
| Plan validation, chunking, lexical retrieval, validators | none | pure functions | orchestration, knowledge |

What makes each correct, and what is hard about it:

* **Domain service.** A satisfied goal stays done; outcomes have evidence; retries
  form one chain; bounds hold. Hard: callers act on snapshots of any age, and only
  the expected version protects them.
* **Runtime, tools, governance, recovery.** A consequential effect happens at most
  once, under an approval that is still valid when it is claimed; receipts say
  nothing untrue; nothing waits for ever while the process lives. Hard: two drivers,
  decisions based on state read before an await, a crash between the effect and its
  receipt, recovery racing the driver, lapse of approvals, failed commits.
* **Restore.** Work dispatched after a backup is not repeated by the restored store.
* **Orchestration.** Completion is earned, dependencies are respected across replans,
  budgets hold, ended runs stay ended. Hard: late planners, children that share an
  execution, results in any order, cancellation that does not reach children.
* **Communication and organization.** Messages keep to routes of the organization their
  orchestration was started with, to their correlation and their budgets, and end once.
  Hard: two calls with one id, requests that time out while they are answered, an
  organization that is changed meanwhile, handoffs under handoffs.
* **Knowledge and memory.** A success rests on packs that are still good; promotion
  writes all it has to write; superseded claims form lines. Hard: everything is read
  before the model call and used after it; reviewers act at once.
* **Operators.** A mode changes only in the name of someone who may still change it.
  Hard: two databases, two look-ups, sessions that end in between.
* **Unit of work.** The database goes from one whole unit to the next. Hard: nested
  transactions whose failure is caught, a flush that fails half way, several groups,
  memory that outlives its transaction.

`PROJECT.json` lists the hazards, each at its line, with the properties that watch it.

## 2. The modules

| Module | Models | Built on |
|---|---|---|
| `Lifecycles` | the transition tables of the five status machines | |
| `DomainLifecycle` | every command of `DomainService` with the checks of the store | `Lifecycles` |
| `ConcurrentCallers` | callers of `DomainLifecycle` with snapshots of any age | `DomainLifecycle` |
| `GoalPromise`, `DomainRefinement` | what a goal promises, and that the service implements it | `DomainLifecycle` |
| `GovernedExecution` | one AgentRun with its parents, drivers, intents, approvals, dispatches, receipts, recovery, mode, clock and crashes | `Lifecycles` |
| `GovernedProgress` | fairness and liveness of its coroutines | `GovernedExecution` |
| `EffectPromise`, `GovernedRefinement` | the promise of one consequential effect, and that `GovernedExecution` implements it | `GovernedExecution` |
| `GovernedRestore` | backup, restore into quarantine, release | `GovernedExecution` |
| `Orchestration` | one OrchestrationRun: plans, materialization, delegation, children, cancellation | `Lifecycles` |
| `Handoffs` | handoffs of a task from one child to another, with deadlines | `Orchestration` |
| `DeliveryPromise`, `OrchestrationRefinement` | what several agents working on one goal promise, and that `Orchestration` and `Handoffs` implement it | `Orchestration` |
| `OrganizationGraphs` | versions of the organization graph, their validation, discovery and routes | |
| `Messages` | threads, `send` in two steps, `consume`, `expire` and the budgets | `OrganizationGraphs` |
| `KnowledgeSources` | sources, their versions, evidence packs | |
| `RetainedMemory` | candidates, review, entries, supersession, context packs | `KnowledgeSources` |
| `GroundedRuns` | runs that claim an iteration, call the model with their packs and decide | `RetainedMemory` |
| `OperatorSessions` | operators, sessions, the threads of the host and the commands that change the mode | |
| `AtomicStore` | what a unit of work promises: records and their journal change together | |
| `DurableUnits` | `SqliteStoreGroup`: begin, load, nested transactions, flush, commit, faults and crashes; implements `AtomicStore` | `AtomicStore` |
| `MC*` | constants for TLC | |
| `*Proofs` | theorems about the module they are named after (`DomainLifecycleProofs` also about `ConcurrentCallers`, `OrchestrationProofs` also about `Handoffs`) | |

How state and actions correspond to code.

*Domain.* An entity of `DomainLifecycle` is a record with the fields the rules read; an
identifier that does not exist yet has status `Absent`. One action is one command: its
guard has the expected version, the command's own checks, the transition table and the
store's reference and lineage checks, since a command that any of them refuses changes
nothing. `ConcurrentCallers` adds what each caller has read last (`snapshot`) and two
history variables: whose command the last step was (`actor`), and which callers hold an
entity that somebody else has changed since they read it (`outdated`).

*Governed execution.* A driver has a program counter whose steps are the transactions of
`drive`, `invoke` and `resume_intent`; its local variables are what the coroutine read
before the await (claimed version, parent versions, intent). `remote` is the external
system, which keeps its ledger across crashes; `entered` counts how often an effect was
attempted.

*Orchestration and handoffs.* A child run is reduced to what its parents see of it, with
the effect `_failure`, completion and waiting have on task and execution; planner calls
in flight are counters, because their answer depends only on the state they meet. A
planner call ends in a plan accepted (`PlannerAccepted`), in a refusal the service handles
(`PlannerRefused`), or in an error nobody handles (`PlannerEscapes`), which leaves the run as
it is; the history variable `lost` says that the planning under way has lost an answer that
way or in a crash. A resumption of an approval is in `approving` until the child runs again
and in `approved` until the call comes back: it may raise at either point
(`ApprovalRaises`), and a running orchestration waits then, whatever became of the child.
`StartDelegation` uses the execution of the orchestration, replaces it when it has ended, or
uses a running execution of the goal that the caller names (`execution_id`), which may be one
made for the purpose; `_reconcile_result` is `Reconcile`, whoever asks for it.
`resolve_handoff` ends the sender, restarts the orchestration and redelegates in one
transaction, so `AcceptHandoff` does all of it or nothing: where `delegate` refuses, the
handoff stays requested. Whether the recipient rules, routes and references refuse is a
free choice (`RejectHandoff`). In `DeliveryPromise` there are no delegations and budgets: an
item of the plan is in the hands of agents. `OrchestrationRefinement` reads it off the run:
accepted is what has a canonical task, done what is completed, and in the hands of an agent
is a task with a live child of that agent.

*Messages.* `send` looks its id up before it opens its transaction: `LookUp` puts the
call among `calls`, `Send` is the transaction, `Refuse` stands for every refusal. A call
names the versions of both runs, so `MoveRun` takes the calls away that can only be
refused. `ReportingEnds` is the bounded walk of the validator; the property about it
does not walk: in every group of agents there is one whom nobody in the group manages, and
no chain of reports is longer than the bound.

*Grounded runs.* `Claim` is `drive` up to the model call, `calls` the version under which
a call is in flight, `Answer` what follows the call. A pack is the set of what it
contains. The parents of a run (goal, task, attempt, execution) are one flag, since
`GovernedExecution` has them in full. `Approve` writes candidate, entry and superseded
entry in one action, as the transaction does.

*Operators.* `Command` is the look-up by the host, `Enter` the second authentication,
which begins the transaction of the identity database (`lock`), `Change` the commit of
the canonical database while it is held.

*Unit of work.* A group has a program counter, the image its transaction sees and writes
(`image`), what `_load` returned (`before`), the snapshots of nested transactions and the
containers in `memory`. `promised` is what a caller was told. A fault may come at every
point (`Fail`), and the process may die at every point (`Crash`).

What is abstracted: text, prompts, tool arguments (an intent stands for its binding),
event logs except where a guard reads them (`ORCHESTRATION_CHILD_RECONCILED` is the
flag `reconciled`), read-only tools, and the workspace scope outside `DomainLifecycle`.
The deadline of a handoff is a flag the clock raises at any moment, and the source
delegation of a request, which nothing reads again, is left out. In `Orchestration` a
logical task and its canonical task are one identifier, agent eligibility is a free
choice of an agent or of nobody, commands with a stale expected version are left out, and
the attempt of a child runs exactly while the child does. In `RetainedMemory` the claims
are the values of one key about one subject, which is where duplicates, conflicts and
supersession meet. Ranking by a retriever is a free choice among what it was given. In
`DurableUnits` a record is its version, and one kind of rows and one journal stand for all.

## 3. What the runs check

| Run (module) | Instance and properties | Distinct states |
|---|---|---|
| `Domain` (`MCDomainLifecycle`) | two workspaces, one goal, two tasks, two executions bounded by one attempt, two attempts: `OutcomesHaveEvidence`, `AttemptLineage`, `ExecutionBounds`, and the service implements `GoalPromise` (`ImplementsPromise`) | 866 thousand |
| `ConcurrentCallers` (`MCConcurrentCallers`) | two callers, versions up to 4: `NoLostUpdate` | 56 thousand |
| `GovernedEffect` (`GovernedRefinement`) | two drivers, one action of each policy effect, cancellation of the execution, one crash, one failed commit, lookup recovery, quarantine: `AtMostOnceDispatch`, `ReceiptsAreTrue`, `SuccessIsProven`, and it implements `EffectPromise` (`ImplementsEffectPromise`) | 1.2 million |
| `GovernedApproval` (`MCGovernedExecution`) | reviewers, operators on every parent, policy, registry, mode and clock: `ClaimedStaysAuthorized`, `ClaimsOnlyWhenOpen`, `EndedRunLeavesNoLiveParent` | 2.1 million |
| `GovernedProgress` (`GovernedProgress`) | two drivers, one failed commit, under fairness: `DispatchIsRecorded`, `IterationIsReleased` | 72 thousand |
| `GovernedRestore` (`MCGovernedRestore`) | two actions of one run, lapse of approvals, one backup and restore at any point: `AtMostOnceAcrossRestore`, `OpenActionHoldsIteration` | 3.2 million |
| `OrchestrationPlans` (`MCOrchestration`) | three plans over two tasks, one replan, two planner calls in flight, two children in the execution of the orchestration, one resumption of an approval in flight, a goal cancelled from outside, crashes and escaping errors at any time, under fairness: `CompletionIsEarned`, `NoOrphanTask`, `TaskMirrorsChild`, `WorkIsBounded`, `DependenciesFirst`, `PlanningEnds` | 921 thousand |
| `Handoffs` (`MCHandoffs`) | one task, three agents, two children, one retry, two redelegations, two handoffs, one under the other, a first child in an execution its caller names, goal, task and executions cancelled from outside, crashes: `OneTransferPerRun`, `CompletionIsTheTransfers`, with handoffs in between `AssignmentsMoveOn`, and the orchestration with its handoffs implements `DeliveryPromise` (`ImplementsDelivery`) | 721 thousand |
| `Grounded` (`MCGroundedRuns`) | two runs, one source with two contents, one pack of each kind, two claims, two entries: `SuccessStandsOnLiveEvidence`, `PromotionIsEntry`, `SupersessionIsALine`, `DurableKeysMatch` | 1.4 million |
| `Messages` (`MCMessages`) | three ids, two calls in flight, three runs of which two are of one task, four drafts of which one has a cycle and one a line that is too long: `MessagesMoveOn`, `MessagesFollowRoutes`, `ResponsesGoBack`, `BudgetsHold`, `OrganizationsAreHierarchies` | 600 thousand |
| `Operators` (`MCOperatorSessions`) | two operators, tokens and workers, one restart: `ModesChangeUnderAuthority`, `NothingAfterDisabling`, `AnAdminRemains` | 1.2 million |
| `Durable` (`MCDurableUnits`) | two groups, two keys, a journal of four, nesting of two: `ImplementsAtomicStore`, `PromisedIsDurable` | 500 thousand |

Bounds. Two of each entity let two of them be confused, a third attempt or agent lets a
chain have a middle. `MaxVersion` counts the commands on one entity and is large enough
for each entity to reach its end after a retry. `MaxTime`, `Deadline` and `Expiry` let
the approval lapse before, and the run after, its use; time is a counter because the
code only compares times. In `GovernedExecution` one crash and one failed commit suffice for
each place where they can happen, since every place is tried; crashes of an orchestration
are not bounded. `MaxPlanners` bounds the replans in flight:
two where they may overlap, none in the run about handoffs, where planning does not
matter. `MaxApprovals` bounds the resumptions in flight: with the one of
`OrchestrationPlans`, its child, a sibling, reconciliation, replans and cancellation
already run in between; `Handoffs` has none. `NamedChildren` is how many of the first
children may start in an execution the caller names: the first in `Handoffs`, which puts
it and its successor into different executions, and none in `OrchestrationPlans`. The
theorems hold for every value of the three. Two handoffs let one be requested under the other, or two by the same run.
`MaxAgentRuns`, `MaxFailed`, `MaxRetries` and `MaxRedelegations` are smaller than the
policy's defaults so that each of them is reached; so are the budgets of messages, the
packs and the content versions. Of the canonical entities an operator cancels the goal in
`OrchestrationPlans` and the goal, the task and the executions in `Handoffs`. With
a reporting depth of two, a line of two steps is published, one of three and a cycle of
three are not, and neither is seen by comparing neighbours.
Two entries are enough for two reviewers to supersede the same one. `Durable` needs two
keys for a flush that fails between rows, and two groups for memory that is old when its
group begins again.

Fairness. `GovernedProgress` assumes weak fairness of every step of a driver: each of
its awaits is under `asyncio.wait_for` and the rest is ordinary code. Nothing is
assumed of reviewers, operators, recovery or the clock. `Orchestration` assumes it of
planner answers, which are under `wait_for` as well: the call comes back, with a plan, a
refusal or an error that escapes. The liveness statements except a crash, since nothing in
the program restarts a lost coroutine, and `PlanningEnds` excepts the error that escapes for
the same reason: the run then stays in PLANNING (`lost`) until something else moves it.

### Where documents and code disagree

The models do what the code does. What follows was met while translating it.

* `replan` handles every error of the planner, but only a `DomainError` of `_accept_plan`
  (`orchestration.py:416`), where `start` handles every exception (`orchestration.py:298`). A
  malformed proposal that makes validation raise something else, or a database error at the
  commit of the plan, escapes and leaves the run in PLANNING in a living host, where
  `docs/STAGE_6_REPORT.md:98` says that invalid or failed replans move the run to `waiting`.
  Only `cancel`, or a child or another planner call still in flight, moves it then.
  `PlannerEscapes` is this step; `PlanningEnds` and `PlanningIsAlwaysAwaited` show that it and
  a crash are the only ways into this state.
* A delegation whose child failed can be started again (`orchestration.py:776`), so a
  task gets more children than the one retry and one redelegation of ADR-009:109.
  `WorkIsBounded` says what still bounds them.
* Two children share an execution, one fails it, the run is cancelled, the other fails:
  `runtime.py:550` makes its task ready again under a cancelled goal, where ADR-009:113
  says cancellation prevents new readiness. The task cannot start any more.
* Accepting a handoff fails the execution its sender shares with a sibling that is still
  working (`runtime.py:515`), whose work can then only fail.
  `docs/architecture/AGENT_RUNTIME_ARCHITECTURE.md:68` says a handoff ends one attempt.
* `cancel_execution` leaves the attempts of the execution live, where
  `docs/architecture/DOMAIN_MODEL.md:304` says child work receives cancellation.
* On the resume path a cancelled execution or a stale result leaves the iteration claimed
  (`tool_runtime.py:557`); `IterationIsReleased` therefore speaks of iterations without an
  approval, and `OpenActionHoldsIteration` of the others.
* `resume_intent` refuses an approval wait past the run's deadline and leaves the run
  waiting, where ADR-005 says a waiting run expires when inspected through resume.
* `delegate` measures only initial delegations against the parallel width of ADR-009.
* When the redelegation or iteration budget is exhausted `resolve_handoff` raises and the
  handoff stays requested, where ADR-010 and `docs/STAGE_7_REPORT.md` speak of escalation
  or rejection. It does not look at the budget of agent runs, so a task can be handed to
  an agent that cannot be started any more. A handoff whose recipient fails and is retried
  under a new delegation can only time out, because `complete_handoff` looks at its own.
* Knowledge that a run restates in its result is accepted as memory of kind
  `TASK_RESULT` (`memory.py:175`), where ADR-008:40 says knowledge-derived restatements are
  rejected; and a conflict, which ADR-008:84 says is flagged, is flagged only if the
  knowledge was retrieved before the memory.
* A rejected duplicate is returned as it is: a claim that was rejected once can never be
  proposed again. `active_pack` looks at the status of a source and not at its content
  version.
* A response is accepted to a request that has timed out or was answered already, and
  `max_messages_per_agent_run` counts what an agent received but is checked only when it
  sends (`BudgetsHold` speaks of what was sent). A reference to a memory pack is checked
  against the stored snapshot (`communication.py:673`).
* The last admin may disable itself (`AnAdminRemains` excepts it). `MAINTENANCE`, and a
  quarantine entered without a restore, cannot be left through the service.
* The rule by which the loader names source versions (`sqlite_store.py:748`) holds only
  because nothing but a publication raises the version of a live source.

Hazards without a property: an approval wait past its deadline is never ended
(`tool_runtime.py:524`); an intent proposed in quarantine blocks every later release
(`operational_store.py:93`); a last success that is reconciled while the run is planning
or waiting must be reconciled again by hand (`orchestration.py:994`); two orchestrations
over one goal (`orchestration.py:267`). The first three are what the code does and
nothing in it repairs, so a property could only record them; the fourth is in the plan.

## 4. What is proved

Every theorem holds for all values of the constants that satisfy the named `ASSUME` of
its module (bounds are naturals, positive where the code divides work by them; identifiers
do not contain the model's names for nothing). Sets of identifiers may be infinite except
where a theorem counts (`ExecutionsStayBounded`, `BudgetsAlwaysHold`) and for the logical
tasks of an orchestration (`OrchestrationAssumption`): a proposal is a finite tuple and
the policy bounds the replans.

| Module | Theorem | States | Inductive invariant |
|---|---|---|---|
| `DomainLifecycleProofs` | `TypeCorrect` | shape and ranges | itself |
| | `SatisfiedGoalsAreDone` | a satisfied goal has tasks, all completed | with `TypeOK` |
| | `RetriesFollowTheEnd` | a retried execution had ended | with `TypeOK` |
| | `OutcomesKeepEvidence` | `OutcomesHaveEvidence` | with `TypeOK` |
| | `ExecutionsStayBounded` | `ExecutionBounds` | with `AttemptsHaveParents` |
| | `RetriesFormAChain` | `AttemptLineage` | `LineageOf` each task |
| | `ServiceKeepsPromise` | `ImplementsPromise` | `ReferenceInv` |
| | `UpdatesAreSeen` | `NoLostUpdate` | `SnapshotInv` |
| `GovernedExecutionProofs` | `GovernedTypes` | shape and ranges | `GovernedOK` |
| | `DispatchedAtMostOnce` | `AtMostOnceDispatch` | `DispatchInv` |
| | `ReceiptsStayTrue` | `ReceiptsAreTrue` | `ReceiptInv` |
| | `ClaimedStays` | `ClaimedStaysAuthorized` | `AuthorizedInv` |
| | `ClaimsFindEverythingOpen` | `ClaimsOnlyWhenOpen` | `DispatchInv` |
| | `EndedRunsAreOver` | `EndedRunLeavesNoLiveParent` | `EndedInv` |
| | `SuccessStaysProven` | `SuccessIsProven` | `SuccessInv` |
| | `OpenActionsHoldTheirIteration` | `OpenActionHoldsIteration` | `OpenInv` |
| | `EffectsKeepThePromise` | `ImplementsEffectPromise` | `DecisionsOK`, `ReceiptInv` |
| | `DispatchesAreCarried` | `DispatchIsCarried`, the safety half of `DispatchIsRecorded` | `CarriedOK` |
| | `IterationsAreCarried` | `IterationIsCarried`, the safety half of `IterationIsReleased` | `OpenInv`, `FreshOK`, `IterationOK` |
| `GovernedRestoreProofs` | `RestoresRepeatNothing` | `AtMostOnceAcrossRestore` | `RestoreInv` |
| | `RestoredActionsHoldTheirIteration` | `OpenActionHoldsIteration` | `OpenInv`, `SnapshotHeld` |
| | `RestoredTablesTellTheTruth` | `ReceiptsAreTrue` and more, live and backed up | `TruthInv` |
| | `RestoredClaimsFindEverythingOpen` | `ClaimsOnlyWhenOpen` | `TruthInv` |
| `GroundedRunsProofs` | `StoresStay` | shape and references | `StoresOK` |
| | `StoredSourcesLoad` | `DurableKeysMatch` | `KeysInv` |
| | `PromotedClaimsHaveTheirEntry` | `PromotionIsEntry` | `PromotionInv` |
| | `SupersessionStaysALine` | `SupersessionIsALine` | `LineInv` |
| | `SuccessStands` | `SuccessStandsOnLiveEvidence` | `RunsOK` |
| `MessagesProofs` | `MessagesStay` | shape and references | `MessagesOK` |
| | `MessagesEndOnce` | `MessagesMoveOn` | `MessagesOK` |
| | `ResponsesAlwaysGoBack` | `ResponsesGoBack` | `ResponseInv` |
| | `MessagesAlwaysFollowRoutes` | `MessagesFollowRoutes` | `RouteInv` |
| | `BudgetsAlwaysHold` | `BudgetsHold` | `BudgetInv` |
| | `VersionsAreHierarchies` | `OrganizationsAreHierarchies` | `VersionsOK` |
| `OperatorSessionsProofs` | `IdentityStays` | shape and references | `IdentityOK` |
| | `DisabledActorsAreSilent` | `NothingAfterDisabling` | `SilenceInv` |
| | `AnAdminAlwaysRemains` | `AnAdminRemains` | `AdminInv` |
| | `OnlyAdminsChangeTheMode` | `ModesChangeUnderAuthority` | `LockInv` |
| `OrchestrationProofs` | `OrchestrationStays` | shape and references | `OrchestrationOK` |
| | `NoTaskIsOrphaned` | `NoOrphanTask` | `PlansOK` |
| | `TasksMirrorChildren` | `TaskMirrorsChild` | `MirrorOK` |
| | `CompletionIsAlwaysEarned` | `CompletionIsEarned` | `EarnedOK` |
| | `WorkStaysBounded` | `WorkIsBounded` | `BoundsOK` |
| | `DependenciesComeFirst` | `DependenciesFirst` | `EarnedOK` |
| | `AssignmentsAlwaysMoveOn` | `AssignmentsMoveOn`, with handoffs | `AssignmentsOK` |
| | `TransfersHappenOnce` | `OneTransferPerRun` and the invariants above, with handoffs | `TransfersOK` |
| | `CompletionsAreTransfers` | `CompletionIsTheTransfers` | `LineageOK` |
| | `OrchestrationsKeepPromise`, `HandoffsKeepPromise` | `ImplementsDelivery` | `RunOK` |
| | `PlanningIsAlwaysAwaited` | `PlanningIsAwaited` and `LossesAreExplained`, the safety half of `PlanningEnds` | `AwaitedOK` |
| `DurableUnitsProofs` | `UnitsStay` | shape, and what an open unit may hold | `UnitsInv` |
| | `PromisesAreDurable` | `PromisedIsDurable` | `UnitsInv` |
| | `UnitsAreAtomic` | `ImplementsAtomicStore` | `UnitsInv` |

Along which arguments.

*Domain.* `CommandsSave` reduces the 25 commands to five creations and four kinds of save,
`OneKindAtATime` says a step touches one entity, `TablesAreFinal` that terminal rows of the
tables are empty, and `EntitiesPersist` that parents never change. With these, each theorem
needs one step per kind of save. `ExecutionBounds` needs that the attempts of an execution
grow only by creation, one at a time (`AttemptCountStep`); `AttemptLineage` that ordinals of
a task are an initial segment of the naturals and that a new attempt extends it, which is
why the invariant speaks of the whole chain and not only of its last link. The refinement
needs in addition that tasks and executions keep the goal they were created for.

*Callers.* `NoLostUpdate` is about the caller that acts: it holds what it changes in the
very version and status, and nobody has changed it since. `SnapshotInv` says that a snapshot
is never newer than its entity, has its status if both have the same version, and is older
if its caller is outdated: every save raises the version by one, so comparing versions finds
every change, also one that came back to the same status.

*Governed execution.* What holds between two transactions of a driver is the heart of each
proof. `HoldInv`: a driver between claim and receipt holds a claimed action, and before it
calls the executor it is the only one that does and nobody has called for this action;
`DispatchInv` is that together with at most one call. `KnowledgeOK` (in `ReceiptInv`) ties
what a driver or the recovery has seen of an effect to the ledger, which never changes once
it is written. `SuccessInv` joins both. `EndedInv` and `AuthorizedInv` need one step for
each transaction that ends or claims something. `OpenInv` is the longest: invocations have
the run version of their claim (`HeldIn`), an open one holds the run at exactly that
version, and a driver whose version is still that of the run finds nothing open
(`CurrentOK`), so whoever claims the next action does it in a later version. The refinement
needs only that decisions are taken on intents that ask for one (`DecisionsOK`) and the
receipts.

*Restore.* `RestoreInv` says that whatever is known of an action, in the store or in the
snapshot, had its identifier issued (`IssuedOK`), and that an executed action of which the
store has no claim is held, or unknown to the store and taken up by nobody (`ForgottenOK`),
so that no claim can be made for it. `SnapshotHeld` says of the backed-up tables what
`HeldIn` says of the live ones. `TellTruth` is stated of any tables (run, parents, intents,
invocations, receipts) against the ledger, which no restore takes back: it holds of the live
tables and of the backup, hence after a restore, and what a step writes into the live ones
it writes from what the ledger says. The store has every claim its backup has, so a
restore only forgets claims that are younger than the backup.

*Grounded runs.* `KeysInv` needs that version and content version of a live source rise
together (`VersionsInStep`); `LineInv` counts the later
entries that supersede an entry; `SuccessStands` looks at the one step that can succeed.

*Messages.* `ResponseInv` and `RouteInv` need that a message keeps its fields once it is
sent, that graph versions are never replaced and that the pinned version is one of them;
`BudgetInv` counts finite sets and adds one message at a time. `VersionsOK` keeps every
published version validated, so `OrganizationsAreHierarchies` is about the validator alone: a
group in which everyone has a manager of the group is never left by the walk upwards, so
`ReportingEnds` would be false at every depth; a line longer than the depth is still walked
at that depth (`LongLinesAreWalked`). Both that the recursion of the walk has a value
at each depth and that it does not leave the group are shown by a least counterexample
among the naturals.

*Operators.* `SilenceInv`: whoever was disabled on the record exists and is disabled now
(`DisabledStays`), so it is neither provisioned again nor authenticated. `LockInv`: the request that holds the identity transaction
has a session that still stands, since nothing that could end it can begin.

*Orchestration and handoffs.* A handoff touches the orchestration only when it is accepted,
so every invariant is kept by a step of `Next` or by an accepted handoff
(`OrchestrationStep`) and holds of both specifications. `StepKinds` reduces the step to what
it does to delegations, children and tasks. `PlansOK` needs that the first plan is asked
for once and before anything else (`PlanningStarts`): an answer to `start` finds no task it
could orphan. `MirrorOK` adds that a completed task was delivered; completion then leaves no
child alive, because a live child holds a task of the plan that is not completed. `BoundsOK`
counts the children that failed or still may: a start is the only step that adds one, it
finds the budget unspent, and live children have different tasks. `AssignmentsOK` compares
any two delegations of a task by both ordinals, since the sum alone would not carry over to
the next assignment. `TransfersOK` uses `MirrorOK`: the task of a live sender is in progress
or cancelled, so an accepted handoff finds it in progress and its sender fails.

`LineageOK` says that the parent of a handoff is an earlier one, so its chain of parents
exists and is unique (by a least counterexample), that the agents of the chain differ from
the one it is transferred to, and that a completed handoff found the success of the child of
the delegation it had made.

*Delivery.* The refinement goes by the kinds of steps. `QuietIsInvisible` covers all that
change neither tasks nor live children; each other kind is one lemma and one action of
`DeliveryPromise`: a plan is adopted with all that was accepted in it
(`AcceptedPlanIsAdopted`), a start takes up a task nobody holds after what it needs
(`StartBegins`, with `DependenciesFirst`), a reconciled child finishes its task or lets it go
or delivers the goal (`MovesAreSeen`, `ReconciliationDelivers`), a cancellation abandons the
goal, an accepted handoff lets a task go. `HandsChange` says the hands of a task change only
with a live child of it, and `SuccessIsUnderAnOpenGoal` that nothing is finished for a goal
that is closed; both rest on `RunOK`, the invariants of the orchestration together.

*Unit of work.* `UnitsInv` says what the memory of a group may hold while its unit is open:
what is stored followed by whole commands (`IsBatch`), but for the one save whose event is
not logged yet (`Settled`); the same of the image and of the snapshots of nested
transactions, so that every roll-back comes back to such a content. During the flush each
row is the old or the new one, and the group at work holds the lock. The commit is then
one `Transact` of the atomic store and every other step a stutter; what was promised is a
prefix of the journal, which only grows.

*Progress.* The prover cannot reason about fairness, but each liveness property has a safety
half that can fail on its own: whatever has to happen is owed by somebody.
`PlanningIsAwaited`: a run that plans has a planner call in flight unless an answer of this
planning was lost, and `LossesAreExplained`, proved with it, that only a crash or an error that
escapes loses one and that a run asked to plan anew starts without a loss. `PlanningMoves`
has the three things a step can do to planning.
`DispatchIsCarried`: while the process lives and at most one commit fails, a dispatch
without receipt has a driver that will write it; the second failure is what the code does not
survive, and `CarriedOK` counts it. `IterationIsCarried`: without approvals a claimed
iteration has a driver between its claim and its release. It needs `FreshOK`, that an action
a driver did not resume is its own and has no intent before its transaction, because
otherwise the driver could find an intent that waits.

Only model-checked: `DispatchIsRecorded`, `IterationIsReleased` and `PlanningEnds`, the
liveness properties, because fairness is stated with `ENABLED`, which is out of the prover's
reach. The library's induction theorems cannot be used (they take an operator), so where a
proof needs induction it takes a least counterexample among the naturals. No module here
declares a RECURSIVE operator.

## 5. Not modelled, and the plan

Not modelled: pure I/O, conversions and projections (HTTP framing, command line, load
generator, serialization, codec, inspection, audit and operator queries, prompt assembly),
and pure functions of texts (chunking, normalization, ranking, schema validation). Partly
modelled components say in `PROJECT.json` what is left out.

What is left, in order of what it would add:

1. Two orchestrations over one goal, composed with `DomainLifecycle`.
2. `PlanValidation` and `Chunking` as operators checked against reference definitions.
