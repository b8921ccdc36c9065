------------------------ MODULE GovernedRestoreProofs ------------------------
(***************************************************************************)
(* Proofs about GovernedRestore: a dispatch that a restored store forgot   *)
(* is not repeated, and the tables of a backup hold of the run what the    *)
(* tables of the live store hold.                                          *)
(*                                                                         *)
(* A step of RestoreNext is a step of Next that leaves the snapshot alone, *)
(* so what GovernedExecutionProofs shows of Next is used as it stands.     *)
(***************************************************************************)
EXTENDS GovernedRestore, GovernedExecutionProofs

\* Drivers that have taken an action up.
Engaged == Holding \cup {"invoke", "resume"}

SnapshotOK ==
  snapshot.taken =>
    /\ snapshot.run \in RunRecords /\ snapshot.parents \in ParentRecords
    /\ snapshot.intents \in [Ids -> IntentRecords]
    /\ snapshot.invocations \in [Ids -> InvocationRecords]
    /\ snapshot.receipts \in [Ids -> {"none", "observed", "observed_failure", "unknown"}]
    /\ snapshot.policy \in Nat /\ snapshot.tool \in [enabled : BOOLEAN, revision : Nat]

\* Whatever is known of an action, here or in the snapshot, had its identifier issued.
IssuedOK ==
  /\ \A i \in Ids : entered[i] # 0 \/ intents[i].effect # "none" => i \in issued
  /\ \A d \in Drivers : pc[d] \in Engaged => loc[d].id \in issued
  /\ snapshot.taken => \A i \in Ids : snapshot.intents[i].effect # "none" => i \in issued

\* An executed action the store has no claim of is fenced, or the store knows nothing of
\* it and nobody has taken it up.
ForgottenOK ==
  \A i \in Ids : entered[i] # 0 /\ ~ Claimed(i) /\ i \notin held =>
    /\ intents[i].effect = "none"
    /\ \A d \in Drivers : pc[d] \in Engaged => loc[d].id # i

RestoreInv ==
  /\ GovernedOK /\ HoldInv /\ SnapshotOK /\ IssuedOK /\ ForgottenOK
  /\ AtMostOnceAcrossRestore

-----------------------------------------------------------------------------
\* The steps of the run.

LEMMA ClaimsAreFirst ==
  ASSUME RestoreInv, NEW d \in Drivers, InvokeClaims(d)
  PROVE  entered[loc[d].id] = 0
<1>1. loc[d].id \in Ids /\ ~ Claimed(loc[d].id) /\ pc[d] = "invoke"
  BY Claims DEF RestoreInv
<1>2. loc[d].id \notin held
  BY DEF InvokeClaims, DispatchOpen
<1> QED
  BY <1>1, <1>2 DEF RestoreInv, ForgottenOK, Engaged

\* An action is taken up when it is issued or when its intent exists.
LEMMA TakingUp ==
  ASSUME GovernedOK, [Next]_vars, NEW d \in Drivers, pc'[d] \in Engaged
  PROVE  \/ pc[d] \in Engaged /\ loc'[d].id = loc[d].id
         \/ \E i \in Ids : DecideCallTool(d, i) /\ loc'[d].id = i
         \/ \E i \in Ids : loc'[d].id = i /\ intents[i].effect # "none"
<1> USE DEF Engaged, Holding
<1>1. pc \in [Drivers -> Positions] /\ loc \in [Drivers -> Locals]
  BY DEF GovernedOK, DriversOK
<1>2. CASE InvokeClaims(d) \/ ResumeIntent(d)
  BY <1>1, <1>2, Claims DEF InvokeClaims, InvokeOpen, ResumeIntent, Locals
<1>3. ~ ClaimIteration(d)
  BY <1>1 DEF ClaimIteration, Goto
<1>4. ASSUME NEW i \in Ids, DecideCallTool(d, i)
      PROVE  loc'[d].id = i
  BY <1>1, <1>4 DEF DecideCallTool, Locals
<1>5. ASSUME NEW i \in Ids, BeginResume(d, i)
      PROVE  loc'[d].id = i /\ intents[i].effect # "none"
  BY <1>1, <1>5 DEF BeginResume
<1>6. CASE \E i \in Ids : DecideCallTool(d, i) \/ BeginResume(d, i)
  BY <1>4, <1>5, <1>6
<1>7. \/ pc[d] \in Engaged /\ loc'[d] = loc[d]
      \/ InvokeClaims(d) \/ ResumeIntent(d)
      \/ \E i \in Ids : DecideCallTool(d, i) \/ BeginResume(d, i)
  BY <1>3, Places
<1> QED
  BY <1>2, <1>6, <1>7

LEMMA NewIntents ==
  ASSUME GovernedOK, [Next]_vars, NEW i \in Ids, intents'[i].effect # "none"
  PROVE  \/ intents[i].effect # "none"
         \/ \E d \in Drivers : pc[d] = "invoke" /\ loc[d].id = i
BY IntentSteps DEF SameIntent, InvokeDenied, InvokeWaits, InvokeClaims, InvokeOpen

LEMMA IssuedSteps ==
  ASSUME [Next]_vars
  PROVE  /\ held' = held
         /\ issued' = issued \/ \E d \in Drivers, i \in Ids : DecideCallTool(d, i)
<1> USE DEF env
<1>1. ASSUME NEW d \in Drivers, BeginDrive(d) \/ DriverStep(d) \/ \E i \in Ids : BeginResume(d, i)
      PROVE  held' = held /\ (issued' = issued \/ \E i \in Ids : DecideCallTool(d, i))
  BY <1>1 DEF DriverStep, Land, BeginDrive, BeginResume, Fail, ClaimIteration, RefuseIteration,
              ModelFails, DecisionStale, DecideContinue, DecideWait, DecideCallTool, DecideComplete,
              InvokeRefused, InvokeRejected, InvokeDenied, InvokeWaits, InvokeClaims, InvokeBlocked,
              Reconcile, ReconcileFails, ResumeIntent, ResumeDenied, Rewait
<1>2. CASE RecoveryStep
  BY <1>2 DEF RecoveryStep, RecoverDetect, RecoverLookup, RecoverCommit, RecoverRepair
<1>3. CASE Environment
  BY <1>3 DEF Environment, ResumeContext, Decide, CancelIntent, StopRun, CancelParent, PublishPolicy,
              SetEnabled, RestrictMode, Tick, Crash, Rest
<1>4. CASE UNCHANGED vars
  BY <1>4 DEF vars
<1> QED
  BY <1>1, <1>2, <1>3, <1>4 DEF Next

\* How often an action was executed changes only when a driver that holds it calls.
LEMMA Executions ==
  ASSUME GovernedOK, HoldInv, [Next]_vars, NEW i \in Ids
  PROVE  \/ entered'[i] = entered[i]
         \/ /\ Claimed(i) /\ entered[i] = 0 /\ entered'[i] = 1
            /\ \E d \in Drivers : pc[d] = "dispatch" /\ loc[d].id = i
<1>1. CASE UNCHANGED remote
  BY <1>1 DEF remote
<1>2. ASSUME NEW d \in Drivers, Landing(d)
      PROVE  \/ entered'[i] = entered[i]
             \/ /\ Claimed(i) /\ entered[i] = 0 /\ entered'[i] = 1
                /\ pc[d] = "dispatch" /\ loc[d].id = i
  BY <1>2, Landings DEF HoldInv, Holding, GovernedOK, WorldOK
<1> QED
  BY <1>1, <1>2, LedgerSteps

LEMMA RunKeepsRestoreInv ==
  ASSUME RestoreInv, [Next]_vars, UNCHANGED <<snapshot, restores>>
  PROVE  RestoreInv'
<1> USE DEF RestoreInv
<1>1. GovernedOK' /\ HoldInv' /\ SnapshotOK'
  BY TypesKept, HoldingKept, ClaimsAreFirst DEF SnapshotOK
<1>2. issued \subseteq issued' /\ held' = held
  BY IssuedSteps DEF DecideCallTool
<1>3. ASSUME NEW i \in Ids, entered'[i] # 0 \/ intents'[i].effect # "none"
      PROVE  i \in issued'
  BY <1>2, <1>3, Executions, NewIntents DEF IssuedOK, Engaged, Holding
<1>4. ASSUME NEW d \in Drivers, pc'[d] \in Engaged
      PROVE  loc'[d].id \in issued'
  <2>1. ASSUME NEW i \in Ids, DecideCallTool(d, i)
        PROVE  i \in issued'
    BY <2>1 DEF DecideCallTool
  <2> QED
    BY <1>2, <1>4, <2>1, TakingUp DEF IssuedOK
<1>5. IssuedOK'
  BY <1>2, <1>3, <1>4 DEF IssuedOK
<1>6. ASSUME NEW i \in Ids, entered'[i] # 0, ~ Claimed(i)', i \notin held'
      PROVE  /\ intents'[i].effect = "none"
             /\ \A d \in Drivers : pc'[d] \in Engaged => loc'[d].id # i
  <2>1. ~ Claimed(i) /\ entered[i] # 0 /\ i \notin held
    BY <1>2, <1>6, ClaimsStay, Executions
  <2>2. /\ i \in issued /\ intents[i].effect = "none"
        /\ \A d \in Drivers : pc[d] \in Engaged => loc[d].id # i
    BY <2>1 DEF IssuedOK, ForgottenOK
  <2>3. intents'[i].effect = "none"
    BY <2>2, NewIntents DEF Engaged
  <2>4. ASSUME NEW d \in Drivers, pc'[d] \in Engaged, loc'[d].id = i
        PROVE  FALSE
    BY <2>2, <2>4, TakingUp DEF DecideCallTool
  <2> QED
    BY <2>3, <2>4
<1>7. AtMostOnceAcrossRestore'
  BY Executions DEF AtMostOnceAcrossRestore
<1> QED
  BY <1>1, <1>5, <1>6, <1>7 DEF ForgottenOK

-----------------------------------------------------------------------------
\* Backup, restore and release.

LEMMA RestoreKeepsRestoreInv ==
  ASSUME RestoreInv, Restore
  PROVE  RestoreInv'
<1> USE DEF RestoreInv
<1>1. /\ run' = snapshot.run /\ parents' = snapshot.parents /\ intents' = snapshot.intents
      /\ invocations' = snapshot.invocations /\ receipts' = snapshot.receipts
      /\ policy' = snapshot.policy /\ tool' = snapshot.tool /\ snapshot.taken
      /\ held' = snapshot.held \cup {i \in Ids : snapshot.intents[i].effect # "none"}
      /\ pc' = [d \in Drivers |-> "idle"] /\ loc' = [d \in Drivers |-> NoLocals]
      /\ rec' = [pc |-> "idle", id |-> "none", seen |-> "none"]
      /\ issued' = issued /\ entered' = entered /\ ledger' = ledger /\ now' = now
      /\ snapshot' = snapshot
  BY DEF Restore, remote
<1>2. StoreOK' /\ WorldOK' /\ SnapshotOK'
  BY <1>1 DEF SnapshotOK, StoreOK, WorldOK, GovernedOK
<1>3. DriversOK'
  BY <1>1 DEF DriversOK, Positions, Locals, NoLocals
<1>4. HoldInv'
  BY <1>1 DEF HoldInv, Holding
<1>5. IssuedOK'
  BY <1>1 DEF IssuedOK, Engaged, Holding
<1>6. ForgottenOK'
  BY <1>1 DEF ForgottenOK, Engaged, Holding
<1>7. AtMostOnceAcrossRestore'
  BY <1>1 DEF AtMostOnceAcrossRestore
<1> QED
  BY <1>2, <1>3, <1>4, <1>5, <1>6, <1>7 DEF GovernedOK

LEMMA RestoreInvKept ==
  ASSUME RestoreInv, [RestoreNext]_restoreVars
  PROVE  RestoreInv'
<1> USE DEF RestoreInv
<1>1. CASE Next /\ UNCHANGED <<snapshot, restores>>
  BY <1>1, RunKeepsRestoreInv
<1>2. CASE Backup
  <2>1. UNCHANGED vars
    BY <1>2 DEF Backup
  <2>2. GovernedOK' /\ HoldInv' /\ ForgottenOK' /\ AtMostOnceAcrossRestore'
    BY <2>1, TypesKept, HoldingKept, RunKeepsRestoreInv
       DEF vars, db, remote, env, procs, HoldInv, ForgottenOK, AtMostOnceAcrossRestore, Claimed
  <2>3. snapshot' = [taken |-> TRUE, run |-> run, parents |-> parents, intents |-> intents,
                     invocations |-> invocations, receipts |-> receipts,
                     policy |-> policy, tool |-> tool, held |-> held]
    BY <1>2 DEF Backup
  <2>4. SnapshotOK'
    BY <2>3 DEF SnapshotOK, GovernedOK, StoreOK, WorldOK
  <2>5. IssuedOK'
    BY <2>1, <2>3 DEF IssuedOK, vars, db, remote, procs
  <2> QED
    BY <2>2, <2>4, <2>5
<1>3. CASE Restore
  BY <1>3, RestoreKeepsRestoreInv
<1>4. CASE Release
  <2>1. /\ UNCHANGED <<db, issued, remote, now, policy, tool, held, procs, rec, snapshot>>
    BY <1>4 DEF Release
  <2> QED
    BY <2>1 DEF db, remote, procs, GovernedOK, StoreOK, WorldOK, DriversOK, HoldInv, SnapshotOK,
                IssuedOK, ForgottenOK, AtMostOnceAcrossRestore, Claimed
<1>5. CASE UNCHANGED restoreVars
  BY <1>5, RunKeepsRestoreInv DEF restoreVars
<1> QED
  BY <1>1, <1>2, <1>3, <1>4, <1>5 DEF RestoreNext

LEMMA RestoreStarts == RestoreInit => RestoreInv
<1>1. RestoreInit => GovernedOK /\ HoldInv
  BY DispatchesStart DEF RestoreInit, DispatchInv
<1>2. RestoreInit => SnapshotOK
  BY DEF RestoreInit, NoSnapshot, SnapshotOK
<1>3. RestoreInit => IssuedOK /\ ForgottenOK /\ AtMostOnceAcrossRestore
  BY DEF RestoreInit, Init, NoSnapshot, NoIntent, IssuedOK, ForgottenOK, AtMostOnceAcrossRestore,
         Engaged, Holding
<1> QED
  BY <1>1, <1>2, <1>3 DEF RestoreInv

\* THEOREM.  However old the backup that is restored, and whether or not the quarantine is
\* released, no action is executed twice (restore, release, require_consequential_dispatch).
THEOREM RestoresRepeatNothing == RestoreSpec => []AtMostOnceAcrossRestore
<1>1. RestoreInv /\ [RestoreNext]_restoreVars => RestoreInv'
  BY RestoreInvKept
<1>2. RestoreInv => AtMostOnceAcrossRestore
  BY DEF RestoreInv
<1> QED
  BY <1>1, <1>2, RestoreStarts, PTL DEF RestoreSpec

-----------------------------------------------------------------------------
\* What the live tables hold of the run, the backed-up tables hold of theirs.

SnapshotHeld ==
  snapshot.taken =>
    HeldIn(snapshot.run, snapshot.intents, snapshot.invocations, snapshot.receipts)

LEMMA RestoredRunsHold ==
  ASSUME RestoreInv, OpenInv, SnapshotHeld, [RestoreNext]_restoreVars
  PROVE  OpenInv' /\ SnapshotHeld'
<1>1. RestoreInv'
  BY RestoreInvKept
<1>2. ASSUME [Next]_vars, UNCHANGED snapshot
      PROVE  OpenInv' /\ SnapshotHeld'
  BY <1>1, <1>2, OpenKept DEF RestoreInv, SnapshotHeld
<1>3. CASE Backup
  <2>1. UNCHANGED vars
    BY <1>3 DEF Backup
  <2>2. OpenInv'
    BY <1>1, <2>1, OpenKept DEF RestoreInv
  <2>3. snapshot' = [taken |-> TRUE, run |-> run, parents |-> parents, intents |-> intents,
                     invocations |-> invocations, receipts |-> receipts,
                     policy |-> policy, tool |-> tool, held |-> held]
    BY <1>3 DEF Backup
  <2>4. SnapshotHeld'
    BY <2>1, <2>3 DEF SnapshotHeld, OpenInv
  <2> QED
    BY <2>2, <2>4
<1>4. CASE Restore
  <2>1. /\ run' = snapshot.run /\ intents' = snapshot.intents
        /\ invocations' = snapshot.invocations /\ receipts' = snapshot.receipts
        /\ pc' = [d \in Drivers |-> "idle"] /\ loc' = [d \in Drivers |-> NoLocals]
        /\ snapshot' = snapshot /\ snapshot.taken
    BY <1>4 DEF Restore
  <2>2. HeldIn(run, intents, invocations, receipts)' /\ SnapshotHeld'
    BY <2>1 DEF SnapshotHeld
  <2>3. \A d \in Drivers : CurrentOK(d)'
    BY <2>1 DEF CurrentOK, NoLocals, Holding, RestoreInv, SnapshotOK, RunRecords
  <2> QED
    BY <1>1, <2>2, <2>3 DEF OpenInv, RestoreInv
<1>5. CASE Release
  <2>1. UNCHANGED <<db, pc, loc, snapshot>>
    BY <1>5 DEF Release, procs
  <2>2. HeldIn(run, intents, invocations, receipts)' /\ SnapshotHeld'
    BY <2>1 DEF SnapshotHeld, OpenInv, db
  <2>3. \A d \in Drivers : CurrentOK(d)'
    BY <2>1 DEF OpenInv, CurrentOK, Open, Awaited, db
  <2> QED
    BY <1>1, <2>2, <2>3 DEF OpenInv, RestoreInv
<1> QED
  BY <1>2, <1>3, <1>4, <1>5 DEF RestoreNext, restoreVars

\* THEOREM.  Also after a restore no run is free to go on over a dispatch of unrecorded
\* outcome, and no run waits for an approval that its tables do not have.
THEOREM RestoredActionsHoldTheirIteration == RestoreSpec => []OpenActionHoldsIteration
<1>1. RestoreInit => RestoreInv /\ OpenInv /\ SnapshotHeld
  BY RestoreStarts, NothingHeldAtFirst DEF RestoreInit, NoSnapshot, SnapshotHeld
<1>2. RestoreInv /\ OpenInv /\ SnapshotHeld /\ [RestoreNext]_restoreVars
      => RestoreInv' /\ OpenInv' /\ SnapshotHeld'
  BY RestoreInvKept, RestoredRunsHold
<1>3. OpenInv => OpenActionHoldsIteration
  BY OpenHolds
<1> QED
  BY <1>1, <1>2, <1>3, PTL DEF RestoreSpec

-----------------------------------------------------------------------------
\* What the tables say of the world and of each other, the live ones and the backed-up
\* ones: receipts and successes are borne out by the ledger, which no restore takes back,
\* claims are authorized, and ended runs are over.

TellTruth(r, p, ins, inv, rc) ==
  /\ \A i \in Ids : /\ rc[i] = "observed" => ledger[i] = "success"
                    /\ rc[i] = "observed_failure" => ledger[i] = "failure"
  /\ \A i \in Ids : inv[i].status # "none" =>
       /\ ins[i].effect \in {"ALLOW", "REQUIRED"} /\ ~ ins[i].cancelled
       /\ ins[i].effect = "REQUIRED" => ins[i].decision = "APPROVED"
  /\ Terminated(r.status) =>
       /\ p.attempt # "RUNNING" /\ p.task # "IN_PROGRESS"
       /\ r.status # "SUCCEEDED" => p.execution \notin {"RUNNING", "WAITING"}
  /\ r.status = "SUCCEEDED" =>
       /\ \A i \in Ids : ins[i].effect # "none" => ledger[i] = "success"
       /\ p.task = "COMPLETED" /\ p.attempt = "SUCCEEDED"

\* The store has every claim its backup has.
SnapshotTells ==
  snapshot.taken =>
    /\ TellTruth(snapshot.run, snapshot.parents, snapshot.intents, snapshot.invocations,
                 snapshot.receipts)
    /\ \A i \in Ids : snapshot.invocations[i].status # "none" => Claimed(i)

TruthInv ==
  /\ RestoreInv /\ KnowledgeOK /\ SnapshotTells
  /\ TellTruth(run, parents, intents, invocations, receipts)

LEMMA LiveTablesTell ==
  TellTruth(run, parents, intents, invocations, receipts) <=>
    /\ ReceiptsAreTrue /\ ClaimedStaysAuthorized
    /\ EndedRunLeavesNoLiveParent /\ SuccessIsProven
BY DEF TellTruth, ReceiptsAreTrue, ClaimedStaysAuthorized, EndedRunLeavesNoLiveParent,
       SuccessIsProven, Claimed

LEMMA RunKeepsTruth ==
  ASSUME TruthInv, [Next]_vars, UNCHANGED <<snapshot, restores>>
  PROVE  TruthInv'
<1>1. GovernedOK /\ HoldInv /\ KnowledgeOK /\ RestoreInv
  BY DEF TruthInv, RestoreInv
<1>2. ReceiptsAreTrue /\ ClaimedStaysAuthorized /\ EndedRunLeavesNoLiveParent /\ SuccessIsProven
  BY LiveTablesTell DEF TruthInv
<1>3. (ReceiptsAreTrue /\ ClaimedStaysAuthorized /\ EndedRunLeavesNoLiveParent /\ SuccessIsProven)'
  BY <1>1, <1>2, ReceiptsKept, AuthorityKept, EndsKept, SuccessKept DEF ReceiptInv, EndedInv
<1>4. TellTruth(run, parents, intents, invocations, receipts)'
  BY <1>3 DEF TellTruth, ReceiptsAreTrue, ClaimedStaysAuthorized, EndedRunLeavesNoLiveParent,
              SuccessIsProven, Claimed
<1>5. SnapshotTells'
  <2> SUFFICES ASSUME snapshot.taken
               PROVE  /\ TellTruth(snapshot.run, snapshot.parents, snapshot.intents,
                                   snapshot.invocations, snapshot.receipts)'
                      /\ \A i \in Ids : snapshot.invocations[i].status # "none" => Claimed(i)'
    BY DEF SnapshotTells
  <2>1. \A i \in Ids : ledger[i] # "none" => ledger'[i] = ledger[i]
    BY <1>1, LedgerStays
  <2>2. TellTruth(snapshot.run, snapshot.parents, snapshot.intents, snapshot.invocations,
                  snapshot.receipts)
    BY DEF TruthInv, SnapshotTells
  <2>3. TellTruth(snapshot.run, snapshot.parents, snapshot.intents, snapshot.invocations,
                  snapshot.receipts)'
    BY <2>1, <2>2 DEF TellTruth
  <2> QED
    BY <1>1, <2>3, ClaimsStay DEF TruthInv, SnapshotTells
<1> QED
  BY <1>1, <1>4, <1>5, RunKeepsRestoreInv, KnowledgeKept DEF TruthInv

LEMMA TruthKept ==
  ASSUME TruthInv, [RestoreNext]_restoreVars
  PROVE  TruthInv'
<1>1. RestoreInv'
  BY RestoreInvKept DEF TruthInv
<1>2. CASE Next /\ UNCHANGED <<snapshot, restores>>
  BY <1>2, RunKeepsTruth
<1>3. CASE UNCHANGED restoreVars
  BY <1>3, RunKeepsTruth DEF restoreVars
<1>4. CASE Backup
  <2>1. UNCHANGED <<run, parents, intents, invocations, receipts, ledger, pc, loc, rec>>
    BY <1>4 DEF Backup, vars, db, remote, procs
  <2>2. /\ snapshot'.run = run /\ snapshot'.parents = parents /\ snapshot'.intents = intents
        /\ snapshot'.invocations = invocations /\ snapshot'.receipts = receipts
    BY <1>4 DEF Backup
  <2>3. KnowledgeOK' /\ TellTruth(run, parents, intents, invocations, receipts)'
    BY <2>1 DEF TruthInv, KnowledgeOK, TellTruth
  <2>4. SnapshotTells'
    BY <2>1, <2>2, <2>3 DEF SnapshotTells, Claimed
  <2> QED
    BY <1>1, <2>3, <2>4 DEF TruthInv
<1>5. CASE Restore
  <2>1. /\ run' = snapshot.run /\ parents' = snapshot.parents /\ intents' = snapshot.intents
        /\ invocations' = snapshot.invocations /\ receipts' = snapshot.receipts
        /\ snapshot' = snapshot /\ snapshot.taken /\ ledger' = ledger
        /\ pc' = [d \in Drivers |-> "idle"] /\ rec' = [pc |-> "idle", id |-> "none", seen |-> "none"]
    BY <1>5 DEF Restore, remote
  <2>2. KnowledgeOK'
    BY <2>1 DEF KnowledgeOK
  <2>3. TellTruth(run, parents, intents, invocations, receipts)'
    BY <2>1 DEF TruthInv, SnapshotTells, TellTruth
  <2>4. SnapshotTells'
    BY <2>1, <2>3 DEF SnapshotTells, Claimed
  <2> QED
    BY <1>1, <2>2, <2>3, <2>4 DEF TruthInv
<1>6. CASE Release
  <2>1. UNCHANGED <<run, parents, intents, invocations, receipts, ledger, pc, loc, rec, snapshot>>
    BY <1>6 DEF Release, db, remote, procs
  <2> QED
    BY <1>1, <2>1 DEF TruthInv, KnowledgeOK, TellTruth, SnapshotTells, Claimed
<1> QED
  BY <1>2, <1>3, <1>4, <1>5, <1>6 DEF RestoreNext

LEMMA TruthStarts == RestoreInit => TruthInv
<1> SUFFICES ASSUME RestoreInit PROVE TruthInv
  OBVIOUS
<1>1. RestoreInv /\ KnowledgeOK
  BY RestoreStarts, KnowledgeStart DEF RestoreInit
<1>2. TellTruth(run, parents, intents, invocations, receipts)
  BY DEF RestoreInit, Init, TellTruth, NoIntent, NoInvocation, Terminated, Terminal
<1>3. SnapshotTells
  BY DEF RestoreInit, NoSnapshot, SnapshotTells
<1> QED
  BY <1>1, <1>2, <1>3 DEF TruthInv

\* THEOREM.  An older store that is restored tells no untruth: its receipts and its
\* successes are borne out by the ledger, its claims are authorized and its ended runs are
\* over, although the world went on after the backup (restore, reconcile_receipt).
THEOREM RestoredTablesTellTheTruth ==
  RestoreSpec => [](/\ ReceiptsAreTrue /\ ClaimedStaysAuthorized
                    /\ EndedRunLeavesNoLiveParent /\ SuccessIsProven)
<1>1. TruthInv /\ [RestoreNext]_restoreVars => TruthInv'
  BY TruthKept
<1>2. TruthInv => /\ ReceiptsAreTrue /\ ClaimedStaysAuthorized
                  /\ EndedRunLeavesNoLiveParent /\ SuccessIsProven
  BY LiveTablesTell DEF TruthInv
<1> QED
  BY <1>1, <1>2, TruthStarts, PTL DEF RestoreSpec

\* THEOREM.  A restore claims nothing: also in a store that was restored, an action is
\* claimed only by a dispatch that finds everything open, in normal mode and for an action
\* no restore holds (require_consequential_dispatch, restored_intent_holds).
THEOREM RestoredClaimsFindEverythingOpen == RestoreSpec => ClaimsOnlyWhenOpen
<1>1. TruthInv /\ [RestoreNext]_restoreVars => TruthInv'
  BY TruthKept
<1>2. ASSUME TruthInv, [RestoreNext]_restoreVars, NEW i \in Ids, ~ Claimed(i), Claimed(i)'
      PROVE  /\ mode = "NORMAL" /\ i \notin held
             /\ intents'[i].policy = policy /\ now < intents'[i].expires
             /\ tool.enabled /\ run.status = "RUNNING" /\ run.pending /\ ParentsActive
  <2>1. GovernedOK /\ HoldInv
    BY <1>2 DEF TruthInv, RestoreInv
  <2>2. CASE [Next]_vars
    <3>1. PICK d \in Drivers : InvokeClaims(d) /\ loc[d].id = i
      BY <1>2, <2>1, <2>2, ClaimsStay
    <3>2. intents'[i].policy = policy /\ now < intents'[i].expires
      BY <2>1, <3>1, ClaimIsAuthorized
    <3> QED
      BY <3>1, <3>2 DEF InvokeClaims, InvokeOpen, DispatchOpen
  <2>3. ~ (Backup \/ Release)
    BY <1>2 DEF Backup, Release, vars, db, Claimed
  <2>4. ~ Restore
    BY <1>2 DEF Restore, TruthInv, SnapshotTells, Claimed
  <2> QED
    BY <1>2, <2>2, <2>3, <2>4 DEF RestoreNext, restoreVars
<1>3. TruthInv /\ [RestoreNext]_restoreVars =>
        [\A i \in Ids : ~Claimed(i) /\ Claimed(i)' =>
           /\ mode = "NORMAL" /\ i \notin held
           /\ intents'[i].policy = policy /\ now < intents'[i].expires
           /\ tool.enabled /\ run.status = "RUNNING" /\ run.pending /\ ParentsActive]_vars
  BY <1>2
<1> QED
  BY <1>1, <1>3, TruthStarts, PTL DEF RestoreSpec, ClaimsOnlyWhenOpen

=============================================================================
