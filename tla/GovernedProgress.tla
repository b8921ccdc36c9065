-------------------------- MODULE GovernedProgress ---------------------------
(***************************************************************************)
(* Progress of the coroutines of GovernedExecution.  Every await of a      *)
(* driver is bounded by asyncio.wait_for and every other step is ordinary  *)
(* code, so a live process takes each driver's next step eventually.       *)
(* Nothing is assumed of reviewers, operators, recovery or the clock.      *)
(***************************************************************************)
EXTENDS GovernedExecution

FairSpec == Spec /\ \A d \in Drivers : WF_vars(DriverStep(d))

\* While the process lives, a dispatch gets its receipt although one commit
\* fails and although the run ends, goes stale or expires during the call.
DispatchIsRecorded ==
  \A i \in Ids : Claimed(i) ~> receipts[i] # "none"

\* A claimed iteration does not stay claimed by nobody: unless an approval
\* comes in between, the run is free again, waits or has ended in the end.
\* (A resumed approval can leave it claimed: resume_intent has no _failure.)
IterationIsReleased ==
  \/ <>(\E i \in Ids : intents[i].effect = "REQUIRED")
  \/ run.status = "RUNNING" /\ run.pending ~> ~(run.status = "RUNNING" /\ run.pending)
=============================================================================
