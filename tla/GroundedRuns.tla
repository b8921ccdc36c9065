---------------------------- MODULE GroundedRuns ----------------------------
(***************************************************************************)
(* Agent runs grounded in knowledge and memory: the part of                *)
(* application/runtime.py that claims an iteration, sends the active packs *)
(* to the model without holding a lock, and decides on the answer, while   *)
(* sources are republished or disabled and entries superseded, revoked or  *)
(* expire.  Tools and their approvals are the subject of                   *)
(* GovernedExecution; here an accepted action other than completion or a   *)
(* request for context leaves the run where it was.                        *)
(***************************************************************************)
EXTENDS RetainedMemory

CONSTANT MaxIterations

ASSUME GroundedAssumption == MaxIterations \in Nat \ {0}

VARIABLE calls    \* calls[r]: version under which a model call is in flight (0: none)

vars == <<now, runs, parents, knowledgeVars, memoryVars, calls>>

Final == {"SUCCEEDED", "FAILED", "CANCELLED"}

Init ==
  /\ now = 0
  /\ runs = [r \in Runs |-> [status |-> "RUNNING", version |-> 1, pending |-> FALSE,
                             iteration |-> 0, evidence |-> 0, memory |-> 0, result |-> {}]]
  /\ parents = [r \in Runs |-> TRUE]
  /\ KnowledgeInit
  /\ MemoryInit
  /\ calls = [r \in Runs |-> 0]

-----------------------------------------------------------------------------
\* _failure: a run that ended stays as it is, one with cancelled parents is cancelled.
Fail(r, cancelled) ==
  /\ runs' = IF runs[r].status \in Final THEN runs
             ELSE [runs EXCEPT ![r].status = IF cancelled \/ ~parents[r] THEN "CANCELLED"
                                             ELSE "FAILED",
                               ![r].pending = FALSE, ![r].version = @ + 1]
  /\ parents' = [parents EXCEPT ![r] = FALSE]

Usable(r) == EvidenceUsable(r) /\ MemoryUsable(r)

\* drive up to the model call: the claim, or the failure of the run.
Claim(r) ==
  /\ runs[r].status = "RUNNING" /\ ~runs[r].pending /\ calls[r] = 0
  /\ IF /\ parents[r] /\ now < Deadline
        /\ Usable(r)
        /\ runs[r].iteration < MaxIterations
     THEN /\ runs' = [runs EXCEPT ![r].pending = TRUE, ![r].iteration = @ + 1,
                                  ![r].version = @ + 1]
          /\ calls' = [calls EXCEPT ![r] = runs[r].version + 1]
          /\ UNCHANGED parents
     ELSE Fail(r, FALSE) /\ UNCHANGED calls
  /\ UNCHANGED <<now, knowledgeVars, memoryVars>>

\* Mutant: the packs are not looked at again after the model call.
StillClaimed(r) ==
  /\ runs[r].version = calls[r]
  /\ now < Deadline /\ parents[r]

\* The decision of the model is taken on the run, the packs and the parents it was asked about.
MayDecide(r) ==
  /\ runs[r].version = calls[r]
  /\ now < Deadline /\ parents[r]
  /\ Usable(r)

\* validate_brief: findings are supplied facts or state active evidence, memory is no source.
Groundable(r) == Supplied \cup {Stated(k) : k \in ActiveEvidence(r)}

Decide(r, status, result) ==
  /\ runs' = [runs EXCEPT ![r].status = status, ![r].pending = FALSE, ![r].result = result,
                          ![r].version = @ + 1]
  /\ parents' = [parents EXCEPT ![r] = status # "SUCCEEDED"]

\* The call ends: by a decision, by a failure or cancellation of the call, or by a refusal.
Answer(r) ==
  /\ calls[r] # 0
  /\ \/ MayDecide(r) /\ \E result \in SUBSET Groundable(r) \ {{}} : Decide(r, "SUCCEEDED", result)
     \/ MayDecide(r) /\ \E status \in {"RUNNING", "WAITING"} : Decide(r, status, {})
     \/ \E cancelled \in BOOLEAN : Fail(r, cancelled)
  /\ calls' = [calls EXCEPT ![r] = 0]
  /\ UNCHANGED <<now, knowledgeVars, memoryVars>>

Resume(r) ==
  /\ runs[r].status = "WAITING"
  /\ \/ /\ now < Deadline /\ parents[r]
        /\ runs' = [runs EXCEPT ![r].status = "RUNNING", ![r].version = @ + 1]
        /\ UNCHANGED parents
     \/ now >= Deadline /\ Fail(r, FALSE)
  /\ UNCHANGED <<now, knowledgeVars, memoryVars, calls>>

Cancel(r) ==
  /\ runs[r].status \in {"RUNNING", "WAITING"}
  /\ Fail(r, TRUE)
  /\ UNCHANGED <<now, knowledgeVars, memoryVars, calls>>

\* Someone cancels the task or the execution through the domain service.
CancelParents(r) ==
  /\ parents[r]
  /\ parents' = [parents EXCEPT ![r] = FALSE]
  /\ UNCHANGED <<now, runs, knowledgeVars, memoryVars, calls>>

Tick ==
  /\ now < MaxTime
  /\ now' = now + 1
  /\ UNCHANGED <<runs, parents, knowledgeVars, memoryVars, calls>>

Curate ==
  /\ \/ (\E s \in Sources : Publish(s) \/ Disable(s)) /\ UNCHANGED memoryVars
     \/ \E r \in Runs, c \in Claims, kind \in Kinds, suspect \in BOOLEAN,
           expires \in {1, Never} : Propose(r, c, kind, suspect, expires)
     \/ \E c \in Claims : Reject(c) \/ \E old \in 0..Len(entries) : Approve(c, old)
     \/ \E e \in DOMAIN entries : Revoke(e)
  /\ UNCHANGED calls

Next ==
  \/ Curate
  \/ \E r \in Runs : Retrieve(r) /\ UNCHANGED <<memoryVars, calls>>
  \/ \E r \in Runs : RetrieveMemory(r) /\ UNCHANGED calls
  \/ \E r \in Runs : Claim(r) \/ Answer(r) \/ Resume(r) \/ Cancel(r) \/ CancelParents(r)
  \/ Tick

Spec == Init /\ [][Next]_vars

-----------------------------------------------------------------------------
\* What a run succeeds on still holds at that moment: its evidence comes from
\* sources in use, its memory hits are neither ended nor expired, although they
\* were read before the model call and may have changed during it
\* (runtime.py 305-312, "revalidates the active pack ... after the model call").
SuccessStandsOnLiveEvidence ==
  [][\A r \in Runs : runs[r].status # "SUCCEEDED" /\ runs'[r].status = "SUCCEEDED" =>
       /\ \A k \in ActiveEvidence(r) : sources[k.source].status = "ACTIVE"
       /\ \A e \in ActiveMemory(r).hits :
            entries[e].status = "ACTIVE" /\ candidates[entries[e].claim].expires > now]_vars
=============================================================================
