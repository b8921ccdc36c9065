--------------------------- MODULE RetainedMemory ---------------------------
(***************************************************************************)
(* Retained memory: claims proposed from successful runs, reviewed by a    *)
(* person, promoted to entries, superseded or revoked, and retrieved for   *)
(* later runs, as MemoryService (application/memory.py), its policy and    *)
(* its store do it.                                                        *)
(*                                                                         *)
(* Claims are the values of one claim key about one subject in one scope,  *)
(* the case in which duplicates, conflicts and supersession meet; a        *)
(* candidate is named by its claim, which is its duplicate key.  Facts of  *)
(* tool receipts are judged like those the caller supplied.                *)
(***************************************************************************)
EXTENDS KnowledgeSources

CONSTANTS Claims,
          Supplied,     \* claims among the facts of the runs' supplied context
          Stated(_),    \* the claim a chunk states
          MaxEntries    \* entries per subject (20 in the store)

ASSUME MemoryAssumption == Supplied \subseteq Claims /\ MaxEntries \in Nat \ {0}

VARIABLES candidates,   \* candidates[c]: status and expiry
          entries,      \* MemoryEntries in order: claim, status, the entry it supersedes (0: none)
          memories      \* memories[r]: context packs, hits flagged as conflicting with knowledge

memoryVars == <<candidates, entries, memories>>

Never == MaxTime + 1

Kinds == {"USER_STATEMENT", "TASK_RESULT", "KNOWLEDGE_EVIDENCE", "AGENT_OUTPUT"}

MemoryInit ==
  /\ candidates = [c \in Claims |-> [status |-> "ABSENT", expires |-> Never]]
  /\ entries = <<>>
  /\ memories = [r \in Runs |-> <<>>]

-----------------------------------------------------------------------------
\* _validate_provenance: what a run can be cited for.
Provenance(r, c, kind) ==
  CASE kind = "USER_STATEMENT"     -> c \in Supplied
    [] kind = "TASK_RESULT"        -> c \in runs[r].result
    [] kind = "KNOWLEDGE_EVIDENCE" -> EvidenceUsable(r) /\ ActiveEvidence(r) # {}
    [] kind = "AGENT_OUTPUT"       -> TRUE

\* MemoryPolicy.evaluate; whether the text looks like a secret or an inference is a choice.
Verdict(kind, suspect) ==
  IF suspect \/ kind \in {"KNOWLEDGE_EVIDENCE", "AGENT_OUTPUT"} THEN "REJECTED" ELSE "UNDER_REVIEW"

\* add_candidate: a duplicate of any earlier candidate, also a rejected one, is
\* returned as it is.
IsNew(c) == candidates[c].status = "ABSENT"

Propose(r, c, kind, suspect, expires) ==
  /\ runs[r].status = "SUCCEEDED" /\ Provenance(r, c, kind)
  /\ expires > now
  /\ IsNew(c)
  /\ candidates' = [candidates EXCEPT ![c] = [status |-> Verdict(kind, suspect),
                                              expires |-> expires]]
  /\ UNCHANGED <<now, runs, parents, knowledgeVars, entries, memories>>

Reject(c) ==
  /\ candidates[c].status = "UNDER_REVIEW"
  /\ candidates' = [candidates EXCEPT ![c].status = "REJECTED"]
  /\ UNCHANGED <<now, runs, parents, knowledgeVars, entries, memories>>

NewEntry(c, old) == [claim |-> c, status |-> "ACTIVE", supersedes |-> old]

Expired(e) == candidates[entries[e].claim].expires <= now

ActiveEntries == {e \in DOMAIN entries : entries[e].status = "ACTIVE"}

Promote(c) ==
  /\ candidates[c].status = "UNDER_REVIEW"
  /\ candidates' = [candidates EXCEPT ![c].status = "PROMOTED"]

HasRoom == Len(entries) < MaxEntries

\* MemoryEntry.end, saved by save_entry.
Ended(e, status) == [f \in DOMAIN entries |->
                       IF f = e THEN [entries[f] EXCEPT !.status = status] ELSE entries[f]]

\* Mutant: the promotion is kept when the supersession is refused.
ApproveInSteps(c, old) ==
  /\ Promote(c)
  /\ entries' = IF old \in {0} \cup ActiveEntries /\ HasRoom
                THEN Append(Ended(old, "SUPERSEDED"), NewEntry(c, old)) ELSE entries
  /\ UNCHANGED <<now, runs, parents, knowledgeVars, memories>>

\* Mutant: the entry that is superseded is not ended.
ApproveBeside(c, old) ==
  /\ Promote(c) /\ HasRoom
  /\ old \in {0} \cup DOMAIN entries
  /\ entries' = Append(entries, NewEntry(c, old))
  /\ UNCHANGED <<now, runs, parents, knowledgeVars, memories>>

\* approve: promotion, the new entry and the end of the one it supersedes, or nothing.
Approve(c, old) ==
  /\ Promote(c) /\ HasRoom
  /\ old \in {0} \cup ActiveEntries
  /\ entries' = Append(Ended(old, "SUPERSEDED"), NewEntry(c, old))
  /\ UNCHANGED <<now, runs, parents, knowledgeVars, memories>>

Revoke(e) ==
  /\ entries[e].status = "ACTIVE"
  /\ entries' = Ended(e, "REVOKED")
  /\ UNCHANGED <<now, runs, parents, knowledgeVars, candidates, memories>>

-----------------------------------------------------------------------------
\* _mark_conflicts: of several facts under one key the last one counts.
Contradicted(found, known) == {e \in found : known # {} /\ entries[e].claim \notin known}

KnownClaims(r) == IF ActiveEvidence(r) = {} THEN {{}}
                  ELSE {{Stated(k)} : k \in ActiveEvidence(r)}

\* _validate_result: any of the entries that are active and not expired.
Recalls == SUBSET {e \in ActiveEntries : ~Expired(e)}

\* The store's save_pack looks at run, bound and entries once more.
SavesMemory(r, found) == Idle(r) /\ Len(memories[r]) < MaxPacks /\ found \in Recalls

RetrieveMemory(r) ==
  /\ EvidenceUsable(r)
  /\ \E found \in Recalls, known \in KnownClaims(r) :
       /\ SavesMemory(r, found)
       /\ memories' = [memories EXCEPT ![r] =
                         Append(@, [hits |-> found, flagged |-> Contradicted(found, known)])]
  /\ runs' = [runs EXCEPT ![r].memory = Len(memories'[r]), ![r].version = @ + 1]
  /\ UNCHANGED <<now, parents, knowledgeVars, candidates, entries>>

ActiveMemory(r) ==
  IF runs[r].memory = 0 THEN [hits |-> {}, flagged |-> {}] ELSE memories[r][runs[r].memory]

MemoryUsable(r) == \A e \in ActiveMemory(r).hits : e \in ActiveEntries /\ ~Expired(e)

-----------------------------------------------------------------------------
EntriesOf(c) == {e \in DOMAIN entries : entries[e].claim = c}

\* approve writes candidate, entry and superseded entry together: a claim is
\* promoted exactly if it has its one entry, whatever was refused in between.
PromotionIsEntry ==
  \A c \in Claims :
    Cardinality(EntriesOf(c)) = IF candidates[c].status = "PROMOTED" THEN 1 ELSE 0

\* Supersession forms lines: what was superseded has exactly one successor, a
\* later entry, and what is still active or was revoked has none, although
\* reviewers approve and revoke the same entries at once.
SupersessionIsALine ==
  \A e \in DOMAIN entries :
    Cardinality({f \in DOMAIN entries : entries[f].supersedes = e /\ f > e})
      = IF entries[e].status = "SUPERSEDED" THEN 1 ELSE 0
=============================================================================
