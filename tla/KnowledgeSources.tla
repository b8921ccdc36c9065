-------------------------- MODULE KnowledgeSources --------------------------
(***************************************************************************)
(* Company knowledge: sources published version by version, and the packs  *)
(* of evidence that running agents retrieve from them, as KnowledgeService *)
(* (application/knowledge.py) and its store keep them.                     *)
(*                                                                         *)
(* A chunk is named by its source and content version; texts, trust        *)
(* classes and ranking are left out: a retrieval may return any of the     *)
(* eligible chunks.  Sources are those the definition of the runs grants,  *)
(* and a run's goal, task, attempt and execution are one flag, `parents':  *)
(* they are all still as a working run needs them.  A command with a stale *)
(* expected version is refused and changes nothing, hence no step.         *)
(***************************************************************************)
EXTENDS Naturals, Sequences, SequencesExt, FiniteSets

CONSTANTS Runs, Sources,
          MaxContent,     \* content versions of a source (20 in the store)
          MaxPacks,       \* packs of each kind per run (5 in the services)
          Deadline, MaxTime

ASSUME KnowledgeAssumption == {MaxContent, MaxPacks, Deadline, MaxTime} \subseteq Nat \ {0}

VARIABLES now,
          runs,       \* AgentRun: status, version, pending, active packs (0: none), result
          parents,    \* the parents of a run still are as it needs them
          sources,    \* KnowledgeSource: status, version, content version
          published,  \* published[s][c]: version of the source when content c was published
          evidence    \* evidence[r]: the packs of a run, each a set of chunks

knowledgeVars == <<sources, published, evidence>>

-----------------------------------------------------------------------------
Chunks == [source : Sources, content : 1..MaxContent]

ChunkOf(s) == [source |-> s, content |-> sources[s].content]

ActiveSources == {s \in Sources : sources[s].status = "ACTIVE"}

KnowledgeInit ==
  /\ sources = [s \in Sources |-> [status |-> "ABSENT", version |-> 0, content |-> 0]]
  /\ published = [s \in Sources |-> <<>>]
  /\ evidence = [r \in Runs |-> <<>>]

\* Mutant: the status of the source is not looked at.
BelowBound(s) == sources[s].content < MaxContent

\* The store's publish: a source nobody knows yet or one in use, up to the bound.
Publishable(s) == sources[s].status \in {"ABSENT", "ACTIVE"} /\ sources[s].content < MaxContent

\* publish_source and publish_version: a first or a next content version.
Publish(s) ==
  /\ Publishable(s)
  /\ sources' = [sources EXCEPT ![s] = [status |-> "ACTIVE", version |-> @.version + 1,
                                        content |-> @.content + 1]]
  /\ published' = [published EXCEPT ![s] = Append(@, sources'[s].version)]
  /\ UNCHANGED <<now, runs, parents, evidence>>

Disable(s) ==
  /\ sources[s].status = "ACTIVE"
  /\ sources' = [sources EXCEPT ![s] = [status |-> "DISABLED", version |-> @.version + 1,
                                        content |-> @.content]]
  /\ UNCHANGED <<now, runs, parents, published, evidence>>

-----------------------------------------------------------------------------
Idle(r) == runs[r].status = "RUNNING" /\ ~runs[r].pending /\ now < Deadline

\* _validate_result: whatever the retriever ranks and cuts off, nothing it was not given.
Retrievals == SUBSET {ChunkOf(s) : s \in ActiveSources}

\* The store's save_pack looks at run, bound and binding once more.
SavesEvidence(r, found) == Idle(r) /\ Len(evidence[r]) < MaxPacks /\ found \in Retrievals

\* The run is saved with its new active pack, under its next version.
Retrieve(r) ==
  /\ parents[r]
  /\ \E found \in Retrievals :
       /\ SavesEvidence(r, found)
       /\ evidence' = [evidence EXCEPT ![r] = Append(@, found)]
  /\ runs' = [runs EXCEPT ![r].evidence = Len(evidence'[r]), ![r].version = @ + 1]
  /\ UNCHANGED <<now, parents, sources, published>>

ActiveEvidence(r) == IF runs[r].evidence = 0 THEN {} ELSE evidence[r][runs[r].evidence]

\* active_pack: a source that published a newer version still carries its old one.
EvidenceUsable(r) == \A c \in ActiveEvidence(r) : c.source \in ActiveSources

-----------------------------------------------------------------------------
\* The unit of work stores a source version under its content version and
\* refuses to load one whose key is not the version of the source it holds
\* (sqlite_store.py _validate_key): a store written by this service can be
\* opened again, because only publications raise the version of a live source.
DurableKeysMatch ==
  \A s \in Sources : \A c \in DOMAIN published[s] : published[s][c] = c
=============================================================================
