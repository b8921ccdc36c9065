------------------------- MODULE GroundedRunsProofs -------------------------
(***************************************************************************)
(* Theorems about knowledge, memory and the runs grounded in them, for     *)
(* every set of runs, sources and claims and every bound.                  *)
(*                                                                         *)
(* One type invariant of the stores carries all of them.  Steps fall into  *)
(* those of the sources, those of the memory and those of the runs, and    *)
(* only their own steps touch each of the three.                           *)
(***************************************************************************)
EXTENDS GroundedRuns, FiniteSetTheorems, TLAPS

SourceRecords == [status : {"ABSENT", "ACTIVE", "DISABLED"}, version : Nat, content : Nat]

Candidates ==
  [status : {"ABSENT", "UNDER_REVIEW", "REJECTED", "PROMOTED"}, expires : Nat]

MemoryEntries ==
  [claim : Claims, status : {"ACTIVE", "SUPERSEDED", "REVOKED"}, supersedes : Nat]

StoresOK ==
  /\ now \in Nat
  /\ sources \in [Sources -> SourceRecords]
  /\ published \in [Sources -> Seq(Nat)]
  /\ candidates \in [Claims -> Candidates]
  /\ entries \in Seq(MemoryEntries)

SourceStep == \E s \in Sources : Publish(s) \/ Disable(s)

MemoryStep ==
  \/ \E r \in Runs, c \in Claims, kind \in Kinds, suspect \in BOOLEAN, expires \in {1, Never} :
       Propose(r, c, kind, suspect, expires)
  \/ \E c \in Claims : Reject(c) \/ \E old \in 0..Len(entries) : Approve(c, old)
  \/ \E e \in DOMAIN entries : Revoke(e)

RunStep ==
  \E r \in Runs : Retrieve(r) \/ RetrieveMemory(r) \/ Claim(r) \/ Answer(r) \/ Resume(r)
                    \/ Cancel(r) \/ CancelParents(r)

\* Publications and disablings touch sources, reviews touch memory, the steps of
\* runs neither, and only the clock moves the time.
LEMMA StepsKeepApart ==
  ASSUME [Next]_vars
  PROVE  \/ SourceStep /\ UNCHANGED <<now, runs, candidates, entries>>
         \/ MemoryStep /\ UNCHANGED <<now, runs, sources, published>>
         \/ RunStep /\ UNCHANGED <<now, sources, published, candidates, entries>>
         \/ /\ now' = now \/ now' = now + 1
            /\ UNCHANGED <<runs, sources, published, candidates, entries>>
<1>1. ASSUME NEW s \in Sources, Publish(s) \/ Disable(s), UNCHANGED memoryVars
      PROVE  SourceStep /\ UNCHANGED <<now, runs, candidates, entries>>
  BY <1>1 DEF SourceStep, Publish, Disable, memoryVars
<1>2. MemoryStep => UNCHANGED <<now, runs, sources, published>>
  BY DEF MemoryStep, Propose, Reject, Approve, Revoke, knowledgeVars
<1>3. ASSUME NEW r \in Runs, Retrieve(r), UNCHANGED <<memoryVars, calls>>
      PROVE  RunStep /\ UNCHANGED <<now, sources, published, candidates, entries>>
  BY <1>3 DEF RunStep, Retrieve, memoryVars
<1>4. ASSUME NEW r \in Runs, RetrieveMemory(r)
      PROVE  RunStep /\ UNCHANGED <<now, sources, published, candidates, entries>>
  BY <1>4 DEF RunStep, RetrieveMemory, knowledgeVars
<1>5. ASSUME NEW r \in Runs, Claim(r) \/ Answer(r) \/ Resume(r) \/ Cancel(r) \/ CancelParents(r)
      PROVE  RunStep /\ UNCHANGED <<now, sources, published, candidates, entries>>
  BY <1>5 DEF RunStep, Claim, Answer, Resume, Cancel, CancelParents, knowledgeVars, memoryVars
<1>6. CASE Tick
  BY <1>6 DEF Tick, knowledgeVars, memoryVars
<1>7. CASE UNCHANGED vars
  BY <1>7 DEF vars, knowledgeVars, memoryVars
<1>8. CASE Curate
  BY <1>1, <1>2, <1>8 DEF Curate, MemoryStep
<1> QED
  BY <1>3, <1>4, <1>5, <1>6, <1>7, <1>8 DEF Next

-----------------------------------------------------------------------------
\* Ending an entry changes its status and nothing else.
LEMMA EndingKeeps ==
  ASSUME entries \in Seq(MemoryEntries), NEW e, NEW status \in {"SUPERSEDED", "REVOKED"}
  PROVE  LET ended == Ended(e, status) IN
           /\ ended \in Seq(MemoryEntries) /\ Len(ended) = Len(entries)
           /\ \A f \in 1..Len(entries) :
                /\ ended[f].claim = entries[f].claim
                /\ ended[f].supersedes = entries[f].supersedes
                /\ ended[f].status = IF f = e THEN status ELSE entries[f].status
<1> DEFINE ended == Ended(e, status)
<1>1. DOMAIN entries = 1..Len(entries) /\ Len(entries) \in Nat
  OBVIOUS
<1>2. ended = [f \in 1..Len(entries) |->
                 IF f = e THEN [entries[f] EXCEPT !.status = status] ELSE entries[f]]
  BY <1>1 DEF Ended
<1> HIDE DEF ended
<1>3. ASSUME NEW f \in 1..Len(entries)
      PROVE  /\ ended[f] \in MemoryEntries
             /\ ended[f].claim = entries[f].claim
             /\ ended[f].supersedes = entries[f].supersedes
             /\ ended[f].status = IF f = e THEN status ELSE entries[f].status
  <2>1. entries[f] \in MemoryEntries
    BY <1>1
  <2>2. LET x == [entries[f] EXCEPT !.status = status] IN
          /\ x \in MemoryEntries /\ x.claim = entries[f].claim
          /\ x.supersedes = entries[f].supersedes /\ x.status = status
    BY <2>1 DEF MemoryEntries
  <2>3. ended[f] = IF f = e THEN [entries[f] EXCEPT !.status = status] ELSE entries[f]
    BY <1>2
  <2> QED
    BY <2>1, <2>2, <2>3
<1>4. ended \in Seq(MemoryEntries) /\ Len(ended) = Len(entries)
  BY <1>1, <1>2, <1>3
<1> QED
  BY <1>3, <1>4 DEF ended

\* What an approval does to the entries: one more, and an end for its predecessor.
LEMMA ApprovalAppends ==
  ASSUME StoresOK, NEW c \in Claims, NEW old \in 0..Len(entries), Approve(c, old)
  PROVE  LET n == Len(entries) + 1 IN
           /\ entries' \in Seq(MemoryEntries) /\ Len(entries') = n
           /\ \A f \in 1..Len(entries) :
                /\ entries'[f].claim = entries[f].claim
                /\ entries'[f].supersedes = entries[f].supersedes
                /\ entries'[f].status = IF f = old THEN "SUPERSEDED" ELSE entries[f].status
           /\ entries'[n].claim = c /\ entries'[n].supersedes = old
           /\ entries'[n].status = "ACTIVE"
<1> DEFINE ended == Ended(old, "SUPERSEDED")
           new == NewEntry(c, old)
<1>1. entries \in Seq(MemoryEntries) /\ Len(entries) \in Nat
  BY DEF StoresOK
<1>2. entries' = Append(ended, new)
  BY DEF Approve
<1>3. /\ new \in MemoryEntries
      /\ new.claim = c /\ new.supersedes = old /\ new.status = "ACTIVE"
  BY <1>1 DEF NewEntry, MemoryEntries
<1>4. /\ ended \in Seq(MemoryEntries) /\ Len(ended) = Len(entries)
      /\ \A f \in 1..Len(entries) :
           /\ ended[f].claim = entries[f].claim
           /\ ended[f].supersedes = entries[f].supersedes
           /\ ended[f].status = IF f = old THEN "SUPERSEDED" ELSE entries[f].status
  BY <1>1, EndingKeeps
<1> HIDE DEF ended, new
<1>5. /\ entries' \in Seq(MemoryEntries) /\ Len(entries') = Len(entries) + 1
      /\ entries'[Len(entries) + 1] = new
      /\ \A f \in 1..Len(entries) : entries'[f] = ended[f]
  BY <1>1, <1>2, <1>3, <1>4
<1> QED
  BY <1>3, <1>4, <1>5

LEMMA StoresStayOK ==
  ASSUME StoresOK, [Next]_vars
  PROVE  StoresOK'
<1>1. CASE SourceStep /\ UNCHANGED <<now, runs, candidates, entries>>
  <2>1. ASSUME NEW s \in Sources, Publish(s) PROVE StoresOK'
    <3>1. sources' \in [Sources -> SourceRecords]
      BY <2>1 DEF Publish, StoresOK, SourceRecords
    <3>2. sources'[s].version \in Nat
      BY <3>1 DEF SourceRecords
    <3>3. Append(published[s], sources'[s].version) \in Seq(Nat)
      BY <3>2 DEF StoresOK
    <3>4. published' \in [Sources -> Seq(Nat)]
      BY <2>1, <3>3 DEF Publish, StoresOK
    <3> QED
      BY <1>1, <3>1, <3>4 DEF StoresOK
  <2>2. ASSUME NEW s \in Sources, Disable(s) PROVE StoresOK'
    BY <1>1, <2>2 DEF Disable, StoresOK, SourceRecords
  <2> QED
    BY <1>1, <2>1, <2>2 DEF SourceStep
<1>2. CASE MemoryStep /\ UNCHANGED <<now, runs, sources, published>>
  <2>1. ASSUME NEW r \in Runs, NEW c \in Claims, NEW kind \in Kinds, NEW suspect \in BOOLEAN,
               NEW expires \in {1, Never}, Propose(r, c, kind, suspect, expires)
        PROVE  StoresOK'
    <3>1. [status |-> Verdict(kind, suspect), expires |-> expires] \in Candidates
      BY KnowledgeAssumption DEF Verdict, Never, Candidates, KnowledgeAssumption
    <3>2. candidates' \in [Claims -> Candidates] /\ UNCHANGED entries
      BY <2>1, <3>1 DEF Propose, StoresOK
    <3> QED
      BY <1>2, <3>2 DEF StoresOK
  <2>2. ASSUME NEW c \in Claims, NEW status \in {"REJECTED", "PROMOTED"},
               candidates' = [candidates EXCEPT ![c].status = status]
        PROVE  candidates' \in [Claims -> Candidates]
    BY <2>2 DEF StoresOK, Candidates
  <2>3. ASSUME NEW c \in Claims, Reject(c) PROVE StoresOK'
    BY <1>2, <2>2, <2>3 DEF Reject, StoresOK
  <2>4. ASSUME NEW c \in Claims, NEW old \in 0..Len(entries), Approve(c, old) PROVE StoresOK'
    BY <1>2, <2>2, <2>4, ApprovalAppends DEF Approve, Promote, StoresOK
  <2>5. ASSUME NEW e \in DOMAIN entries, Revoke(e) PROVE StoresOK'
    BY <1>2, <2>5, EndingKeeps DEF Revoke, StoresOK
  <2> QED
    BY <1>2, <2>1, <2>3, <2>4, <2>5 DEF MemoryStep
<1>3. CASE UNCHANGED <<now, sources, published, candidates, entries>>
  BY <1>3 DEF StoresOK
<1>4. CASE (now' = now \/ now' = now + 1) /\ UNCHANGED <<runs, sources, published, candidates, entries>>
  BY <1>4 DEF StoresOK
<1> QED
  BY <1>1, <1>2, <1>3, <1>4, StepsKeepApart

LEMMA StoresStartOK == Init => StoresOK
BY KnowledgeAssumption
DEF Init, KnowledgeInit, MemoryInit, StoresOK, SourceRecords, Candidates, Never, KnowledgeAssumption

THEOREM StoresStay == Spec => []StoresOK
<1>1. StoresOK /\ [Next]_vars => StoresOK'
  BY StoresStayOK
<1> QED
  BY <1>1, StoresStartOK, PTL DEF Spec

-----------------------------------------------------------------------------
\* Every publication raises content and version together, and a disabling, which
\* raises the version alone, is the last step of a source.
VersionsInStep ==
  \A s \in Sources :
    /\ sources[s].content = Len(published[s])
    /\ sources[s].status # "DISABLED" => sources[s].version = sources[s].content

KeysInv == StoresOK /\ VersionsInStep /\ DurableKeysMatch

LEMMA KeysKept ==
  ASSUME KeysInv, [Next]_vars
  PROVE  KeysInv'
<1>1. StoresOK'
  BY StoresStayOK DEF KeysInv
<1>2. ASSUME NEW s \in Sources, Publish(s)
      PROVE  VersionsInStep' /\ DurableKeysMatch'
  <2>1. sources[s] \in SourceRecords /\ published[s] \in Seq(Nat) /\ Len(published[s]) \in Nat
    BY DEF KeysInv, StoresOK
  <2>2. sources[s].version = Len(published[s]) /\ sources[s].content = Len(published[s])
    BY <1>2, <2>1 DEF Publish, Publishable, KeysInv, VersionsInStep
  <2>3. /\ sources'[s].version = Len(published[s]) + 1
        /\ sources'[s].content = Len(published[s]) + 1
        /\ \A x \in Sources : x # s => sources'[x] = sources[x] /\ published'[x] = published[x]
    BY <1>2, <2>2 DEF Publish, KeysInv, StoresOK
  <2>4. published'[s] = Append(published[s], Len(published[s]) + 1)
    BY <1>2, <2>3 DEF Publish, KeysInv, StoresOK
  <2>5. /\ Len(published'[s]) = Len(published[s]) + 1
        /\ \A c \in DOMAIN published'[s] : published'[s][c] = c
    BY <2>1, <2>4 DEF KeysInv, DurableKeysMatch
  <2> QED
    BY <2>3, <2>5 DEF KeysInv, VersionsInStep, DurableKeysMatch
<1>3. ASSUME NEW s \in Sources, Disable(s)
      PROVE  VersionsInStep' /\ DurableKeysMatch'
  <2>1. /\ published' = published
        /\ \A x \in Sources : x # s => sources'[x] = sources[x]
        /\ sources'[s].content = sources[s].content /\ sources'[s].status = "DISABLED"
    BY <1>3 DEF Disable, KeysInv, StoresOK
  <2> QED
    BY <2>1 DEF KeysInv, VersionsInStep, DurableKeysMatch
<1>4. CASE UNCHANGED <<sources, published>>
  BY <1>1, <1>4 DEF KeysInv, VersionsInStep, DurableKeysMatch
<1> QED
  BY <1>1, <1>2, <1>3, <1>4, StepsKeepApart DEF SourceStep, KeysInv

\* The unit of work can load again every source version this service stored
\* (sqlite_store.py _validate_key).
THEOREM StoredSourcesLoad == Spec => []DurableKeysMatch
<1>1. Init => KeysInv
  BY StoresStartOK DEF Init, KnowledgeInit, KeysInv, VersionsInStep, DurableKeysMatch
<1>2. KeysInv /\ [Next]_vars => KeysInv'
  BY KeysKept
<1>3. KeysInv => DurableKeysMatch
  BY DEF KeysInv
<1> QED
  BY <1>1, <1>2, <1>3, PTL DEF Spec

-----------------------------------------------------------------------------
LEMMA EntriesFinite ==
  ASSUME StoresOK
  PROVE  /\ DOMAIN entries = 1..Len(entries) /\ Len(entries) \in Nat
         /\ \A c : EntriesOf(c) \subseteq 1..Len(entries) /\ IsFiniteSet(EntriesOf(c))
<1>1. DOMAIN entries = 1..Len(entries) /\ Len(entries) \in Nat
  BY DEF StoresOK
<1>2. IsFiniteSet(1..Len(entries))
  BY <1>1, FS_Interval
<1>3. ASSUME NEW c PROVE EntriesOf(c) \subseteq 1..Len(entries)
  BY <1>1 DEF EntriesOf
<1> QED
  BY <1>1, <1>2, <1>3, FS_Subset

PromotionInv == StoresOK /\ PromotionIsEntry

LEMMA PromotionKept ==
  ASSUME PromotionInv, [Next]_vars
  PROVE  PromotionIsEntry'
<1> USE DEF PromotionInv
<1>1. ASSUME NEW c \in Claims, NEW old \in 0..Len(entries), Approve(c, old)
      PROVE  PromotionIsEntry'
  <2> DEFINE n == Len(entries) + 1
  <2>1. /\ DOMAIN entries = 1..Len(entries) /\ Len(entries) \in Nat
        /\ DOMAIN entries' = 1..n /\ entries'[n].claim = c
        /\ \A f \in 1..Len(entries) : entries'[f].claim = entries[f].claim
    BY <1>1, EntriesFinite, ApprovalAppends
  <2>2. EntriesOf(c) = {}
    <3>1. Cardinality(EntriesOf(c)) = 0
      BY <1>1 DEF Approve, Promote, PromotionIsEntry
    <3> QED
      BY <3>1, EntriesFinite, FS_EmptySet
  <2>3. EntriesOf(c)' = {n}
    BY <2>1, <2>2 DEF EntriesOf
  <2>4. \A d \in Claims : d # c => EntriesOf(d)' = EntriesOf(d) /\ candidates'[d] = candidates[d]
    BY <1>1, <2>1 DEF EntriesOf, Approve, Promote, StoresOK
  <2>5. candidates'[c].status = "PROMOTED"
    BY <1>1 DEF Approve, Promote, StoresOK, Candidates
  <2>6. Cardinality(EntriesOf(c)') = 1
    BY <2>3, FS_Singleton
  <2> QED
    BY <2>4, <2>5, <2>6 DEF PromotionIsEntry
<1>2. ASSUME NEW e \in DOMAIN entries, Revoke(e)
      PROVE  PromotionIsEntry'
  <2>1. DOMAIN entries' = DOMAIN entries
        /\ \A f \in DOMAIN entries : entries'[f].claim = entries[f].claim
    <3>1. entries \in Seq(MemoryEntries) /\ Len(entries) \in Nat
      BY DEF StoresOK
    <3>2. entries' = Ended(e, "REVOKED")
      BY <1>2 DEF Revoke
    <3>3. /\ entries' \in Seq(MemoryEntries) /\ Len(entries') = Len(entries)
          /\ \A f \in 1..Len(entries) : entries'[f].claim = entries[f].claim
      BY <3>1, <3>2, EndingKeeps
    <3> QED
      BY <3>1, <3>3
  <2>2. \A c \in Claims : EntriesOf(c)' = EntriesOf(c)
    BY <2>1 DEF EntriesOf
  <2> QED
    BY <1>2, <2>2 DEF Revoke, PromotionIsEntry
<1>3. ASSUME UNCHANGED entries,
             \A c \in Claims : candidates'[c].status = "PROMOTED" <=> candidates[c].status = "PROMOTED"
      PROVE  PromotionIsEntry'
  BY <1>3 DEF PromotionIsEntry, EntriesOf
<1>4. ASSUME NEW r \in Runs, NEW c \in Claims, NEW kind \in Kinds, NEW suspect \in BOOLEAN,
             NEW expires \in {1, Never}, Propose(r, c, kind, suspect, expires)
      PROVE  PromotionIsEntry'
  BY <1>3, <1>4 DEF Propose, IsNew, Verdict, StoresOK
<1>5. ASSUME NEW c \in Claims, Reject(c)
      PROVE  PromotionIsEntry'
  BY <1>3, <1>5 DEF Reject, StoresOK, Candidates
<1>6. CASE UNCHANGED <<candidates, entries>>
  BY <1>3, <1>6
<1> QED
  BY <1>1, <1>2, <1>4, <1>5, <1>6, StepsKeepApart DEF MemoryStep

\* A claim is promoted exactly if it has its one entry (memory.py approve).
THEOREM PromotedClaimsHaveTheirEntry == Spec => []PromotionIsEntry
<1>1. Init => PromotionInv
  <2>1. ASSUME Init, NEW c \in Claims PROVE Cardinality(EntriesOf(c)) = 0
    <3>1. EntriesOf(c) = {}
      BY <2>1 DEF Init, MemoryInit, EntriesOf
    <3> QED
      BY <3>1, FS_EmptySet
  <2> QED
    BY <2>1, StoresStartOK DEF Init, MemoryInit, PromotionInv, PromotionIsEntry
<1>2. PromotionInv /\ [Next]_vars => PromotionInv'
  BY PromotionKept, StoresStayOK DEF PromotionInv
<1>3. PromotionInv => PromotionIsEntry
  BY DEF PromotionInv
<1> QED
  BY <1>1, <1>2, <1>3, PTL DEF Spec

-----------------------------------------------------------------------------
Successors(e) == {f \in DOMAIN entries : entries[f].supersedes = e /\ f > e}

OneSuccessor ==
  \A e \in DOMAIN entries :
    IF entries[e].status = "SUPERSEDED" THEN Cardinality(Successors(e)) = 1
                                        ELSE Successors(e) = {}

LineInv == StoresOK /\ OneSuccessor

LEMMA LineMeansSuccessors ==
  ASSUME StoresOK
  PROVE  SupersessionIsALine <=> OneSuccessor
<1>1. ASSUME NEW e \in DOMAIN entries
      PROVE  Cardinality(Successors(e)) = 0 <=> Successors(e) = {}
  <2>1. IsFiniteSet(Successors(e))
    <3>1. IsFiniteSet(1..Len(entries)) /\ Successors(e) \subseteq 1..Len(entries)
      BY EntriesFinite, FS_Interval DEF Successors
    <3> QED
      BY <3>1, FS_Subset
  <2> QED
    BY <2>1, FS_EmptySet
<1> QED
  BY <1>1 DEF SupersessionIsALine, OneSuccessor, Successors

LEMMA LineKept ==
  ASSUME LineInv, [Next]_vars
  PROVE  OneSuccessor'
<1> USE DEF LineInv
<1>1. /\ DOMAIN entries = 1..Len(entries) /\ Len(entries) \in Nat
      /\ \A e \in DOMAIN entries :
           IF entries[e].status = "SUPERSEDED" THEN Cardinality(Successors(e)) = 1
                                               ELSE Successors(e) = {}
  BY EntriesFinite DEF OneSuccessor
<1>2. SUFFICES ASSUME NEW e \in DOMAIN entries'
               PROVE  IF entries'[e].status = "SUPERSEDED" THEN Cardinality(Successors(e)') = 1
                                                           ELSE Successors(e)' = {}
  BY DEF OneSuccessor
<1>3. ASSUME NEW c \in Claims, NEW old \in 0..Len(entries), Approve(c, old)
      PROVE  IF entries'[e].status = "SUPERSEDED" THEN Cardinality(Successors(e)') = 1
                                                  ELSE Successors(e)' = {}
  <2> DEFINE n == Len(entries) + 1
  <2>1. /\ DOMAIN entries' = 1..n /\ entries'[n].supersedes = old /\ entries'[n].status = "ACTIVE"
        /\ \A f \in 1..Len(entries) :
             /\ entries'[f].supersedes = entries[f].supersedes
             /\ entries'[f].status = IF f = old THEN "SUPERSEDED" ELSE entries[f].status
    BY <1>3, ApprovalAppends
  <2>2. old # 0 => old \in DOMAIN entries /\ entries[old].status = "ACTIVE"
    BY <1>1, <1>3 DEF Approve, ActiveEntries
  <2>3. CASE e = n
    BY <1>1, <2>1, <2>3 DEF Successors
  <2>4. CASE e = old
    <3>1. e \in DOMAIN entries
      BY <1>1, <2>1, <2>4
    <3>2. Successors(e) = {}
      BY <1>1, <2>2, <2>4, <3>1
    <3>3. Successors(e)' = {n}
      BY <1>1, <2>1, <2>4, <3>1, <3>2 DEF Successors
    <3> QED
      <4>1. Cardinality(Successors(e)') = 1
        BY <3>3, FS_Singleton
      <4> QED
        BY <1>1, <2>1, <2>4, <3>1, <4>1
  <2>5. CASE e # n /\ e # old
    <3>1. e \in DOMAIN entries
      BY <1>1, <2>1, <2>5
    <3>2. Successors(e)' = Successors(e)
      BY <1>1, <2>1, <2>5, <3>1 DEF Successors
    <3> QED
      BY <1>1, <2>1, <2>5, <3>1, <3>2
  <2> QED
    BY <2>3, <2>4, <2>5
<1>4. ASSUME NEW g \in DOMAIN entries, Revoke(g)
      PROVE  IF entries'[e].status = "SUPERSEDED" THEN Cardinality(Successors(e)') = 1
                                                  ELSE Successors(e)' = {}
  <2>1. entries \in Seq(MemoryEntries) /\ entries' = Ended(g, "REVOKED")
    BY <1>4 DEF Revoke, StoresOK
  <2>2. /\ entries' \in Seq(MemoryEntries) /\ Len(entries') = Len(entries)
        /\ \A f \in 1..Len(entries) :
             /\ entries'[f].supersedes = entries[f].supersedes
             /\ entries'[f].status = IF f = g THEN "REVOKED" ELSE entries[f].status
    BY <2>1, EndingKeeps
  <2>3. DOMAIN entries' = DOMAIN entries
    BY <1>1, <2>2
  <2>4. Successors(e)' = Successors(e)
    BY <1>1, <2>2, <2>3 DEF Successors
  <2>5. entries[g].status = "ACTIVE"
    BY <1>4 DEF Revoke
  <2> QED
    BY <1>1, <2>2, <2>3, <2>4, <2>5
<1>5. CASE UNCHANGED entries
  BY <1>1, <1>5 DEF Successors
<1> QED
  BY <1>3, <1>4, <1>5, StepsKeepApart DEF MemoryStep, Propose, Reject

\* Superseded entries have exactly one successor, the others none (memory.py approve, revoke).
THEOREM SupersessionStaysALine == Spec => []SupersessionIsALine
<1>1. Init => LineInv
  BY StoresStartOK DEF Init, MemoryInit, LineInv, OneSuccessor
<1>2. LineInv /\ [Next]_vars => LineInv'
  BY LineKept, StoresStayOK DEF LineInv
<1>3. LineInv => SupersessionIsALine
  BY LineMeansSuccessors DEF LineInv
<1> QED
  BY <1>1, <1>2, <1>3, PTL DEF Spec

-----------------------------------------------------------------------------
\* Every run is a record with a status, whatever else a step changes of it.
RunsOK == DOMAIN runs = Runs /\ \A r \in Runs : "status" \in DOMAIN runs[r]

LEMMA RunsStayOK ==
  ASSUME RunsOK, [Next]_vars
  PROVE  RunsOK'
<1>1. ASSUME NEW r \in Runs, NEW x, runs' = [runs EXCEPT ![r] = x], "status" \in DOMAIN x
      PROVE  RunsOK'
  BY <1>1 DEF RunsOK
<1>2. ASSUME NEW r \in Runs, Retrieve(r) PROVE RunsOK'
  BY <1>2 DEF Retrieve, RunsOK
<1>3. ASSUME NEW r \in Runs, RetrieveMemory(r) PROVE RunsOK'
  BY <1>3 DEF RetrieveMemory, RunsOK
<1>4. ASSUME NEW r \in Runs, NEW cancelled, Fail(r, cancelled) PROVE RunsOK'
  BY <1>4 DEF Fail, RunsOK
<1>5. ASSUME NEW r \in Runs, Claim(r) PROVE RunsOK'
  BY <1>4, <1>5 DEF Claim, RunsOK
<1>6. ASSUME NEW r \in Runs, NEW status, NEW result, Decide(r, status, result) PROVE RunsOK'
  BY <1>6 DEF Decide, RunsOK
<1>7. ASSUME NEW r \in Runs, Answer(r) PROVE RunsOK'
  BY <1>4, <1>6, <1>7 DEF Answer
<1>8. ASSUME NEW r \in Runs, Resume(r) \/ Cancel(r) \/ CancelParents(r) PROVE RunsOK'
  BY <1>4, <1>8 DEF Resume, Cancel, CancelParents, RunsOK
<1>9. CASE UNCHANGED runs
  BY <1>9 DEF RunsOK
<1> QED
  BY <1>2, <1>3, <1>5, <1>7, <1>8, <1>9, StepsKeepApart DEF RunStep

\* What MayDecide has looked at again is alive at that moment.
LEMMA UsableIsAlive ==
  ASSUME StoresOK, NEW r \in Runs, Usable(r)
  PROVE  /\ \A k \in ActiveEvidence(r) : sources[k.source].status = "ACTIVE"
         /\ \A e \in ActiveMemory(r).hits :
              entries[e].status = "ACTIVE" /\ candidates[entries[e].claim].expires > now
<1>1. ASSUME NEW e \in ActiveMemory(r).hits
      PROVE  entries[e].status = "ACTIVE" /\ candidates[entries[e].claim].expires > now
  <2>1. e \in DOMAIN entries /\ entries[e].status = "ACTIVE" /\ ~Expired(e)
    BY <1>1 DEF Usable, MemoryUsable, ActiveEntries
  <2>2. entries[e].claim \in Claims
    <3>1. entries[e] \in MemoryEntries
      BY <2>1 DEF StoresOK
    <3> QED
      BY <3>1 DEF MemoryEntries
  <2>3. candidates[entries[e].claim].expires \in Nat /\ now \in Nat
    BY <2>2 DEF StoresOK, Candidates
  <2> QED
    BY <2>1, <2>3 DEF Expired
<1> QED
  BY <1>1 DEF Usable, EvidenceUsable, ActiveSources

LEMMA OnlyDecisionsSucceed ==
  ASSUME RunsOK, [Next]_vars, NEW r \in Runs,
         runs[r].status # "SUCCEEDED", runs'[r].status = "SUCCEEDED"
  PROVE  MayDecide(r)
<1> USE DEF RunsOK
<1>1. PICK x \in Runs :
        Retrieve(x) \/ RetrieveMemory(x) \/ Claim(x) \/ Answer(x) \/ Resume(x) \/ Cancel(x)
          \/ CancelParents(x)
  BY StepsKeepApart DEF RunStep
<1>2. \A cancelled : ~ Fail(x, cancelled)
  BY DEF Fail
<1>3. ~ Retrieve(x) /\ ~ RetrieveMemory(x) /\ ~ CancelParents(x)
  BY DEF Retrieve, RetrieveMemory, CancelParents
<1>4. ~ Claim(x) /\ ~ Resume(x) /\ ~ Cancel(x)
  <2>1. ~ Cancel(x)
    BY <1>2 DEF Cancel
  <2>2. ~ Resume(x)
    <3>1. runs' = [runs EXCEPT ![x].status = "RUNNING", ![x].version = @ + 1]
            => runs'[r].status # "SUCCEEDED"
      OBVIOUS
    <3> QED
      BY <1>2, <3>1 DEF Resume
  <2>3. ~ Claim(x)
    <3>1. runs' = [runs EXCEPT ![x].pending = TRUE, ![x].iteration = @ + 1, ![x].version = @ + 1]
            => runs'[r].status # "SUCCEEDED"
      OBVIOUS
    <3> QED
      BY <1>2, <3>1 DEF Claim
  <2> QED
    BY <2>1, <2>2, <2>3
<1>5. PICK status, result : MayDecide(x) /\ Decide(x, status, result)
  BY <1>1, <1>2, <1>3, <1>4 DEF Answer
<1>6. x = r
  BY <1>5 DEF Decide
<1> QED
  BY <1>5, <1>6

\* A run succeeds on evidence and memory that are alive when it does
\* (runtime.py 305-312).
THEOREM SuccessStands == Spec => SuccessStandsOnLiveEvidence
<1>1. Init => RunsOK
  BY DEF Init, RunsOK
<1>2. RunsOK /\ [Next]_vars => RunsOK'
  BY RunsStayOK
<1>3. StoresOK /\ [Next]_vars => StoresOK'
  BY StoresStayOK
<1>4. RunsOK /\ StoresOK /\ [Next]_vars =>
        [\A r \in Runs : runs[r].status # "SUCCEEDED" /\ runs'[r].status = "SUCCEEDED" =>
           /\ \A k \in ActiveEvidence(r) : sources[k.source].status = "ACTIVE"
           /\ \A e \in ActiveMemory(r).hits :
                entries[e].status = "ACTIVE" /\ candidates[entries[e].claim].expires > now]_vars
  BY OnlyDecisionsSucceed, UsableIsAlive DEF MayDecide
<1> QED
  BY <1>1, <1>2, <1>3, <1>4, StoresStartOK, PTL DEF Spec, SuccessStandsOnLiveEvidence

=============================================================================
