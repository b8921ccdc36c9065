------------------------- MODULE DurableUnitsProofs -------------------------
(***************************************************************************)
(* Theorems about DurableUnits for any number of groups, any set of        *)
(* records and any depth of nesting: units of work implement the atomic    *)
(* store, and what a caller was told to be done stays done.                *)
(*                                                                         *)
(* The heart of the invariant is what a group's memory may hold while its  *)
(* unit is open: what is stored, followed by whole commands (IsBatch), but *)
(* for the one record that is saved and not yet logged (Settled).          *)
(***************************************************************************)
EXTENDS DurableUnits, SequenceTheorems, FiniteSetTheorems, TLAPS

Event == [key: Keys, seen: [Keys -> Int]]

Content == [records: [Keys -> Nat], journal: Seq(Event)]

Holding == {"begun", "open", "flush", "flushed"}

Unit == [pc: Holding \cup {"committed"}, image: Content, before: Content,
         nested: Seq(Content), saved: Keys \cup {"none"}]

\* The shape of the store, of the units and of the memory of the groups.
TypeOK ==
  /\ Stored \in Content
  /\ lock \in Groups \cup {"free"}
  /\ units \in [Groups -> Unit \cup {Closed}]
  /\ memory \in [Groups -> Content]
  /\ promised \in Seq(Event)

\* The event of command i of keys, the events of all of them, and the store after them.
EventOf(keys, i) == [key |-> keys[i], seen |-> After(keys, i - 1)]

Events(keys) == [i \in 1..Len(keys) |-> EventOf(keys, i)]

AfterAll(keys) == [records |-> After(keys, Len(keys)), journal |-> journal \o Events(keys)]

\* What is stored, followed by whole commands.
IsBatch(content) ==
  \E keys \in BoundedSeq(Keys, MaxBatch) :
    content = AfterAll(keys) /\ Len(content.journal) <= MaxJournal

Batches == {content \in Content : IsBatch(content)}

\* The memory of u without the save that is not logged yet.
Settled(u) ==
  IF units[u].saved = "none" THEN memory[u]
  ELSE [records |-> [memory[u].records EXCEPT ![units[u].saved] = @ - 1],
        journal |-> memory[u].journal]

\* One transaction at a time.
LockOK == \A u \in Groups : units[u].pc \in Holding <=> lock = u

BegunOK(u) ==
  /\ units[u].image = Stored
  /\ units[u].nested = <<>> /\ units[u].saved = "none"

OpenOK(u) ==
  /\ units[u].image = Stored /\ units[u].before = Stored
  /\ units[u].saved # "none" => Len(memory[u].journal) < MaxJournal
  /\ Settled(u) \in Batches
  /\ units[u].nested \in Seq(Batches)

\* Each row has the old or the new version; the journal comes last.
FlushOK(u) ==
  /\ units[u].before = Stored /\ units[u].image.journal = journal
  /\ memory[u] \in Batches
  /\ \A k \in Keys : units[u].image.records[k] \in {records[k], memory[u].records[k]}

FlushedOK(u) == units[u].image = memory[u] /\ memory[u] \in Batches

CommittedOK(u) == IsPrefix(memory[u].journal, journal)

UnitOK(u) ==
  /\ units[u].pc = "begun" => BegunOK(u)
  /\ units[u].pc = "open" => OpenOK(u)
  /\ units[u].pc = "flush" => FlushOK(u)
  /\ units[u].pc = "flushed" => FlushedOK(u)
  /\ units[u].pc = "committed" => CommittedOK(u)

UnitsInv ==
  /\ TypeOK
  /\ Len(journal) <= MaxJournal
  /\ LockOK
  /\ \A u \in Groups : UnitOK(u)
  /\ PromisedIsDurable

-----------------------------------------------------------------------------
\* Sequences: prefixes, element by element, and what follows a concatenation.

LEMMA PrefixByElements ==
  ASSUME NEW S, NEW s \in Seq(S), NEW t \in Seq(S)
  PROVE  IsPrefix(s, t) <=> Len(s) <= Len(t) /\ \A i \in 1..Len(s) : s[i] = t[i]
<1> DEFINE n == Len(s)
<1>1. n \in Nat /\ Len(t) \in Nat
  BY LenProperties
<1>2. SubSeq(s, 1, n) = s
  BY SubSeqFull
<1>3. ASSUME n <= Len(t)
      PROVE  /\ SubSeq(t, 1, n) \in Seq(S) /\ Len(SubSeq(t, 1, n)) = n
             /\ \A i \in 1..n : SubSeq(t, 1, n)[i] = t[i]
  <2>1. 1 \in Int /\ n \in Int /\ \A i \in 1..n : t[i] \in S
    BY <1>1, <1>3, ElementOfSeq
  <2>2. /\ SubSeq(t, 1, n) \in Seq(S)
        /\ Len(SubSeq(t, 1, n)) = IF 1 <= n THEN n - 1 + 1 ELSE 0
        /\ \A i \in 1..n - 1 + 1 : SubSeq(t, 1, n)[i] = t[1 + i - 1]
    BY <2>1, SubSeqProperties
  <2> QED
    BY <1>1, <2>2
<1>4. ASSUME n <= Len(t), \A i \in 1..n : s[i] = t[i] PROVE s = SubSeq(t, 1, n)
  <2> HIDE DEF n
  <2> QED
    BY <1>3, <1>4, SeqEqual DEF n
<1> QED
  BY <1>2, <1>3, <1>4 DEF IsPrefix

LEMMA PrefixIsOrder ==
  ASSUME NEW S
  PROVE  /\ \A s \in Seq(S) : IsPrefix(s, s)
         /\ \A s, t, r \in Seq(S) : IsPrefix(s, t) /\ IsPrefix(t, r) => IsPrefix(s, r)
<1>1. \A s \in Seq(S) : IsPrefix(s, s)
  BY PrefixByElements, LenProperties
<1>2. ASSUME NEW s \in Seq(S), NEW t \in Seq(S), NEW r \in Seq(S),
             IsPrefix(s, t), IsPrefix(t, r)
      PROVE  IsPrefix(s, r)
  <2>1. Len(s) <= Len(t) /\ \A i \in 1..Len(s) : s[i] = t[i]
    BY <1>2, PrefixByElements
  <2>2. Len(t) <= Len(r) /\ \A i \in 1..Len(t) : t[i] = r[i]
    BY <1>2, PrefixByElements
  <2>3. Len(s) \in Nat /\ Len(t) \in Nat /\ Len(r) \in Nat
    BY LenProperties
  <2>4. Len(s) <= Len(r) /\ \A i \in 1..Len(s) : s[i] = r[i]
    BY <2>1, <2>2, <2>3
  <2> QED
    BY <2>4, PrefixByElements
<1> QED
  BY <1>1, <1>2

LEMMA PrefixOfConcat ==
  ASSUME NEW S, NEW s \in Seq(S), NEW t \in Seq(S)
  PROVE  IsPrefix(s, s \o t)
<1>1. /\ s \o t \in Seq(S) /\ Len(s \o t) = Len(s) + Len(t)
      /\ \A i \in 1..Len(s) + Len(t) : (s \o t)[i] = IF i <= Len(s) THEN s[i] ELSE t[i - Len(s)]
  BY ConcatProperties
<1>2. Len(s) \in Nat /\ Len(t) \in Nat
  BY LenProperties
<1>3. Len(s) <= Len(s \o t) /\ \A i \in 1..Len(s) : s[i] = (s \o t)[i]
  BY <1>1, <1>2
<1> QED
  BY <1>1, <1>3, PrefixByElements

\* What follows s in s \o t is t.
LEMMA TailOfConcat ==
  ASSUME NEW S, NEW s \in Seq(S), NEW t \in Seq(S)
  PROVE  s \o SubSeq(s \o t, Len(s) + 1, Len(s \o t)) = s \o t
<1> DEFINE w == s \o t
           n == Len(s)
<1>1. w \in Seq(S) /\ n \in Nat /\ Len(w) \in Nat /\ n <= Len(w)
  <2>1. s \o t \in Seq(S) /\ Len(s \o t) = Len(s) + Len(t)
    BY ConcatProperties
  <2>2. Len(s) \in Nat /\ Len(t) \in Nat
    BY LenProperties
  <2> QED
    BY <2>1, <2>2
<1>2. SubSeq(w, 1, n) = s
  <2>1. IsPrefix(s, w)
    BY PrefixOfConcat
  <2>2. SubSeq(s, 1, n) = s
    BY SubSeqFull
  <2> QED
    BY <2>1, <2>2 DEF IsPrefix
<1> HIDE DEF w, n
<1>3. SubSeq(w, 1, n) \o SubSeq(w, n + 1, Len(w)) = SubSeq(w, 1, Len(w))
  <2>1. 1 \in 1..Len(w) + 1 /\ n \in (1 - 1)..Len(w) /\ Len(w) \in n..Len(w)
    BY <1>1
  <2> QED
    BY <1>1, <2>1, ConcatAdjacentSubSeq
<1>4. SubSeq(w, 1, Len(w)) = w
  BY <1>1, SubSeqFull
<1> QED
  BY <1>2, <1>3, <1>4 DEF w, n

-----------------------------------------------------------------------------
\* Commands and what the store is after them.

LEMMA BatchSequences ==
  ASSUME NEW S, NEW n \in Nat, NEW keys
  PROVE  keys \in BoundedSeq(S, n) <=> keys \in Seq(S) /\ Len(keys) <= n
<1>1. ASSUME keys \in BoundedSeq(S, n) PROVE keys \in Seq(S) /\ Len(keys) <= n
  <2>1. PICK m \in 0..n : keys \in [1..m -> S]
    BY <1>1 DEF BoundedSeq, SeqOf
  <2>2. \E i \in Nat : keys \in [1..i -> S]
    BY <2>1
  <2>3. keys \in Seq(S)
    BY <2>2, SeqDef, Zenon
  <2>4. Len(keys) = m
    BY <2>1, <2>3
  <2> QED
    BY <2>1, <2>3, <2>4
<1>2. ASSUME keys \in Seq(S), Len(keys) <= n PROVE keys \in BoundedSeq(S, n)
  <2>1. keys \in [1..Len(keys) -> S] /\ Len(keys) \in 0..n
    BY <1>2, LenProperties
  <2> QED
    BY <2>1 DEF BoundedSeq, SeqOf
<1> QED
  BY <1>1, <1>2

\* The records after some of the commands count what these saved.
LEMMA AfterCounts ==
  ASSUME records \in [Keys -> Nat], NEW keys \in Seq(Keys), NEW i \in 0..Len(keys)
  PROVE  After(keys, i) \in [Keys -> Nat]
<1> SUFFICES ASSUME NEW k \in Keys PROVE Cardinality({j \in 1..i : keys[j] = k}) \in Nat
  BY DEF After
<1>1. IsFiniteSet(1..i)
  BY FS_Interval
<1> QED
  BY <1>1, FS_Subset, FS_CardinalityType

LEMMA AfterNothing ==
  ASSUME records \in [Keys -> Nat], NEW keys \in Seq(Keys)
  PROVE  After(keys, 0) = records
<1>1. \A k \in Keys : {j \in 1..0 : keys[j] = k} = {}
  OBVIOUS
<1>2. Cardinality({}) = 0
  BY FS_EmptySet
<1> QED
  BY <1>1, <1>2 DEF After

\* One more command raises one record by one and leaves the former ones alone.
LEMMA AfterOneMore ==
  ASSUME records \in [Keys -> Nat], NEW keys \in Seq(Keys), NEW k \in Keys
  PROVE  /\ \A i \in 0..Len(keys) : After(Append(keys, k), i) = After(keys, i)
         /\ After(Append(keys, k), Len(keys) + 1) =
              [After(keys, Len(keys)) EXCEPT ![k] = @ + 1]
<1> DEFINE more == Append(keys, k)
           n == Len(keys)
           Saves(s, i, c) == {j \in 1..i : s[j] = c}
<1>1. n \in Nat /\ more[n + 1] = k /\ \A j \in 1..n : more[j] = keys[j]
  OBVIOUS
<1>2. \A i \in 0..n, c \in Keys : Saves(more, i, c) = Saves(keys, i, c)
  BY <1>1
<1>3. \A c \in Keys : Saves(more, n + 1, c) =
        IF c = k THEN Saves(keys, n, c) \cup {n + 1} ELSE Saves(keys, n, c)
  <2> SUFFICES ASSUME NEW c \in Keys
               PROVE  Saves(more, n + 1, c) =
                        IF c = k THEN Saves(keys, n, c) \cup {n + 1} ELSE Saves(keys, n, c)
    OBVIOUS
  <2>1. 1..(n + 1) = (1..n) \cup {n + 1}
    BY <1>1
  <2> QED
    BY <1>1, <2>1
<1>4. \A c \in Keys : /\ IsFiniteSet(Saves(keys, n, c)) /\ n + 1 \notin Saves(keys, n, c)
                      /\ Cardinality(Saves(keys, n, c)) \in Nat
  <2>1. IsFiniteSet(1..n)
    BY <1>1, FS_Interval
  <2> QED
    BY <1>1, <2>1, FS_Subset, FS_CardinalityType
<1>5. \A c \in Keys : Cardinality(Saves(more, n + 1, c)) =
        Cardinality(Saves(keys, n, c)) + (IF c = k THEN 1 ELSE 0)
  <2> SUFFICES ASSUME NEW c \in Keys
               PROVE  Cardinality(Saves(more, n + 1, c)) =
                        Cardinality(Saves(keys, n, c)) + (IF c = k THEN 1 ELSE 0)
    OBVIOUS
  <2>1. CASE c = k
    <3>1. Saves(more, n + 1, c) = Saves(keys, n, c) \cup {n + 1}
      BY <1>3, <2>1
    <3>2. Cardinality(Saves(keys, n, c) \cup {n + 1}) = Cardinality(Saves(keys, n, c)) + 1
      BY <1>4, FS_AddElement
    <3> QED
      BY <2>1, <3>1, <3>2
  <2>2. CASE c # k
    <3>1. Saves(more, n + 1, c) = Saves(keys, n, c)
      BY <1>3, <2>2
    <3>2. Cardinality(Saves(keys, n, c)) \in Nat
      BY <1>4
    <3> HIDE DEF Saves, more, n
    <3> QED
      BY <2>2, <3>1, <3>2
  <2> QED
    BY <2>1, <2>2
<1>6. \A i \in 0..n : After(more, i) = After(keys, i)
  BY <1>2 DEF After
<1>7. After(more, n + 1) = [After(keys, n) EXCEPT ![k] = @ + 1]
  <2> DEFINE A == After(more, n + 1)
             B == After(keys, n)
  <2>1. A = [c \in Keys |-> records[c] + Cardinality(Saves(more, n + 1, c))]
        /\ B = [c \in Keys |-> records[c] + Cardinality(Saves(keys, n, c))]
    BY DEF After
  <2>2. \A c \in Keys : A[c] = IF c = k THEN B[c] + 1 ELSE B[c]
    <3> SUFFICES ASSUME NEW c \in Keys PROVE A[c] = IF c = k THEN B[c] + 1 ELSE B[c]
      OBVIOUS
    <3> DEFINE m == Cardinality(Saves(keys, n, c))
    <3>1. A[c] = records[c] + (m + (IF c = k THEN 1 ELSE 0)) /\ B[c] = records[c] + m
      BY <1>5, <2>1
    <3>2. records[c] \in Nat /\ m \in Nat
      BY <1>4
    <3> HIDE DEF A, B, m
    <3> QED
      BY <3>1, <3>2
  <2> HIDE DEF A, B, Saves
  <2>3. DOMAIN A = Keys /\ A = [c \in Keys |-> A[c]] /\ B = [c \in Keys |-> B[c]]
    BY <2>1
  <2>4. [B EXCEPT ![k] = B[k] + 1] = [c \in Keys |-> IF c = k THEN B[k] + 1 ELSE B[c]]
    BY <2>3
  <2>5. A = [c \in Keys |-> IF c = k THEN B[k] + 1 ELSE B[c]]
    BY <2>2, <2>3
  <2> QED
    BY <2>4, <2>5 DEF A, B
<1> QED
  BY <1>6, <1>7

\* Events have their type and may be appended to the journal.
LEMMA EventsType ==
  ASSUME Stored \in Content, NEW keys \in Seq(Keys)
  PROVE  /\ Events(keys) \in Seq(Event) /\ Len(Events(keys)) = Len(keys)
         /\ journal \in Seq(Event)
         /\ AfterAll(keys) \in Content
         /\ Len(AfterAll(keys).journal) = Len(journal) + Len(keys)
<1>1. records \in [Keys -> Nat] /\ journal \in Seq(Event)
  BY DEF Content, Stored
<1>2. \A i \in 1..Len(keys) : EventOf(keys, i) \in Event
  <2> SUFFICES ASSUME NEW i \in 1..Len(keys) PROVE EventOf(keys, i) \in Event
    OBVIOUS
  <2>1. i - 1 \in 0..Len(keys) /\ keys[i] \in Keys
    OBVIOUS
  <2>2. After(keys, i - 1) \in [Keys -> Nat]
    BY <1>1, <2>1, AfterCounts
  <2>3. After(keys, i - 1) \in [Keys -> Int]
    BY <2>2
  <2> HIDE DEF Event
  <2>4. [key |-> keys[i], seen |-> After(keys, i - 1)] \in Event
    BY <2>1, <2>3 DEF Event
  <2> QED
    BY <2>4 DEF EventOf
<1>3. Events(keys) \in [1..Len(keys) -> Event]
  BY <1>2 DEF Events
<1>4. \E n \in Nat : Events(keys) \in [1..n -> Event]
  BY <1>3
<1>5. Events(keys) \in Seq(Event)
  BY <1>4, SeqDef, Zenon
<1>6. Len(Events(keys)) = Len(keys)
  BY <1>3, <1>5, LenProperties
<1>7. /\ journal \o Events(keys) \in Seq(Event)
      /\ Len(journal \o Events(keys)) = Len(journal) + Len(Events(keys))
  BY <1>1, <1>5, ConcatProperties
<1>8. After(keys, Len(keys)) \in [Keys -> Nat]
  BY <1>1, AfterCounts
<1> QED
  BY <1>1, <1>5, <1>6, <1>7, <1>8 DEF AfterAll, Content

\* What is stored is a batch, of no commands.
LEMMA StoredIsBatch ==
  ASSUME Stored \in Content, Len(journal) <= MaxJournal
  PROVE  IsBatch(Stored)
<1>1. <<>> \in Seq(Keys) /\ Len(<<>>) = 0
  BY EmptySeq
<1>2. <<>> \in BoundedSeq(Keys, MaxBatch)
  <2>1. MaxBatch \in Nat /\ Len(<<>>) <= MaxBatch
    BY <1>1, UnitsAssumption
  <2> QED
    BY <1>1, <2>1, BatchSequences
<1>3. After(<<>>, 0) = records /\ journal \in Seq(Event)
  BY <1>1, AfterNothing DEF Content, Stored
<1>4. Events(<<>>) = <<>>
  <2>1. Events(<<>>) \in Seq(Event) /\ Len(Events(<<>>)) = 0
    BY <1>1, EventsType
  <2> QED
    BY <2>1, EmptySeq
<1>5. journal \o <<>> = journal
  BY <1>3, ConcatEmptySeq
<1>6. AfterAll(<<>>) = Stored
  BY <1>1, <1>3, <1>4, <1>5 DEF AfterAll, Stored
<1>7. Len(Stored.journal) <= MaxJournal
  BY DEF Stored
<1> QED
  BY <1>2, <1>6, <1>7 DEF IsBatch

\* A batch has the type of a content and begins with what is stored.
LEMMA BatchFacts ==
  ASSUME Stored \in Content, NEW c, IsBatch(c)
  PROVE  c \in Content /\ Len(c.journal) <= MaxJournal /\ IsPrefix(journal, c.journal)
<1>1. PICK keys \in BoundedSeq(Keys, MaxBatch) :
        c = AfterAll(keys) /\ Len(c.journal) <= MaxJournal
  BY DEF IsBatch
<1>2. keys \in Seq(Keys)
  BY <1>1, BatchSequences, UnitsAssumption
<1>3. c \in Content /\ c.journal = journal \o Events(keys)
  BY <1>1, <1>2, EventsType DEF AfterAll
<1>4. journal \in Seq(Event) /\ Events(keys) \in Seq(Event)
  BY <1>2, EventsType
<1>5. IsPrefix(journal, journal \o Events(keys))
  BY <1>4, PrefixOfConcat
<1> QED
  BY <1>1, <1>3, <1>5

\* A command on top of a batch makes a batch: the next version of its record,
\* and the event with all it saw.
LEMMA CommandExtends ==
  ASSUME Stored \in Content, NEW c, IsBatch(c), NEW k \in Keys, Len(c.journal) < MaxJournal
  PROVE  IsBatch([records |-> [c.records EXCEPT ![k] = @ + 1],
                  journal |-> Append(c.journal, [key |-> k, seen |-> c.records])])
<1> DEFINE d == [records |-> [c.records EXCEPT ![k] = @ + 1],
                 journal |-> Append(c.journal, [key |-> k, seen |-> c.records])]
<1>1. PICK keys \in BoundedSeq(Keys, MaxBatch) : c = AfterAll(keys)
  BY DEF IsBatch
<1> DEFINE more == Append(keys, k)
           n == Len(keys)
<1>2. keys \in Seq(Keys) /\ n \in Nat
  BY <1>1, BatchSequences, UnitsAssumption
<1>3. more \in Seq(Keys) /\ Len(more) = n + 1 /\ more[n + 1] = k /\ \A i \in 1..n : more[i] = keys[i]
  BY <1>2
<1>4. c.records = After(keys, n) /\ c.journal = journal \o Events(keys)
  BY <1>1 DEF AfterAll
<1>5. Len(c.journal) = Len(journal) + n /\ Len(journal) \in Nat
  <2>1. Len(c.journal) = Len(journal) + Len(keys)
    BY <1>1, <1>2, EventsType
  <2>2. journal \in Seq(Event)
    BY DEF Content, Stored
  <2> QED
    BY <2>1, <2>2
<1>6. more \in BoundedSeq(Keys, MaxBatch)
  <2>1. n + 1 <= MaxBatch
    BY <1>2, <1>5, UnitsAssumption
  <2> QED
    BY <1>3, <2>1, BatchSequences, UnitsAssumption
<1>7. /\ \A i \in 0..n : After(more, i) = After(keys, i)
      /\ After(more, n + 1) = [After(keys, n) EXCEPT ![k] = @ + 1]
  <2>1. records \in [Keys -> Nat]
    BY DEF Content, Stored
  <2> QED
    BY <1>2, <2>1, AfterOneMore
<1>8. Events(more) = Append(Events(keys), [key |-> k, seen |-> After(keys, n)])
  <2> DEFINE e == [key |-> k, seen |-> After(keys, n)]
  <2>1. \A i \in 1..n : EventOf(more, i) = EventOf(keys, i)
    <3> SUFFICES ASSUME NEW i \in 1..n PROVE EventOf(more, i) = EventOf(keys, i)
      OBVIOUS
    <3>1. i - 1 \in 0..n
      BY <1>2
    <3>2. After(more, i - 1) = After(keys, i - 1)
      BY <1>7, <3>1
    <3> QED
      BY <1>3, <3>2 DEF EventOf
  <2>2. EventOf(more, n + 1) = e
    <3>1. (n + 1) - 1 = n /\ n \in 0..n
      BY <1>2
    <3>2. After(more, (n + 1) - 1) = After(keys, n)
      BY <1>7, <3>1
    <3> QED
      BY <1>3, <3>2 DEF EventOf
  <2>3. Events(keys) \in Seq(Event) /\ Len(Events(keys)) = n
    BY <1>2, EventsType
  <2>4. Events(more) \in Seq(Event) /\ Len(Events(more)) = n + 1
    BY <1>3, EventsType
  <2>5. e \in Event
    <3>1. Events(more)[n + 1] \in Event
      BY <1>2, <2>4, ElementOfSeq
    <3>2. Events(more)[n + 1] = e
      BY <1>2, <1>3, <2>2 DEF Events
    <3> QED
      BY <3>1, <3>2
  <2>6. /\ Append(Events(keys), e) \in Seq(Event)
        /\ Len(Append(Events(keys), e)) = n + 1
        /\ \A i \in 1..n : Append(Events(keys), e)[i] = Events(keys)[i]
        /\ Append(Events(keys), e)[n + 1] = e
    <3> HIDE DEF e
    <3> QED
      BY <1>2, <2>3, <2>5, AppendProperties
  <2>7. ASSUME NEW i \in 1..(n + 1) PROVE Events(more)[i] = Append(Events(keys), e)[i]
    <3>1. CASE i \in 1..n
      <4>1. Events(more)[i] = EventOf(more, i) /\ Events(keys)[i] = EventOf(keys, i)
        BY <1>2, <1>3, <3>1 DEF Events
      <4> QED
        BY <2>1, <2>6, <3>1, <4>1
    <3>2. CASE i = n + 1
      <4>1. Events(more)[n + 1] = EventOf(more, n + 1)
        BY <1>2, <1>3 DEF Events
      <4> QED
        BY <2>2, <2>6, <3>2, <4>1
    <3>3. i \in 1..n \/ i = n + 1
      <4> HIDE DEF n
      <4> QED
        BY <1>2
    <3> QED
      BY <3>1, <3>2, <3>3
  <2> HIDE DEF e, more
  <2> QED
    BY <2>4, <2>6, <2>7, SeqEqual DEF e
<1>9. /\ Events(keys) \in Seq(Event) /\ journal \in Seq(Event)
      /\ [key |-> k, seen |-> After(keys, n)] \in Event
  <2>1. Events(keys) \in Seq(Event) /\ journal \in Seq(Event)
    BY <1>2, EventsType
  <2>2. Events(more) \in Seq(Event) /\ Len(Events(more)) = n + 1
    BY <1>3, EventsType
  <2>3. Events(more)[n + 1] \in Event
    BY <1>2, <2>2, ElementOfSeq
  <2>4. Events(more)[n + 1] = [key |-> k, seen |-> After(keys, n)]
    <3> HIDE DEF more
    <3> QED
      BY <1>2, <1>8, <2>1, EventsType
  <2> QED
    BY <2>1, <2>3, <2>4
<1>10. ASSUME NEW s \in Seq(Event), NEW t \in Seq(Event), NEW e \in Event
       PROVE  Append(s \o t, e) = s \o Append(t, e)
  OBVIOUS
<1>11. d = AfterAll(more)
  <2>1. [c.records EXCEPT ![k] = @ + 1] = After(more, Len(more))
    BY <1>3, <1>4, <1>7
  <2>2. Append(c.journal, [key |-> k, seen |-> c.records]) = journal \o Events(more)
    <3> DEFINE e == [key |-> k, seen |-> After(keys, n)]
               t == Events(keys)
    <3>1. e \in Event /\ t \in Seq(Event) /\ journal \in Seq(Event)
      BY <1>9
    <3>2. Append(c.journal, [key |-> k, seen |-> c.records]) = Append(journal \o t, e)
      BY <1>4
    <3>3. Events(more) = Append(t, e)
      BY <1>8
    <3> HIDE DEF e, t, more
    <3>4. Append(journal \o t, e) = journal \o Append(t, e)
      BY <1>10, <3>1
    <3> QED
      BY <3>2, <3>3, <3>4
  <2> QED
    BY <2>1, <2>2 DEF AfterAll
<1>12. Len(d.journal) <= MaxJournal
  <2>1. Len(AfterAll(more).journal) = Len(journal) + Len(more)
    BY <1>3, EventsType
  <2> HIDE DEF d, more
  <2>2. Len(d.journal) = Len(journal) + (n + 1)
    BY <1>3, <1>11, <2>1
  <2> QED
    BY <1>2, <1>5, <2>2, UnitsAssumption
<1> QED
  BY <1>6, <1>11, <1>12 DEF IsBatch

-----------------------------------------------------------------------------
\* The invariant.  A step moves one unit; the others keep what they have as
\* long as the store stays the same.

LEMMA InitUnits == Init => UnitsInv
<1> SUFFICES ASSUME Init PROVE UnitsInv
  OBVIOUS
<1>1. records \in [Keys -> Nat] /\ journal = <<>> /\ records = [k \in Keys |-> 0]
  BY DEF Init, StoreInit
<1>2. <<>> \in Seq(Event) /\ Len(<<>>) = 0
  BY EmptySeq
<1>3. Stored \in Content /\ Empty \in Content
  BY <1>1, <1>2 DEF Stored, Empty, Content
<1>4. TypeOK
  BY <1>2, <1>3 DEF Init, TypeOK
<1>5. Len(journal) <= MaxJournal
  BY <1>1, <1>2, UnitsAssumption
<1>6. \A u \in Groups : units[u].pc = "closed"
  BY DEF Init, Closed
<1>7. LockOK
  BY <1>6, UnitsAssumption DEF Init, LockOK, Holding
<1>8. \A u \in Groups : UnitOK(u)
  BY <1>6 DEF UnitOK
<1>9. PromisedIsDurable
  BY <1>1, <1>2, PrefixIsOrder DEF Init, PromisedIsDurable
<1> QED
  BY <1>4, <1>5, <1>7, <1>8, <1>9 DEF UnitsInv

LEMMA BatchesAre ==
  ASSUME Stored \in Content, NEW c
  PROVE  c \in Batches <=> IsBatch(c)
BY BatchFacts DEF Batches

LEMMA SameBatches ==
  ASSUME UNCHANGED storeVars
  PROVE  Batches' = Batches /\ Stored' = Stored
BY DEF storeVars, Batches, IsBatch, AfterAll, Events, EventOf, After, Stored

LEMMA OthersStay ==
  ASSUME UNCHANGED storeVars, NEW v \in Groups, UnitOK(v),
         units'[v] = units[v], memory'[v] = memory[v]
  PROVE  UnitOK(v)'
<1>1. Batches' = Batches /\ Stored' = Stored /\ records' = records /\ journal' = journal
  BY SameBatches DEF storeVars
<1>2. Settled(v)' = Settled(v)
  BY DEF Settled
<1>3. /\ BegunOK(v)' <=> BegunOK(v)
      /\ OpenOK(v)' <=> OpenOK(v)
      /\ FlushOK(v)' <=> FlushOK(v)
      /\ FlushedOK(v)' <=> FlushedOK(v)
      /\ CommittedOK(v)' <=> CommittedOK(v)
  BY <1>1, <1>2 DEF BegunOK, OpenOK, FlushOK, FlushedOK, CommittedOK
<1> QED
  BY <1>3 DEF UnitOK

\* What a step of u that leaves the store alone has to keep.
LEMMA StepOfOne ==
  ASSUME UnitsInv, NEW u \in Groups, UNCHANGED storeVars,
         NEW w \in Unit \cup {Closed}, units' = [units EXCEPT ![u] = w],
         NEW m \in Content, memory' = [memory EXCEPT ![u] = m],
         \/ lock' = lock /\ (w.pc \in Holding <=> units[u].pc \in Holding)
         \/ lock = "free" /\ lock' = u /\ w.pc \in Holding
         \/ lock' = (IF lock = u THEN "free" ELSE lock) /\ w.pc \notin Holding,
         promised' \in Seq(Event), IsPrefix(promised', journal),
         UnitOK(u)'
  PROVE  UnitsInv'
<1>1. /\ Stored \in Content /\ lock \in Groups \cup {"free"}
      /\ units \in [Groups -> Unit \cup {Closed}] /\ memory \in [Groups -> Content]
      /\ Len(journal) <= MaxJournal
      /\ \A v \in Groups : units[v].pc \in Holding <=> lock = v
      /\ \A v \in Groups : UnitOK(v)
  BY DEF UnitsInv, TypeOK, LockOK
<1>2. /\ units' \in [Groups -> Unit \cup {Closed}] /\ memory' \in [Groups -> Content]
      /\ units'[u] = w /\ memory'[u] = m
      /\ \A v \in Groups : v # u => units'[v] = units[v] /\ memory'[v] = memory[v]
  <2> HIDE DEF Unit, Closed, Content
  <2> QED
    BY <1>1
<1>3. Stored' = Stored /\ journal' = journal
  BY SameBatches DEF storeVars
<1>4. lock' \in Groups \cup {"free"}
  BY <1>1
<1>5. TypeOK'
  BY <1>1, <1>2, <1>3, <1>4 DEF TypeOK
<1>6. LockOK'
  <2> SUFFICES ASSUME NEW v \in Groups PROVE units'[v].pc \in Holding <=> lock' = v
    BY DEF LockOK
  <2>1. "free" \notin Groups
    BY UnitsAssumption
  <2> QED
    BY <1>1, <1>2, <2>1
<1>7. ASSUME NEW v \in Groups PROVE UnitOK(v)'
  BY <1>1, <1>2, OthersStay
<1>8. PromisedIsDurable'
  BY <1>3 DEF PromisedIsDurable
<1> QED
  BY <1>1, <1>3, <1>5, <1>6, <1>7, <1>8 DEF UnitsInv

\* What the invariant says of one unit and of what it works with.
LEMMA UnitFacts ==
  ASSUME UnitsInv, NEW u \in Groups
  PROVE  /\ Stored \in Content /\ records \in [Keys -> Nat] /\ journal \in Seq(Event)
         /\ units[u] \in Unit \cup {Closed} /\ units \in [Groups -> Unit \cup {Closed}]
         /\ memory[u] \in Content /\ memory \in [Groups -> Content]
         /\ units[u].pc # "closed" => units[u] \in Unit
         /\ units[u].pc \in Holding <=> lock = u
         /\ UnitOK(u)
         /\ promised \in Seq(Event) /\ IsPrefix(promised, journal)
         /\ Len(journal) <= MaxJournal
         /\ Closed.pc = "closed" /\ Closed.pc \notin Holding
BY DEF UnitsInv, TypeOK, LockOK, PromisedIsDurable, Content, Stored, Closed, Holding

LEMMA ChangedRecords ==
  /\ \A c \in Content : \A j : [c EXCEPT !.journal = j] = [records |-> c.records, journal |-> j]
  /\ \A c \in Content : \A r : [c EXCEPT !.records = r] = [records |-> r, journal |-> c.journal]
  /\ \A x \in Unit : \A b : [[x EXCEPT !.pc = "open"] EXCEPT !.before = b] =
       [pc |-> "open", image |-> x.image, before |-> b, nested |-> x.nested, saved |-> x.saved]
  /\ \A x \in Unit : \A b : [[x EXCEPT !.nested = b] EXCEPT !.saved = "none"] =
       [pc |-> x.pc, image |-> x.image, before |-> x.before, nested |-> b, saved |-> "none"]
  /\ \A x \in Unit : \A n : [[x EXCEPT !.pc = "flushed"] EXCEPT !.image.journal = @ \o n] =
       [pc |-> "flushed",
        image |-> [records |-> x.image.records, journal |-> x.image.journal \o n],
        before |-> x.before, nested |-> x.nested, saved |-> x.saved]
<1>1. \A c \in Content : \A j : [c EXCEPT !.journal = j] = [records |-> c.records, journal |-> j]
  BY DEF Content
<1>2. \A c \in Content : \A r : [c EXCEPT !.records = r] = [records |-> r, journal |-> c.journal]
  BY DEF Content
<1>3. ASSUME NEW x \in Unit, NEW b
      PROVE  [[x EXCEPT !.pc = "open"] EXCEPT !.before = b] =
               [pc |-> "open", image |-> x.image, before |-> b, nested |-> x.nested, saved |-> x.saved]
  <2>1. DOMAIN x = {"pc", "image", "before", "nested", "saved"}
    BY DEF Unit
  <2>2. [x EXCEPT !.pc = "open"] = [f \in DOMAIN x |-> IF f = "pc" THEN "open" ELSE x[f]]
    OBVIOUS
  <2> DEFINE y == [f \in DOMAIN x |-> IF f = "pc" THEN "open" ELSE x[f]]
             r == [pc |-> "open", image |-> x.image, before |-> b, nested |-> x.nested, saved |-> x.saved]
  <2>3. [y EXCEPT !.before = b] = [f \in DOMAIN x |-> IF f = "before" THEN b ELSE y[f]]
    OBVIOUS
  <2>4. r = [f \in DOMAIN x |-> r[f]]
    BY <2>1
  <2>5. ASSUME NEW f \in DOMAIN x PROVE r[f] = IF f = "before" THEN b ELSE y[f]
    BY <2>1
  <2> QED
    BY <2>2, <2>3, <2>4, <2>5
<1>4. ASSUME NEW x \in Unit, NEW b
      PROVE  [[x EXCEPT !.nested = b] EXCEPT !.saved = "none"] =
               [pc |-> x.pc, image |-> x.image, before |-> x.before, nested |-> b, saved |-> "none"]
  <2>1. DOMAIN x = {"pc", "image", "before", "nested", "saved"}
    BY DEF Unit
  <2>2. [x EXCEPT !.nested = b] = [f \in DOMAIN x |-> IF f = "nested" THEN b ELSE x[f]]
    OBVIOUS
  <2> DEFINE y == [f \in DOMAIN x |-> IF f = "nested" THEN b ELSE x[f]]
             r == [pc |-> x.pc, image |-> x.image, before |-> x.before, nested |-> b, saved |-> "none"]
  <2>3. [y EXCEPT !.saved = "none"] = [f \in DOMAIN x |-> IF f = "saved" THEN "none" ELSE y[f]]
    OBVIOUS
  <2>4. r = [f \in DOMAIN x |-> r[f]]
    BY <2>1
  <2>5. ASSUME NEW f \in DOMAIN x PROVE r[f] = IF f = "saved" THEN "none" ELSE y[f]
    BY <2>1
  <2> QED
    BY <2>2, <2>3, <2>4, <2>5
<1>5. ASSUME NEW x \in Unit, NEW n
      PROVE  [[x EXCEPT !.pc = "flushed"] EXCEPT !.image.journal = @ \o n] =
               [pc |-> "flushed",
                image |-> [records |-> x.image.records, journal |-> x.image.journal \o n],
                before |-> x.before, nested |-> x.nested, saved |-> x.saved]
  <2>1. DOMAIN x = {"pc", "image", "before", "nested", "saved"} /\ x.image \in Content
    BY DEF Unit
  <2>2. [x EXCEPT !.pc = "flushed"] = [f \in DOMAIN x |-> IF f = "pc" THEN "flushed" ELSE x[f]]
    OBVIOUS
  <2> DEFINE i == [records |-> x.image.records, journal |-> x.image.journal \o n]
             y == [f \in DOMAIN x |-> IF f = "pc" THEN "flushed" ELSE x[f]]
             r == [pc |-> "flushed", image |-> i,
                   before |-> x.before, nested |-> x.nested, saved |-> x.saved]
  <2>3. y.image = x.image
    BY <2>1
  <2>4. [x.image EXCEPT !.journal = x.image.journal \o n] = i
    BY <1>1, <2>1
  <2> HIDE DEF i
  <2>5. [y EXCEPT !.image = i] = [f \in DOMAIN x |-> IF f = "image" THEN i ELSE y[f]]
    OBVIOUS
  <2>6. r = [f \in DOMAIN x |-> r[f]]
    BY <2>1
  <2>7. ASSUME NEW f \in DOMAIN x PROVE r[f] = IF f = "image" THEN i ELSE y[f]
    BY <2>1
  <2>8. [y EXCEPT !.image = i] = r
    BY <2>5, <2>6, <2>7
  <2> HIDE DEF y, r
  <2>9. [y EXCEPT !.image.journal = @ \o n] = [y EXCEPT !.image = i]
    BY <2>3, <2>4
  <2>10. [[x EXCEPT !.pc = "flushed"] EXCEPT !.image.journal = @ \o n] = r
    BY <2>2, <2>8, <2>9 DEF y
  <2> QED
    BY <2>10 DEF r, i
<1> QED
  BY <1>1, <1>2, <1>3, <1>4, <1>5

LEMMA BeginKeeps ==
  ASSUME UnitsInv, NEW u \in Groups, Begin(u)
  PROVE  UnitsInv'
<1> DEFINE w == [pc |-> "begun", image |-> Stored, before |-> Empty, nested |-> <<>>, saved |-> "none"]
<1>1. UNCHANGED <<storeVars, memory, promised>> /\ lock = "free" /\ lock' = u
      /\ units' = [units EXCEPT ![u] = w]
  BY DEF Begin
<1>2. w \in Unit
  <2>1. Empty \in Content
    BY EmptySeq DEF Content, Empty
  <2>2. <<>> \in Seq(Content)
    BY EmptySeq
  <2>3. Stored \in Content
    BY UnitFacts
  <2> QED
    BY <2>1, <2>2, <2>3 DEF Unit, Holding
<1>3. UnitOK(u)'
  <2>1. units'[u] = w
    BY <1>1, UnitFacts
  <2>2. Stored' = Stored
    BY <1>1, SameBatches
  <2> QED
    BY <2>1, <2>2 DEF UnitOK, BegunOK
<1>4. w.pc \in Holding
  BY DEF Holding
<1>5. memory' = [memory EXCEPT ![u] = memory[u]]
  BY <1>1, UnitFacts
<1>6. UNCHANGED storeVars /\ promised' \in Seq(Event) /\ IsPrefix(promised', journal) /\ memory[u] \in Content
  BY <1>1, UnitFacts
<1> HIDE DEF w
<1> QED
  BY <1>1, <1>2, <1>3, <1>4, <1>5, <1>6, StepOfOne

LEMMA LoadKeeps ==
  ASSUME UnitsInv, NEW u \in Groups, Load(u)
  PROVE  UnitsInv'
<1> DEFINE w == [pc |-> "open", image |-> units[u].image, before |-> units[u].image,
                 nested |-> units[u].nested, saved |-> units[u].saved]
           m == units[u].image
<1>1. /\ units[u].pc = "begun" /\ UNCHANGED <<storeVars, lock, promised>>
      /\ memory' = [memory EXCEPT ![u] = m]
  BY DEF Load
<1>2. units[u] \in Unit
  BY <1>1, UnitFacts
<1>3. w \in Unit /\ m \in Content
  BY <1>2 DEF Unit, Holding
<1>4. units' = [units EXCEPT ![u] = w]
  <2>1. units' = [units EXCEPT ![u].pc = "open", ![u].before = units[u].image]
    BY DEF Load
  <2>2. [[units[u] EXCEPT !.pc = "open"] EXCEPT !.before = units[u].image] = w
    <3>1. PICK x \in Unit : x = units[u]
      BY <1>2
    <3>2. PICK b : b = units[u].image
      OBVIOUS
    <3>3. [[x EXCEPT !.pc = "open"] EXCEPT !.before = b] =
            [pc |-> "open", image |-> x.image, before |-> b, nested |-> x.nested, saved |-> x.saved]
      BY ChangedRecords
    <3> QED
      BY <3>1, <3>2, <3>3, Zenon
  <2> QED
    BY <2>1, <2>2, UnitFacts
<1>5. UnitOK(u)'
  <2>1. units'[u] = w /\ memory'[u] = m
    BY <1>1, <1>4, UnitFacts
  <2>2. Stored' = Stored /\ Batches' = Batches
    BY <1>1, SameBatches
  <2>3. units[u].image = Stored /\ units[u].nested = <<>> /\ units[u].saved = "none"
    BY <1>1, UnitFacts DEF UnitOK, BegunOK
  <2>4. Stored \in Batches
    BY UnitFacts, StoredIsBatch, BatchesAre
  <2>5. <<>> \in Seq(Batches)
    BY EmptySeq
  <2> QED
    BY <2>1, <2>2, <2>3, <2>4, <2>5 DEF UnitOK, OpenOK, Settled
<1>6. lock' = lock /\ (w.pc \in Holding <=> units[u].pc \in Holding)
  BY <1>1 DEF Holding
<1>7. UNCHANGED storeVars /\ promised' \in Seq(Event) /\ IsPrefix(promised', journal)
  BY <1>1, UnitFacts
<1> HIDE DEF w, m
<1> QED
  BY <1>1, <1>3, <1>4, <1>5, <1>6, <1>7, StepOfOne

LEMMA SaveKeeps ==
  ASSUME UnitsInv, NEW u \in Groups, NEW k \in Keys, Save(u, k)
  PROVE  UnitsInv'
<1> DEFINE w == [units[u] EXCEPT !.saved = k]
           m == [records |-> [memory[u].records EXCEPT ![k] = @ + 1], journal |-> memory[u].journal]
<1>1. /\ units[u].pc = "open" /\ units[u].saved = "none" /\ Len(memory[u].journal) < MaxJournal
      /\ UNCHANGED <<storeVars, lock, promised>>
  BY DEF Save
<1>2. units[u] \in Unit /\ memory[u] \in Content
  BY <1>1, UnitFacts
<1>3. w \in Unit /\ w.pc = "open" /\ w.saved = k /\ w.nested = units[u].nested
      /\ w.image = units[u].image /\ w.before = units[u].before
  BY <1>1, <1>2 DEF Unit
<1>4. m \in Content
  BY <1>2 DEF Content
<1>5. units' = [units EXCEPT ![u] = w]
  BY UnitFacts DEF Save
<1>6. memory' = [memory EXCEPT ![u] = m]
  <2>1. memory' = [memory EXCEPT ![u].records[k] = @ + 1]
    BY DEF Save
  <2>2. [memory[u] EXCEPT !.records[k] = @ + 1] = m
    BY <1>2, ChangedRecords
  <2> QED
    BY <2>1, <2>2, UnitFacts
<1>7. UnitOK(u)'
  <2>1. units'[u] = w /\ memory'[u] = m
    BY <1>5, <1>6, UnitFacts
  <2>2. Stored' = Stored /\ Batches' = Batches
    BY <1>1, SameBatches
  <2>3. OpenOK(u)
    BY <1>1, UnitFacts DEF UnitOK
  <2>4. Settled(u)' = memory[u]
    <3>1. k # "none"
      BY UnitsAssumption
    <3>2. Settled(u)' = [records |-> [m.records EXCEPT ![k] = @ - 1], journal |-> m.journal]
      BY <1>3, <2>1, <3>1 DEF Settled
    <3>3. [m.records EXCEPT ![k] = @ - 1] = memory[u].records
      BY <1>2 DEF Content
    <3> QED
      BY <1>2, <3>2, <3>3 DEF Content
  <2>5. Settled(u) = memory[u]
    BY <1>1 DEF Settled
  <2> HIDE DEF w
  <2> QED
    BY <1>1, <1>3, <2>1, <2>2, <2>3, <2>4, <2>5 DEF UnitOK, OpenOK
<1>8. lock' = lock /\ (w.pc \in Holding <=> units[u].pc \in Holding)
  BY <1>1, <1>3
<1>9. UNCHANGED storeVars /\ promised' \in Seq(Event) /\ IsPrefix(promised', journal)
  BY <1>1, UnitFacts
<1> HIDE DEF w, m
<1> QED
  BY <1>3, <1>4, <1>5, <1>6, <1>7, <1>8, <1>9, StepOfOne

LEMMA LogKeeps ==
  ASSUME UnitsInv, NEW u \in Groups, Log(u)
  PROVE  UnitsInv'
<1> DEFINE k == units[u].saved
           seen == [memory[u].records EXCEPT ![k] = @ - 1]
           e == [key |-> k, seen |-> seen]
           w == [units[u] EXCEPT !.saved = "none"]
           m == [records |-> memory[u].records, journal |-> Append(memory[u].journal, e)]
<1>1. units[u].pc = "open" /\ k # "none" /\ UNCHANGED <<storeVars, lock, promised>>
  BY DEF Log
<1>2. units[u] \in Unit /\ memory[u] \in Content /\ k \in Keys
  BY <1>1, UnitFacts DEF Unit
<1>3. w \in Unit /\ w.pc = "open" /\ w.saved = "none" /\ w.nested = units[u].nested
      /\ w.image = units[u].image /\ w.before = units[u].before
  BY <1>1, <1>2 DEF Unit
<1>4. units' = [units EXCEPT ![u] = w]
  BY UnitFacts DEF Log
<1>5. memory' = [memory EXCEPT ![u] = m]
  <2>1. memory' = [memory EXCEPT ![u].journal = Append(@, e)]
    BY DEF Log
  <2>2. [memory[u] EXCEPT !.journal = Append(@, e)] = m
    BY <1>2, ChangedRecords
  <2> QED
    BY <2>1, <2>2, UnitFacts
<1>6. m \in Batches
  <2>1. OpenOK(u)
    BY <1>1, UnitFacts DEF UnitOK
  <2>2. Settled(u) = [records |-> seen, journal |-> memory[u].journal]
    BY <1>1 DEF Settled
  <2> DEFINE c == Settled(u)
  <2>3. IsBatch(c) /\ Stored \in Content
    BY <2>1, UnitFacts, BatchesAre DEF OpenOK
  <2>4. Len(c.journal) < MaxJournal
    BY <1>1, <2>1, <2>2 DEF OpenOK
  <2>5. c.records = seen /\ c.journal = memory[u].journal
    BY <2>2
  <2> HIDE DEF c
  <2>6. IsBatch([records |-> [c.records EXCEPT ![k] = @ + 1],
                 journal |-> Append(c.journal, [key |-> k, seen |-> c.records])])
    <3> HIDE DEF k
    <3> QED
      BY <1>2, <2>3, <2>4, CommandExtends
  <2>7. [seen EXCEPT ![k] = @ + 1] = memory[u].records
    BY <1>2 DEF Content
  <2>8. IsBatch(m)
    BY <2>5, <2>6, <2>7
  <2> QED
    BY <2>3, <2>8, BatchesAre
<1>7. m \in Content
  BY <1>6 DEF Batches
<1> HIDE DEF m
<1>8. UnitOK(u)'
  <2>1. units'[u] = w /\ memory'[u] = m
    BY <1>4, <1>5, UnitFacts
  <2>2. Stored' = Stored /\ Batches' = Batches
    BY <1>1, SameBatches
  <2>3. OpenOK(u)
    BY <1>1, UnitFacts DEF UnitOK
  <2> HIDE DEF w
  <2>4. Settled(u)' = m
    BY <1>3, <2>1 DEF Settled
  <2> QED
    BY <1>3, <1>6, <2>1, <2>2, <2>3, <2>4 DEF UnitOK, OpenOK
<1>9. lock' = lock /\ (w.pc \in Holding <=> units[u].pc \in Holding)
  BY <1>1, <1>3
<1>10. UNCHANGED storeVars /\ promised' \in Seq(Event) /\ IsPrefix(promised', journal)
  BY <1>1, UnitFacts
<1> HIDE DEF w
<1> QED
  BY <1>3, <1>4, <1>5, <1>7, <1>8, <1>9, <1>10, StepOfOne

LEMMA FrontAndLast ==
  ASSUME NEW S, NEW s \in Seq(S), s # <<>>
  PROVE  Front(s) \in Seq(S) /\ Last(s) \in S
<1>1. Len(s) \in Nat \ {0}
  BY EmptySeq
<1>2. s[Len(s)] \in S /\ \A i \in 1..Len(s) - 1 : s[i] \in S
  BY <1>1, ElementOfSeq
<1>3. SubSeq(s, 1, Len(s) - 1) \in Seq(S)
  BY <1>1, <1>2, SubSeqProperties
<1> QED
  BY <1>2, <1>3 DEF Front, Last

LEMMA NestKeeps ==
  ASSUME UnitsInv, NEW u \in Groups, Nest(u)
  PROVE  UnitsInv'
<1> DEFINE s == Append(units[u].nested, memory[u])
           w == [units[u] EXCEPT !.nested = s]
<1>1. units[u].pc = "open" /\ units[u].saved = "none"
      /\ UNCHANGED <<storeVars, lock, memory, promised>>
  BY DEF Nest
<1>2. units[u] \in Unit /\ memory[u] \in Content
  BY <1>1, UnitFacts
<1>3. OpenOK(u) /\ Settled(u) = memory[u]
  BY <1>1, UnitFacts DEF UnitOK, Settled
<1>4. s \in Seq(Content) /\ s \in Seq(Batches)
  BY <1>2, <1>3, AppendProperties DEF Unit, OpenOK
<1>5. units' = [units EXCEPT ![u] = w]
  BY UnitFacts DEF Nest
<1> HIDE DEF s
<1>6. w \in Unit /\ w.pc = "open" /\ w.saved = "none" /\ w.nested = s
      /\ w.image = units[u].image /\ w.before = units[u].before
  BY <1>1, <1>2, <1>4 DEF Unit
<1> HIDE DEF w
<1>7. UnitOK(u)'
  <2>1. units'[u] = w /\ memory'[u] = memory[u]
    BY <1>1, <1>5, UnitFacts
  <2>2. Stored' = Stored /\ Batches' = Batches
    BY <1>1, SameBatches
  <2>3. Settled(u)' = memory[u]
    BY <1>6, <2>1 DEF Settled
  <2> QED
    BY <1>3, <1>4, <1>6, <2>1, <2>2, <2>3 DEF UnitOK, OpenOK
<1>8. lock' = lock /\ (w.pc \in Holding <=> units[u].pc \in Holding)
  BY <1>1, <1>6
<1>9. /\ UNCHANGED storeVars /\ promised' \in Seq(Event) /\ IsPrefix(promised', journal)
      /\ memory' = [memory EXCEPT ![u] = memory[u]]
  BY <1>1, UnitFacts
<1> QED
  BY <1>2, <1>5, <1>6, <1>7, <1>8, <1>9, StepOfOne

LEMMA NestedDoneKeeps ==
  ASSUME UnitsInv, NEW u \in Groups, NestedDone(u)
  PROVE  UnitsInv'
<1> DEFINE s == Front(units[u].nested)
           w == [units[u] EXCEPT !.nested = s]
<1>1. units[u].pc = "open" /\ units[u].saved = "none" /\ units[u].nested # <<>>
      /\ UNCHANGED <<storeVars, lock, memory, promised>>
  BY DEF NestedDone
<1>2. units[u] \in Unit /\ memory[u] \in Content
  BY <1>1, UnitFacts
<1>3. OpenOK(u) /\ Settled(u) = memory[u]
  BY <1>1, UnitFacts DEF UnitOK, Settled
<1>4. s \in Seq(Content) /\ s \in Seq(Batches)
  BY <1>1, <1>2, <1>3, FrontAndLast DEF Unit, OpenOK
<1>5. units' = [units EXCEPT ![u] = w]
  BY UnitFacts DEF NestedDone
<1> HIDE DEF s
<1>6. w \in Unit /\ w.pc = "open" /\ w.saved = "none" /\ w.nested = s
      /\ w.image = units[u].image /\ w.before = units[u].before
  BY <1>1, <1>2, <1>4 DEF Unit
<1> HIDE DEF w
<1>7. UnitOK(u)'
  <2>1. units'[u] = w /\ memory'[u] = memory[u]
    BY <1>1, <1>5, UnitFacts
  <2>2. Stored' = Stored /\ Batches' = Batches
    BY <1>1, SameBatches
  <2>3. Settled(u)' = memory[u]
    BY <1>6, <2>1 DEF Settled
  <2> QED
    BY <1>3, <1>4, <1>6, <2>1, <2>2, <2>3 DEF UnitOK, OpenOK
<1>8. lock' = lock /\ (w.pc \in Holding <=> units[u].pc \in Holding)
  BY <1>1, <1>6
<1>9. /\ UNCHANGED storeVars /\ promised' \in Seq(Event) /\ IsPrefix(promised', journal)
      /\ memory' = [memory EXCEPT ![u] = memory[u]]
  BY <1>1, UnitFacts
<1> QED
  BY <1>2, <1>5, <1>6, <1>7, <1>8, <1>9, StepOfOne

\* The snapshot was whole, so the memory is, a save that was not logged is undone.
LEMMA NestedFailKeeps ==
  ASSUME UnitsInv, NEW u \in Groups, NestedFail(u)
  PROVE  UnitsInv'
<1> DEFINE s == Front(units[u].nested)
           m == Last(units[u].nested)
           w == [pc |-> "open", image |-> units[u].image, before |-> units[u].before,
                 nested |-> s, saved |-> "none"]
<1>1. units[u].pc = "open" /\ units[u].nested # <<>> /\ UNCHANGED <<storeVars, lock, promised>>
      /\ memory' = [memory EXCEPT ![u] = m]
  BY DEF NestedFail, Restored
<1>2. units[u] \in Unit
  BY <1>1, UnitFacts
<1>3. OpenOK(u)
  BY <1>1, UnitFacts DEF UnitOK
<1>4. s \in Seq(Content) /\ s \in Seq(Batches) /\ m \in Batches /\ m \in Content
  BY <1>1, <1>2, <1>3, FrontAndLast DEF Unit, OpenOK
<1>5. units' = [units EXCEPT ![u] = w]
  <2>1. units' = [units EXCEPT ![u].nested = s, ![u].saved = "none"]
    BY DEF NestedFail
  <2>2. [[units[u] EXCEPT !.nested = s] EXCEPT !.saved = "none"] = w
    <3>1. PICK x \in Unit : x = units[u]
      BY <1>2
    <3>2. PICK b : b = s
      OBVIOUS
    <3>3. [[x EXCEPT !.nested = b] EXCEPT !.saved = "none"] =
            [pc |-> x.pc, image |-> x.image, before |-> x.before, nested |-> b, saved |-> "none"]
      BY ChangedRecords
    <3> QED
      BY <1>1, <3>1, <3>2, <3>3, Zenon
  <2> QED
    BY <2>1, <2>2, UnitFacts
<1> HIDE DEF s, m
<1>6. w \in Unit
  BY <1>1, <1>2, <1>4 DEF Unit
<1>7. UnitOK(u)'
  <2>1. units'[u] = w /\ memory'[u] = m
    BY <1>1, <1>5, UnitFacts
  <2>2. Stored' = Stored /\ Batches' = Batches
    BY <1>1, SameBatches
  <2>3. Settled(u)' = m
    BY <2>1 DEF Settled
  <2> QED
    BY <1>3, <1>4, <2>1, <2>2, <2>3 DEF UnitOK, OpenOK
<1>8. lock' = lock /\ (w.pc \in Holding <=> units[u].pc \in Holding)
  BY <1>1
<1>9. UNCHANGED storeVars /\ promised' \in Seq(Event) /\ IsPrefix(promised', journal)
  BY <1>1, UnitFacts
<1> HIDE DEF w
<1> QED
  BY <1>1, <1>4, <1>5, <1>6, <1>7, <1>8, <1>9, StepOfOne

LEMMA FinishKeeps ==
  ASSUME UnitsInv, NEW u \in Groups, Finish(u)
  PROVE  UnitsInv'
<1> DEFINE w == [units[u] EXCEPT !.pc = "flush"]
<1>1. units[u].pc = "open" /\ units[u].saved = "none" /\ UNCHANGED <<storeVars, lock, memory, promised>>
  BY DEF Finish
<1>2. units[u] \in Unit /\ memory[u] \in Content
  BY <1>1, UnitFacts
<1>3. OpenOK(u) /\ Settled(u) = memory[u]
  BY <1>1, UnitFacts DEF UnitOK, Settled
<1>4. units' = [units EXCEPT ![u] = w]
  BY UnitFacts DEF Finish, Goto
<1>5. w \in Unit /\ w.pc = "flush" /\ w.image = units[u].image /\ w.before = units[u].before
  BY <1>2 DEF Unit, Holding
<1> HIDE DEF w
<1>6. UnitOK(u)'
  <2>1. units'[u] = w /\ memory'[u] = memory[u]
    BY <1>1, <1>4, UnitFacts
  <2>2. Stored' = Stored /\ Batches' = Batches /\ records' = records /\ journal' = journal
    BY <1>1, SameBatches DEF storeVars
  <2> QED
    BY <1>3, <1>5, <2>1, <2>2 DEF UnitOK, OpenOK, FlushOK, Stored
<1>7. lock' = lock /\ (w.pc \in Holding <=> units[u].pc \in Holding)
  BY <1>1, <1>5 DEF Holding
<1>8. /\ UNCHANGED storeVars /\ promised' \in Seq(Event) /\ IsPrefix(promised', journal)
      /\ memory' = [memory EXCEPT ![u] = memory[u]]
  BY <1>1, UnitFacts
<1> QED
  BY <1>2, <1>4, <1>5, <1>6, <1>7, <1>8, StepOfOne

LEMMA WriteRecordKeeps ==
  ASSUME UnitsInv, NEW u \in Groups, NEW k \in Keys, WriteRecord(u, k)
  PROVE  UnitsInv'
<1> DEFINE rec == [units[u].image.records EXCEPT ![k] = memory[u].records[k]]
           img == [records |-> rec, journal |-> units[u].image.journal]
           w == [units[u] EXCEPT !.image = img]
<1>1. units[u].pc = "flush" /\ UNCHANGED <<storeVars, lock, memory, promised>>
  BY DEF WriteRecord
<1>2. units[u] \in Unit /\ memory[u] \in Content
  BY <1>1, UnitFacts
<1>3. units[u].image \in Content
  BY <1>2 DEF Unit
<1>4. rec \in [Keys -> Nat] /\ \A c \in Keys : rec[c] = IF c = k THEN memory[u].records[k]
                                                      ELSE units[u].image.records[c]
  BY <1>2, <1>3 DEF Content
<1>5. units' = [units EXCEPT ![u] = w]
  <2>1. units' = [units EXCEPT ![u].image.records[k] = memory[u].records[k]]
    BY DEF WriteRecord
  <2>2. [units[u].image EXCEPT !.records[k] = memory[u].records[k]] = img
    BY <1>3, ChangedRecords
  <2> QED
    BY <2>1, <2>2, UnitFacts
<1> HIDE DEF rec
<1>6. img \in Content
  BY <1>3, <1>4 DEF Content
<1>7. img.records = rec /\ img.journal = units[u].image.journal
  OBVIOUS
<1> HIDE DEF img
<1>8. w \in Unit /\ w.pc = "flush" /\ w.image = img /\ w.before = units[u].before
  BY <1>1, <1>2, <1>6 DEF Unit
<1> HIDE DEF w
<1>9. UnitOK(u)'
  <2>1. units'[u] = w /\ memory'[u] = memory[u]
    BY <1>1, <1>5, UnitFacts
  <2>2. Stored' = Stored /\ Batches' = Batches /\ records' = records /\ journal' = journal
    BY <1>1, SameBatches DEF storeVars
  <2>3. FlushOK(u)
    BY <1>1, UnitFacts DEF UnitOK
  <2>4. \A c \in Keys : rec[c] \in {records[c], memory[u].records[c]}
    BY <1>4, <2>3 DEF FlushOK
  <2> QED
    BY <1>7, <1>8, <2>1, <2>2, <2>3, <2>4 DEF UnitOK, FlushOK
<1>10. lock' = lock /\ (w.pc \in Holding <=> units[u].pc \in Holding)
  BY <1>1, <1>8
<1>11. /\ UNCHANGED storeVars /\ promised' \in Seq(Event) /\ IsPrefix(promised', journal)
       /\ memory' = [memory EXCEPT ![u] = memory[u]]
  BY <1>1, UnitFacts
<1> QED
  BY <1>2, <1>5, <1>8, <1>9, <1>10, <1>11, StepOfOne

\* All rows are written, so with the new events the image is the memory.
LEMMA WriteJournalKeeps ==
  ASSUME UnitsInv, NEW u \in Groups, WriteJournal(u)
  PROVE  UnitsInv'
<1> DEFINE new == SubSeq(memory[u].journal, Len(units[u].before.journal) + 1, Len(memory[u].journal))
           img == [records |-> units[u].image.records, journal |-> units[u].image.journal \o new]
           w == [pc |-> "flushed", image |-> img, before |-> units[u].before,
                 nested |-> units[u].nested, saved |-> units[u].saved]
<1>1. /\ units[u].pc = "flush" /\ UNCHANGED <<storeVars, lock, memory, promised>>
      /\ \A k \in Keys : memory[u].records[k] # units[u].before.records[k] =>
                           units[u].image.records[k] = memory[u].records[k]
  BY DEF WriteJournal
<1>2. units[u] \in Unit /\ memory[u] \in Content
  BY <1>1, UnitFacts
<1>3. units[u].image \in Content
  BY <1>2 DEF Unit
<1>4. FlushOK(u) /\ Stored \in Content
  BY <1>1, UnitFacts DEF UnitOK
<1>5. img.records = memory[u].records
  <2>1. units[u].before.records = records
    BY <1>4 DEF FlushOK, Stored
  <2>2. ASSUME NEW k \in Keys PROVE units[u].image.records[k] = memory[u].records[k]
    BY <1>1, <1>4, <2>1 DEF FlushOK
  <2> QED
    BY <1>2, <1>3, <2>2 DEF Content
<1>6. img.journal = memory[u].journal
  <2>1. units[u].before.journal = journal /\ units[u].image.journal = journal
    BY <1>4 DEF FlushOK, Stored
  <2>2. PICK keys \in BoundedSeq(Keys, MaxBatch) : memory[u] = AfterAll(keys)
    BY <1>4 DEF FlushOK, Batches, IsBatch
  <2>3. keys \in Seq(Keys)
    BY <2>2, BatchSequences, UnitsAssumption
  <2>4. memory[u].journal = journal \o Events(keys)
    BY <2>2 DEF AfterAll
  <2>5. journal \in Seq(Event) /\ Events(keys) \in Seq(Event)
    BY <1>4, <2>3, EventsType
  <2>6. journal \o SubSeq(journal \o Events(keys), Len(journal) + 1, Len(journal \o Events(keys)))
          = journal \o Events(keys)
    BY <2>5, TailOfConcat
  <2> QED
    BY <2>1, <2>4, <2>6
<1>7. img = memory[u]
  <2> HIDE DEF new
  <2> QED
    BY <1>2, <1>5, <1>6 DEF Content
<1>8. units' = [units EXCEPT ![u] = w]
  <2>1. units' = [units EXCEPT ![u].pc = "flushed", ![u].image.journal = @ \o new]
    BY DEF WriteJournal
  <2>2. [[units[u] EXCEPT !.pc = "flushed"] EXCEPT !.image.journal = @ \o new] = w
    <3>1. PICK x \in Unit : x = units[u]
      BY <1>2
    <3>2. PICK n : n = new
      OBVIOUS
    <3>3. [[x EXCEPT !.pc = "flushed"] EXCEPT !.image.journal = @ \o n] =
            [pc |-> "flushed",
             image |-> [records |-> x.image.records, journal |-> x.image.journal \o n],
             before |-> x.before, nested |-> x.nested, saved |-> x.saved]
      BY ChangedRecords
    <3> QED
      BY <3>1, <3>2, <3>3, Zenon
  <2> QED
    BY <2>1, <2>2, UnitFacts
<1> HIDE DEF img
<1>9. w \in Unit
  BY <1>2, <1>7 DEF Unit, Holding
<1>10. UnitOK(u)'
  <2>1. units'[u] = w /\ memory'[u] = memory[u]
    BY <1>1, <1>8, UnitFacts
  <2>2. Batches' = Batches
    BY <1>1, SameBatches
  <2> QED
    BY <1>4, <1>7, <2>1, <2>2 DEF UnitOK, FlushOK, FlushedOK
<1>11. lock' = lock /\ (w.pc \in Holding <=> units[u].pc \in Holding)
  BY <1>1 DEF Holding
<1>12. /\ UNCHANGED storeVars /\ promised' \in Seq(Event) /\ IsPrefix(promised', journal)
       /\ memory' = [memory EXCEPT ![u] = memory[u]]
  BY <1>1, UnitFacts
<1> HIDE DEF w
<1> QED
  BY <1>2, <1>8, <1>9, <1>10, <1>11, <1>12, StepOfOne

LEMMA ReturnKeeps ==
  ASSUME UnitsInv, NEW u \in Groups, Return(u)
  PROVE  UnitsInv'
<1>1. /\ units[u].pc = "committed" /\ UNCHANGED <<storeVars, lock, memory>>
      /\ units' = [units EXCEPT ![u] = Closed] /\ promised' = memory[u].journal
  BY DEF Return
<1>2. UnitOK(u)'
  <2>1. units'[u] = Closed
    BY <1>1, UnitFacts
  <2> QED
    BY <2>1, UnitFacts DEF UnitOK
<1>3. IsPrefix(memory[u].journal, journal)
  BY <1>1, UnitFacts DEF UnitOK, CommittedOK
<1>4. lock' = lock /\ (Closed.pc \in Holding <=> units[u].pc \in Holding)
  BY <1>1, UnitFacts DEF Holding
<1>5. /\ UNCHANGED storeVars /\ memory[u] \in Content /\ memory[u].journal \in Seq(Event)
      /\ memory' = [memory EXCEPT ![u] = memory[u]]
  BY <1>1, UnitFacts DEF Content
<1> QED
  BY <1>1, <1>2, <1>3, <1>4, <1>5, StepOfOne

LEMMA FailKeeps ==
  ASSUME UnitsInv, NEW u \in Groups, Fail(u)
  PROVE  UnitsInv'
<1>1. /\ UNCHANGED <<storeVars, memory, promised>> /\ units' = [units EXCEPT ![u] = Closed]
      /\ lock' = IF lock = u THEN "free" ELSE lock
  BY DEF Fail
<1>2. UnitOK(u)'
  <2>1. units'[u] = Closed
    BY <1>1, UnitFacts
  <2> QED
    BY <2>1, UnitFacts DEF UnitOK
<1>3. /\ UNCHANGED storeVars /\ promised' \in Seq(Event) /\ IsPrefix(promised', journal)
      /\ memory[u] \in Content /\ memory' = [memory EXCEPT ![u] = memory[u]]
      /\ Closed.pc \notin Holding
  BY <1>1, UnitFacts
<1> QED
  BY <1>1, <1>2, <1>3, StepOfOne

LEMMA CrashKeeps ==
  ASSUME UnitsInv, NEW u \in Groups, Crash(u)
  PROVE  UnitsInv'
<1>1. /\ UNCHANGED <<storeVars, promised>> /\ units' = [units EXCEPT ![u] = Closed]
      /\ memory' = [memory EXCEPT ![u] = Empty]
      /\ lock' = IF lock = u THEN "free" ELSE lock
  BY DEF Crash
<1>2. UnitOK(u)'
  <2>1. units'[u] = Closed
    BY <1>1, UnitFacts
  <2> QED
    BY <2>1, UnitFacts DEF UnitOK
<1>3. Empty \in Content
  BY EmptySeq DEF Content, Empty
<1>4. /\ UNCHANGED storeVars /\ promised' \in Seq(Event) /\ IsPrefix(promised', journal)
      /\ Closed.pc \notin Holding
  BY <1>1, UnitFacts
<1> QED
  BY <1>1, <1>2, <1>3, <1>4, StepOfOne

\* The commit makes the batch the store.  Nobody else has a transaction, and
\* what others committed is still at the beginning of the journal.
LEMMA CommitKeeps ==
  ASSUME UnitsInv, NEW u \in Groups, Commit(u)
  PROVE  UnitsInv'
<1>1. /\ units[u].pc = "flushed" /\ lock' = "free" /\ UNCHANGED <<memory, promised>>
      /\ records' = units[u].image.records /\ journal' = units[u].image.journal
      /\ units' = [units EXCEPT ![u].pc = "committed"]
  BY DEF Commit, Goto
<1>2. units[u] \in Unit /\ lock = u /\ FlushedOK(u) /\ Stored \in Content
  BY <1>1, UnitFacts DEF UnitOK, Holding
<1>3. memory[u] \in Content /\ Len(memory[u].journal) <= MaxJournal
      /\ IsPrefix(journal, memory[u].journal)
  <2>1. IsBatch(memory[u])
    BY <1>2 DEF FlushedOK, Batches
  <2> QED
    BY <1>2, <2>1, BatchFacts
<1>4. records' = memory[u].records /\ journal' = memory[u].journal
  BY <1>1, <1>2 DEF FlushedOK
<1>5. IsPrefix(journal, journal') /\ journal \in Seq(Event) /\ journal' \in Seq(Event)
  BY <1>3, <1>4, UnitFacts DEF Content
<1>6. [units[u] EXCEPT !.pc = "committed"] \in Unit
      /\ [units[u] EXCEPT !.pc = "committed"].pc = "committed"
  BY <1>2 DEF Unit
<1>7. /\ units'[u].pc = "committed" /\ units' \in [Groups -> Unit \cup {Closed}]
      /\ \A v \in Groups : v # u => units'[v] = units[v]
  <2> HIDE DEF Unit, Closed
  <2>1. units' = [units EXCEPT ![u] = [units[u] EXCEPT !.pc = "committed"]]
    BY <1>1, UnitFacts
  <2> QED
    BY <1>6, <2>1, UnitFacts
<1>8. TypeOK'
  <2>1. Stored' \in Content
    BY <1>3, <1>4 DEF Stored, Content
  <2> QED
    BY <1>1, <1>7, <2>1, UnitFacts DEF TypeOK
<1>9. ASSUME NEW v \in Groups PROVE units'[v].pc \notin Holding
  <2>1. CASE v = u
    BY <1>7, <2>1 DEF Holding
  <2>2. CASE v # u
    BY <1>2, <1>7, <2>2, UnitFacts
  <2> QED
    BY <2>1, <2>2
<1>10. LockOK'
  BY <1>1, <1>9, UnitsAssumption DEF LockOK
<1>11. ASSUME NEW v \in Groups PROVE UnitOK(v)'
  <2>1. units'[v].pc \notin Holding
    BY <1>9
  <2>2. ASSUME units'[v].pc = "committed" PROVE CommittedOK(v)'
    <3>1. IsPrefix(memory[v].journal, journal')
      <4>1. CASE v = u
        BY <1>4, <1>5, <4>1, PrefixIsOrder
      <4>2. CASE v # u
        <5>1. IsPrefix(memory[v].journal, journal) /\ memory[v].journal \in Seq(Event)
          BY <1>7, <2>2, <4>2, UnitFacts DEF UnitOK, CommittedOK, Content
        <5> QED
          BY <1>5, <5>1, PrefixIsOrder
      <4> QED
        BY <4>1, <4>2
    <3> QED
      BY <1>1, <3>1 DEF CommittedOK
  <2> QED
    BY <2>1, <2>2 DEF UnitOK, Holding
<1>12. PromisedIsDurable'
  <2>1. promised \in Seq(Event) /\ IsPrefix(promised, journal)
    BY UnitFacts
  <2>2. IsPrefix(promised, journal')
    BY <1>5, <2>1, PrefixIsOrder
  <2> QED
    BY <1>1, <2>2 DEF PromisedIsDurable
<1>13. (Len(journal) <= MaxJournal)'
  BY <1>3, <1>4
<1> QED
  BY <1>8, <1>10, <1>11, <1>12, <1>13 DEF UnitsInv

LEMMA UnitsStep ==
  UnitsInv /\ [Next]_vars => UnitsInv'
<1> SUFFICES ASSUME UnitsInv, [Next]_vars PROVE UnitsInv'
  OBVIOUS
<1>1. CASE UNCHANGED vars
  <2>1. UNCHANGED <<storeVars, lock, units, memory, promised>>
    BY <1>1 DEF vars
  <2>2. Stored' = Stored /\ journal' = journal
    BY <2>1, SameBatches DEF storeVars
  <2>3. \A u \in Groups : UnitOK(u)'
    BY <2>1, OthersStay DEF UnitsInv
  <2> QED
    BY <2>1, <2>2, <2>3 DEF UnitsInv, TypeOK, LockOK, PromisedIsDurable
<1>2. ASSUME NEW u \in Groups, NEW k \in Keys, Save(u, k) \/ WriteRecord(u, k)
      PROVE  UnitsInv'
  BY <1>2, SaveKeeps, WriteRecordKeeps
<1>3. ASSUME NEW u \in Groups,
             \/ Begin(u) \/ Load(u) \/ Log(u) \/ Nest(u) \/ NestedDone(u) \/ NestedFail(u)
             \/ Finish(u) \/ WriteJournal(u) \/ Commit(u) \/ Return(u) \/ Fail(u) \/ Crash(u)
      PROVE  UnitsInv'
  BY <1>3, BeginKeeps, LoadKeeps, LogKeeps, NestKeeps, NestedDoneKeeps, NestedFailKeeps,
     FinishKeeps, WriteJournalKeeps, CommitKeeps, ReturnKeeps, FailKeeps, CrashKeeps
<1> QED
  BY <1>1, <1>2, <1>3 DEF Next

\* What a group works with is what is stored, followed by whole commands; the
\* rows it writes are old or new, and one group has the transaction at a time
\* (sqlite_store.py 456-493, 766-860).
THEOREM UnitsStay == Spec => []UnitsInv
BY InitUnits, UnitsStep, PTL DEF Spec

\* What a caller was told to be done stays done, whichever group or process
\* fails or dies afterwards (sqlite_store.py 475-493).
THEOREM PromisesAreDurable == Spec => []PromisedIsDurable
<1>1. UnitsInv => PromisedIsDurable
  BY DEF UnitsInv
<1> QED
  BY <1>1, UnitsStay, PTL

-----------------------------------------------------------------------------
\* The refinement: the commit is the transaction with the commands of the
\* batch, every other step leaves the store alone.

LEMMA CommitIsTransaction ==
  ASSUME UnitsInv, NEW u \in Groups, Commit(u)
  PROVE  \E keys \in BoundedSeq(Keys, MaxBatch) : Transact(keys)
<1>1. units[u].pc = "flushed" /\ records' = units[u].image.records /\ journal' = units[u].image.journal
  BY DEF Commit
<1>2. units[u].image = memory[u] /\ memory[u] \in Batches
  BY <1>1, UnitFacts DEF UnitOK, FlushedOK
<1>3. PICK keys \in BoundedSeq(Keys, MaxBatch) : memory[u] = AfterAll(keys)
  BY <1>2 DEF Batches, IsBatch
<1>4. records' = After(keys, Len(keys)) /\ journal' = journal \o Events(keys)
  BY <1>1, <1>2, <1>3 DEF AfterAll
<1>5. Transact(keys)
  BY <1>4 DEF Transact, Events, EventOf
<1> QED
  BY <1>5

LEMMA StepIsTransaction ==
  UnitsInv /\ [Next]_vars =>
    [\E keys \in BoundedSeq(Keys, MaxBatch) : Transact(keys)]_storeVars
<1> SUFFICES ASSUME UnitsInv, Next, ~UNCHANGED storeVars
             PROVE  \E keys \in BoundedSeq(Keys, MaxBatch) : Transact(keys)
  BY DEF vars
<1>1. PICK u \in Groups : Commit(u)
  BY DEF Next, Begin, Load, Log, Nest, NestedDone, NestedFail, Finish, Save, WriteRecord,
         WriteJournal, Return, Fail, Crash
<1> QED
  BY <1>1, CommitIsTransaction

\* The database goes from one whole unit to the next: units of work over one
\* database, nested, failing and dying anywhere, implement the atomic store
\* (sqlite_store.py 456-493, 766-860).
THEOREM UnitsAreAtomic == Spec => ImplementsAtomicStore
<1>1. Init => StoreInit
  BY DEF Init
<1> QED
  BY <1>1, StepIsTransaction, UnitsStay, PTL DEF Spec, ImplementsAtomicStore, StoreSpec

=============================================================================
