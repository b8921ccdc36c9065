---------------------------- MODULE DurableUnits ----------------------------
(***************************************************************************)
(* The unit of work of adapters/sqlite_store.py (SqliteStoreGroup): the    *)
(* outermost transaction of a group loads the whole database into memory,  *)
(* commands change records and append to the journals there, nested        *)
(* transactions restore the memory when they fail, and the end writes what *)
(* changed row by row before it commits.  Each step may fail (the points   *)
(* of the fault callback, a refused command, the storage) and the process  *)
(* may die; several groups use one database.                               *)
(*                                                                         *)
(* A record is its version: a command saves one record as the next version *)
(* and logs that with all it saw.  Of the two kinds of rows and journals   *)
(* one stands for both.                                                    *)
(***************************************************************************)
EXTENDS AtomicStore

CONSTANTS Groups,                   \* store groups open on the database
          MaxJournal, MaxNesting    \* bounds of the instance

ASSUME UnitsAssumption ==
  /\ MaxJournal \in Nat /\ MaxBatch \in Nat /\ MaxJournal <= MaxBatch
  /\ "none" \notin Keys /\ "free" \notin Groups

VARIABLES lock,       \* group that has begun an immediate transaction, or "free"
          units,      \* per group: pc, image of its transaction, what _load returned,
                      \* snapshots of nested transactions, record saved and not yet logged
          memory,     \* per group: the containers, they outlive the transaction
          promised    \* journal of the last unit whose caller learned that it was done

vars == <<storeVars, lock, units, memory, promised>>

Stored == [records |-> records, journal |-> journal]

Empty == [records |-> [k \in Keys |-> 0], journal |-> <<>>]

Closed == [pc |-> "closed"]

Init ==
  /\ StoreInit
  /\ lock = "free"
  /\ units = [u \in Groups |-> Closed]
  /\ memory = [u \in Groups |-> Empty]
  /\ promised = <<>>

Goto(u, pc) == units' = [units EXCEPT ![u].pc = pc]

\* before_transaction may fail: then nothing has begun.
Begin(u) ==
  /\ units[u] = Closed /\ lock = "free"
  /\ lock' = u
  /\ units' = [units EXCEPT ![u] = [pc |-> "begun", image |-> Stored, before |-> Empty,
                                    nested |-> <<>>, saved |-> "none"]]
  /\ UNCHANGED <<storeVars, memory, promised>>

\* Mutant: containers that were filled before are not read again.
LoadOnce(u) ==
  /\ units[u].pc = "begun"
  /\ LET content == IF memory[u] = Empty THEN units[u].image ELSE memory[u] IN
       /\ memory' = [memory EXCEPT ![u] = content]
       /\ units' = [units EXCEPT ![u].pc = "open", ![u].before = content]
  /\ UNCHANGED <<storeVars, lock, promised>>

Load(u) ==
  /\ units[u].pc = "begun"
  /\ memory' = [memory EXCEPT ![u] = units[u].image]
  /\ units' = [units EXCEPT ![u].pc = "open", ![u].before = units[u].image]
  /\ UNCHANGED <<storeVars, lock, promised>>

\* A command saves its record first and logs it then.
Save(u, k) ==
  /\ units[u].pc = "open" /\ units[u].saved = "none" /\ Len(memory[u].journal) < MaxJournal
  /\ memory' = [memory EXCEPT ![u].records[k] = @ + 1]
  /\ units' = [units EXCEPT ![u].saved = k]
  /\ UNCHANGED <<storeVars, lock, promised>>

Log(u) ==
  LET k == units[u].saved
      seen == [memory[u].records EXCEPT ![k] = @ - 1]
  IN /\ units[u].pc = "open" /\ k # "none"
     /\ memory' = [memory EXCEPT ![u].journal = Append(@, [key |-> k, seen |-> seen])]
     /\ units' = [units EXCEPT ![u].saved = "none"]
     /\ UNCHANGED <<storeVars, lock, promised>>

Nest(u) ==
  /\ units[u].pc = "open" /\ units[u].saved = "none" /\ Len(units[u].nested) < MaxNesting
  /\ units' = [units EXCEPT ![u].nested = Append(@, memory[u])]
  /\ UNCHANGED <<storeVars, lock, memory, promised>>

NestedDone(u) ==
  /\ units[u].pc = "open" /\ units[u].saved = "none" /\ units[u].nested # <<>>
  /\ units' = [units EXCEPT ![u].nested = Front(@)]
  /\ UNCHANGED <<storeVars, lock, memory, promised>>

\* Mutant: a nested transaction gives the records back, the journals stay.
RestoreRecords(u) == [memory[u] EXCEPT !.records = Last(units[u].nested).records]

\* What the containers are restored to, the journals and their ids among them.
Restored(u) == Last(units[u].nested)

\* The innermost transaction fails and its caller goes on; if nobody catches
\* the error, the outer ones fail too.
NestedFail(u) ==
  /\ units[u].pc = "open" /\ units[u].nested # <<>>
  /\ memory' = [memory EXCEPT ![u] = Restored(u)]
  /\ units' = [units EXCEPT ![u].nested = Front(@), ![u].saved = "none"]
  /\ UNCHANGED <<storeVars, lock, promised>>

\* The block is over: _flush begins.
Finish(u) ==
  /\ units[u].pc = "open" /\ units[u].saved = "none" /\ units[u].nested = <<>>
  /\ Goto(u, "flush")
  /\ UNCHANGED <<storeVars, lock, memory, promised>>

\* One row: a changed record, where the row still has the version that was read.
WriteRecord(u, k) ==
  /\ units[u].pc = "flush"
  /\ memory[u].records[k] # units[u].before.records[k]
  /\ units[u].image.records[k] = units[u].before.records[k]
  /\ units' = [units EXCEPT ![u].image.records[k] = memory[u].records[k]]
  /\ UNCHANGED <<storeVars, lock, memory, promised>>

\* The events that were not there before, when the records are written.
WriteJournal(u) ==
  LET new == SubSeq(memory[u].journal, Len(units[u].before.journal) + 1, Len(memory[u].journal))
  IN /\ units[u].pc = "flush"
     /\ \A k \in Keys : memory[u].records[k] # units[u].before.records[k] =>
                          units[u].image.records[k] = memory[u].records[k]
     /\ units' = [units EXCEPT ![u].pc = "flushed", ![u].image.journal = @ \o new]
     /\ UNCHANGED <<storeVars, lock, memory, promised>>

Commit(u) ==
  /\ units[u].pc = "flushed"
  /\ records' = units[u].image.records /\ journal' = units[u].image.journal
  /\ lock' = "free"
  /\ Goto(u, "committed")
  /\ UNCHANGED <<memory, promised>>

\* The caller has its result, unless after_commit fails.
Return(u) ==
  /\ units[u].pc = "committed"
  /\ units' = [units EXCEPT ![u] = Closed]
  /\ promised' = memory[u].journal
  /\ UNCHANGED <<storeVars, lock, memory>>

\* The block, the flush or the commit fails: rolled back.  After the commit
\* the caller meets an error although all is done.  The memory stays as it is.
Fail(u) ==
  /\ units[u] # Closed
  /\ units' = [units EXCEPT ![u] = Closed]
  /\ lock' = IF lock = u THEN "free" ELSE lock
  /\ UNCHANGED <<storeVars, memory, promised>>

\* The process dies, SQLite rolls back what was not committed.
Crash(u) ==
  /\ units' = [units EXCEPT ![u] = Closed]
  /\ memory' = [memory EXCEPT ![u] = Empty]
  /\ lock' = IF lock = u THEN "free" ELSE lock
  /\ UNCHANGED <<storeVars, promised>>

Next ==
  \E u \in Groups :
    \/ Begin(u) \/ Load(u) \/ Log(u) \/ Nest(u) \/ NestedDone(u) \/ NestedFail(u) \/ Finish(u)
    \/ \E k \in Keys : Save(u, k) \/ WriteRecord(u, k)
    \/ WriteJournal(u) \/ Commit(u) \/ Return(u) \/ Fail(u) \/ Crash(u)

Spec == Init /\ [][Next]_vars

-----------------------------------------------------------------------------
\* The database goes from one whole unit to the next, whatever fails in between:
\* never a record without its event or an event without its record, also after
\* nested transactions that failed, and each command on the records that are
\* there when it takes effect (sqlite_store.py 456-493, 766-860).
ImplementsAtomicStore == StoreSpec

\* What a caller was told to be done stays done.
PromisedIsDurable == IsPrefix(promised, journal)
=============================================================================
