----------------------------- MODULE AtomicStore -----------------------------
(***************************************************************************)
(* What every other module takes a unit of work for: the commands of one   *)
(* transaction happen at once, each on what the former ones left, and the  *)
(* journal tells of all of them and of nothing else.                       *)
(***************************************************************************)
EXTENDS Naturals, SequencesExt

CONSTANTS Keys, MaxBatch

VARIABLES records,   \* version of each record
          journal    \* events: the record saved, and the records as they were

storeVars == <<records, journal>>

StoreInit == records = [k \in Keys |-> 0] /\ journal = <<>>

\* The records when the first i of the commands have saved theirs.
After(keys, i) ==
  [k \in Keys |-> records[k] + Cardinality({j \in 1..i : keys[j] = k})]

Transact(keys) ==
  /\ records' = After(keys, Len(keys))
  /\ journal' = journal \o [i \in 1..Len(keys) |-> [key |-> keys[i], seen |-> After(keys, i - 1)]]

StoreSpec ==
  StoreInit /\ [][\E keys \in BoundedSeq(Keys, MaxBatch) : Transact(keys)]_storeVars
=============================================================================
