--------------------------- MODULE GovernedRestore ---------------------------
(***************************************************************************)
(* Backup and restore of the canonical database under a governed run       *)
(* (adapters/sqlite_backup.py) and the release from quarantine             *)
(* (adapters/operational_store.py).  The remote ledger is no part of a     *)
(* backup: after a restore the store may have forgotten a dispatch whose   *)
(* effect is real.                                                         *)
(*                                                                         *)
(* The host is stopped, the snapshot is restored into a new file and the   *)
(* host is started on that file; one snapshot is taken and restored at     *)
(* most MaxRestores times.                                                 *)
(***************************************************************************)
EXTENDS GovernedExecution

CONSTANT MaxRestores   \* bound of the model

VARIABLES
  snapshot,   \* the backed-up tables, or NoSnapshot
  restores    \* restore_incidents of the open database: its generation

restoreVars == <<vars, snapshot, restores>>

NoSnapshot == [taken |-> FALSE]

RestoreInit == Init /\ snapshot = NoSnapshot /\ restores = 0

Backup ==
  /\ ~snapshot.taken
  /\ snapshot' = [taken |-> TRUE, run |-> run, parents |-> parents, intents |-> intents,
                  invocations |-> invocations, receipts |-> receipts,
                  policy |-> policy, tool |-> tool, held |-> held]
  /\ UNCHANGED <<vars, restores>>

\* Mutant: the restored file opens as it is, unfenced and in normal mode.
RestoreUnfenced ==
  /\ snapshot.taken /\ restores < MaxRestores
  /\ run' = snapshot.run /\ parents' = snapshot.parents
  /\ intents' = snapshot.intents
  /\ invocations' = snapshot.invocations /\ receipts' = snapshot.receipts
  /\ policy' = snapshot.policy /\ tool' = snapshot.tool /\ held' = snapshot.held
  /\ mode' = "NORMAL"
  /\ restores' = restores + 1
  /\ pc' = [d \in Drivers |-> "idle"] /\ loc' = [d \in Drivers |-> NoLocals]
  /\ rec' = [pc |-> "idle", id |-> "none", seen |-> "none"]
  /\ UNCHANGED <<issued, remote, now, counts, snapshot>>

\* Every intent the snapshot knows is fenced, and the restored store opens in
\* quarantine.  Identifiers, ledger and clock are outside the snapshot.
Restore ==
  /\ snapshot.taken /\ restores < MaxRestores
  /\ run' = snapshot.run /\ parents' = snapshot.parents
  /\ intents' = snapshot.intents
  /\ invocations' = snapshot.invocations /\ receipts' = snapshot.receipts
  /\ policy' = snapshot.policy /\ tool' = snapshot.tool
  /\ held' = snapshot.held \cup {i \in Ids : snapshot.intents[i].effect # "none"}
  /\ mode' = "RESTORE_QUARANTINE"
  /\ restores' = restores + 1
  /\ pc' = [d \in Drivers |-> "idle"] /\ loc' = [d \in Drivers |-> NoLocals]
  /\ rec' = [pc |-> "idle", id |-> "none", seen |-> "none"]
  /\ UNCHANGED <<issued, remote, now, counts, snapshot>>

\* OperationalModeStore.release by an admin: only out of quarantine, only with
\* a recorded restore, and only while no intent is unfenced.
Release ==
  /\ mode = "RESTORE_QUARANTINE" /\ restores > 0
  /\ \A i \in Ids : intents[i].effect # "none" => i \in held
  /\ mode' = "NORMAL"
  /\ UNCHANGED <<db, issued, remote, now, policy, tool, held, procs, rec, counts,
                 snapshot, restores>>

RestoreNext ==
  \/ Next /\ UNCHANGED <<snapshot, restores>>
  \/ Backup \/ Restore \/ Release

RestoreSpec == RestoreInit /\ [][RestoreNext]_restoreVars

-----------------------------------------------------------------------------
\* However old the snapshot, and whether or not quarantine is released, no
\* action is executed twice: a dispatch the store forgot is never repeated.
AtMostOnceAcrossRestore == \A i \in Ids : entered[i] <= 1
=============================================================================
