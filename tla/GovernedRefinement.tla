------------------------- MODULE GovernedRefinement -------------------------
(***************************************************************************)
(* GovernedExecution implements EffectPromise: the ledger is what happens, *)
(* the dispatch claim is the commitment, the receipt is the verdict.       *)
(***************************************************************************)
EXTENDS GovernedExecution

\* What an intent says of the permission for its action.
Permission(r) ==
  IF r.effect = "none" THEN "none"
  ELSE IF \/ r.cancelled \/ r.effect = "DENY"
          \/ r.decision \in {"REJECTED", "REVOKED", "EXPIRED"} THEN "gone"
  ELSE IF r.effect = "ALLOW" \/ r.decision = "APPROVED" THEN "given"
  ELSE "asked"

permissionBar == [i \in Ids |-> Permission(intents[i])]

committedBar == {i \in Ids : Claimed(i)}

Promise == INSTANCE EffectPromise
  WITH permission <- permissionBar, committed <- committedBar,
       effect <- ledger, verdict <- receipts

\* Driving, approving, resuming, crashing, failing commits and recovering keep
\* the promise for every action: each step is one step of EffectPromise or
\* invisible to it (invoke, _reconcile, decide, cancel, expire, reconcile).
ImplementsEffectPromise == Promise!Spec
=============================================================================
