SPECIFICATION Spec
CONSTANTS
  Ids = {i1}
  Drivers = {d1, d2}
  Effects = {"ALLOW", "REQUIRED", "DENY"}
  OperatorKinds = {"execution"}
  Restrictions = {"RESTORE_QUARANTINE"}
  MaxIterations = 2
  MaxToolCalls = 1
  Deadline = 2
  Expiry = 1
  MaxTime = 1
  MaxVersion = 4
  MaxPolicy = 1
  MaxRevision = 0
  MaxCrashes = 1
  MaxFaults = 1
CHECK_DEADLOCK FALSE
INVARIANTS
  AtMostOnceDispatch
  ReceiptsAreTrue
  SuccessIsProven
PROPERTIES
  ImplementsEffectPromise
