SPECIFICATION Spec
CONSTANTS
  Ids = {i1}
  Drivers = {d1}
  Effects = {"REQUIRED"}
  OperatorKinds = {"goal", "task", "attempt", "execution"}
  Restrictions = {"MAINTENANCE"}
  MaxIterations = 2
  MaxToolCalls = 1
  Deadline = 2
  Expiry = 1
  MaxTime = 2
  MaxVersion = 5
  MaxPolicy = 2
  MaxRevision = 1
  MaxCrashes = 0
  MaxFaults = 0
SYMMETRY Symmetry
CHECK_DEADLOCK FALSE
INVARIANTS
  ClaimedStaysAuthorized
  EndedRunLeavesNoLiveParent
PROPERTY ClaimsOnlyWhenOpen
