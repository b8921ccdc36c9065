SPECIFICATION FairSpec
CONSTANTS
  Ids = {i1}
  Drivers = {d1, d2}
  Effects = {"ALLOW", "REQUIRED"}
  OperatorKinds = {}
  Restrictions = {}
  MaxIterations = 2
  MaxToolCalls = 1
  Deadline = 2
  Expiry = 1
  MaxTime = 0
  MaxVersion = 4
  MaxPolicy = 1
  MaxRevision = 0
  MaxCrashes = 0
  MaxFaults = 1
CHECK_DEADLOCK FALSE
PROPERTIES
  DispatchIsRecorded
  IterationIsReleased
