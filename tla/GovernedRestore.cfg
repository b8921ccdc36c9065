SPECIFICATION RestoreSpec
CONSTANTS
  Ids = {i1, i2}
  Drivers = {d1}
  Effects = {"ALLOW", "REQUIRED"}
  OperatorKinds = {}
  Restrictions = {}
  MaxIterations = 2
  MaxToolCalls = 2
  Deadline = 2
  Expiry = 1
  MaxTime = 1
  MaxVersion = 9
  MaxPolicy = 1
  MaxRevision = 0
  MaxCrashes = 0
  MaxFaults = 0
  MaxRestores = 1
SYMMETRY Symmetry
CHECK_DEADLOCK FALSE
INVARIANTS
  AtMostOnceAcrossRestore
  OpenActionHoldsIteration
