SPECIFICATION Spec
CONSTANTS
  Runs = {r1, r2}
  Sources = {s1}
  MaxContent = 2
  MaxPacks = 1
  Deadline = 2
  MaxTime = 2
  Claims = {"yes", "no"}
  Supplied = {"yes"}
  Stated <- Restates
  MaxEntries = 2
  MaxIterations = 1
SYMMETRY Symmetry
INVARIANTS
  DurableKeysMatch
  PromotionIsEntry
  SupersessionIsALine
PROPERTIES
  SuccessStandsOnLiveEvidence
CHECK_DEADLOCK FALSE
