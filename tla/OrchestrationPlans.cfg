SPECIFICATION FairSpec
CONSTANTS
  a1 = a1
  Tasks = {"t1", "t2"}
  Required = {"t1"}
  Agents = {a1}
  MaxReplans = 1
  MaxIterations = 3
  MaxWidth = 2
  MaxAgentRuns = 2
  MaxFailed = 2
  MaxRetries = 1
  MaxRedelegations = 1
  OperatorMayCancel = {"goal"}
  MaxPlanners = 2
  MaxApprovals = 1
  NamedChildren = 0
  Proposals <- SomePlans
INVARIANTS
  CompletionIsEarned
  NoOrphanTask
  TaskMirrorsChild
  WorkIsBounded
PROPERTIES
  DependenciesFirst
  PlanningEnds
CHECK_DEADLOCK FALSE
