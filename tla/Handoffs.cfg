SPECIFICATION HandoffSpec
CONSTANTS
  a1 = a1
  a2 = a2
  a3 = a3
  Tasks = {"t1"}
  Required = {"t1"}
  Agents = {a1, a2, a3}
  MaxReplans = 1
  MaxIterations = 5
  MaxWidth = 2
  MaxAgentRuns = 2
  MaxFailed = 2
  MaxRetries = 1
  MaxRedelegations = 2
  OperatorMayCancel = {"goal", "task", "execution"}
  MaxPlanners = 0
  MaxApprovals = 0
  NamedChildren = 1
  MaxHandoffs = 2
  MaxDepth = 2
  Proposals <- AloneOnly
SYMMETRY AgentSymmetry
INVARIANTS
  AssignmentsMoveOn
  OneTransferPerRun
  CompletionIsTheTransfers
PROPERTY
  ImplementsDelivery
CHECK_DEADLOCK FALSE
