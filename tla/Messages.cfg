SPECIFICATION Spec
CONSTANTS
  Agents = {"lead", "worker", "chief", "owner"}
  Drafts <- SomeDrafts
  MaxVersions = 2
  MaxRevision = 5
  MaxMemberships = 1
  ReportingDepth = 2
  MaxTime = 1
  Runs <- SomeRuns
  AgentOf <- Agent
  TaskOf <- Task
  Ids = {m1, m2, m3}
  Threads = {t1}
  Correlations = {c1}
  MaxPerThread = 3
  MaxPerAgent = 2
  MaxPerRun = 3
  MaxRequests = 1
  Timeout = 1
  MaxCalls = 2
SYMMETRY Symmetry
INVARIANTS
  MessagesFollowRoutes
  ResponsesGoBack
  BudgetsHold
  OrganizationsAreHierarchies
PROPERTIES
  MessagesMoveOn
CHECK_DEADLOCK FALSE
