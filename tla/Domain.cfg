SPECIFICATION Spec
CONSTANTS
  Workspaces = {w1, w2}
  Goals = {g1}
  Tasks = {t1, t2}
  Executions = {e1, e2}
  Attempts = {a1, a2}
  Bounds = {1}
  MaxVersion = 4
  None = None
SYMMETRY Symmetry
CHECK_DEADLOCK FALSE
INVARIANTS
  OutcomesHaveEvidence
  AttemptLineage
  ExecutionBounds
PROPERTY ImplementsPromise
