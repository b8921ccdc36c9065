SPECIFICATION CallersSpec
CONSTANTS
  Workspaces = {w1}
  Goals = {g1}
  Tasks = {t1}
  Executions = {e1}
  Attempts = {a1}
  Bounds = {1}
  MaxVersion = 4
  None = None
  Callers = {c1, c2}
SYMMETRY Symmetry
CHECK_DEADLOCK FALSE
PROPERTY NoLostUpdate
