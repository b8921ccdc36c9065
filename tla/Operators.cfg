SPECIFICATION Spec
CONSTANTS
  Operators = {o1, o2}
  Tokens = {t1, t2}
  Workers = {w1, w2}
  SessionSeconds = 1
  Budget = 1
  Window = 1
  MaxTime = 1
  MaxRestarts = 1
SYMMETRY Symmetry
INVARIANTS
  NothingAfterDisabling
  AnAdminRemains
PROPERTIES
  ModesChangeUnderAuthority
