SPECIFICATION Spec
CONSTANTS
  Groups = {g1, g2}
  Keys = {k1, k2}
  MaxBatch = 4
  MaxJournal = 4
  MaxNesting = 2
SYMMETRY Symmetry
INVARIANTS
  PromisedIsDurable
PROPERTIES
  ImplementsAtomicStore
