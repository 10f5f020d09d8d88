SPECIFICATION Spec
CONSTANTS
  Callers = {c1, c2}
  Keys = {k1, k2}
  MaxUpserts = 3
  MaxGets = 1
SYMMETRY Permuted
INVARIANTS
  OverlapExplainsStale
CHECK_DEADLOCK FALSE
