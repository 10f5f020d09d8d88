SPECIFICATION Spec
CONSTANTS
  KeyHalf = 4
  Modulus = 16
  m1 = m1
  m2 = m2
  Keys <- AllKeys
  Mirrors = {m1, m2}
  NilWriter = NilWriter
  Replicas = 3
  Shards = 3
  MaxSets = 4
  MaxReads = 17
INVARIANTS
  RoutedByResidue
  ReadsBalanced
  MirrorsAsConfigured
CHECK_DEADLOCK FALSE
SYMMETRY MirrorSymmetry
