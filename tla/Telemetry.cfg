\* All nine instruments, three route modes and three batches.
SPECIFICATION Spec
CONSTANTS
  m1 = m1
  m2 = m2
  Modes = {"read", "primary", "transaction"}
  Routes <- TwoRoutes
  Reasons = {"full", "linger", "manual"}
  Batches = {b1, b2, b3}
  NumInstruments = 9
  Programs <- ThreePrograms
INVARIANTS
  GaugeExact
  SpansReportWhatRan
  BatchesRecorded
\* Every span ends and every batch is observed once.
CHECK_DEADLOCK FALSE
