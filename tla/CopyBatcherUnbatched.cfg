SPECIFICATION Spec
CONSTANTS
  NumRequests = 2
  MaxRows = 3
  CoalescedSizes = {1, 3}
  UnbatchedSizes = {3}
  RefusedSizes = {}
  MaxRowsPerBatch = 2
  MaxConcurrentBatches = 1
  Flushes = {}
  NoFlush = NoFlush
INVARIANTS
  PhysicalCopyWithinLimit
