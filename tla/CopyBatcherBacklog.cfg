SPECIFICATION TimedSpec
CONSTANTS
  NumRequests = 4
  MaxRows = 2
  CoalescedSizes = {1}
  UnbatchedSizes = {1, 2}
  RefusedSizes = {}
  MaxRowsPerBatch = 2
  MaxConcurrentBatches = 1
  Flushes = {}
  NoFlush = NoFlush
INVARIANTS
  Structure
  WorkConserving
  QueueDiscipline
PROPERTIES
  EveryCallResolves
