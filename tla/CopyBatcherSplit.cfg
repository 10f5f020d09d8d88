SPECIFICATION FairSpec
CONSTANTS
  NumRequests = 2
  MaxRows = 3
  CoalescedSizes = {1, 3}
  UnbatchedSizes = {1}
  RefusedSizes = {0, 2}
  MaxRowsPerBatch = 2
  MaxConcurrentBatches = 2
  Flushes = {f1}
  NoFlush = NoFlush
INVARIANTS
  ConcurrencyLimit
  Accounting
PROPERTIES
  ImplementsAsyncCopy
  FlushCompletes
