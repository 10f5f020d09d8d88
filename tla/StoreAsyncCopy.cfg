SPECIFICATION FairSpec
CONSTANTS
  c1 = c1
  c2 = c2
  Callers = {c1, c2}
  Flushers = {f1}
  Sets = 3
  Batchers = {1, 2}
  Calls <- CallsOfTwo
INVARIANT AcceptedWhole
INVARIANT BarrierNeverSplits
INVARIANT ReportsHonest
PROPERTY EveryoneReturns
CHECK_DEADLOCK FALSE
