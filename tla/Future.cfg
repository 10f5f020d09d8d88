SPECIFICATION FairFutureSpec
CONSTANTS
  r1 = r1
  r2 = r2
  w1 = w1
  w2 = w2
  Resolvers = {r1, r2}
  Waiters = {w1, w2}
INVARIANTS
  OneResult
  CompletedWins
PROPERTY
  AwaitReturns
