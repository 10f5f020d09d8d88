SPECIFICATION FairSpec
CONSTANTS
  c1 = c1
  c2 = c2
  k1 = k1
  k2 = k2
  Callers = {c1, c2}
  Sets = 2
  Mirrors <- TwoAndOne
  Home <- TwoHomes
  Null = Null
  Nil = Nil
  Incomparable = Incomparable
  ResultKeys <- ReadKeys
  Stores <- ThreeStores
INVARIANTS
  ManyInInputOrder
  SentWhereItBelongs
  AllOrNothing
  SuccessMeansWritten
  MirrorsInOrder
PROPERTY
  CallReturns
\* Every caller calls once.
CHECK_DEADLOCK FALSE
