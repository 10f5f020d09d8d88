\* Zero or three virtual shards, index 3 always out of range.
SPECIFICATION ConstructionSpec
CONSTANTS
  ShardCounts <- Counts
  Sets <- BuilderSets
  NameOf <- Names
  Blank = "blank"
  NilSet = NilSet
  Hashers = {hasher}
  NilHasher = NilHasher
  Indexes <- Callable
  MaxCalls = 4
  Specs <- SomeSpecs
  Mappings <- SomeMappings
  MaxSpecs = 3
  MaxMappings = 2
  NilDB = NilDB
  Databases = {"d1", "d2", "d3"}
  CopyQueries <- Copies
  Groups <- TwoGroups
  SingletonLists <- SomeSingletons
  ShardedLists <- SomeShardeds
  StoreLists <- SomeStores
INVARIANTS
  MeshWellFormed
  FirstFailureReported
  ValidatedBuilds
  RoutesAsConfigured
  DatabasesInPlace
  FactoriesSeeWholeStore
