------------------------------ MODULE StoreBuild ------------------------------
(***************************************************************************)
(* NewStore of the generated code: a topology is described by options      *)
(* (Singleton, Sharded), the store's own options are applied, and          *)
(* buildStore makes the mesh, one copy batcher per copy query and replica  *)
(* set, and the query groups, which the factories of the options may wrap. *)
(* The factories are the caller's code, and may use the group they get.    *)
(* The mesh of a sharded store comes from OpenMesh, step by step.          *)
(***************************************************************************)
EXTENDS OpenMesh, Folds

CONSTANTS
  NilDB,              \* a nil DBTX
  Databases,          \* the DBTX values that callers hold
  CopyQueries,        \* the copy queries, in generated order
  Groups,             \* the query groups, in generated order
  SingletonLists,     \* the lists of SingletonOption that callers pass
  ShardedLists,       \* the lists of ShardedOption that callers pass
  StoreLists          \* the lists of StoreOption that callers pass

VARIABLES
  topology,           \* the Topology of the call
  given,              \* the StoreOption list of the call
  options,            \* storeOptions
  dbs,                \* the database under each open node
  batchers,           \* for each copy query, its state: name to batcher
  groups,             \* what each group of the store leads to
  called,             \* the factories that have been called
  stage,              \* where NewStore is
  storeErr            \* the error it has returned

storeVars == <<topology, given, options, dbs, batchers, groups, called, stage, storeErr>>

\* A nil StoreOption, SingletonOption or ShardedOption.
NilOpt == [field |-> "nil option", value |-> "nil"]

-----------------------------------------------------------------------------
(* Topologies.                                                             *)

Empty == ""

NoTopology ==
  [kind |-> "nil", err |-> "none", name |-> "default", primary |-> NilDB,
   replicas |-> <<>>, mirrors |-> <<>>, count |-> 0, hasher |-> NilHasher,
   resolver |-> FALSE, sets |-> <<>>, mappings |-> <<>>]

\* WithDatabaseName replaces, WithReadReplicas and WithWriteMirrors append.
singletonOption(t, o) ==
  IF t.err # "none" THEN t
  ELSE IF o = NilOpt THEN [t EXCEPT !.err = "nil singleton option"]
  ELSE IF o.field = "name" THEN [t EXCEPT !.name = o.value]
  ELSE [t EXCEPT ![o.field] = @ \o o.value]

Singleton(primary, list) ==
  FoldLeft(singletonOption,
           [NoTopology EXCEPT !.kind = "singleton", !.primary = primary], list)

\* WithReplicaSet and WithVirtualShardMapping append.
shardedOption(t, o) ==
  IF t.err # "none" THEN t
  ELSE IF o = NilOpt THEN [t EXCEPT !.err = "nil sharded option"]
  ELSE [t EXCEPT ![o.field] = Append(@, o.value)]

Sharded(count, hasher, resolver, list) ==
  FoldLeft(shardedOption,
           [NoTopology EXCEPT !.kind = "sharded", !.count = count,
                              !.hasher = hasher, !.resolver = resolver], list)

-----------------------------------------------------------------------------
(* Store options.                                                          *)

OptionFields == {"meter"} \cup Range(Groups) \cup Range(CopyQueries)

NoOptions == [f \in OptionFields \cup {"err"} |-> "nil"]

\* One round of applyStoreOptions: each option assigns its own field.
storeOption(result, o) ==
  IF result["err"] # "nil" THEN result
  ELSE IF o = NilOpt THEN [NoOptions EXCEPT !["err"] = "nil store option"]
  ELSE [result EXCEPT ![o.field] = o.value]

applyStoreOptions(list) == FoldLeft(storeOption, NoOptions, list)

-----------------------------------------------------------------------------
StoreInit ==
  /\ topology = NoTopology /\ given = <<>> /\ options = NoOptions
  /\ dbs = <<>> /\ batchers = [q \in Range(CopyQueries) |-> <<>>]
  /\ groups = [g \in Range(Groups) |-> "nil"] /\ called = {}
  /\ stage = "new" /\ storeErr = "none"
  /\ config = [replicaSets |-> <<>>, mappings |-> <<>>, count |-> 0,
               hasher |-> NilHasher, opener |-> TRUE]
  /\ opened = <<>> /\ replicaSets = <<>> /\ configured = <<>>
  /\ pc = "idle" /\ at = 1 /\ err = "none"
  /\ builder = NewBuilder(0) /\ log = <<>> /\ mesh = NoMesh

\* Deviation: the groups are made first.
stagesDeviation == <<"groups", "batchers">>

\* What buildStore does once it has a mesh: initializeCopyBatchers (when there
\* are copy queries), then initializeGroups.
stages == IF CopyQueries = <<>> THEN <<"groups">> ELSE <<"batchers", "groups">>

Fail(e) == stage' = "returned" /\ storeErr' = e

\* The caller builds a topology value; a nil one is another choice.
NewTopology ==
  /\ stage = "new"
  /\ \/ \E p \in Databases \cup {NilDB}, list \in SingletonLists :
          topology' = Singleton(p, list)
     \/ \E n \in ShardCounts, h \in Hashers \cup {NilHasher}, r \in BOOLEAN,
           list \in ShardedLists : topology' = Sharded(n, h, r, list)
     \/ topology' = NoTopology
  /\ stage' = "topology"
  /\ UNCHANGED <<given, options, dbs, batchers, groups, called, storeErr, openVars>>

\* NewStore
NewStore(list) ==
  /\ stage = "topology"
  /\ given' = list
  /\ LET o == applyStoreOptions(list)
     IN  IF topology.kind = "nil" THEN Fail("nil topology") /\ UNCHANGED options
         ELSE IF o["err"] # "nil" THEN Fail(o["err"]) /\ UNCHANGED options
         ELSE options' = o /\ stage' = "build" /\ UNCHANGED storeErr
  /\ UNCHANGED <<topology, dbs, batchers, groups, called, openVars>>

\* The checks of singletonTopology.buildStore.
singletonError(t) ==
  IF t.err # "none" THEN t.err
  ELSE IF t.primary = NilDB THEN "nil primary"
  ELSE IF NilDB \in Range(t.replicas) THEN "nil replica"
  ELSE IF NilDB \in Range(t.mirrors) THEN "nil mirror"
  ELSE "none"

\* Creating the instruments fails with a provider that cannot make them, and
\* may fail with the global provider that NewMeshBuilder starts from.
TelemetryFails == IF options["meter"] = "bad" THEN {TRUE} ELSE BOOLEAN

\* singletonTopology.buildStore, up to the mesh: one virtual shard, a constant
\* hasher, one replica set with the replicas and the mirrors of the options.
BuildSingleton ==
  /\ stage = "build" /\ topology.kind = "singleton"
  /\ \E failed \in TelemetryFails :
       LET t    == topology
           name == IF t.name = Empty THEN "default" ELSE t.name
           last == 1 + Len(t.replicas)
           set  == WithWriteMirrors(NewReplicaSet([replicas |-> t.replicas], last),
                                    [j \in DOMAIN t.mirrors |-> last + j])
           b    == Map([NewBuilder(1) EXCEPT !.hasher = "constant",
                          !.err = IF failed THEN "telemetry" ELSE "none"], 0, name)
           same == [s \in {name} |-> s]
           e    == IF singletonError(t) # "none" THEN singletonError(t)
                   ELSE BuildError(b, same)
       IN  IF e = "none"
           THEN /\ dbs' = <<t.primary>> \o t.replicas \o t.mirrors
                /\ configured' = name :> set
                /\ builder' = b /\ mesh' = Build(b, same)
                /\ log' = <<[op |-> "map", shard |-> 0, set |-> name]>>
                /\ stage' = stages[1] /\ UNCHANGED storeErr
           ELSE Fail(e) /\ UNCHANGED <<dbs, configured, builder, log, mesh>>
  /\ UNCHANGED <<topology, given, options, batchers, groups, called,
                 config, opened, replicaSets, pc, at, err>>

\* Deviation: the DSN of a node does not say which replica set it is of.
dsnDeviation(k, j) == <<1, j>>

\* The made-up DSN of the primary (j = 0) or of replica j of replica set k.
dsn(k, j) == <<k, j>>

\* The map from a DSN to its database: a later entry replaces an earlier one.
nodes(sets) ==
  FoldLeft(LAMBDA m, k : [d \in {dsn(k, j) : j \in 0 .. Len(sets[k].replicas)} |->
                            (<<sets[k].primary>> \o sets[k].replicas)[d[2] + 1]] @@ m,
           <<>>, [k \in DOMAIN sets |-> k])

\* shardedTopology.buildStore, up to the call of OpenMesh.
BuildSharded ==
  /\ stage = "build" /\ topology.kind = "sharded"
  /\ LET t == topology
         e == IF t.err # "none" THEN t.err
              ELSE IF ~ t.resolver THEN "nil resolver" ELSE "none"
     IN  IF e # "none" THEN Fail(e) /\ UNCHANGED <<config, pc>>
         ELSE /\ config' =
                   [replicaSets |-> [k \in DOMAIN t.sets |->
                      [name |-> t.sets[k].name, primary |-> dsn(k, 0),
                       replicas |-> [j \in DOMAIN t.sets[k].replicas |-> dsn(k, j)]]],
                    mappings |-> t.mappings, count |-> t.count,
                    hasher |-> t.hasher, opener |-> TRUE]
              /\ pc' = "options" /\ stage' = "mesh" /\ UNCHANGED storeErr
  /\ UNCHANGED <<topology, given, options, dbs, batchers, groups, called,
                 opened, replicaSets, configured, at, err, meshVars>>

\* openNode of a sharded store: a nil database is refused.
OpenDatabase ==
  /\ pc = "open"
  /\ LET db == nodes(topology.sets)[NodeCalls(config.replicaSets)[at].dsn]
     IN  IF db = NilDB THEN OpenNodeFails /\ UNCHANGED dbs
                       ELSE OpenNode /\ dbs' = Append(dbs, db)

\* A step of OpenMesh.
MeshStep ==
  /\ stage = "mesh"
  /\ \/ OpenDatabase
     \/ /\ \/ Validate \/ ConfigureMirrors \/ MapNext \/ Finish
           \/ \E failed \in TelemetryFails : CreateBuilder(failed)
        /\ UNCHANGED dbs
  /\ UNCHANGED <<topology, given, options, batchers, groups, called, stage, storeErr>>

\* OpenMesh has returned.
MeshDone ==
  /\ stage = "mesh" /\ pc = "returned"
  /\ IF err = "none" THEN stage' = stages[1] /\ UNCHANGED storeErr ELSE Fail(err)
  /\ at' = 1
  /\ UNCHANGED <<topology, given, options, dbs, batchers, groups, called,
                 config, opened, replicaSets, configured, pc, err, meshVars>>

\* The calls of NewCopyBatcher: for each copy query, for each replica set.
batcherCalls ==
  FlattenSeq([k \in DOMAIN CopyQueries |->
    [n \in DOMAIN mesh.sets |-> [query |-> CopyQueries[k], set |-> mesh.sets[n]]]])

\* On to the next round of a loop of n rounds, or to what follows the loop.
Advance(loop, n) ==
  /\ stage' = IF at < n THEN loop ELSE IF loop = Last(stages) THEN "returned" ELSE stages[2]
  /\ at' = IF at < n THEN at + 1 ELSE 1

\* WriteRoute of the replica set that the batcher is for.
routeOf(set) == set

\* One round of the loops of initializeCopyBatchers: NewCopyBatcher refuses a
\* negative setting; a query without an option gets the zero configuration.
InitializeCopyBatcher ==
  /\ stage = "batchers"
  /\ LET call == batcherCalls[at]
     IN  IF options[call.query] = "negative"
         THEN Fail("copy batching") /\ UNCHANGED <<batchers, at>>
         ELSE /\ batchers' = [batchers EXCEPT ![call.query] =
                   call.set :> [config |-> options[call.query],
                                route |-> routeOf(call.set)] @@ @]
              /\ Advance("batchers", Len(batcherCalls))
              /\ UNCHANGED storeErr
  /\ UNCHANGED <<topology, given, options, dbs, groups, called,
                 config, opened, replicaSets, configured, pc, err, meshVars>>

\* One round of initializeGroups: the generated group, or the factory's wrap
\* of it behind the telemetry wrapper.  The factory runs in state "factory".
InitializeGroup ==
  /\ stage = "groups"
  /\ groups' = [groups EXCEPT ![Groups[at]] = "internal"]
  /\ IF options[Groups[at]] = "nil"
     THEN Advance("groups", Len(Groups)) /\ UNCHANGED called
     ELSE stage' = "factory" /\ called' = called \cup {Groups[at]} /\ UNCHANGED at
  /\ UNCHANGED <<topology, given, options, dbs, batchers, storeErr,
                 config, opened, replicaSets, configured, pc, err, meshVars>>

FactoryReturns ==
  /\ stage = "factory"
  /\ groups' = [groups EXCEPT ![Groups[at]] = options[Groups[at]]]
  /\ Advance("groups", Len(Groups))
  /\ UNCHANGED <<topology, given, options, dbs, batchers, called, storeErr,
                 config, opened, replicaSets, configured, pc, err, meshVars>>

\* NewStore is over.
StoreReturned == stage = "returned" /\ UNCHANGED <<storeVars, openVars>>

StoreNext ==
  \/ NewTopology
  \/ \E list \in StoreLists : NewStore(list)
  \/ BuildSingleton
  \/ BuildSharded
  \/ MeshStep
  \/ MeshDone
  \/ InitializeCopyBatcher
  \/ InitializeGroup
  \/ FactoryReturns
  \/ StoreReturned

StoreSpec == StoreInit /\ [][StoreNext]_<<storeVars, openVars>>

-----------------------------------------------------------------------------
Built == stage = "returned" /\ storeErr = "none"

\* A database is reached through the node made for it.
DatabasesOf(ns) == [i \in DOMAIN ns |-> dbs[ns[i]]]

ReadDatabases(primary, replicas) == IF replicas = <<>> THEN <<primary>> ELSE replicas

PrimaryNamed(name) ==
  (CHOOSE k \in DOMAIN topology.sets : topology.sets[k].name = name)

\* In a store that NewStore returns, every replica set works on the databases
\* that the topology's options gave to its name: the primary for writes, the
\* replicas (or the primary) for reads, and for the mirrors the primaries of
\* the replica sets named as mirrors; no nil database is among them.  The
\* generated code carries them through made-up DSNs and back.
DatabasesInPlace ==
  Built =>
    \A name \in Range(mesh.sets) :
      LET set == configured[name]
          t   == topology
      IN  /\ NilDB \notin Range(DatabasesOf(<<set.primary>> \o set.readers \o set.mirrors))
          /\ t.kind = "singleton" =>
               /\ dbs[set.primary] = t.primary
               /\ DatabasesOf(set.readers) = ReadDatabases(t.primary, t.replicas)
               /\ DatabasesOf(set.mirrors) = t.mirrors
          /\ t.kind = "sharded" =>
               LET own == t.sets[PrimaryNamed(name)]
               IN  /\ dbs[set.primary] = own.primary
                   /\ DatabasesOf(set.readers) = ReadDatabases(own.primary, own.replicas)
                   /\ \A k \in DOMAIN t.mappings :
                        t.mappings[k].main = name =>
                          DatabasesOf(set.mirrors) =
                            [i \in DOMAIN t.mappings[k].mirrors |->
                               t.sets[PrimaryNamed(t.mappings[k].mirrors[i])].primary]

\* A factory, which may already use the group it is given, runs on a store
\* that is whole: each copy query has, for each replica set of the mesh, one
\* batcher that writes to that replica set; CopyAsync looks them up by name and
\* calls what it finds.  And when NewStore returns an error no factory has run:
\* the caller's wrappers never hold a group of a store that was not returned.
FactoriesSeeWholeStore ==
  /\ stage = "factory" \/ Built =>
       \A q \in Range(CopyQueries) :
         /\ DOMAIN batchers[q] = Range(mesh.sets)
         /\ \A set \in Range(mesh.sets) : batchers[q][set].route = set
  /\ storeErr # "none" => called = {}
=============================================================================
