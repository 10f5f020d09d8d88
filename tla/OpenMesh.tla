------------------------------- MODULE OpenMesh -------------------------------
(***************************************************************************)
(* OpenMesh of topology.go: the options are applied in order, the          *)
(* configuration is validated, the nodes are opened one at a time, write   *)
(* mirrors are attached and the result goes through MeshBuilder.           *)
(* openNode is the caller's function and may fail at every call.  A node   *)
(* is known by the number of the call that opened it, a replica set by its *)
(* name: validation leaves one replica set per name (so NameOf is the      *)
(* identity on the names of Specs).                                        *)
(***************************************************************************)
EXTENDS MeshBuilder

CONSTANTS
  Specs,        \* arguments of WithReplicaSet: name, primary, replicas
  Mappings,     \* arguments of WithVirtualShardMapping: main, shards, mirrors
  MaxSpecs,     \* bound: WithReplicaSet options
  MaxMappings   \* bound: WithVirtualShardMapping options

VARIABLES
  config,       \* openMeshConfig
  opened,       \* the DSNs that openNode has opened, in order
  replicaSets,  \* the map from a name to its replica set
  configured,   \* the same, with write mirrors
  pc,           \* stage of the call
  at,           \* position in the stage's loop
  err           \* the error returned

meshVars == <<builder, log, mesh>>
openVars == <<config, opened, replicaSets, configured, pc, at, err, meshVars>>

FirstError(n, E(_)) ==
  LET bad == {k \in 1 .. n : E(k) # "none"}
  IN  IF bad = {} THEN "none" ELSE E(Min(bad))

SpecError(specs, k) ==
  LET s == specs[k]
  IN  IF s.name = Blank THEN "empty name"
      ELSE IF \E h \in 1 .. k - 1 : specs[h].name = s.name THEN "duplicate name"
      ELSE IF Blank \in {s.primary} \cup Range(s.replicas) THEN "empty DSN"
      ELSE "none"

MirrorError(names, m, k) ==
  IF m.mirrors[k] \notin names THEN "unknown replica set"
  ELSE IF m.mirrors[k] = m.main THEN "mirrors itself"
  ELSE IF \E h \in 1 .. k - 1 : m.mirrors[h] = m.mirrors[k] THEN "duplicate mirror"
  ELSE "none"

\* Deviation: only shards of earlier mappings count as mapped.
ShardTakenBefore(mappings, n, k) ==
  \E h \in 1 .. k - 1 : mappings[k].shards[n] \in Range(mappings[h].shards)

\* The shard at position n of mapping k has been claimed by an earlier one.
ShardTaken(mappings, n, k) ==
  \/ \E h \in 1 .. k - 1 : mappings[k].shards[n] \in Range(mappings[h].shards)
  \/ \E h \in 1 .. n - 1 : mappings[k].shards[h] = mappings[k].shards[n]

MappingError(c, names, k) ==
  LET m == c.mappings[k]
      mirror == FirstError(Len(m.mirrors), LAMBDA i : MirrorError(names, m, i))
      ShardErr(n) == IF m.shards[n] >= c.count THEN "out of range"
                     ELSE IF ShardTaken(c.mappings, n, k) THEN "already mapped"
                     ELSE "none"
  IN  IF m.main \notin names THEN "unknown replica set"
      ELSE IF mirror # "none" THEN mirror
      ELSE IF \E h \in 1 .. k - 1 : /\ c.mappings[h].main = m.main
                                    /\ c.mappings[h].mirrors # m.mirrors
           THEN "mirror configuration"
      ELSE FirstError(Len(m.shards), ShardErr)

Claimed(mappings) == UNION {Range(mappings[k].shards) : k \in DOMAIN mappings}

\* validateMeshConfig
validateMeshConfig(c) ==
  LET specs == c.replicaSets
      names == {specs[k].name : k \in DOMAIN specs}
      spec  == FirstError(Len(specs), LAMBDA k : SpecError(specs, k))
      mapping == FirstError(Len(c.mappings), LAMBDA k : MappingError(c, names, k))
  IN  IF specs = <<>> THEN "no replica sets"
      ELSE IF ~ c.opener THEN "nil opener"
      ELSE IF c.hasher = NilHasher THEN "nil hasher"
      ELSE IF c.count = 0 THEN "no virtual shards"
      ELSE IF spec # "none" THEN spec
      ELSE IF mapping # "none" THEN mapping
      ELSE IF ~ (0 .. c.count - 1 \subseteq Claimed(c.mappings)) THEN "not mapped"
      ELSE "none"

-----------------------------------------------------------------------------
OpenInit ==
  /\ \E n \in ShardCounts, hasher \in Hashers \cup {NilHasher}, opener \in BOOLEAN :
       config = [replicaSets |-> <<>>, mappings |-> <<>>,
                 count |-> n, hasher |-> hasher, opener |-> opener]
  /\ opened = <<>> /\ replicaSets = <<>> /\ configured = <<>>
  /\ pc = "options" /\ at = 1 /\ err = "none"
  /\ builder = NewBuilder(0) /\ log = <<>> /\ mesh = NoMesh

Goto(stage) == pc' = stage /\ at' = 1 /\ UNCHANGED err

Return(e) == pc' = "returned" /\ err' = e /\ UNCHANGED at

WithReplicaSet(spec) ==
  /\ pc = "options" /\ Len(config.replicaSets) < MaxSpecs
  /\ config' = [config EXCEPT !.replicaSets = Append(@, spec)]
  /\ UNCHANGED <<opened, replicaSets, configured, pc, at, err, meshVars>>

WithVirtualShardMapping(m) ==
  /\ pc = "options" /\ Len(config.mappings) < MaxMappings
  /\ config' = [config EXCEPT !.mappings = Append(@, m)]
  /\ UNCHANGED <<opened, replicaSets, configured, pc, at, err, meshVars>>

NilOption ==
  /\ pc = "options"
  /\ Return("nil option")
  /\ UNCHANGED <<config, opened, replicaSets, configured, meshVars>>

Validate ==
  /\ pc = "options"
  /\ LET e == validateMeshConfig(config)
     IN  IF e = "none" THEN Goto("open") ELSE Return(e)
  /\ UNCHANGED <<config, opened, replicaSets, configured, meshVars>>

\* The calls of openNode: for each replica set its primary (0), then its
\* replicas in order.
NodeCalls(specs) ==
  FlattenSeq([k \in DOMAIN specs |->
    [j \in 1 .. Len(specs[k].replicas) + 1 |->
      [spec |-> specs[k], replica |-> j - 1,
       dsn |-> IF j = 1 THEN specs[k].primary ELSE specs[k].replicas[j - 1]]]])

\* NewReplicaSet for the replica set whose last node is number n: reads go to
\* the replicas, or to the primary when there are none.
NewReplicaSet(spec, n) ==
  LET primary == n - Len(spec.replicas)
  IN  [primary |-> primary, mirrors |-> <<>>,
       readers |-> IF spec.replicas = <<>> THEN <<primary>>
                   ELSE [j \in DOMAIN spec.replicas |-> primary + j]]

OpenNode ==
  /\ pc = "open"
  /\ LET calls == NodeCalls(config.replicaSets)
         call  == calls[at]
     IN  /\ opened' = Append(opened, call.dsn)
         /\ replicaSets' = IF call.replica = Len(call.spec.replicas)
                           THEN call.spec.name :> NewReplicaSet(call.spec, at)
                                @@ replicaSets
                           ELSE replicaSets
         /\ IF at = Len(calls) THEN Goto("mirrors")
            ELSE at' = at + 1 /\ UNCHANGED <<pc, err>>
  /\ UNCHANGED <<config, configured, meshVars>>

OpenNodeFails ==
  /\ pc = "open"
  /\ Return("open")
  /\ UNCHANGED <<config, opened, replicaSets, configured, meshVars>>

\* Deviation: a mirror is written through the mirror's read target.
MirrorWritersRead(m) ==
  [k \in DOMAIN m.mirrors |-> replicaSets[m.mirrors[k]].readers[1]]

\* The primary writers of the mirrors, taken before any mirror is attached.
MirrorWriters(m) ==
  [k \in DOMAIN m.mirrors |-> replicaSets[m.mirrors[k]].primary]

\* WithWriteMirrors
WithWriteMirrors(set, writers) == [set EXCEPT !.mirrors = @ \o writers]

\* The first mapping of a main replica set attaches its mirrors.
ConfigureMirrors ==
  /\ pc = "mirrors"
  /\ LET m == config.mappings[at]
     IN  /\ configured' = IF m.main \in DOMAIN configured THEN configured
                          ELSE m.main :> WithWriteMirrors(replicaSets[m.main],
                                                          MirrorWriters(m))
                               @@ configured
         /\ IF at = Len(config.mappings) THEN Goto("builder")
            ELSE at' = at + 1 /\ UNCHANGED <<pc, err>>
  /\ UNCHANGED <<config, opened, replicaSets, meshVars>>

\* NewMeshBuilder and its With calls, of which the two that create the metric
\* instruments may fail.
CreateBuilder(failed) ==
  /\ pc = "builder"
  /\ builder' = [NewBuilder(config.count) EXCEPT
                   !.hasher = config.hasher,
                   !.err = IF failed THEN "telemetry" ELSE "none"]
  /\ log' = IF failed THEN <<[op |-> "meter"]>> ELSE <<>>
  /\ Goto("map")
  /\ UNCHANGED <<config, opened, replicaSets, configured, mesh>>

\* The calls of MapVirtualShard, in the order of the two loops.
MapCalls ==
  FlattenSeq([k \in DOMAIN config.mappings |->
    [n \in DOMAIN config.mappings[k].shards |->
      [shard |-> config.mappings[k].shards[n], set |-> config.mappings[k].main]]])

MapNext ==
  /\ pc = "map" /\ at <= Len(MapCalls)
  /\ MapVirtualShard(MapCalls[at].shard, MapCalls[at].set)
  /\ at' = at + 1
  /\ UNCHANGED <<config, opened, replicaSets, configured, pc, err>>

Finish ==
  /\ pc = "map" /\ at > Len(MapCalls)
  /\ BuildMesh
  /\ Return(BuildError(builder, NameOf))
  /\ UNCHANGED <<config, opened, replicaSets, configured>>

\* The call is over; nothing changes any more.
Returned == pc = "returned" /\ UNCHANGED openVars

OpenNext ==
  \/ \E spec \in Specs : WithReplicaSet(spec)
  \/ \E m \in Mappings : WithVirtualShardMapping(m)
  \/ NilOption
  \/ Validate
  \/ OpenNode
  \/ OpenNodeFails
  \/ ConfigureMirrors
  \/ \E failed \in BOOLEAN : CreateBuilder(failed)
  \/ MapNext
  \/ Finish
  \/ Returned

OpenSpec == OpenInit /\ [][OpenNext]_openVars

-----------------------------------------------------------------------------
\* A configuration that passes validateMeshConfig cannot be refused by the
\* builder: the two check the same topology with different code, and only a
\* metric instrument that cannot be created makes OpenMesh fail once nodes are
\* open and openNode has not.
ValidatedBuilds ==
  /\ pc \in {"builder", "map"} => builder.err \in {"none", "telemetry"}
  /\ pc = "returned" /\ opened # <<>> => err \in {"none", "open", "telemetry"}
  /\ mesh.built => err = "none"

\* Node n is the primary of the replica set called name.
PrimaryOf(n, name) ==
  \E k \in DOMAIN config.replicaSets :
    /\ config.replicaSets[k].name = name
    /\ n = Len(FlattenSeq([h \in 1 .. k - 1 |->
              <<config.replicaSets[h].primary>> \o config.replicaSets[h].replicas])) + 1

\* In the mesh returned, every virtual shard has exactly one claim in the
\* options and is routed by it: to the claim's main replica set, whose writes
\* go to its own primary and then to the primaries of the claim's mirrors, in
\* the order given, each once, never back to itself, and not on to the
\* mirrors' mirrors.
RoutesAsConfigured ==
  mesh.built =>
    \A v \in 0 .. config.count - 1 :
      /\ Cardinality({i \in DOMAIN MapCalls : MapCalls[i].shard = v}) = 1
      /\ \E k \in DOMAIN config.mappings :
           LET m   == config.mappings[k]
               set == configured[mesh.shards[v]]
           IN  /\ v \in Range(m.shards)
               /\ mesh.shards[v] = m.main
               /\ PrimaryOf(set.primary, m.main)
               /\ Len(set.mirrors) = Len(m.mirrors)
               /\ \A i \in DOMAIN set.mirrors :
                    /\ PrimaryOf(set.mirrors[i], m.mirrors[i])
                    /\ set.mirrors[i] # set.primary
                    /\ \A j \in 1 .. i - 1 : set.mirrors[j] # set.mirrors[i]
               /\ set.readers # <<>>
=============================================================================
