----------------------------- MODULE MeshBuilder -----------------------------
(***************************************************************************)
(* MeshBuilder of builder.go: a fluent builder that keeps its first error, *)
(* and the immutable Mesh that Build returns.  A replica set is known by   *)
(* its pointer; NameOf gives the name it was created with, and two sets    *)
(* may have been given the same name.                                      *)
(***************************************************************************)
EXTENDS Integers, Sequences, FiniteSets, FiniteSetsExt, SequencesExt

CONSTANTS
  ShardCounts,  \* the virtual shard counts that callers ask for, zero included
  Sets,         \* the replica sets that callers of the builder hold
  NameOf,       \* replica set -> its name
  Blank,        \* a name that is empty after trimming
  NilSet,       \* a nil *ReplicaSet, and an unmapped virtual shard
  Hashers,      \* the shard hashers that callers hold
  NilHasher,
  Indexes,      \* the virtual shard indexes that callers pass
  MaxCalls      \* bound: logged calls

ASSUME BuilderAssumption ==
  /\ ShardCounts \subseteq Nat
  /\ NilSet \notin Sets
  /\ NilHasher \notin Hashers
  /\ Indexes \subseteq Nat
  /\ MaxCalls \in Nat

VARIABLES
  builder,      \* virtualShards, hasher and err of the MeshBuilder
  log,          \* history: the calls that may fail, in the order made
  mesh          \* the result of the last Build, if there is one

vars == <<builder, log, mesh>>

NoMesh == [built |-> FALSE]

NewBuilder(n) ==
  [shards |-> [v \in 0 .. n - 1 |-> NilSet], hasher |-> NilHasher, err |-> "none"]

\* Deviation: a later call forgets the first error.
MapForgets(b, v, set) ==
  IF v \notin DOMAIN b.shards THEN [b EXCEPT !.err = "out of range"]
  ELSE IF set = NilSet THEN [b EXCEPT !.err = "nil replica set"]
  ELSE IF b.shards[v] # NilSet THEN [b EXCEPT !.err = "already mapped"]
  ELSE [b EXCEPT !.shards[v] = set, !.err = "none"]

\* MapVirtualShard: the first failure is recorded and later calls do nothing.
Map(b, v, set) ==
  IF b.err # "none" THEN b
  ELSE IF v \notin DOMAIN b.shards THEN [b EXCEPT !.err = "out of range"]
  ELSE IF set = NilSet THEN [b EXCEPT !.err = "nil replica set"]
  ELSE IF b.shards[v] # NilSet THEN [b EXCEPT !.err = "already mapped"]
  ELSE [b EXCEPT !.shards[v] = set]

\* Deviation: names are not compared.
ShardErrorUnnamed(shards, name, v) ==
  IF shards[v] = NilSet THEN "not mapped"
  ELSE IF name[shards[v]] = Blank THEN "empty name"
  ELSE "none"

\* What the loop of Build finds wrong with virtual shard v, given that it has
\* found nothing wrong with the ones before it.
ShardError(shards, name, v) ==
  IF shards[v] = NilSet THEN "not mapped"
  ELSE IF name[shards[v]] = Blank THEN "empty name"
  ELSE IF \E u \in 0 .. v - 1 : /\ shards[u] \notin {NilSet, shards[v]}
                                /\ name[shards[u]] = name[shards[v]]
       THEN "duplicate name"
  ELSE "none"

BuildError(b, name) ==
  LET bad == {v \in DOMAIN b.shards : ShardError(b.shards, name, v) # "none"}
  IN  IF b.err # "none" THEN b.err
      ELSE IF DOMAIN b.shards = {} THEN "no virtual shards"
      ELSE IF b.hasher = NilHasher THEN "nil hasher"
      ELSE IF bad # {} THEN ShardError(b.shards, name, Min(bad))
      ELSE "none"

\* The replica sets in the order of the first virtual shard mapped to each.
InOrder(shards) ==
  LET first == {v \in DOMAIN shards :
                  \A u \in DOMAIN shards : shards[u] = shards[v] => v <= u}
      order == SetToSortSeq(first, LAMBDA u, v : u < v)
  IN  [i \in DOMAIN order |-> shards[order[i]]]

Build(b, name) ==
  IF BuildError(b, name) = "none"
  THEN [built |-> TRUE, shards |-> b.shards,
        sets |-> InOrder(b.shards), hasher |-> b.hasher]
  ELSE NoMesh

-----------------------------------------------------------------------------
(* The builder in the hands of a caller.                                   *)

\* NewMeshBuilder: creating the default instruments may already fail.
Init ==
  /\ \E n \in ShardCounts, failed \in BOOLEAN :
       /\ builder = [NewBuilder(n) EXCEPT
                       !.err = IF failed THEN "telemetry" ELSE "none"]
       /\ log = IF failed THEN <<[op |-> "meter"]>> ELSE <<>>
  /\ mesh = NoMesh

WithShardHasher(hasher) ==
  /\ builder' = [builder EXCEPT !.hasher = hasher]
  /\ UNCHANGED <<log, mesh>>

\* WithMeterProvider with a provider that cannot create the instruments; with
\* one that can, and in WithTracerProvider and WithLogger, nothing modelled
\* changes.
WithMeterProvider ==
  /\ Len(log) < MaxCalls
  /\ log' = Append(log, [op |-> "meter"])
  /\ builder' = [builder EXCEPT !.err = IF @ = "none" THEN "telemetry" ELSE @]
  /\ UNCHANGED mesh

MapVirtualShard(v, set) ==
  /\ Len(log) < MaxCalls
  /\ log' = Append(log, [op |-> "map", shard |-> v, set |-> set])
  /\ builder' = Map(builder, v, set)
  /\ UNCHANGED mesh

BuildMesh ==
  /\ mesh' = Build(builder, NameOf)
  /\ UNCHANGED <<builder, log>>

Next ==
  \/ \E hasher \in Hashers \cup {NilHasher} : WithShardHasher(hasher)
  \/ WithMeterProvider
  \/ \E v \in Indexes, set \in Sets \cup {NilSet} : MapVirtualShard(v, set)
  \/ BuildMesh

Spec == Init /\ [][Next]_vars

-----------------------------------------------------------------------------
\* A mesh that Build returned is fit for routing: every virtual shard leads to
\* a replica set, sets are told apart by their names (the generated stores
\* group rows by name), and ReplicaSets lists each of them exactly once, in
\* the order of the virtual shards.
MeshWellFormed ==
  mesh.built =>
    /\ mesh.shards # <<>>
    /\ \A v \in DOMAIN mesh.shards :
         /\ mesh.shards[v] # NilSet
         /\ NameOf[mesh.shards[v]] # Blank
         /\ \E i \in DOMAIN mesh.sets : mesh.sets[i] = mesh.shards[v]
    /\ \A i, j \in DOMAIN mesh.sets :
         NameOf[mesh.sets[i]] = NameOf[mesh.sets[j]] => i = j
    /\ \A i, j \in DOMAIN mesh.sets : i < j =>
         \E u \in DOMAIN mesh.shards :
           /\ mesh.shards[u] = mesh.sets[i]
           /\ \A v \in 0 .. u : mesh.shards[v] # mesh.sets[j]

\* What is wrong with call k of the log, judged by the calls before it.
CallError(k) ==
  IF log[k].op = "meter" THEN "telemetry"
  ELSE IF log[k].shard \notin DOMAIN builder.shards THEN "out of range"
  ELSE IF log[k].set = NilSet THEN "nil replica set"
  ELSE IF \E j \in 1 .. k - 1 : log[j].op = "map" /\ log[j].shard = log[k].shard
       THEN "already mapped"
  ELSE "none"

\* The error the builder holds is that of the first call that went wrong, and
\* the mapping is exactly that of the calls before it: whatever is called
\* afterwards, Build reports the first failure of the fluent chain.
FirstFailureReported ==
  LET wrong == {k \in DOMAIN log : CallError(k) # "none"}
      good  == IF wrong = {} THEN Len(log) ELSE Min(wrong) - 1
  IN  /\ builder.err = IF wrong = {} THEN "none" ELSE CallError(Min(wrong))
      /\ \A v \in DOMAIN builder.shards :
           LET owners == {log[k].set : k \in {i \in 1 .. good : log[i].shard = v}}
           IN  IF owners = {} THEN builder.shards[v] = NilSet
                              ELSE owners = {builder.shards[v]}
=============================================================================
