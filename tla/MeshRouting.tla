----------------------------- MODULE MeshRouting -----------------------------
(***************************************************************************)
(* How a built Mesh routes: a key is hashed to a virtual shard (hasher.go),*)
(* the virtual shard names a replica set (mesh.go), and the replica set    *)
(* picks a node: the primary for a write, the next of its read targets,    *)
(* round robin, for a read (replica_set.go, load_balancer.go).             *)
(*                                                                         *)
(* Integers keep their width: a key is of a signed Go type with the values *)
(* -KeyHalf .. KeyHalf - 1, a hash and a round-robin counter are uint64    *)
(* with the values 0 .. Modulus - 1.                                       *)
(*                                                                         *)
(* Slices are modelled as Go has them, a length and a shared array, because*)
(* WithWriteMirrors promises a copy: an append writes into the array of its*)
(* argument when there is room and into a new array otherwise.             *)
(***************************************************************************)
EXTENDS Integers, Sequences, Functions

CONSTANTS
  KeyHalf,      \* 2^(w-1) for a key type of w bits
  Modulus,      \* 2^64
  Keys,         \* the keys a caller routes
  Mirrors,      \* the writers a caller mirrors to
  NilWriter,    \* an unused cell of a slice's array
  Replicas,     \* number of replicas of the set NewReplicaSet is given
  Shards,       \* number of virtual shards
  MaxSets,      \* bound on the replica sets derived by WithWriteMirrors
  MaxReads      \* bound on the reads of a roundRobin

ASSUME WidthAssumption ==
  /\ KeyHalf \in Nat \ {0} /\ Modulus \in Nat /\ 2 * KeyHalf <= Modulus
  /\ Replicas \in Nat /\ Shards \in 1 .. Modulus - 1
  /\ Keys \subseteq -KeyHalf .. KeyHalf - 1

VARIABLES
  sets,      \* the ReplicaSet values created so far: the roundRobin of each
  slices,    \* and its writeMirrors, a slice [arr, len] of an array
  arrays,    \* the arrays behind them, a free cell being NilWriter
  given,     \* ghost: the mirrors each set was asked to have
  next,      \* the counter of each roundRobin
  picked,    \* ghost: how often each read target was picked
  wraps,     \* ghost: how often a counter passed Modulus - 1
  route      \* the last route handed out, and what it was asked for

vars == <<sets, slices, arrays, given, next, picked, wraps, route>>

-----------------------------------------------------------------------------
(* Hashing *)

uint64(x) == x % Modulus
keyType(x) == ((x + KeyHalf) % (2 * KeyHalf)) - KeyHalf   \* signed wrap-around

HashDeviation(key, n) ==
  IF key < 0
  THEN LET rem == uint64(keyType(-key)) % n IN IF rem = 0 THEN 0 ELSE n - rem
  ELSE uint64(key) % n

\* moduloShardHasher.Hash: the magnitude of a negative key is taken from key + 1,
\* whose negation always fits the type.
Hash(key, n) ==
  IF key < 0
  THEN LET magnitudeRemainder ==
             uint64(uint64(keyType(-keyType(key + 1))) + 1) % n
       IN  IF magnitudeRemainder = 0 THEN 0 ELSE n - magnitudeRemainder
  ELSE uint64(key) % n

constantHash(index) == index

-----------------------------------------------------------------------------
(* Replica sets *)

primaryTarget == [name |-> <<"primary">>, role |-> "primary"]

\* NewReplicaSet's read targets: the replicas, or the primary if there is none.
readTargets ==
  IF Replicas = 0 THEN <<primaryTarget>>
  ELSE [i \in 1 .. Replicas |-> [name |-> <<"replica", i - 1>>, role |-> "read_replica"]]

writeMirrors(i) == SubSeq(arrays[slices[i].arr], 1, slices[i].len)

\* append(slice, xs...) on heap: in place, or in a new array with some slack.
appended(heap, s, xs, slack) ==
  LET n == s.len + Len(xs)
      old == heap[s.arr]
      put(a) == [i \in 1 .. Len(a) |->
                   IF i \in s.len + 1 .. n THEN xs[i - s.len] ELSE a[i]]
      fresh == [i \in 1 .. n + slack |-> IF i <= s.len THEN old[i] ELSE NilWriter]
  IN  IF n <= Len(old)
      THEN [heap |-> [heap EXCEPT ![s.arr] = put(old)], arr |-> s.arr, len |-> n]
      ELSE [heap |-> Append(heap, put(fresh)), arr |-> Len(heap) + 1, len |-> n]

\* The roundRobin of a set is shared by the sets derived from it.
Init ==
  /\ sets = <<1>>
  /\ slices = <<[arr |-> 1, len |-> 0]>>
  /\ arrays = << <<>> >>
  /\ given = << <<>> >>
  /\ next = <<0>>
  /\ picked = [t \in Range(readTargets) |-> 0]
  /\ wraps = 0
  /\ route = [kind |-> "none"]

WithWriteMirrorsDeviation(i, m, slack) ==
  /\ Len(sets) < MaxSets
  /\ LET b == appended(arrays, slices[i], <<m>>, slack)
     IN  /\ arrays' = b.heap
         /\ slices' = Append(slices, [arr |-> b.arr, len |-> b.len])
  /\ sets' = Append(sets, sets[i])
  /\ given' = Append(given, Append(given[i], m))
  /\ UNCHANGED <<next, picked, wraps, route>>

WithWriteMirrorsOwnTargets(i, m, slack) ==
  /\ Len(sets) < MaxSets
  /\ LET a == appended(arrays, [arr |-> 1, len |-> 0], writeMirrors(i), slack)
         b == appended(a.heap, a, <<m>>, slack)
     IN  /\ arrays' = b.heap
         /\ slices' = Append(slices, [arr |-> b.arr, len |-> b.len])
  /\ sets' = Append(sets, Len(next) + 1)
  /\ next' = Append(next, 0)
  /\ given' = Append(given, Append(given[i], m))
  /\ UNCHANGED <<picked, wraps, route>>

\* The receiver's mirrors are copied into a slice of the copy's own (the nil
\* slice is the empty array 1), to which the new one is appended; the copy
\* shares the receiver's readTargets.
WithWriteMirrors(i, m, slack) ==
  /\ Len(sets) < MaxSets
  /\ LET a == appended(arrays, [arr |-> 1, len |-> 0], writeMirrors(i), slack)
         b == appended(a.heap, a, <<m>>, slack)
     IN  /\ arrays' = b.heap
         /\ slices' = Append(slices, [arr |-> b.arr, len |-> b.len])
  /\ sets' = Append(sets, sets[i])
  /\ given' = Append(given, Append(given[i], m))
  /\ UNCHANGED <<next, picked, wraps, route>>

-----------------------------------------------------------------------------
(* Routes *)

\* The virtual shards of a mesh over the sets made so far, mapped to them in
\* turn.
virtualShards == [v \in 0 .. Shards - 1 |-> 1 + (v % Len(sets))]

\* Mesh.Resolve of a hashed key.
Resolve(index) ==
  IF index >= Shards
  THEN [err |-> "ErrVirtualShardOutOfRange", index |-> 0, set |-> 0]
  ELSE [err |-> "", index |-> index, set |-> virtualShards[index]]

\* What a caller asks to route: a key through the modulo hasher, or any key
\* through a constant hasher, whose index nothing validates.
Asked == [key : Keys, hasher : {"modulo"}] \cup [key : 0 .. Shards, hasher : {"constant"}]

Index(a) == IF a.hasher = "modulo" THEN Hash(a.key, Shards) ELSE constantHash(a.key)

Metadata(index, s, target, writers) ==
  [virtualShard |-> index, set |-> s, node |-> target.name, role |-> target.role,
   mirrors |-> writers]

\* roundRobin.nextItem: Add(1) - 1, both modulo 2^64.
nextIndex(b) == uint64(uint64(next[b] + 1) - 1)

ReadRoute(a) ==
  LET r == Resolve(Index(a))
      b == sets[r.set]
      target == readTargets[1 + (nextIndex(b) % Len(readTargets))]
  IN  /\ r.err = ""
      /\ wraps * Modulus + next[b] < MaxReads
      /\ next' = [next EXCEPT ![b] = uint64(@ + 1)]
      /\ wraps' = wraps + (IF next[b] + 1 = Modulus THEN 1 ELSE 0)
      /\ picked' = [picked EXCEPT ![target] = @ + 1]
      /\ route' = [kind |-> "read", asked |-> a,
                   metadata |-> Metadata(r.index, r.set, target, <<>>)]
      /\ UNCHANGED <<sets, slices, arrays, given>>

WriteRoute(a) ==
  LET r == Resolve(Index(a))
  IN  /\ r.err = ""
      /\ route' = [kind |-> "write", asked |-> a,
                   metadata |-> Metadata(r.index, r.set, primaryTarget,
                                         writeMirrors(r.set))]
      /\ UNCHANGED <<sets, slices, arrays, given, next, picked, wraps>>

Refuse(a) ==
  /\ Resolve(Index(a)).err # ""
  /\ route' = [kind |-> "error", asked |-> a]
  /\ UNCHANGED <<sets, slices, arrays, given, next, picked, wraps>>

Next ==
  \/ \E i \in DOMAIN sets, m \in Mirrors, slack \in 0 .. 1 : WithWriteMirrors(i, m, slack)
  \/ \E a \in Asked : ReadRoute(a) \/ WriteRoute(a) \/ Refuse(a)

Spec == Init /\ [][Next]_vars

-----------------------------------------------------------------------------
(* Properties *)

\* NewModuloShardHasher's comment: "Signed keys use Euclidean modulo, so
\* negative values map into the same [0, virtualShardCount) range without
\* overflowing at the minimum integer value."  A key routed through the modulo
\* hasher is never refused, and reaches the set mapped to its residue; only an
\* index outside the mesh is refused.
RoutedByResidue ==
  route.kind # "none" =>
    LET a == route.asked
        residue == IF a.hasher = "modulo" THEN a.key % Shards ELSE a.key
    IN  IF route.kind = "error"
        THEN a.hasher = "constant" /\ residue >= Shards
        ELSE /\ route.metadata.virtualShard = residue
             /\ route.metadata.set \in DOMAIN sets

\* Reads of a replica set and of every copy WithWriteMirrors derived from it
\* rotate over the same targets: two targets differ by at most one read, and by
\* one more for each time the 64-bit counter wrapped around.
ReadsBalanced ==
  \A s, t \in Range(readTargets) : picked[s] - picked[t] <= 1 + wraps

\* WithWriteMirrors "returns a copy": whatever is derived from a replica set
\* later, each set keeps exactly the mirrors it was configured with, in order.
MirrorsAsConfigured ==
  \A i \in DOMAIN sets : writeMirrors(i) = given[i]
=============================================================================
