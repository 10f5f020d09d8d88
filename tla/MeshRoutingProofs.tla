-------------------------- MODULE MeshRoutingProofs --------------------------
(***************************************************************************)
(* Hashing, balancing and mirror configuration of MeshRouting for every    *)
(* integer width, number of shards, replicas and mirrors.                  *)
(***************************************************************************)
EXTENDS MeshRouting, TLAPS

-----------------------------------------------------------------------------
(* Remainders *)

\* A remainder is below its divisor.
LEMMA ModRange ==
  ASSUME NEW n \in Nat \ {0}, NEW a \in Int
  PROVE  a % n \in 0 .. n - 1
  OBVIOUS

\* A number below the divisor is its own remainder.
LEMMA ModSmall ==
  ASSUME NEW n \in Nat \ {0}, NEW a \in 0 .. n - 1
  PROVE  a % n = a
  OBVIOUS

\* Adding multiples of the divisor does not change the remainder.
LEMMA ModUnique ==
  ASSUME NEW n \in Nat \ {0}, NEW q \in Int, NEW r \in 0 .. n - 1
  PROVE  (n * q + r) % n = r
  OBVIOUS

\* Quotient and remainder make up the number.
LEMMA DivMod ==
  ASSUME NEW n \in Nat \ {0}, NEW a \in Int
  PROVE  a \div n \in Int /\ a = n * (a \div n) + (a % n)
  OBVIOUS

\* The Euclidean remainder of a negative number, from that of its magnitude.
LEMMA ModNegative ==
  ASSUME NEW n \in Nat \ {0}, NEW a \in Nat
  PROVE  (-a) % n = IF a % n = 0 THEN 0 ELSE n - (a % n)
<1> DEFINE q == a \div n
           r == a % n
<1>1. q \in Int /\ r \in 0 .. n - 1 /\ a = n * q + r
  BY DivMod, ModRange
<1> HIDE DEF q, r
<1>2. CASE r = 0
  <2>1. -a = n * (-q) + 0
    BY <1>1, <1>2
  <2>2. (n * (-q) + 0) % n = 0
    BY <1>1, ModUnique
  <2> QED
    BY Zenon, <2>1, <2>2, <1>2 DEF r
<1>3. CASE r # 0
  <2> DEFINE k == -q - 1
             d == n - r
  <2>1. k \in Int /\ d \in 0 .. n - 1 /\ -a = n * k + d
    BY <1>1, <1>3
  <2> HIDE DEF k, d
  <2>2. (n * k + d) % n = d
    BY Zenon, <2>1, ModUnique
  <2> QED
    BY Zenon, <2>1, <2>2, <1>3 DEF r, d
<1> QED
  BY Zenon, <1>2, <1>3

\* The remainder of the successor, as a counter meets it.
LEMMA ModSuccessor ==
  ASSUME NEW n \in Nat \ {0}, NEW a \in Nat
  PROVE  (a + 1) % n = IF (a % n) + 1 = n THEN 0 ELSE (a % n) + 1
<1> DEFINE q == a \div n
           r == a % n
<1>1. q \in Int /\ r \in 0 .. n - 1 /\ a = n * q + r
  BY DivMod, ModRange
<1> HIDE DEF q, r
<1>2. CASE r + 1 = n
  <2>1. a + 1 = n * (q + 1) + 0
    BY <1>1, <1>2
  <2>2. (n * (q + 1) + 0) % n = 0
    BY <1>1, ModUnique
  <2> QED
    BY Zenon, <2>1, <2>2, <1>2 DEF r
<1>3. CASE r + 1 # n
  <2>1. a + 1 = n * q + (r + 1)
    BY <1>1
  <2>2. (n * q + (r + 1)) % n = r + 1
    BY <1>1, <1>3, ModUnique
  <2> QED
    BY Zenon, <2>1, <2>2, <1>3 DEF r
<1> QED
  BY Zenon, <1>2, <1>3

-----------------------------------------------------------------------------
(* Hashing *)

\* Converting a number to the key's type leaves it alone if it fits.
LEMMA KeyTypeKeeps ==
  ASSUME NEW x \in -KeyHalf .. KeyHalf - 1
  PROVE  keyType(x) = x
<1>1. x + KeyHalf \in 0 .. (2 * KeyHalf) - 1
  BY WidthAssumption
<1>2. (x + KeyHalf) % (2 * KeyHalf) = x + KeyHalf
  BY <1>1, WidthAssumption, ModSmall
<1> QED
  BY <1>2, WidthAssumption DEF keyType

\* moduloShardHasher.Hash is the Euclidean remainder for every key of every
\* signed type up to 64 bits, its minimum included, and every number of shards.
THEOREM HashIsEuclidean ==
  ASSUME NEW key \in -KeyHalf .. KeyHalf - 1, NEW n \in 1 .. Modulus - 1
  PROVE  Hash(key, n) = key % n /\ Hash(key, n) \in 0 .. n - 1
<1>1. CASE key < 0
  <2>1. keyType(key + 1) = key + 1
    BY <1>1, WidthAssumption, KeyTypeKeeps
  <2>2. keyType(-(key + 1)) = -(key + 1)
    BY <1>1, WidthAssumption, KeyTypeKeeps
  <2>3. uint64(-(key + 1)) = -(key + 1)
    BY <1>1, WidthAssumption, ModSmall DEF uint64
  <2>4. uint64(-(key + 1) + 1) = -key
    BY <1>1, WidthAssumption, ModSmall DEF uint64
  <2> DEFINE magnitude == uint64(uint64(keyType(-keyType(key + 1))) + 1)
             a == -key
  <2>5. magnitude = a
    BY Zenon, <2>1, <2>2, <2>3, <2>4
  <2>6. Hash(key, n) = IF magnitude % n = 0 THEN 0 ELSE n - (magnitude % n)
    BY Zenon, <1>1 DEF Hash
  <2>7. Hash(key, n) = IF a % n = 0 THEN 0 ELSE n - (a % n)
    BY Zenon, <2>5, <2>6
  <2>8. a \in Nat /\ key = -a /\ n \in Nat \ {0} /\ key \in Int
    BY <1>1, WidthAssumption
  <2> HIDE DEF a
  <2>9. (-a) % n = IF a % n = 0 THEN 0 ELSE n - (a % n)
    BY Zenon, <2>8, ModNegative
  <2>10. key % n \in 0 .. n - 1
    BY Zenon, <2>8, ModRange
  <2> QED
    BY Zenon, <2>7, <2>8, <2>9, <2>10
<1>2. CASE ~(key < 0)
  <2>1. uint64(key) = key
    BY <1>2, WidthAssumption, ModSmall DEF uint64
  <2> QED
    BY <1>2, <2>1, WidthAssumption, ModRange DEF Hash
<1> QED
  BY Zenon, <1>1, <1>2

-----------------------------------------------------------------------------
(* Balancing *)

\* The positions of the read targets, among which the counter chooses.
Targets == 1 .. Len(readTargets)

\* There is a read target, and the positions name each of them once.
LEMMA ReadTargets ==
  /\ Len(readTargets) \in Nat \ {0}
  /\ Targets = DOMAIN readTargets
  /\ \A i \in Targets : readTargets[i] \in Range(readTargets)
  /\ \A t \in Range(readTargets) : \E i \in Targets : t = readTargets[i]
  /\ \A i, j \in Targets : readTargets[i] = readTargets[j] => i = j
<1>1. CASE Replicas = 0
  BY <1>1 DEF readTargets, Targets, Range
<1>2. CASE Replicas # 0
  <2>1. readTargets = [i \in 1 .. Replicas |-> [name |-> <<"replica", i - 1>>, role |-> "read_replica"]]
    BY Zenon, <1>2 DEF readTargets
  <2>2. Replicas \in Nat \ {0}
    BY Zenon, <1>2, WidthAssumption
  <2>3. Len(readTargets) = Replicas /\ DOMAIN readTargets = 1 .. Replicas
    BY <2>1, <2>2
  <2>4. \A i, j \in 1 .. Replicas : readTargets[i] = readTargets[j] => i = j
    BY <2>1, <2>2
  <2> QED
    BY Zenon, <2>2, <2>3, <2>4 DEF Targets, Range
<1> QED
  BY Zenon, <1>1, <1>2

\* How often target i was picked, without the pick that the current turn of the
\* counter already gave it and not yet to the targets behind it.
Turns(i) == picked[readTargets[i]] - (IF i - 1 < next[1] % Len(readTargets) THEN 1 ELSE 0)

\* One roundRobin serves every set, and within a turn of its counter all targets
\* have had the same number of turns; each wrap-around puts a target one ahead.
BalanceInv ==
  /\ sets \in Seq({1}) /\ Len(sets) \in Nat \ {0}
  /\ next \in [1 .. 1 -> 0 .. Modulus - 1]
  /\ wraps \in Nat
  /\ picked \in [Range(readTargets) -> Int]
  /\ \A i, j \in Targets : Turns(i) - Turns(j) <= wraps

\* Before the first read no target has been read.
LEMMA BalanceInvInit == Init => BalanceInv
<1> SUFFICES ASSUME Init PROVE BalanceInv
  BY Zenon
<1>1. next[1] = 0 /\ next \in [1 .. 1 -> 0 .. Modulus - 1]
  BY WidthAssumption DEF Init
<1>2. sets \in Seq({1}) /\ Len(sets) = 1 /\ wraps = 0
  BY DEF Init
<1>3. picked = [t \in Range(readTargets) |-> 0]
  BY Zenon DEF Init
<1>4. 0 % Len(readTargets) = 0
  BY ReadTargets, ModSmall
<1>5. \A i \in Targets : Turns(i) = 0
  BY <1>1, <1>3, <1>4, ReadTargets DEF Turns, Targets
<1> QED
  BY <1>1, <1>2, <1>3, <1>5 DEF BalanceInv

\* An index is resolved when it is in the mesh, and then maps to a set.
LEMMA ResolveMaps ==
  ASSUME BalanceInv, NEW index \in Nat
  PROVE  /\ Resolve(index).err = "" <=> index < Shards
         /\ index < Shards => /\ Resolve(index).index = index
                              /\ Resolve(index).set \in 1 .. Len(sets)
<1>1. CASE ~(index < Shards)
  BY <1>1, WidthAssumption DEF Resolve
<1>2. CASE index < Shards
  <2>1. index \in 0 .. Shards - 1
    BY <1>2, WidthAssumption
  <2>2. ~(index >= Shards)
    BY <1>2, WidthAssumption
  <2>3. /\ Resolve(index).err = "" /\ Resolve(index).index = index
        /\ Resolve(index).set = virtualShards[index]
    BY Zenon, <2>2 DEF Resolve
  <2> DEFINE len == Len(sets)
  <2>4. virtualShards[index] = 1 + (index % len)
    BY Zenon, <2>1 DEF virtualShards
  <2>5. len \in Nat \ {0}
    BY Zenon DEF BalanceInv
  <2> HIDE DEF len
  <2>6. index % len \in 0 .. len - 1
    BY <2>5, ModRange
  <2>7. 1 + (index % len) \in 1 .. len
    BY <2>5, <2>6
  <2> QED
    BY Zenon, <1>2, <2>3, <2>4, <2>7 DEF len
<1> QED
  BY Zenon, <1>1, <1>2

\* The index a key is hashed to, by the modulo hasher or by one that is given.
LEMMA IndexIsNat ==
  ASSUME NEW a \in Asked
  PROVE  /\ Index(a) \in Nat
         /\ Index(a) = IF a.hasher = "modulo" THEN a.key % Shards ELSE a.key
<1>1. CASE a \in [key : Keys, hasher : {"modulo"}]
  <2>1. a.hasher = "modulo" /\ a.key \in -KeyHalf .. KeyHalf - 1
    BY Zenon, <1>1, WidthAssumption
  <2>2. Hash(a.key, Shards) = a.key % Shards /\ Hash(a.key, Shards) \in 0 .. Shards - 1
    BY Zenon, <2>1, WidthAssumption, HashIsEuclidean
  <2> QED
    BY <2>1, <2>2, WidthAssumption DEF Index
<1>2. CASE a \in [key : 0 .. Shards, hasher : {"constant"}]
  BY <1>2, WidthAssumption DEF Index, constantHash
<1> QED
  BY Zenon, <1>1, <1>2 DEF Asked

\* Add(1), and nextItem's Add(1) - 1, on a 64-bit counter.
LEMMA CounterStep ==
  ASSUME NEW c \in 0 .. Modulus - 1
  PROVE  /\ uint64(c + 1) = IF c + 1 = Modulus THEN 0 ELSE c + 1
         /\ uint64(uint64(c + 1) - 1) = c
<1>1. Modulus \in Nat \ {0} /\ c \in Nat
  BY WidthAssumption
<1>2. CASE c + 1 < Modulus
  <2>1. uint64(c + 1) = c + 1
    BY <1>1, <1>2, ModSmall DEF uint64
  <2>2. uint64((c + 1) - 1) = c
    BY <1>1, ModSmall DEF uint64
  <2> QED
    BY <1>1, <1>2, <2>1, <2>2
<1>3. CASE c + 1 = Modulus
  <2>1. uint64(c + 1) = 0
    BY <1>1, <1>3 DEF uint64
  <2> DEFINE r == Modulus - 1
             q == -1
  <2>2. r \in 0 .. Modulus - 1 /\ q \in Int /\ 0 - 1 = Modulus * q + r
    BY <1>1
  <2>3. (Modulus * q + r) % Modulus = r
    <3> HIDE DEF r, q
    <3> QED
      BY Zenon, <1>1, <2>2, ModUnique
  <2>4. uint64(0 - 1) = Modulus - 1
    BY Zenon, <2>2, <2>3 DEF uint64
  <2> QED
    BY <1>1, <1>3, <2>1, <2>4
<1> QED
  BY <1>1, <1>2, <1>3

\* A read gives the turn to the target under the counter.
LEMMA ReadRouteKeeps ==
  ASSUME BalanceInv, NEW a \in Asked, ReadRoute(a)
  PROVE  BalanceInv'
<1> DEFINE c == next[1]
           n == Len(readTargets)
           r == c % n
           target == readTargets[1 + r]
<1>1. n \in Nat \ {0} /\ c \in 0 .. Modulus - 1 /\ Modulus \in Nat \ {0} /\ c \in Nat
  BY ReadTargets, WidthAssumption DEF BalanceInv
<1>2. sets[Resolve(Index(a)).set] = 1
  <2>1. Resolve(Index(a)).set \in 1 .. Len(sets)
    BY Zenon, IndexIsNat, ResolveMaps DEF ReadRoute
  <2> QED
    BY <2>1 DEF BalanceInv
<1>3. nextIndex(1) = c
  BY Zenon, <1>1, CounterStep DEF nextIndex
<1>4. /\ next' = [next EXCEPT ![1] = uint64(c + 1)]
      /\ wraps' = wraps + (IF c + 1 = Modulus THEN 1 ELSE 0)
      /\ picked' = [picked EXCEPT ![target] = picked[target] + 1]
      /\ sets' = sets
  BY Zenon, <1>2, <1>3 DEF ReadRoute
<1> HIDE DEF c, n
<1>5. uint64(c + 1) = IF c + 1 = Modulus THEN 0 ELSE c + 1
  BY Zenon, <1>1, CounterStep
<1>6. r \in 0 .. n - 1 /\ (c + 1) % n = (IF r + 1 = n THEN 0 ELSE r + 1) /\ 0 % n = 0
  <2>1. r \in 0 .. n - 1
    BY <1>1, ModRange
  <2>2. (c + 1) % n = (IF r + 1 = n THEN 0 ELSE r + 1)
    BY Zenon, <1>1, ModSuccessor
  <2>3. 0 % n = 0
    BY <1>1, ModSmall
  <2> QED
    BY Zenon, <2>1, <2>2, <2>3
<1> HIDE DEF r
<1>7. 1 + r \in Targets
  BY <1>1, <1>6 DEF Targets, n
<1>8. next' \in [1 .. 1 -> 0 .. Modulus - 1] /\ next'[1] = uint64(c + 1)
  BY <1>1, <1>4, <1>5 DEF BalanceInv
<1>9. \A i \in Targets : picked[readTargets[i]] \in Int
  BY Zenon, ReadTargets DEF BalanceInv
<1>10. /\ wraps' \in Nat /\ picked' \in [Range(readTargets) -> Int]
       /\ \A i \in Targets :
            picked'[readTargets[i]] = picked[readTargets[i]] + (IF i = 1 + r THEN 1 ELSE 0)
  BY <1>1, <1>4, <1>7, <1>9, ReadTargets DEF BalanceInv
<1> DEFINE rNext == IF c + 1 = Modulus \/ r + 1 = n THEN 0 ELSE r + 1
<1>11. next'[1] % n = rNext
  BY Zenon, <1>5, <1>6, <1>8
<1>12. \A i \in Targets : Turns(i) = picked[readTargets[i]] - (IF i - 1 < r THEN 1 ELSE 0)
  BY Zenon DEF Turns, n, r, c
<1>13. \A i \in Targets : Turns(i)' = picked'[readTargets[i]] - (IF i - 1 < rNext THEN 1 ELSE 0)
  <2>1. readTargets' = readTargets
    BY Zenon DEF readTargets, primaryTarget
  <2> HIDE DEF rNext
  <2> QED
    BY Zenon, <1>11, <2>1 DEF Turns, n
<1>14. ASSUME NEW i \in Targets, NEW j \in Targets
       PROVE  Turns(i)' - Turns(j)' <= wraps'
  <2>1. Turns(i) - Turns(j) <= wraps /\ wraps \in Nat
    BY Zenon DEF BalanceInv
  <2>2. i \in 1 .. n /\ j \in 1 .. n
    BY Zenon DEF Targets, n
  <2> QED
    BY <1>1, <1>4, <1>6, <1>9, <1>10, <1>13, <1>12, <2>1, <2>2
<1> QED
  BY Zenon, <1>4, <1>8, <1>10, <1>14 DEF BalanceInv, Targets, readTargets, primaryTarget

\* Every step, that of the counter's wrap included, keeps the invariant.
LEMMA BalanceInvNext == BalanceInv /\ [Next]_vars => BalanceInv'
<1> SUFFICES ASSUME BalanceInv, [Next]_vars PROVE BalanceInv'
  BY Zenon
<1>1. ASSUME UNCHANGED <<next, picked, wraps>>, sets' \in Seq({1}), Len(sets') \in Nat \ {0}
      PROVE  BalanceInv'
  <2>1. Targets' = Targets /\ Range(readTargets)' = Range(readTargets)
    BY Zenon DEF Targets, readTargets, primaryTarget, Range
  <2>2. \A i \in Targets : Turns(i)' = Turns(i)
    BY Zenon, <1>1 DEF Turns, readTargets, primaryTarget
  <2> QED
    BY Zenon, <1>1, <2>1, <2>2 DEF BalanceInv
<1>2. ASSUME NEW i \in DOMAIN sets, NEW m \in Mirrors, NEW slack \in 0 .. 1,
             WithWriteMirrors(i, m, slack)
      PROVE  BalanceInv'
  <2>1. sets' = Append(sets, sets[i]) /\ UNCHANGED <<next, picked, wraps>>
    BY Zenon, <1>2 DEF WithWriteMirrors
  <2>2. sets \in Seq({1}) /\ sets[i] \in {1} /\ Len(sets) \in Nat
    BY DEF BalanceInv
  <2>3. sets' \in Seq({1}) /\ Len(sets') = Len(sets) + 1
    BY <2>1, <2>2
  <2> QED
    BY <1>1, <2>1, <2>2, <2>3
<1>3. ASSUME NEW a \in Asked, ReadRoute(a) \/ WriteRoute(a) \/ Refuse(a)
      PROVE  BalanceInv'
  BY Zenon, <1>3, <1>1, ReadRouteKeeps DEF WriteRoute, Refuse, BalanceInv
<1>4. CASE UNCHANGED vars
  BY Zenon, <1>4, <1>1 DEF vars, BalanceInv
<1> QED
  BY Zenon, <1>2, <1>3, <1>4 DEF Next

\* ReadsBalanced for every number of replicas, every counter width and every
\* tree of sets derived by WithWriteMirrors.
THEOREM ReadsBalancedHolds == Spec => []ReadsBalanced
<1>1. BalanceInv => ReadsBalanced
  <2> SUFFICES ASSUME BalanceInv, NEW s \in Range(readTargets), NEW t \in Range(readTargets)
               PROVE  picked[s] - picked[t] <= 1 + wraps
    BY Zenon DEF ReadsBalanced
  <2>1. PICK i \in Targets : s = readTargets[i]
    BY Zenon, ReadTargets
  <2>2. PICK j \in Targets : t = readTargets[j]
    BY Zenon, ReadTargets
  <2>3. picked[s] \in Int /\ picked[t] \in Int /\ wraps \in Nat /\ Turns(i) - Turns(j) <= wraps
    BY Zenon DEF BalanceInv
  <2>4. Turns(i) \in {picked[s], picked[s] - 1} /\ Turns(j) \in {picked[t], picked[t] - 1}
    BY <2>1, <2>2, <2>3 DEF Turns
  <2> QED
    BY <2>3, <2>4
<1> QED
  BY <1>1, BalanceInvInit, BalanceInvNext, PTL DEF Spec

-----------------------------------------------------------------------------
(* Routing *)

\* A key that is resolved lands on the shard of its residue; other steps resolve none.
LEMMA RoutedNext ==
  ASSUME BalanceInv, BalanceInv', RoutedByResidue, [Next]_vars
  PROVE  RoutedByResidue'
<1>1. DOMAIN sets = 1 .. Len(sets) /\ DOMAIN sets' = 1 .. Len(sets')
  BY DEF BalanceInv
<1>2. CASE UNCHANGED vars
  BY Zenon, <1>2 DEF vars, RoutedByResidue
<1>3. ASSUME NEW i \in DOMAIN sets, NEW m \in Mirrors, NEW slack \in 0 .. 1,
             WithWriteMirrors(i, m, slack)
      PROVE  RoutedByResidue'
  <2>1. route' = route /\ sets' = Append(sets, sets[i])
    BY Zenon, <1>3 DEF WithWriteMirrors
  <2>2. DOMAIN sets \subseteq DOMAIN sets'
    BY <1>1, <2>1 DEF BalanceInv
  <2> QED
    BY Zenon, <2>1, <2>2 DEF RoutedByResidue
<1>4. ASSUME NEW a \in Asked, ReadRoute(a) \/ WriteRoute(a) \/ Refuse(a)
      PROVE  RoutedByResidue'
  <2> DEFINE residue == IF a.hasher = "modulo" THEN a.key % Shards ELSE a.key
  <2>1. Index(a) = residue /\ residue \in Nat
    BY Zenon, IndexIsNat
  <2>2. /\ Resolve(residue).err = "" <=> residue < Shards
        /\ residue < Shards => /\ Resolve(residue).index = residue
                               /\ Resolve(residue).set \in DOMAIN sets
    <3> HIDE DEF residue
    <3> QED
      BY Zenon, <1>1, <2>1, ResolveMaps
  <2>3. CASE ReadRoute(a) \/ WriteRoute(a)
    <3>1. /\ route'.kind \in {"read", "write"} /\ route'.asked = a /\ sets' = sets
          /\ route'.metadata.virtualShard = Resolve(residue).index
          /\ route'.metadata.set = Resolve(residue).set
          /\ Resolve(residue).err = ""
      <4> DEFINE r == Resolve(Index(a))
                 b == sets[r.set]
                 target == readTargets[1 + (nextIndex(b) % Len(readTargets))]
                 read == Metadata(r.index, r.set, target, <<>>)
                 write == Metadata(r.index, r.set, primaryTarget, writeMirrors(r.set))
      <4>1. /\ read.virtualShard = r.index /\ read.set = r.set
            /\ write.virtualShard = r.index /\ write.set = r.set
        BY Zenon DEF Metadata
      <4>2. CASE ReadRoute(a)
        <5>1. /\ r.err = "" /\ sets' = sets
              /\ route' = [kind |-> "read", asked |-> a, metadata |-> read]
          BY Zenon, <4>2 DEF ReadRoute
        <5> HIDE DEF read, r
        <5> QED
          BY Zenon, <5>1, <4>1, <2>1 DEF r
      <4>3. CASE WriteRoute(a)
        <5>1. /\ r.err = "" /\ sets' = sets
              /\ route' = [kind |-> "write", asked |-> a, metadata |-> write]
          BY Zenon, <4>3 DEF WriteRoute
        <5> HIDE DEF write, r
        <5> QED
          BY Zenon, <5>1, <4>1, <2>1 DEF r
      <4> QED
        BY Zenon, <2>3, <4>2, <4>3
    <3> QED
      <4>1. /\ route'.metadata.virtualShard = residue
            /\ route'.metadata.set \in DOMAIN sets'
        BY Zenon, <2>2, <3>1
      <4> HIDE DEF residue
      <4>2. route'.kind # "error"
        BY Zenon, <3>1
      <4> QED
        BY Zenon, <3>1, <4>1, <4>2 DEF RoutedByResidue, residue
  <2>4. CASE Refuse(a)
    <3>1. route'.kind = "error" /\ route'.asked = a /\ ~(residue < Shards)
      BY Zenon, <2>1, <2>2, <2>4 DEF Refuse
    <3>2. a.hasher = "constant"
      <4>1. a.hasher \in {"modulo", "constant"}
        BY Zenon DEF Asked
      <4>2. ASSUME a.hasher = "modulo" PROVE FALSE
        <5>1. a.key \in Int
          <6>1. CASE a \in [key : Keys, hasher : {"modulo"}]
            <7>1. a.key \in Keys
              BY Zenon, <6>1
            <7>2. a.key \in -KeyHalf .. KeyHalf - 1
              BY Zenon, <7>1, WidthAssumption
            <7> QED
              BY <7>2, WidthAssumption
          <6>2. CASE a \in [key : 0 .. Shards, hasher : {"constant"}]
            BY Zenon, <6>2, <4>2
          <6> QED
            BY Zenon, <6>1, <6>2 DEF Asked
        <5>2. Shards \in Nat \ {0}
          BY WidthAssumption
        <5>3. a.key % Shards \in 0 .. Shards - 1
          BY Zenon, <5>1, <5>2, ModRange
        <5> QED
          BY <3>1, <4>2, <5>2, <5>3
      <4> QED
        BY Zenon, <4>1, <4>2
    <3> QED
      BY <2>1, <3>1, <3>2, WidthAssumption DEF RoutedByResidue
  <2> QED
    BY Zenon, <1>4, <2>3, <2>4
<1> QED
  BY Zenon, <1>2, <1>3, <1>4 DEF Next

\* RoutedByResidue for every integer width, key and number of virtual shards.
THEOREM RoutedByResidueHolds == Spec => []RoutedByResidue
<1>1. Init => RoutedByResidue
  BY DEF Init, RoutedByResidue
<1> QED
  BY <1>1, BalanceInvInit, BalanceInvNext, RoutedNext, PTL DEF Spec

-----------------------------------------------------------------------------
(* Mirrors *)

\* The elements of the arrays behind the slices of mirrors, and the arrays.
Cell == Mirrors \cup {NilWriter}
Heap == Seq(Seq(Cell))

\* r is what append may leave behind of the slice s of heap and the elements xs:
\* a slice that holds the old elements and then the new ones, in the array of s
\* or in one that is new, and every other array as it was.
IsAppended(r, heap, s, xs) ==
  /\ r.heap \in Heap
  /\ Len(heap) <= Len(r.heap)
  /\ r.arr \in 1 .. Len(r.heap)
  /\ r.arr = s.arr \/ r.arr = Len(heap) + 1
  /\ r.len = s.len + Len(xs)
  /\ r.len <= Len(r.heap[r.arr])
  /\ \A k \in 1 .. s.len : r.heap[r.arr][k] = heap[s.arr][k]
  /\ \A k \in 1 .. Len(xs) : r.heap[r.arr][s.len + k] = xs[k]
  /\ \A j \in 1 .. Len(heap) : j # s.arr => r.heap[j] = heap[j]
  /\ heap[s.arr] = <<>> => r.heap[s.arr] = <<>>

\* append(slice, xs...) of Go, in place or in a new array.
LEMMA AppendedFacts ==
  ASSUME NEW heap \in Heap, NEW s, s.arr \in DOMAIN heap, s.len \in 0 .. Len(heap[s.arr]),
         NEW xs \in Seq(Cell), NEW slack \in Nat,
         NEW r, r = appended(heap, s, xs, slack)
  PROVE  IsAppended(r, heap, s, xs)
<1> DEFINE n == s.len + Len(xs)
           old == heap[s.arr]
           put(a) == [i \in 1 .. Len(a) |->
                        IF i \in s.len + 1 .. n THEN xs[i - s.len] ELSE a[i]]
           fresh == [i \in 1 .. n + slack |-> IF i <= s.len THEN old[i] ELSE NilWriter]
<1>1. old \in Seq(Cell) /\ Len(xs) \in Nat /\ n \in Nat /\ s.len <= n /\ s.len \in Nat
  BY DEF Heap
<1>2. \A a \in Seq(Cell) : put(a) \in Seq(Cell) /\ Len(put(a)) = Len(a)
  <2> TAKE a \in Seq(Cell)
  <2>1. \A i \in 1 .. Len(a) :
          (IF i \in s.len + 1 .. n THEN xs[i - s.len] ELSE a[i]) \in Cell
    BY <1>1
  <2> QED BY <2>1
<1>3. CASE n <= Len(old)
  <2>1. r = [heap |-> [heap EXCEPT ![s.arr] = put(old)], arr |-> s.arr, len |-> n]
    BY Zenon, <1>3 DEF appended
  <2>2. put(old) \in Seq(Cell) /\ Len(put(old)) = Len(old)
    BY Zenon, <1>1, <1>2
  <2>3. \A k \in 1 .. Len(old) :
          put(old)[k] = IF k \in s.len + 1 .. n THEN xs[k - s.len] ELSE old[k]
    BY Zenon
  <2>4. old = <<>> => put(old) = <<>>
    BY <2>2
  <2> HIDE DEF put
  <2>5. /\ r.heap \in Heap
        /\ Len(heap) = Len(r.heap)
        /\ r.heap[s.arr] = put(old)
        /\ \A j \in DOMAIN heap : j # s.arr => r.heap[j] = heap[j]
    BY SMTT(30), <2>1, <2>2 DEF Heap
  <2>6. r.arr = s.arr /\ r.len = n /\ r.arr \in 1 .. Len(r.heap)
    BY <2>1, <2>5 DEF Heap
  <2>7. \A k \in 1 .. s.len : put(old)[k] = old[k]
    BY SMTT(30), <2>3, <1>1, <1>3
  <2>8. \A k \in 1 .. Len(xs) : put(old)[s.len + k] = xs[k]
    <3> TAKE k \in 1 .. Len(xs)
    <3>1. s.len + k \in 1 .. Len(old) /\ s.len + k \in s.len + 1 .. n /\ s.len + k - s.len = k
      BY SMTT(30), <1>1, <1>3
    <3> HIDE DEF old, n
    <3> QED BY SMTT(30), <3>1, <2>3
  <2>9. Len(heap) \in Nat /\ DOMAIN heap = 1 .. Len(heap)
    BY DEF Heap
  <2>10. r.len <= Len(r.heap[r.arr])
    BY Zenon, <2>2, <2>5, <2>6, <1>1, <1>3
  <2> HIDE DEF old
  <2>11. \A k \in 1 .. s.len : r.heap[r.arr][k] = old[k]
    BY Zenon, <2>5, <2>6, <2>7
  <2>12. \A k \in 1 .. Len(xs) : r.heap[r.arr][s.len + k] = xs[k]
    BY Zenon, <2>5, <2>6, <2>8
  <2>13. \A j \in 1 .. Len(heap) : j # s.arr => r.heap[j] = heap[j]
    BY Zenon, <2>5, <2>9
  <2>14. Len(heap) <= Len(r.heap)
    BY <2>5, <2>9
  <2> QED
    BY Zenon, <2>4, <2>5, <2>6, <2>10, <2>11, <2>12, <2>13, <2>14 DEF IsAppended, old
<1>4. CASE n > Len(old)
  <2>1. r = [heap |-> Append(heap, put(fresh)), arr |-> Len(heap) + 1, len |-> n]
    <3>1. ~ (n <= Len(old))
      BY <1>1, <1>4
    <3> QED BY Zenon, <3>1 DEF appended
  <2>2. fresh \in Seq(Cell) /\ Len(fresh) = n + slack
    <3>1. \A i \in 1 .. n + slack : (IF i <= s.len THEN old[i] ELSE NilWriter) \in Cell
      BY SMTT(30), <1>1 DEF Cell
    <3>2. fresh \in [1 .. n + slack -> Cell] /\ n + slack \in Nat
      BY <3>1, <1>1
    <3> HIDE DEF fresh, n
    <3> QED BY <3>2
  <2>3. put(fresh) \in Seq(Cell) /\ Len(put(fresh)) = n + slack
    BY Zenon, <1>2, <2>2
  <2>4. \A k \in 1 .. n + slack :
          put(fresh)[k] = IF k \in s.len + 1 .. n THEN xs[k - s.len] ELSE fresh[k]
    BY Zenon, <2>2
  <2>5. \A k \in 1 .. s.len : fresh[k] = old[k]
    BY <1>1
  <2> HIDE DEF put, fresh
  <2>6. /\ r.heap \in Heap
        /\ Len(r.heap) = Len(heap) + 1 /\ Len(heap) \in Nat
        /\ r.heap[Len(heap) + 1] = put(fresh)
        /\ \A j \in 1 .. Len(heap) : r.heap[j] = heap[j]
    BY <2>1, <2>3 DEF Heap
  <2>7. r.arr = Len(heap) + 1 /\ r.len = n /\ r.arr \in 1 .. Len(r.heap)
    BY <2>1, <2>6
  <2>8. r.heap[r.arr] = put(fresh)
    BY Zenon, <2>6, <2>7
  <2>9. \A k \in 1 .. s.len : put(fresh)[k] = old[k]
    <3> TAKE k \in 1 .. s.len
    <3>1. k \in 1 .. n + slack /\ k \notin s.len + 1 .. n
      BY <1>1
    <3> QED BY Zenon, <3>1, <2>4, <2>5
  <2>10. \A k \in 1 .. Len(xs) : put(fresh)[s.len + k] = xs[k]
    <3> TAKE k \in 1 .. Len(xs)
    <3>1. s.len + k \in 1 .. n + slack /\ s.len + k \in s.len + 1 .. n /\ s.len + k - s.len = k
      BY SMTT(30), <1>1
    <3> HIDE DEF old, n
    <3> QED BY SMTT(30), <3>1, <2>4
  <2>11. r.len <= Len(r.heap[r.arr])
    BY <2>3, <2>7, <2>8, <1>1
  <2> HIDE DEF old
  <2>12. \A k \in 1 .. s.len : r.heap[r.arr][k] = old[k]
    BY Zenon, <2>8, <2>9
  <2>13. \A k \in 1 .. Len(xs) : r.heap[r.arr][s.len + k] = xs[k]
    BY Zenon, <2>8, <2>10
  <2>14. Len(heap) <= Len(r.heap)
    BY <2>6
  <2>15. r.heap[s.arr] = heap[s.arr]
    <3>1. s.arr \in 1 .. Len(heap)
      BY DEF Heap
    <3> QED BY Zenon, <3>1, <2>6
  <2> QED
    BY Zenon, <2>6, <2>7, <2>11, <2>12, <2>13, <2>14, <2>15 DEF IsAppended, old
<1> QED BY <1>1, <1>3, <1>4

\* Array 1, the one of the nil slice, stays empty; every slice lies within its
\* array and holds there what its set was asked to have.
MirrorsInv ==
  /\ sets \in Seq({1})
  /\ slices \in Seq([arr : Nat, len : Nat]) /\ Len(slices) = Len(sets)
  /\ given \in Seq(Seq(Mirrors)) /\ Len(given) = Len(sets)
  /\ arrays \in Heap /\ 1 <= Len(arrays) /\ arrays[1] = <<>>
  /\ \A i \in 1 .. Len(sets) :
       /\ slices[i].arr \in 1 .. Len(arrays)
       /\ slices[i].len = Len(given[i])
       /\ slices[i].len <= Len(arrays[slices[i].arr])
       /\ \A k \in 1 .. slices[i].len : arrays[slices[i].arr][k] = given[i][k]

\* A heap is a sequence of arrays.
LEMMA HeapFacts ==
  ASSUME NEW h \in Heap
  PROVE  /\ Len(h) \in Nat /\ DOMAIN h = 1 .. Len(h)
         /\ \A j \in 1 .. Len(h) : h[j] \in Seq(Cell) /\ Len(h[j]) \in Nat
BY DEF Heap

\* What ReplicaSet.writeMirrors reads is what the set was asked to have.
LEMMA MirrorsRead ==
  ASSUME MirrorsInv, NEW i \in 1 .. Len(sets)
  PROVE  writeMirrors(i) = given[i] /\ given[i] \in Seq(Mirrors)
<1> DEFINE a == arrays[slices[i].arr]
           n == slices[i].len
<1>1. given[i] \in Seq(Mirrors) /\ Len(given[i]) \in Nat
  BY SMTT(30) DEF MirrorsInv
<1>2. a \in Seq(Cell) /\ Len(a) \in Nat
  BY Zenon, HeapFacts DEF MirrorsInv
<1>3. n = Len(given[i]) /\ n <= Len(a) /\ \A k \in 1 .. n : a[k] = given[i][k]
  BY Zenon DEF MirrorsInv
<1> HIDE DEF a, n
<1>4. SubSeq(a, 1, n) \in Seq(Cell) /\ Len(SubSeq(a, 1, n)) = n
  BY <1>1, <1>2, <1>3
<1>5. \A k \in 1 .. n : SubSeq(a, 1, n)[k] = a[k]
  BY <1>1, <1>2, <1>3
<1>6. SubSeq(a, 1, n) = given[i]
  BY <1>1, <1>3, <1>4, <1>5
<1> QED BY Zenon, <1>1, <1>6 DEF writeMirrors, a, n

\* The set NewReplicaSet returns has no mirrors.
LEMMA MirrorsInit == Init => MirrorsInv
<1> SUFFICES ASSUME Init PROVE MirrorsInv
  BY Zenon
<1>1. /\ sets = <<1>> /\ slices = <<[arr |-> 1, len |-> 0]>>
      /\ arrays = << <<>> >> /\ given = << <<>> >>
  BY Zenon DEF Init
<1>2. slices \in Seq([arr : Nat, len : Nat]) /\ Len(slices) = 1
  BY <1>1
<1>3. given \in Seq(Seq(Mirrors)) /\ Len(given) = 1 /\ given[1] = <<>>
  BY <1>1
<1>4. arrays \in Heap /\ Len(arrays) = 1 /\ arrays[1] = <<>>
  BY <1>1 DEF Heap
<1>5. sets \in Seq({1}) /\ Len(sets) = 1
  BY <1>1
<1>6. slices[1].arr = 1 /\ slices[1].len = 0
  BY Zenon, <1>1
<1> QED BY <1>2, <1>3, <1>4, <1>5, <1>6 DEF MirrorsInv

\* WithWriteMirrors gives the copy the receiver's mirrors and the new one, and
\* writes into no array another set reads.
LEMMA MirrorsKept ==
  ASSUME MirrorsInv, NEW i \in DOMAIN sets, NEW m \in Mirrors, NEW slack \in 0 .. 1,
         WithWriteMirrors(i, m, slack)
  PROVE  MirrorsInv'
<1> DEFINE nil == [arr |-> 1, len |-> 0]
           a == appended(arrays, nil, writeMirrors(i), slack)
           b == appended(a.heap, a, <<m>>, slack)
           n == Len(given[i])
<1>1. /\ arrays' = b.heap
      /\ slices' = Append(slices, [arr |-> b.arr, len |-> b.len])
      /\ sets' = Append(sets, sets[i])
      /\ given' = Append(given, Append(given[i], m))
  BY Zenon DEF WithWriteMirrors
<1>2. /\ sets \in Seq({1}) /\ Len(sets) \in Nat /\ i \in 1 .. Len(sets)
      /\ arrays \in Heap /\ Len(arrays) \in Nat /\ DOMAIN arrays = 1 .. Len(arrays)
      /\ 1 \in 1 .. Len(arrays) /\ arrays[1] = <<>>
      /\ slack \in Nat
  <2>1. Len(arrays) \in Nat /\ DOMAIN arrays = 1 .. Len(arrays)
    BY Zenon, HeapFacts DEF MirrorsInv
  <2> QED BY <2>1 DEF MirrorsInv
<1>3. /\ writeMirrors(i) = given[i]
      /\ given[i] \in Seq(Mirrors) /\ given[i] \in Seq(Cell) /\ n \in Nat
  BY <1>2, MirrorsRead DEF Cell
<1>4. /\ a.heap \in Heap
      /\ Len(arrays) <= Len(a.heap)
      /\ a.arr \in 1 .. Len(a.heap)
      /\ a.arr = 1 \/ a.arr = Len(arrays) + 1
      /\ a.len = n /\ a.len <= Len(a.heap[a.arr])
      /\ \A k \in 1 .. n : a.heap[a.arr][k] = given[i][k]
      /\ \A j \in 1 .. Len(arrays) : a.heap[j] = arrays[j]
  <2>1. nil.arr = 1 /\ nil.len = 0
    BY Zenon
  <2>2. nil.arr \in DOMAIN arrays /\ nil.len \in 0 .. Len(arrays[nil.arr])
    BY <2>1, <1>2
  <2> HIDE DEF nil
  <2>3. a = appended(arrays, nil, given[i], slack)
    BY Zenon, <1>3
  <2> HIDE DEF a
  <2>4. IsAppended(a, arrays, nil, given[i])
    BY Zenon, <2>2, <2>3, <1>2, <1>3, AppendedFacts
  <2>5. \A k \in 1 .. n : a.heap[a.arr][k] = given[i][k]
    <3> TAKE k \in 1 .. n
    <3>1. a.heap[a.arr][nil.len + k] = given[i][k]
      BY Zenon, <2>4 DEF IsAppended
    <3>2. nil.len + k = k
      BY <2>1, <1>3
    <3> QED BY Zenon, <3>1, <3>2
  <2>6. \A j \in 1 .. Len(arrays) : a.heap[j] = arrays[j]
    BY Zenon, <2>1, <2>4, <1>2 DEF IsAppended
  <2>7. a.len = n
    BY <2>1, <2>4, <1>3 DEF IsAppended
  <2> QED BY Zenon, <2>1, <2>4, <2>5, <2>6, <2>7 DEF IsAppended
<1> HIDE DEF a
<1>5. Len(a.heap) \in Nat /\ DOMAIN a.heap = 1 .. Len(a.heap) /\ Len(a.heap[a.arr]) \in Nat
  BY Zenon, <1>4, HeapFacts
<1>6. /\ b.heap \in Heap
      /\ Len(arrays) <= Len(b.heap)
      /\ b.arr \in 1 .. Len(b.heap)
      /\ b.len = n + 1 /\ b.len <= Len(b.heap[b.arr])
      /\ \A k \in 1 .. n : b.heap[b.arr][k] = given[i][k]
      /\ b.heap[b.arr][n + 1] = m
      /\ \A j \in 1 .. Len(arrays) : b.heap[j] = arrays[j]
  <2>1. <<m>> \in Seq(Cell) /\ Len(<<m>>) = 1 /\ <<m>>[1] = m
    BY DEF Cell
  <2>2. a.arr \in DOMAIN a.heap /\ a.len \in 0 .. Len(a.heap[a.arr])
    BY <1>3, <1>4, <1>5
  <2>3. IsAppended(b, a.heap, a, <<m>>)
    BY Zenon, <2>1, <2>2, <1>2, <1>4, AppendedFacts
  <2> HIDE DEF b
  <2>4. \A j \in 1 .. Len(arrays) : b.heap[j] = arrays[j]
    <3> TAKE j \in 1 .. Len(arrays)
    <3>1. j \in 1 .. Len(a.heap) /\ a.heap[j] = arrays[j]
      BY SMTT(30), <1>2, <1>4, <1>5
    <3>2. CASE j = a.arr
      <4>1. j = 1
        BY <3>2, <1>2, <1>4
      <4> QED BY Zenon, <4>1, <3>1, <3>2, <2>3, <1>2 DEF IsAppended
    <3> QED BY Zenon, <3>1, <3>2, <2>3 DEF IsAppended
  <2>5. b.heap[b.arr][n + 1] = m
    <3>1. b.heap[b.arr][a.len + 1] = <<m>>[1]
      BY <2>1, <2>3 DEF IsAppended
    <3> QED BY Zenon, <3>1, <2>1, <1>4
  <2>6. Len(arrays) <= Len(b.heap)
    <3>1. Len(b.heap) \in Nat
      BY Zenon, <2>3, HeapFacts DEF IsAppended
    <3> QED BY SMTT(30), <3>1, <2>3, <1>2, <1>4, <1>5 DEF IsAppended
  <2>7. b.len = n + 1
    BY Zenon, <2>1, <2>3, <1>4 DEF IsAppended
  <2>8. \A k \in 1 .. n : b.heap[b.arr][k] = given[i][k]
    BY Zenon, <2>3, <1>4 DEF IsAppended
  <2> QED BY Zenon, <2>3, <2>4, <2>5, <2>6, <2>7, <2>8 DEF IsAppended
<1> HIDE DEF b
<1>7. Len(b.heap) \in Nat
  BY Zenon, <1>6, HeapFacts
<1>8. sets' \in Seq({1}) /\ Len(sets') = Len(sets) + 1
  BY <1>1, <1>2
<1>9. /\ slices' \in Seq([arr : Nat, len : Nat]) /\ Len(slices') = Len(sets) + 1
      /\ slices'[Len(sets) + 1] = [arr |-> b.arr, len |-> b.len]
      /\ \A j \in 1 .. Len(sets) : slices'[j] = slices[j]
  <2>1. [arr |-> b.arr, len |-> b.len] \in [arr : Nat, len : Nat]
    BY <1>3, <1>6, <1>7
  <2>2. slices \in Seq([arr : Nat, len : Nat]) /\ Len(slices) = Len(sets)
    BY Zenon DEF MirrorsInv
  <2>3. Len(sets) \in Nat
    BY Zenon, <1>2
  <2> DEFINE S == [arr : Nat, len : Nat]
             x == [arr |-> b.arr, len |-> b.len]
  <2>4. x \in S /\ slices \in Seq(S) /\ slices' = Append(slices, x)
    BY Zenon, <2>1, <2>2, <1>1
  <2>5. slices' \in Seq(S) /\ Len(slices') = Len(sets) + 1 /\ slices'[Len(sets) + 1] = x
        /\ \A j \in 1 .. Len(sets) : slices'[j] = slices[j]
    <3> HIDE DEF S, x
    <3>1. PICK size, t, s : size = Len(sets) /\ t = slices' /\ s = slices
      BY Zenon
    <3>2. size \in Nat /\ Len(s) = size /\ x \in S /\ s \in Seq(S) /\ t = Append(s, x)
      BY Zenon, <2>2, <2>3, <2>4, <3>1
    <3>3. t \in Seq(S) /\ Len(t) = size + 1 /\ t[size + 1] = x /\ \A j \in 1 .. size : t[j] = s[j]
      BY SMTT(30), <3>2
    <3> QED BY Zenon, <3>1, <3>3
  <2> QED BY Zenon, <2>5
<1>10. /\ given' \in Seq(Seq(Mirrors)) /\ Len(given') = Len(sets) + 1
       /\ given'[Len(sets) + 1] = Append(given[i], m)
       /\ \A j \in 1 .. Len(sets) : given'[j] = given[j]
  <2>1. Append(given[i], m) \in Seq(Mirrors)
    BY <1>3
  <2>2. given \in Seq(Seq(Mirrors)) /\ Len(given) = Len(sets)
    BY Zenon DEF MirrorsInv
  <2>3. Len(sets) \in Nat
    BY Zenon, <1>2
  <2> DEFINE S == Seq(Mirrors)
             x == Append(given[i], m)
  <2>4. x \in S /\ given \in Seq(S) /\ given' = Append(given, x)
    BY Zenon, <2>1, <2>2, <1>1
  <2>5. given' \in Seq(S) /\ Len(given') = Len(sets) + 1 /\ given'[Len(sets) + 1] = x
        /\ \A j \in 1 .. Len(sets) : given'[j] = given[j]
    <3> HIDE DEF S, x
    <3>1. PICK size, t, s : size = Len(sets) /\ t = given' /\ s = given
      BY Zenon
    <3>2. size \in Nat /\ Len(s) = size /\ x \in S /\ s \in Seq(S) /\ t = Append(s, x)
      BY Zenon, <2>2, <2>3, <2>4, <3>1
    <3>3. t \in Seq(S) /\ Len(t) = size + 1 /\ t[size + 1] = x /\ \A j \in 1 .. size : t[j] = s[j]
      BY SMTT(30), <3>2
    <3> QED BY Zenon, <3>1, <3>3
  <2> QED BY Zenon, <2>5
<1>11. arrays' \in Heap /\ 1 <= Len(arrays') /\ arrays'[1] = <<>>
  BY SMTT(30), <1>1, <1>2, <1>6, <1>7
<1>12. ASSUME NEW j \in 1 .. Len(sets')
       PROVE  /\ slices'[j].arr \in 1 .. Len(arrays')
              /\ slices'[j].len = Len(given'[j])
              /\ slices'[j].len <= Len(arrays'[slices'[j].arr])
              /\ \A k \in 1 .. slices'[j].len : arrays'[slices'[j].arr][k] = given'[j][k]
  <2>1. CASE j \in 1 .. Len(sets)
    <3>1. slices'[j] = slices[j] /\ given'[j] = given[j]
      BY Zenon, <2>1, <1>9, <1>10
    <3>2. slices[j].arr \in 1 .. Len(arrays)
      BY Zenon, <2>1 DEF MirrorsInv
    <3>3. /\ slices[j].arr \in 1 .. Len(arrays')
          /\ arrays'[slices[j].arr] = arrays[slices[j].arr]
      <4>1. slices[j].arr \in 1 .. Len(b.heap)
        BY SMTT(30), <3>2, <1>2, <1>6, <1>7
      <4>2. b.heap[slices[j].arr] = arrays[slices[j].arr]
        BY Zenon, <3>2, <1>6
      <4> QED BY Zenon, <4>1, <4>2, <1>1
    <3>4. /\ slices[j].len = Len(given[j])
          /\ slices[j].len <= Len(arrays[slices[j].arr])
          /\ \A k \in 1 .. slices[j].len : arrays[slices[j].arr][k] = given[j][k]
      BY Zenon, <2>1 DEF MirrorsInv
    <3> QED BY Zenon, <3>1, <3>3, <3>4
  <2>2. CASE j = Len(sets) + 1
    <3>1. slices'[j].arr = b.arr /\ slices'[j].len = n + 1
      BY <2>2, <1>6, <1>9
    <3>2. /\ Len(given'[j]) = n + 1 /\ given'[j][n + 1] = m
          /\ \A k \in 1 .. n : given'[j][k] = given[i][k]
      BY <2>2, <1>3, <1>10
    <3>3. \A k \in 1 .. n + 1 : b.heap[b.arr][k] = given'[j][k]
      <4> TAKE k \in 1 .. n + 1
      <4>1. k \in 1 .. n \/ k = n + 1
        BY <1>3
      <4> QED BY Zenon, <4>1, <3>2, <1>6
    <3> QED BY Zenon, <3>1, <3>2, <3>3, <1>1, <1>6
  <2> QED BY <2>1, <2>2, <1>2, <1>8
<1> QED BY Zenon, <1>8, <1>9, <1>10, <1>11, <1>12 DEF MirrorsInv

\* Routing reads the mirrors and changes none.
LEMMA MirrorsNext == MirrorsInv /\ [Next]_vars => MirrorsInv'
<1> SUFFICES ASSUME MirrorsInv, [Next]_vars PROVE MirrorsInv'
  BY Zenon
<1>1. CASE UNCHANGED <<sets, slices, arrays, given>>
  BY Zenon, <1>1 DEF MirrorsInv
<1>2. ASSUME NEW a \in Asked, ReadRoute(a) \/ WriteRoute(a) \/ Refuse(a)
      PROVE  UNCHANGED <<sets, slices, arrays, given>>
  BY Zenon, <1>2 DEF ReadRoute, WriteRoute, Refuse
<1>3. CASE UNCHANGED vars
  BY Zenon, <1>1, <1>3 DEF vars
<1> QED BY Zenon, <1>1, <1>2, <1>3, MirrorsKept DEF Next

\* Whatever WithWriteMirrors derives from a replica set, and however append finds
\* room in the arrays it is given, no set's mirrors ever change.
THEOREM MirrorsAsConfiguredHolds == Spec => []MirrorsAsConfigured
<1>1. MirrorsInv => MirrorsAsConfigured
  <2> SUFFICES ASSUME MirrorsInv, NEW i \in DOMAIN sets PROVE writeMirrors(i) = given[i]
    BY Zenon DEF MirrorsAsConfigured
  <2>1. i \in 1 .. Len(sets)
    BY DEF MirrorsInv
  <2> QED BY Zenon, <2>1, MirrorsRead
<1> QED
  BY <1>1, MirrorsInit, MirrorsNext, PTL DEF Spec
=============================================================================
