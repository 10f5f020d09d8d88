------------------------- MODULE StoreQueriesProofs -------------------------
(***************************************************************************)
(* Proofs about StoreQueries, for any number of callers, replica sets,     *)
(* mirrors and items: statements are sent where they belong, mirrors are   *)
(* written in order, and what a call returns agrees with what the          *)
(* databases answered.                                                     *)
(***************************************************************************)
EXTENDS StoreQueries, TLAPS, FiniteSetTheorems, WellFoundedInduction

-----------------------------------------------------------------------------
(* The input loop.                                                         *)

\* One turn of the loop.
Turn(mode, acc, item) ==
  IF mode = "groupedMany" THEN routeMany(acc, item) ELSE routeCopy(acc, item)

\* What the loop has after each of m items.
Loop(mode, items, m, f) ==
  f = [n \in 0 .. m |-> IF n = 0 THEN NoGroups ELSE Turn(mode, f[n - 1], items[n])]

\* A set of natural numbers that is not empty has a least element.
LEMMA LeastNat ==
  ASSUME NEW S \in SUBSET Nat, S # {}
  PROVE  \E m \in S : \A n \in S : m <= n
<1>1. PICK m \in S : \A n \in S : ~ (<<n, m>> \in OpToRel(<, Nat))
  BY ZenonT(30), NatLessThanWellFounded, WFMin
<1>2. \A n \in S : ~ (n < m)
  BY ZenonT(30), <1>1 DEF OpToRel
<1> QED BY <1>2

\* The loop can be run over any number of items.
LEMMA LoopExists ==
  ASSUME NEW mode, NEW items, NEW m \in Nat
  PROVE  \E f : Loop(mode, items, m, f)
<1> DEFINE Bad == {k \in Nat : ~ \E f : Loop(mode, items, k, f)}
<1> SUFFICES ASSUME Bad # {} PROVE FALSE
  BY Zenon
<1>1. PICK k \in Bad : \A n \in Bad : k <= n
  BY Zenon, LeastNat
<1>2. k # 0
  <2>1. Loop(mode, items, 0, [n \in 0 .. 0 |-> NoGroups])
    BY DEF Loop
  <2> QED BY Zenon, <1>1, <2>1
<1>3. k \in Nat /\ k - 1 \in Nat /\ ~ (k <= k - 1)
  BY <1>1, <1>2
<1>4. PICK f : Loop(mode, items, k - 1, f)
  BY Zenon, <1>1, <1>3
<1> DEFINE g == [n \in 0 .. k |-> IF n = k THEN Turn(mode, f[k - 1], items[k]) ELSE f[n]]
<1>5. Loop(mode, items, k, g)
  <2>1. \A n \in 0 .. k - 1 :
          f[n] = IF n = 0 THEN NoGroups ELSE Turn(mode, f[n - 1], items[n])
    BY Zenon, <1>4 DEF Loop
  <2>2. ASSUME NEW n \in 0 .. k
        PROVE  g[n] = IF n = 0 THEN NoGroups ELSE Turn(mode, g[n - 1], items[n])
    <3>1. CASE n = k
      <4>1. k - 1 \in 0 .. k /\ k - 1 # k
        BY <1>3
      <4>2. g[k - 1] = f[k - 1] /\ g[n] = Turn(mode, f[k - 1], items[k])
        BY Zenon, <3>1, <4>1
      <4> QED BY Zenon, <1>2, <3>1, <4>2
    <3>2. CASE n # k
      <4>1. n \in 0 .. k - 1 /\ (n # 0 => n - 1 \in 0 .. k /\ n - 1 # k)
        BY <1>3, <3>2
      <4>2. g[n] = f[n] /\ (n # 0 => g[n - 1] = f[n - 1])
        BY Zenon, <3>2, <4>1
      <4> QED BY Zenon, <2>1, <4>1, <4>2
    <3> QED BY Zenon, <3>1, <3>2
  <2> HIDE DEF g
  <2>3. g = [n \in 0 .. k |-> g[n]]
    BY DEF g
  <2> QED BY Zenon, <2>2, <2>3 DEF Loop
<1> QED BY Zenon, <1>1, <1>5

\* The input loop starts without groups and takes the items in turn.
LEMMA RouteAllTurns ==
  ASSUME NEW mode, NEW items, Len(items) \in Nat
  PROVE  /\ routeAll(mode, items)[0] = NoGroups
         /\ \A n \in 1 .. Len(items) :
              routeAll(mode, items)[n] = Turn(mode, routeAll(mode, items)[n - 1], items[n])
<1> DEFINE acc == CHOOSE f : Loop(mode, items, Len(items), f)
<1>1. Loop(mode, items, Len(items), acc)
  BY Zenon, LoopExists
<1>2. routeAll(mode, items) = acc
  BY DEF routeAll, Loop, Turn
<1> HIDE DEF acc
<1>3. 0 \in 0 .. Len(items) /\ \A n \in 1 .. Len(items) : n \in 0 .. Len(items) /\ n # 0
  OBVIOUS
<1>4. \A n \in 0 .. Len(items) :
        acc[n] = IF n = 0 THEN NoGroups ELSE Turn(mode, acc[n - 1], items[n])
  BY Zenon, <1>1 DEF Loop
<1> QED BY Zenon, <1>2, <1>3, <1>4

\* An accumulator of the loop.
Acc(acc) == acc = [err |-> acc.err, args |-> acc.args, ordered |-> acc.ordered]

\* Element s of args gets v at its end.
Joins(args, new, s, v) == new = [args EXCEPT ![s] = Append(args[s], v)]

\* What a turn of a grouped query gives: it fails, or the lookup key is among those of
\* its set.
ManyGives(acc, item, s, r) ==
  /\ Acc(r)
  /\ r.err = "" =>
       /\ acc.err = "" /\ item # Nil /\ s # 0
       /\ \/ item.lookup \in Range(acc.args[s]) /\ r.args = acc.args
          \/ item.lookup \notin Range(acc.args[s]) /\ Joins(acc.args, r.args, s, item.lookup)

\* What a turn of a grouped COPY gives: it fails, or the row joins those of its set.
CopyGives(acc, item, s, r) ==
  /\ Acc(r)
  /\ r.err = "" => acc.err = "" /\ s # 0 /\ Joins(acc.args, r.args, s, item)

\* One turn of a grouped query: it fails, or the lookup key is among those of its set.
LEMMA ManyTurn ==
  ASSUME NEW acc, NEW item, Acc(acc), NEW r, r = routeMany(acc, item),
         NEW s, s = Home[item.operand]
  PROVE  ManyGives(acc, item, s, r)
<1>0. PICK e, a, o : acc = [err |-> e, args |-> a, ordered |-> o]
  BY Zenon DEF Acc
<1>1. acc.err = e /\ acc.args = a /\ acc.ordered = o
  BY <1>0
<1>2. CASE e # ""
  BY ZenonT(30), <1>0, <1>1, <1>2 DEF routeMany, Acc, ManyGives
<1>3. CASE e = "" /\ (item = Nil \/ item.lookup = Incomparable \/ s = 0)
  <2>1. r = [acc EXCEPT !.err = "nil item"] \/ r = [acc EXCEPT !.err = "incomparable"]
        \/ r = [acc EXCEPT !.err = "route"]
    BY Zenon, <1>1, <1>3 DEF routeMany
  <2> QED BY ZenonT(30), <1>0, <2>1 DEF Acc, ManyGives
<1>4. CASE e = "" /\ ~ (item = Nil \/ item.lookup = Incomparable \/ s = 0)
  <2>1. CASE item.lookup \in Range(a[s])
    <3>1. r = acc
      BY Zenon, <1>1, <1>4, <2>1 DEF routeMany
    <3> QED BY Zenon, <1>1, <1>4, <2>1, <3>1 DEF ManyGives
  <2>2. CASE item.lookup \notin Range(a[s])
    <3>1. PICK b, p : /\ b = [a EXCEPT ![s] = Append(a[s], item.lookup)]
                      /\ p = Append(o, [set |-> s, key |-> item.lookup])
      BY Zenon
    <3>2. r = [acc EXCEPT !.args[s] = Append(acc.args[s], item.lookup),
                          !.ordered = Append(acc.ordered, [set |-> s, key |-> item.lookup])]
      BY Zenon, <1>1, <1>4, <2>2 DEF routeMany
    <3>3. r = [err |-> e, args |-> b, ordered |-> p]
      BY ZenonT(30), <1>0, <1>1, <3>1, <3>2
    <3>4. r.err = e /\ r.args = b /\ Acc(r)
      BY <3>3 DEF Acc
    <3> QED BY Zenon, <1>1, <1>4, <2>2, <3>1, <3>4 DEF ManyGives, Joins
  <2> QED BY Zenon, <2>1, <2>2
<1> QED BY Zenon, <1>2, <1>3, <1>4

\* One turn of a grouped COPY: it fails, or the row joins those of its set.
LEMMA CopyTurn ==
  ASSUME NEW acc, NEW item, Acc(acc), NEW r, r = routeCopy(acc, item),
         NEW s, s = Home[item.operand]
  PROVE  CopyGives(acc, item, s, r)
<1>0. PICK e, a, o : acc = [err |-> e, args |-> a, ordered |-> o]
  BY Zenon DEF Acc
<1>1. acc.err = e /\ acc.args = a /\ acc.ordered = o
  BY <1>0
<1>2. CASE e # ""
  BY ZenonT(30), <1>0, <1>1, <1>2 DEF routeCopy, Acc, CopyGives
<1>3. CASE e = "" /\ s = 0
  <2>1. r = [acc EXCEPT !.err = "route"]
    BY Zenon, <1>1, <1>3 DEF routeCopy
  <2> QED BY ZenonT(30), <1>0, <2>1 DEF Acc, CopyGives
<1>4. CASE e = "" /\ s # 0
  <2>1. PICK b : b = [a EXCEPT ![s] = Append(a[s], item)]
    BY Zenon
  <2>2. r = [acc EXCEPT !.args[s] = Append(acc.args[s], item)]
    BY Zenon, <1>1, <1>4 DEF routeCopy
  <2>3. r = [err |-> e, args |-> b, ordered |-> o]
    BY ZenonT(30), <1>0, <1>1, <2>1, <2>2
  <2>4. r.err = e /\ r.args = b /\ Acc(r)
    BY <2>3 DEF Acc
  <2> QED BY Zenon, <1>1, <1>4, <2>1, <2>4 DEF CopyGives, Joins
<1> QED BY Zenon, <1>2, <1>3, <1>4

\* Sequences of any elements.
IsSeq(e) == e \in Seq(Range(e))

\* A sequence over some set is one over its own elements.
LEMMA SeqIsSeq ==
  ASSUME NEW S, NEW e \in Seq(S)
  PROVE  IsSeq(e)
<1>1. Len(e) \in Nat /\ DOMAIN e = 1 .. Len(e) /\ e = [i \in 1 .. Len(e) |-> e[i]]
  OBVIOUS
<1>2. \A i \in 1 .. Len(e) : e[i] \in Range(e)
  BY Zenon, <1>1 DEF Range
<1> HIDE DEF IsSeq
<1>3. e \in [1 .. Len(e) -> Range(e)]
  BY Zenon, <1>1, <1>2
<1>4. e \in Seq(Range(e))
  BY <1>1, <1>3
<1> QED BY Zenon, <1>4 DEF IsSeq

\* Append adds one element, at the end.
LEMMA AppendFacts ==
  ASSUME NEW e, IsSeq(e), NEW v
  PROVE  /\ IsSeq(Append(e, v))
         /\ Len(e) \in Nat /\ Len(Append(e, v)) = Len(e) + 1
         /\ DOMAIN e = 1 .. Len(e) /\ DOMAIN Append(e, v) = 1 .. Len(e) + 1
         /\ Append(e, v)[Len(e) + 1] = v
         /\ \A i \in 1 .. Len(e) : Append(e, v)[i] = e[i]
         /\ Range(Append(e, v)) = Range(e) \cup {v}
         /\ Append(e, v) # <<>>
<1>0. e \in Seq(Range(e))
  BY Zenon DEF IsSeq
<1>r. PICK R : R = Range(e)
  BY Zenon
<1>1. e \in Seq(R \cup {v})
  BY <1>0, <1>r
<1>2. /\ Append(e, v) \in Seq(R \cup {v})
      /\ Len(e) \in Nat /\ Len(Append(e, v)) = Len(e) + 1
      /\ DOMAIN e = 1 .. Len(e) /\ DOMAIN Append(e, v) = 1 .. Len(e) + 1
      /\ Append(e, v)[Len(e) + 1] = v
      /\ \A i \in 1 .. Len(e) : Append(e, v)[i] = e[i]
      /\ Append(e, v) # <<>>
  BY <1>1
<1>3. 1 .. Len(e) + 1 = (1 .. Len(e)) \cup {Len(e) + 1}
  BY <1>2
<1>f. PICK f, n : f = Append(e, v) /\ n = Len(e)
  BY Zenon
<1>g. /\ DOMAIN e = 1 .. n /\ DOMAIN f = (1 .. n) \cup {n + 1} /\ f[n + 1] = v
      /\ \A i \in 1 .. n : f[i] = e[i]
  BY Zenon, <1>f, <1>2, <1>3
<1>4. Range(Append(e, v)) = Range(e) \cup {v}
  <2>1. ASSUME NEW y, y \in Range(f)
        PROVE  y \in Range(e) \cup {v}
    <3>1. PICK i \in DOMAIN f : y = f[i]
      BY Zenon, <2>1 DEF Range
    <3> QED BY Zenon, <3>1, <1>g DEF Range
  <2>2. ASSUME NEW y, y \in Range(e)
        PROVE  y \in Range(f)
    <3>1. PICK i \in DOMAIN e : y = e[i]
      BY Zenon, <2>2 DEF Range
    <3> QED BY Zenon, <3>1, <1>g DEF Range
  <2>3. v \in Range(f)
    BY Zenon, <1>g DEF Range
  <2>4. Range(f) = Range(e) \cup {v}
    BY Zenon, <2>1, <2>2, <2>3
  <2> QED BY Zenon, <2>4, <1>f
<1> QED BY Zenon, <1>2, <1>4, SeqIsSeq

\* The arguments are the parts of items D, each at its rank.
Ranked(q, D, args) ==
  /\ IsSeq(args)
  /\ Len(args) = Cardinality(D)
  /\ \A i \in D : args[Cardinality({j \in D : j <= i})] = Part(q, i)

\* A later item goes to the end.
LEMMA RankedAppend ==
  ASSUME NEW q, NEW n \in Nat, NEW D \in SUBSET (1 .. n - 1), NEW args, Ranked(q, D, args)
  PROVE  Ranked(q, D \cup {n}, Append(args, Part(q, n)))
<1> DEFINE new == Append(args, Part(q, n))
           E == D \cup {n}
<1>1. /\ IsSeq(new) /\ Len(args) \in Nat /\ Len(new) = Len(args) + 1
      /\ new[Len(args) + 1] = Part(q, n)
      /\ \A i \in 1 .. Len(args) : new[i] = args[i]
  <2>1. IsSeq(args)
    BY Zenon DEF Ranked
  <2>2. PICK v : v = Part(q, n)
    BY Zenon
  <2>3. /\ IsSeq(Append(args, v)) /\ Len(args) \in Nat /\ Len(Append(args, v)) = Len(args) + 1
        /\ Append(args, v)[Len(args) + 1] = v
        /\ \A i \in 1 .. Len(args) : Append(args, v)[i] = args[i]
    BY <2>1, AppendFacts
  <2> QED BY Zenon, <2>2, <2>3
<1>2. IsFiniteSet(D)
  <2>1. IsFiniteSet(1 .. n - 1)
    BY FS_Interval
  <2> QED BY Zenon, <2>1, FS_Subset
<1>3. n \notin D /\ \A i \in D : i < n /\ i \in Nat
  OBVIOUS
<1>4. Cardinality(E) = Len(args) + 1
  <2>1. Cardinality(D \cup {n}) = Cardinality(D) + 1
    BY Zenon, <1>2, <1>3, FS_AddElement
  <2> QED BY Zenon, <2>1 DEF Ranked
<1> HIDE DEF new
<1>5. ASSUME NEW i \in D
      PROVE  new[Cardinality({j \in E : j <= i})] = Part(q, i)
  <2>1. PICK B : B = {j \in D : j <= i}
    BY Zenon
  <2>2. {j \in E : j <= i} = B
    BY <1>3, <2>1
  <2>3. B \subseteq D /\ i \in B
    BY <1>3, <2>1
  <2>4. IsFiniteSet(B) /\ Cardinality(B) <= Cardinality(D)
    BY Zenon, <1>2, <2>3, FS_Subset
  <2>5. Cardinality(B) \in Nat /\ Cardinality(B) # 0
    BY Zenon, <2>3, <2>4, FS_CardinalityType, FS_EmptySet
  <2>6. Cardinality(B) \in 1 .. Len(args)
    BY <1>1, <2>4, <2>5 DEF Ranked
  <2>7. args[Cardinality(B)] = Part(q, i)
    BY Zenon, <2>1 DEF Ranked
  <2> QED BY Zenon, <1>1, <2>2, <2>6, <2>7
<1>6. new[Cardinality({j \in E : j <= n})] = Part(q, n)
  <2>0. \A j \in E : j <= n
    BY <1>3
  <2>1. {j \in E : j <= n} = E
    BY Zenon, <2>0
  <2> QED BY Zenon, <1>1, <1>4, <2>1
<1> QED BY Zenon, <1>1, <1>4, <1>5, <1>6 DEF Ranked, new

\* Of the first n items, those that route to set s, those that are due there, and
\* the lookup keys of the former.
Here(q, s, n)  == {i \in 1 .. n : Home[q.items[i].operand] = s}
First(q, s, n) == {i \in Due(q, s) : i <= n}
Keys(q, s, n)  == {q.items[i].lookup : i \in Here(q, s, n)}

\* What the loop of call q has after n items: unless it failed, every item was routed,
\* and the arguments of each set are what is due there.
Good(q, n, r) ==
  /\ Acc(r)
  /\ r.err = "" =>
       /\ \A i \in 1 .. n : Home[q.items[i].operand] \in 1 .. Sets
       /\ DOMAIN r.args = 1 .. Sets
       /\ \A s \in 1 .. Sets :
            /\ Ranked(q, First(q, s, n), r.args[s])
            /\ q.method.mode = "groupedMany" =>
                 Range(r.args[s]) = Keys(q, s, n)

LoopInv(q, n) == Good(q, n, routeAll(q.method.mode, q.items)[n])

\* The arguments of every set are what is due there of the first n items.
AllRanked(q, n, args) ==
  /\ DOMAIN args = 1 .. Sets
  /\ \A s \in 1 .. Sets : Ranked(q, First(q, s, n), args[s])

\* Only element s changes, and it has v besides.
Grew(old, new, s, v) ==
  /\ \A t \in 1 .. Sets : t # s => new[t] = old[t]
  /\ Range(new[s]) = Range(old[s]) \cup {v}

\* Operands are routed to a set or to none.
LEMMA HomeRange ==
  /\ Sets \in Nat
  /\ \A operand \in DOMAIN Home : Home[operand] # 0 => Home[operand] \in 1 .. Sets
<1>1. Sets \in Nat /\ \A operand \in DOMAIN Home : Home[operand] \in 0 .. Sets
  BY Zenon, StoreQueriesAssumption
<1> QED BY <1>1

\* The items of a call of a grouped method.
Grouped(q) ==
  /\ q.method.mode \in {"groupedMany", "groupedCopy"}
  /\ IsSeq(q.items)
  /\ \A i \in DOMAIN q.items :
       \/ q.items[i] = Nil /\ q.method.mode = "groupedMany"
       \/ q.items[i] # Nil /\ q.items[i].operand \in DOMAIN Home

\* The items of a call are numbered.
LEMMA ItemNumbers ==
  ASSUME NEW q, IsSeq(q.items)
  PROVE  Len(q.items) \in Nat /\ DOMAIN q.items = 1 .. Len(q.items)
BY DEF IsSeq

\* Item n is due at its set, and only there, unless a former one has its lookup key.
LEMMA FirstGrows ==
  ASSUME NEW q, IsSeq(q.items), NEW n \in 1 .. Len(q.items), NEW s
  PROVE  /\ Here(q, s, n) = Here(q, s, n - 1) \cup {i \in {n} : Home[q.items[i].operand] = s}
         /\ First(q, s, n - 1) \in SUBSET (1 .. n - 1)
         /\ n \in Due(q, s) => First(q, s, n) = First(q, s, n - 1) \cup {n}
         /\ n \notin Due(q, s) => First(q, s, n) = First(q, s, n - 1)
         /\ n \in Due(q, s) <=>
              /\ Home[q.items[n].operand] = s
              /\ q.method.mode = "groupedMany" =>
                   q.items[n].lookup \notin Keys(q, s, n - 1)
<1>1. Len(q.items) \in Nat /\ DOMAIN q.items = 1 .. Len(q.items)
  BY Zenon, ItemNumbers
<1>2. Here(q, s, n) = Here(q, s, n - 1) \cup {i \in {n} : Home[q.items[i].operand] = s}
  <2>1. 1 .. n = (1 .. n - 1) \cup {n}
    BY <1>1
  <2> QED BY Zenon, <2>1 DEF Here
<1>3. Due(q, s) \subseteq 1 .. Len(q.items)
  BY Zenon, <1>1 DEF Due
<1>4. /\ First(q, s, n - 1) \in SUBSET (1 .. n - 1)
      /\ n \in Due(q, s) => First(q, s, n) = First(q, s, n - 1) \cup {n}
      /\ n \notin Due(q, s) => First(q, s, n) = First(q, s, n - 1)
  BY <1>1, <1>3 DEF First
<1>5. PICK here : here = {i \in DOMAIN q.items : Home[q.items[i].operand] = s}
  BY Zenon
<1>6. \A j : j \in here /\ j < n <=> j \in Here(q, s, n - 1)
  BY <1>1, <1>5 DEF Here
<1>7. n \in here <=> Home[q.items[n].operand] = s
  BY Zenon, <1>1, <1>5
<1>8. CASE q.method.mode = "groupedMany"
  <2>1. Due(q, s) = {i \in here : \A j \in here : j < i => q.items[j].lookup # q.items[i].lookup}
    BY Zenon, <1>5, <1>8 DEF Due
  <2> QED BY Zenon, <1>2, <1>4, <1>6, <1>7, <1>8, <2>1 DEF Keys
<1>9. CASE q.method.mode # "groupedMany"
  <2>1. Due(q, s) = here
    BY Zenon, <1>5, <1>9 DEF Due
  <2> QED BY Zenon, <1>2, <1>4, <1>7, <1>9, <2>1
<1> QED BY Zenon, <1>8, <1>9

\* Before the first item there are no arguments and nothing is due.
LEMMA LoopStart ==
  ASSUME NEW q, Grouped(q)
  PROVE  LoopInv(q, 0)
<1>0. IsSeq(q.items) /\ Len(q.items) \in Nat /\ DOMAIN q.items = 1 .. Len(q.items)
  BY Zenon, ItemNumbers DEF Grouped
<1>1. PICK r : r = routeAll(q.method.mode, q.items)[0] /\ r = NoGroups
  BY Zenon, <1>0, RouteAllTurns
<1>2. Acc(r) /\ r.args = [s \in 1 .. Sets |-> <<>>]
  <2>1. PICK a, e : a = [s \in 1 .. Sets |-> <<>>] /\ e = <<>>
    BY Zenon
  <2>2. r = [err |-> "", args |-> a, ordered |-> e]
    BY Zenon, <1>1, <2>1 DEF NoGroups
  <2>3. Acc(r) /\ r.args = a
    BY ZenonT(30), <2>2 DEF Acc
  <2> QED BY Zenon, <2>1, <2>3
<1>3. 1 .. 0 = {}
  OBVIOUS
<1>4. ASSUME NEW s \in 1 .. Sets
      PROVE  /\ Ranked(q, First(q, s, 0), r.args[s])
             /\ Range(r.args[s]) = Keys(q, s, 0)
  <2>1. r.args[s] = <<>>
    BY Zenon, <1>2
  <2>2. DOMAIN <<>> = {} /\ Len(<<>>) = 0 /\ <<>> \in Seq({})
    OBVIOUS
  <2>3. Range(<<>>) = {}
    BY Zenon, <2>2 DEF Range
  <2>4. IsSeq(<<>>)
    BY Zenon, <2>2, SeqIsSeq
  <2>5. First(q, s, 0) = {}
    <3>1. Due(q, s) \subseteq 1 .. Len(q.items)
      BY Zenon, <1>0 DEF Due
    <3> QED BY <1>0, <3>1 DEF First
  <2>6. Here(q, s, 0) = {}
    BY Zenon, <1>3 DEF Here
  <2>7. Cardinality({}) = 0
    BY Zenon, FS_EmptySet
  <2>8. Ranked(q, {}, <<>>)
    BY Zenon, <2>2, <2>4, <2>7 DEF Ranked
  <2> QED BY Zenon, <2>1, <2>3, <2>5, <2>6, <2>8 DEF Keys
<1>5. DOMAIN r.args = 1 .. Sets
  BY Zenon, <1>2
<1> QED BY Zenon, <1>1, <1>2, <1>3, <1>4, <1>5 DEF LoopInv, Good

\* An item whose part joins the arguments of its set.
LEMMA LoopJoins ==
  ASSUME NEW q, IsSeq(q.items), NEW n \in 1 .. Len(q.items), NEW home \in 1 .. Sets,
         home = Home[q.items[n].operand], home # 0,
         NEW old, NEW new, AllRanked(q, n - 1, old),
         n \in Due(q, home), Joins(old, new, home, Part(q, n))
  PROVE  AllRanked(q, n, new) /\ Grew(old, new, home, Part(q, n))
<1>0. n \in Nat
  BY ItemNumbers
<1>1. DOMAIN new = 1 .. Sets /\ new[home] = Append(old[home], Part(q, n))
      /\ \A s \in 1 .. Sets : s # home => new[s] = old[s]
  BY Zenon DEF Joins, AllRanked
<1>2. First(q, home, n) = First(q, home, n - 1) \cup {n}
  BY FirstGrows
<1>3. First(q, home, n - 1) \in SUBSET (1 .. n - 1)
  BY Zenon, FirstGrows
<1>4. Ranked(q, First(q, home, n), new[home])
  <2>1. Ranked(q, First(q, home, n - 1), old[home])
    BY Zenon DEF AllRanked
  <2>2. PICK D \in SUBSET (1 .. n - 1) : D = First(q, home, n - 1)
    BY ZenonT(30), <1>3
  <2>3. Ranked(q, D \cup {n}, Append(old[home], Part(q, n)))
    BY <1>0, <2>1, <2>2, RankedAppend
  <2> QED BY Zenon, <1>1, <1>2, <2>2, <2>3
<1>5. ASSUME NEW s \in 1 .. Sets, s # home
      PROVE  Ranked(q, First(q, s, n), new[s])
  <2>1. n \notin Due(q, s)
    BY Zenon, <1>5, FirstGrows
  <2>3. First(q, s, n) = First(q, s, n - 1)
    BY <2>1, FirstGrows
  <2> QED BY Zenon, <1>1, <1>5, <2>3 DEF AllRanked
<1>6. Range(new[home]) = Range(old[home]) \cup {Part(q, n)}
  <2>1. IsSeq(old[home])
    BY ZenonT(30) DEF Ranked, AllRanked
  <2>2. Range(Append(old[home], Part(q, n))) = Range(old[home]) \cup {Part(q, n)}
    BY <2>1, AppendFacts
  <2> QED BY Zenon, <1>1, <2>2
<1> QED BY Zenon, <1>1, <1>4, <1>5, <1>6 DEF AllRanked, Grew

\* An item that is left out because a former one has its lookup key.
LEMMA LoopSkips ==
  ASSUME NEW q, IsSeq(q.items), NEW n \in 1 .. Len(q.items), NEW old,
         \A s \in 1 .. Sets : Ranked(q, First(q, s, n - 1), old[s]),
         \A s \in 1 .. Sets : n \notin Due(q, s)
  PROVE  \A s \in 1 .. Sets : Ranked(q, First(q, s, n), old[s])
<1> SUFFICES ASSUME NEW s \in 1 .. Sets PROVE Ranked(q, First(q, s, n), old[s])
  BY Zenon
<1>1. First(q, s, n) = First(q, s, n - 1)
  BY FirstGrows
<1> QED BY Zenon, <1>1

\* The lookup keys of the items at a set, with one more item.
LEMMA HereKeys ==
  ASSUME NEW q, IsSeq(q.items), NEW n \in 1 .. Len(q.items), NEW s
  PROVE  \A v : v \in Keys(q, s, n) <=>
                \/ v \in Keys(q, s, n - 1)
                \/ v = q.items[n].lookup /\ Home[q.items[n].operand] = s
<1>1. Here(q, s, n) = Here(q, s, n - 1) \cup {i \in {n} : Home[q.items[i].operand] = s}
  BY FirstGrows
<1> QED BY Zenon, <1>1 DEF Keys

\* One turn keeps the loop invariant.
LEMMA LoopStep ==
  ASSUME NEW q, Grouped(q), NEW n \in 1 .. Len(q.items), LoopInv(q, n - 1)
  PROVE  LoopInv(q, n)
<1>0. IsSeq(q.items) /\ Len(q.items) \in Nat /\ DOMAIN q.items = 1 .. Len(q.items)
  BY Zenon, ItemNumbers DEF Grouped
<1>1. PICK acc, r, item : /\ acc = routeAll(q.method.mode, q.items)[n - 1]
                          /\ r = routeAll(q.method.mode, q.items)[n]
                          /\ item = q.items[n]
  BY Zenon
<1>g. Good(q, n - 1, acc)
  BY Zenon, <1>1 DEF LoopInv
<1>2. r = Turn(q.method.mode, acc, item)
  <2>1. \A k \in 1 .. Len(q.items) : routeAll(q.method.mode, q.items)[k] =
          Turn(q.method.mode, routeAll(q.method.mode, q.items)[k - 1], q.items[k])
    BY <1>0, RouteAllTurns
  <2> QED BY Zenon, <1>1, <2>1
<1>3. Acc(acc)
  BY Zenon, <1>g DEF Good
<1>4. PICK home : home = Home[item.operand]
  BY Zenon
<1>5. \A i \in 1 .. n : i \in 1 .. n - 1 \/ i = n
  BY <1>0
<1>6. CASE q.method.mode = "groupedMany"
  <2>1. r = routeMany(acc, item)
    BY Zenon, <1>2, <1>6 DEF Turn
  <2>2. ManyGives(acc, item, home, r)
    BY <1>3, <1>4, <2>1, ManyTurn
  <2> SUFFICES ASSUME r.err = ""
               PROVE  /\ \A i \in 1 .. n : Home[q.items[i].operand] \in 1 .. Sets
                      /\ DOMAIN r.args = 1 .. Sets
                      /\ \A s \in 1 .. Sets : Ranked(q, First(q, s, n), r.args[s])
                      /\ \A s \in 1 .. Sets :
                           Range(r.args[s]) = Keys(q, s, n)
    BY Zenon, <1>1, <1>6, <2>2 DEF LoopInv, Good, ManyGives
  <2>3. /\ \A i \in 1 .. n - 1 : Home[q.items[i].operand] \in 1 .. Sets
        /\ DOMAIN acc.args = 1 .. Sets
        /\ \A s \in 1 .. Sets : Ranked(q, First(q, s, n - 1), acc.args[s])
        /\ \A s \in 1 .. Sets :
             Range(acc.args[s]) = Keys(q, s, n - 1)
    BY Zenon, <1>g, <1>6, <2>2 DEF Good, ManyGives
  <2>4. home \in 1 .. Sets
    <3>1. item # Nil /\ item.operand \in DOMAIN Home /\ home # 0
      BY Zenon, <1>0, <1>1, <1>6, <2>2 DEF Grouped, ManyGives
    <3> QED BY Zenon, <1>4, <3>1, HomeRange
  <2>5. \A i \in 1 .. n : Home[q.items[i].operand] \in 1 .. Sets
    BY Zenon, <1>1, <1>4, <1>5, <2>3, <2>4
  <2>6. \A s \in 1 .. Sets : n \in Due(q, s) <=>
          home = s /\ item.lookup \notin Keys(q, s, n - 1)
    <3> SUFFICES ASSUME NEW s \in 1 .. Sets
                 PROVE  n \in Due(q, s) <=>
                          home = s /\ item.lookup \notin Keys(q, s, n - 1)
      BY Zenon, <1>1
    <3>1. n \in Due(q, s) <=>
            /\ Home[q.items[n].operand] = s
            /\ q.method.mode = "groupedMany" =>
                 q.items[n].lookup \notin Keys(q, s, n - 1)
      BY ZenonT(30), <1>0, FirstGrows
    <3> QED BY Zenon, <1>1, <1>4, <1>6, <3>1
  <2>7. Part(q, n) = item.lookup
    BY Zenon, <1>1, <1>6 DEF Part
  <2>8. CASE item.lookup \in Range(acc.args[home])
    <3>1. r.args = acc.args
      BY Zenon, <2>2, <2>8 DEF ManyGives
    <3>2. \A s \in 1 .. Sets : n \notin Due(q, s)
      BY Zenon, <2>3, <2>4, <2>6, <2>8
    <3>3. \A s \in 1 .. Sets : Ranked(q, First(q, s, n), acc.args[s])
      BY Zenon, <1>0, <2>3, <3>2, LoopSkips
    <3>4. ASSUME NEW s \in 1 .. Sets
          PROVE  Range(acc.args[s]) = Keys(q, s, n)
      <4>1. Range(acc.args[s]) = Keys(q, s, n - 1)
        BY Zenon, <2>3
      <4>2. \A v : v \in Keys(q, s, n) <=>
              v \in Keys(q, s, n - 1) \/ (v = q.items[n].lookup /\ Home[q.items[n].operand] = s)
        BY ZenonT(30), <1>0, HereKeys
      <4> QED BY Zenon, <1>1, <1>4, <2>8, <4>1, <4>2
    <3> QED BY Zenon, <2>3, <2>5, <3>1, <3>3, <3>4
  <2>9. CASE item.lookup \notin Range(acc.args[home])
    <3>1. Joins(acc.args, r.args, home, Part(q, n))
      BY Zenon, <2>2, <2>7, <2>9 DEF ManyGives
    <3>2. n \in Due(q, home)
      BY Zenon, <2>3, <2>4, <2>6, <2>9
    <3>3. /\ DOMAIN r.args = 1 .. Sets
          /\ \A s \in 1 .. Sets : Ranked(q, First(q, s, n), r.args[s])
          /\ \A s \in 1 .. Sets : s # home => r.args[s] = acc.args[s]
          /\ Range(r.args[home]) = Range(acc.args[home]) \cup {Part(q, n)}
      <4>1. PICK old, new : old = acc.args /\ new = r.args
        BY Zenon
      <4>2. /\ AllRanked(q, n - 1, old)
            /\ Joins(old, new, home, Part(q, n))
            /\ home = Home[q.items[n].operand] /\ home # 0
        BY Zenon, <1>1, <1>4, <2>2, <2>3, <3>1, <4>1 DEF AllRanked, ManyGives
      <4>3. AllRanked(q, n, new) /\ Grew(old, new, home, Part(q, n))
        BY ZenonT(30), <1>0, <2>4, <3>2, <4>2, LoopJoins
      <4> QED BY Zenon, <4>1, <4>3 DEF AllRanked, Grew
    <3>4. ASSUME NEW s \in 1 .. Sets
          PROVE  Range(r.args[s]) = Keys(q, s, n)
      <4>1. Range(acc.args[s]) = Keys(q, s, n - 1)
        BY Zenon, <2>3
      <4>2. \A v : v \in Keys(q, s, n) <=>
              v \in Keys(q, s, n - 1) \/ (v = q.items[n].lookup /\ Home[q.items[n].operand] = s)
        BY ZenonT(30), <1>0, HereKeys
      <4>3. CASE s = home
        <5>1. \A v : v \in Range(r.args[s]) <=> v \in Range(acc.args[s]) \/ v = item.lookup
          BY Zenon, <2>7, <3>3, <4>3
        <5>2. \A v : v \in Range(r.args[s]) <=> v \in Keys(q, s, n)
          BY Zenon, <1>1, <1>4, <4>1, <4>2, <4>3, <5>1
        <5> QED BY Zenon, <5>2
      <4>4. CASE s # home
        <5>1. Range(r.args[s]) = Range(acc.args[s])
          BY Zenon, <3>3, <4>4
        <5>2. \A v : v \in Range(r.args[s]) <=> v \in Keys(q, s, n)
          BY Zenon, <1>1, <1>4, <4>1, <4>2, <4>4, <5>1
        <5> QED BY Zenon, <5>2
      <4> QED BY Zenon, <4>3, <4>4
    <3> QED BY Zenon, <2>5, <3>3, <3>4
  <2> QED BY Zenon, <2>8, <2>9
<1>7. CASE q.method.mode # "groupedMany"
  <2>1. r = routeCopy(acc, item)
    BY Zenon, <1>2, <1>7 DEF Turn
  <2>2. CopyGives(acc, item, home, r)
    BY <1>3, <1>4, <2>1, CopyTurn
  <2> SUFFICES ASSUME r.err = ""
               PROVE  /\ \A i \in 1 .. n : Home[q.items[i].operand] \in 1 .. Sets
                      /\ DOMAIN r.args = 1 .. Sets
                      /\ \A s \in 1 .. Sets : Ranked(q, First(q, s, n), r.args[s])
    BY Zenon, <1>1, <1>7, <2>2 DEF LoopInv, Good, CopyGives
  <2>3. /\ \A i \in 1 .. n - 1 : Home[q.items[i].operand] \in 1 .. Sets
        /\ DOMAIN acc.args = 1 .. Sets
        /\ \A s \in 1 .. Sets : Ranked(q, First(q, s, n - 1), acc.args[s])
    BY Zenon, <1>g, <2>2 DEF Good, CopyGives
  <2>4. home \in 1 .. Sets
    <3>1. item.operand \in DOMAIN Home /\ home # 0
      BY Zenon, <1>0, <1>1, <1>7, <2>2 DEF Grouped, CopyGives
    <3> QED BY Zenon, <1>4, <3>1, HomeRange
  <2>5. \A i \in 1 .. n : Home[q.items[i].operand] \in 1 .. Sets
    BY Zenon, <1>1, <1>4, <1>5, <2>3, <2>4
  <2>6. n \in Due(q, home)
    <3>1. n \in Due(q, home) <=>
            /\ Home[q.items[n].operand] = home
            /\ q.method.mode = "groupedMany" =>
                 q.items[n].lookup \notin Keys(q, home, n - 1)
      BY ZenonT(30), <1>0, FirstGrows
    <3> QED BY Zenon, <1>1, <1>4, <1>7, <3>1
  <2>7. Part(q, n) = item
    BY Zenon, <1>1, <1>7 DEF Part
  <2>8. Joins(acc.args, r.args, home, Part(q, n))
    BY Zenon, <2>2, <2>7 DEF CopyGives
  <2> QED
    <3>1. PICK old, new : old = acc.args /\ new = r.args
      BY Zenon
    <3>2. /\ AllRanked(q, n - 1, old)
          /\ Joins(old, new, home, Part(q, n))
          /\ home = Home[q.items[n].operand] /\ home # 0
      BY Zenon, <1>1, <1>4, <2>2, <2>3, <2>8, <3>1 DEF AllRanked, CopyGives
    <3>3. AllRanked(q, n, new)
      BY ZenonT(30), <1>0, <2>4, <2>6, <3>2, LoopJoins
    <3> QED BY Zenon, <2>5, <3>1, <3>3 DEF AllRanked
<1> QED BY Zenon, <1>6, <1>7

\* So it holds after every number of items.
LEMMA LoopHolds ==
  ASSUME NEW q, Grouped(q)
  PROVE  \A n \in 0 .. Len(q.items) : LoopInv(q, n)
<1>0. Len(q.items) \in Nat
  BY Zenon, ItemNumbers DEF Grouped
<1> DEFINE Bad == {n \in 0 .. Len(q.items) : ~ LoopInv(q, n)}
<1> SUFFICES ASSUME Bad # {} PROVE FALSE
  BY Zenon
<1>1. Bad \in SUBSET Nat
  BY <1>0
<1>2. PICK n \in Bad : \A k \in Bad : n <= k
  BY Zenon, <1>1, LeastNat
<1>3. n # 0
  BY Zenon, <1>2, LoopStart
<1>4. n \in 1 .. Len(q.items) /\ n - 1 \in 0 .. Len(q.items) /\ ~ (n <= n - 1)
  BY <1>0, <1>2, <1>3
<1>5. LoopInv(q, n - 1)
  BY Zenon, <1>2, <1>4
<1> QED BY Zenon, <1>2, <1>4, <1>5, LoopStep

-----------------------------------------------------------------------------
(* Planning a call.                                                        *)

\* What a caller may ask for.
ValidCall(q) ==
  /\ q.method.mode \in {"routed", "all", "groupedMany", "groupedCopy"}
  /\ q.method.kind \in {"read", "write"}
  /\ IsSeq(q.items)
  /\ q.method.mode = "routed" => Len(q.items) = 1
  /\ \A i \in DOMAIN q.items :
       \/ q.items[i] = Nil /\ q.method.mode = "groupedMany"
       \/ q.items[i] # Nil /\ q.items[i].operand \in DOMAIN Home

\* The plan of a call: a call that is refused has no groups; otherwise the groups are
\* the sets that something is due at, with exactly that, or all sets; a transaction
\* and a routed call have at most one.
PlanFits(q, p) ==
  /\ p.err # "" => DOMAIN p.groups = {}
  /\ DOMAIN p.groups \subseteq 1 .. Sets
  /\ p.err = "" => \A s \in 1 .. Sets :
       s \in DOMAIN p.groups <=> q.method.mode = "all" \/ Due(q, s) # {}
  /\ q.method.mode # "all" => \A s \in DOMAIN p.groups :
       Carries(q, s, p.groups[s]) /\ p.groups[s] # <<>>
  /\ q.options.tx \/ q.method.mode = "routed" => \A s, t \in DOMAIN p.groups : s = t

\* The plan of a routed call has the set of its one item.
LEMMA PlanRouted ==
  ASSUME NEW q, ValidCall(q), q.method.mode = "routed"
  PROVE  PlanFits(q, Plan(q))
<1>1. DOMAIN q.items = {1}
  <2>1. Len(q.items) = 1 /\ DOMAIN q.items = 1 .. Len(q.items)
    BY Zenon, ItemNumbers DEF ValidCall
  <2> QED BY <2>1
<1>2. PICK item, home, p : item = q.items[1] /\ home = Home[item.operand] /\ p = Plan(q)
  BY Zenon
<1>3. p = routedPlan(item, q.method.command)
  BY Zenon, <1>2 DEF Plan
<1>4. PICK err, groups :
        /\ err = (IF home # 0 THEN "" ELSE IF q.method.command = ":batch" THEN "panic" ELSE "route")
        /\ groups = [t \in {home} \ {0} |-> <<item>>]
  BY Zenon
<1>5. p = [err |-> err, groups |-> groups, ordered |-> <<>>]
  BY Zenon, <1>2, <1>3, <1>4 DEF routedPlan
<1>6. p.err = err /\ p.groups = groups
  BY <1>5
<1>7. home # 0 => home \in 1 .. Sets
  BY Zenon, <1>1, <1>2, HomeRange DEF ValidCall
<1>8. \A s : Due(q, s) = {i \in {1} : home = s}
  BY Zenon, <1>1, <1>2 DEF Due
<1>9. err = "" <=> home # 0
  BY Zenon, <1>4
<1>10. DOMAIN groups = {home} \ {0} /\ \A s \in DOMAIN groups : s = home /\ groups[s] = <<item>>
  BY Zenon, <1>4
<1>11. 0 \notin 1 .. Sets
  BY HomeRange
<1>12. ASSUME home # 0
       PROVE  Carries(q, home, <<item>>) /\ <<item>> # <<>>
  <2>1. Due(q, home) = {1}
    BY Zenon, <1>8
  <2>2. {j \in {1} : j <= 1} = {1}
    OBVIOUS
  <2>3. Cardinality({1}) = 1
    BY FS_Singleton
  <2>4. Len(<<item>>) = 1 /\ <<item>>[1] = item /\ <<item>> # <<>>
    OBVIOUS
  <2>5. Part(q, 1) = item
    BY Zenon, <1>2 DEF Part
  <2> QED BY Zenon, <2>1, <2>2, <2>3, <2>4, <2>5 DEF Carries
<1>13. \A s : Due(q, s) # {} <=> home = s
  BY Zenon, <1>8
<1>14. err # "" => DOMAIN groups = {}
  BY Zenon, <1>9, <1>10
<1>15. err = "" => \A s \in 1 .. Sets : s \in DOMAIN groups <=> Due(q, s) # {}
  BY Zenon, <1>9, <1>10, <1>11, <1>13
<1>16. \A s \in DOMAIN groups : Carries(q, s, groups[s]) /\ groups[s] # <<>>
  BY Zenon, <1>10, <1>12
<1>17. DOMAIN groups \subseteq 1 .. Sets
  BY Zenon, <1>7, <1>10
<1>18. \A s, t \in DOMAIN groups : s = t
  BY Zenon, <1>10
<1> QED BY Zenon, <1>2, <1>6, <1>14, <1>15, <1>16, <1>17, <1>18 DEF PlanFits

\* The plan of a call to all shards has every set.
LEMMA PlanAll ==
  ASSUME NEW q, ValidCall(q), q.method.mode = "all"
  PROVE  PlanFits(q, Plan(q))
<1>1. PICK p, err, groups :
        /\ p = Plan(q)
        /\ err = (IF q.options.tx THEN "cross-shard transaction" ELSE "")
        /\ groups = (IF q.options.tx THEN <<>> ELSE [s \in 1 .. Sets |-> <<>>])
  BY Zenon
<1>2. p = allShardsPlan(q.options)
  BY Zenon, <1>1 DEF Plan
<1>3. p = [err |-> err, groups |-> groups, ordered |-> <<>>]
  BY Zenon, <1>1, <1>2 DEF allShardsPlan
<1>4. p.err = err /\ p.groups = groups
  BY <1>3
<1>5. DOMAIN <<>> = {}
  OBVIOUS
<1>6. CASE q.options.tx
  <2>1. err # "" /\ DOMAIN groups = {}
    BY Zenon, <1>1, <1>5, <1>6
  <2> QED BY Zenon, <1>1, <1>4, <2>1 DEF PlanFits
<1>7. CASE ~ q.options.tx
  <2>1. err = "" /\ DOMAIN groups = 1 .. Sets
    BY Zenon, <1>1, <1>7
  <2> QED BY Zenon, <1>1, <1>4, <1>7, <2>1 DEF PlanFits
<1> QED BY Zenon, <1>6, <1>7

\* A set without two different elements, by its cardinality.
LEMMA AtMostOne ==
  ASSUME NEW S, IsFiniteSet(S), ~ (Cardinality(S) > 1)
  PROVE  \A s, t \in S : s = t
<1> SUFFICES ASSUME NEW s \in S, NEW t \in S, s # t PROVE FALSE
  BY Zenon
<1>1. Cardinality({s, t}) = 2
  <2>1. IsFiniteSet({s}) /\ Cardinality({s}) = 1
    BY ZenonT(30), FS_Singleton
  <2>2. Cardinality({s} \cup {t}) = Cardinality({s}) + 1
    BY <2>1, FS_AddElement
  <2>3. {s} \cup {t} = {s, t}
    BY Zenon
  <2> QED BY <2>1, <2>2, <2>3
<1>2. Cardinality({s, t}) <= Cardinality(S)
  <2>1. {s, t} \subseteq S
    BY Zenon
  <2> QED BY Zenon, <2>1, FS_Subset
<1>3. Cardinality(S) \in Nat
  BY Zenon, FS_CardinalityType
<1> QED BY <1>1, <1>2, <1>3

\* The plan of a grouped call has the sets that something is due at.
LEMMA PlanGrouped ==
  ASSUME NEW q, ValidCall(q), q.method.mode \in {"groupedMany", "groupedCopy"}
  PROVE  PlanFits(q, Plan(q))
<1>0. Grouped(q)
  BY Zenon DEF Grouped, ValidCall
<1>1. Len(q.items) \in Nat /\ DOMAIN q.items = 1 .. Len(q.items)
  BY Zenon, ItemNumbers DEF ValidCall
<1>2. PICK p, r, all : /\ p = Plan(q)
                       /\ r = routeAll(q.method.mode, q.items)[Len(q.items)]
                       /\ all = populated(r.args)
  BY Zenon
<1>3. PICK err : err = IF r.err # "" THEN r.err
                       ELSE IF crossShard(q.options, Cardinality(DOMAIN all))
                       THEN "cross-shard transaction" ELSE ""
  BY Zenon
<1>4. PICK groups : groups = IF err = "" THEN all ELSE <<>>
  BY Zenon
<1>5. p = groupedPlan(r, q.options)
  <2>1. q.method.mode # "routed" /\ q.method.mode # "all"
    BY Zenon
  <2> QED BY Zenon, <1>2, <2>1 DEF Plan
<1>6. p = [err |-> err, groups |-> groups, ordered |-> r.ordered]
  BY Zenon, <1>2, <1>3, <1>4, <1>5 DEF groupedPlan
<1>7. p.err = err /\ p.groups = groups
  BY <1>6
<1>8. DOMAIN <<>> = {}
  OBVIOUS
<1>9. CASE err # ""
  <2>1. DOMAIN groups = {}
    BY Zenon, <1>4, <1>8, <1>9
  <2> QED BY Zenon, <1>2, <1>7, <1>9, <2>1 DEF PlanFits
<1>10. CASE err = ""
  <2>1. r.err = "" /\ ~ crossShard(q.options, Cardinality(DOMAIN all)) /\ groups = all
    BY Zenon, <1>3, <1>4, <1>10
  <2>2. Good(q, Len(q.items), r)
    <3>1. Len(q.items) \in 0 .. Len(q.items)
      BY <1>1
    <3> QED BY Zenon, <1>0, <1>2, <3>1, LoopHolds DEF LoopInv
  <2>3. ASSUME NEW s \in 1 .. Sets
        PROVE  /\ Carries(q, s, r.args[s])
               /\ r.args[s] # <<>> <=> Due(q, s) # {}
    <3>1. Due(q, s) \subseteq 1 .. Len(q.items)
      BY Zenon, <1>1 DEF Due
    <3>2. First(q, s, Len(q.items)) = Due(q, s)
      BY <1>1, <3>1 DEF First
    <3>3. Ranked(q, Due(q, s), r.args[s])
      BY Zenon, <2>1, <2>2, <3>2 DEF Good
    <3>4. IsFiniteSet(Due(q, s))
      <4>1. IsFiniteSet(1 .. Len(q.items))
        BY <1>1, FS_Interval
      <4> QED BY Zenon, <3>1, <4>1, FS_Subset
    <3>5. Due(q, s) = {} <=> Cardinality(Due(q, s)) = 0
      BY Zenon, <3>4, FS_EmptySet
    <3>6. IsSeq(r.args[s]) /\ Len(r.args[s]) = Cardinality(Due(q, s))
      BY Zenon, <3>3 DEF Ranked
    <3>7. r.args[s] = <<>> <=> Len(r.args[s]) = 0
      BY <3>6 DEF IsSeq
    <3> QED BY Zenon, <3>3, <3>5, <3>6, <3>7 DEF Carries, Ranked
  <2>4. /\ DOMAIN groups = {s \in 1 .. Sets : r.args[s] # <<>>}
        /\ \A s \in DOMAIN groups : groups[s] = r.args[s]
    BY Zenon, <1>2, <2>1 DEF populated
  <2>5. \A s \in 1 .. Sets : s \in DOMAIN groups <=> Due(q, s) # {}
    BY Zenon, <2>3, <2>4
  <2>6. \A s \in DOMAIN groups : Carries(q, s, groups[s]) /\ groups[s] # <<>>
    BY Zenon, <2>3, <2>4
  <2>7. DOMAIN groups \subseteq 1 .. Sets
    BY Zenon, <2>4
  <2>8. ASSUME q.options.tx
        PROVE  \A s, t \in DOMAIN groups : s = t
    <3>1. IsFiniteSet(DOMAIN groups)
      <4>1. IsFiniteSet(1 .. Sets)
        BY HomeRange, FS_Interval
      <4> QED BY Zenon, <2>7, <4>1, FS_Subset
    <3>2. ~ (Cardinality(DOMAIN groups) > 1)
      BY Zenon, <2>1, <2>8 DEF crossShard
    <3> QED BY <3>1, <3>2, AtMostOne
  <2>9. q.method.mode # "all"
    BY Zenon
  <2> QED BY Zenon, <1>2, <1>7, <1>10, <2>5, <2>6, <2>7, <2>8, <2>9 DEF PlanFits
<1> QED BY Zenon, <1>9, <1>10

\* Every call gets a plan that fits it.
LEMMA PlanIsRight ==
  ASSUME NEW q, ValidCall(q)
  PROVE  PlanFits(q, Plan(q))
BY Zenon, PlanRouted, PlanAll, PlanGrouped DEF ValidCall

-----------------------------------------------------------------------------
(* The inductive invariant.                                                *)

\* The variables are functions of the callers, the log of the sets and nodes, and a
\* call began after calls that had returned.
Shape ==
  /\ store \in DOMAIN Stores
  /\ DOMAIN pc = Callers /\ DOMAIN call = Callers /\ DOMAIN plan = Callers
  /\ DOMAIN tasks = Callers /\ DOMAIN result = Callers /\ DOMAIN before = Callers
  /\ DOMAIN log = 1 .. Sets
  /\ \A s \in 1 .. Sets : DOMAIN log[s] = Nodes /\ \A node \in Nodes : IsSeq(log[s][node])
  /\ \A c \in Callers : \A d \in before[c] : d \in Callers /\ pc[d] = "returned"

\* A goroutine that has n mirrors to visit: it passed its target before the first
\* mirror, and each mirror before the next.
Passing(t, n) ==
  /\ t = [answers |-> t.answers, value |-> t.value]
  /\ t.answers \in Seq({"ok", "norows", "error"})
  /\ Len(t.answers) <= 1 + n
  /\ Len(t.answers) > 1 => t.answers[1] = "ok"
  /\ \A k \in 2 .. Len(t.answers) - 1 : t.answers[k] # "error" \/ IgnoreMirrorError

\* What a call returned without a group, of one goroutine, and of several.
Reported(c) ==
  /\ DOMAIN tasks[c] = {} => result[c] = [value |-> Zero, err |-> plan[c].err, failed |-> {}]
  /\ DOMAIN tasks[c] # {} /\ ~ Fans(call[c].method) =>
       /\ result[c].failed = {}
       /\ \A s \in DOMAIN tasks[c] : result[c].err = taskErr(tasks[c][s].answers)
  /\ DOMAIN tasks[c] # {} /\ Fans(call[c].method) =>
       /\ result[c].err = ""
       /\ failedSets(c) # {} => result[c].failed = failedSets(c)
       /\ result[c].failed # {} => result[c].value = Zero

\* What holds of one caller.
CallerInv(c) ==
  /\ pc[c] \in {"idle", "running", "returned"}
  /\ pc[c] = "idle" => DOMAIN tasks[c] = {}
  /\ pc[c] # "idle" =>
       ValidCall(call[c]) /\ PlanFits(call[c], plan[c]) /\ DOMAIN tasks[c] = DOMAIN plan[c].groups
  /\ pc[c] = "running" => DOMAIN tasks[c] # {}
  /\ \A s \in DOMAIN tasks[c] : Passing(tasks[c][s], mirrors(call[c], s))
  /\ pc[c] = "returned" => waited(c) /\ Reported(c)

CallersInv == \A c \in Callers : CallerInv(c)

\* Where the k-th statement of a goroutine of c goes.
NodeOf(c, k) == IF k = 1 THEN target(call[c]) ELSE <<"mirror", k - 1>>

\* A statement was sent by a goroutine, with its arguments, and was answered.
Owned(s, node, e) ==
  /\ e.by \in Callers /\ s \in DOMAIN tasks[e.by]
  /\ e.args = plan[e.by].groups[s]
  /\ \E k \in 1 .. Len(tasks[e.by][s].answers) :
       node = NodeOf(e.by, k) /\ e.answer = tasks[e.by][s].answers[k]

\* The log has what the goroutines sent and nothing else, once each, and no call before
\* one that had returned when it began.
LogInv ==
  /\ \A s \in 1 .. Sets : \A node \in Nodes : \A i \in DOMAIN log[s][node] :
       Owned(s, node, log[s][node][i])
  /\ \A c \in Callers : \A s \in DOMAIN tasks[c] : \A k \in 1 .. Len(tasks[c][s].answers) :
       \E e \in Entries(s, NodeOf(c, k), c) : e.answer = tasks[c][s].answers[k]
  /\ \A s \in 1 .. Sets : \A node \in Nodes : \A i, j \in DOMAIN log[s][node] :
       log[s][node][i].by = log[s][node][j].by => i = j
  /\ \A s \in 1 .. Sets : \A node \in Nodes : \A i, j \in DOMAIN log[s][node] :
       i < j => log[s][node][j].by \notin before[log[s][node][i].by]

IInv == Shape /\ CallersInv /\ LogInv

\* The error of a goroutine depends on its answers and on the plugin option.
LEMMA SameOption ==
  ASSUME store' = store
  PROVE  /\ IgnoreMirrorError' = IgnoreMirrorError
         /\ \A answers : taskErr(answers)' = taskErr(answers)
         /\ \A q, s, answers : done(q, s, answers)' = done(q, s, answers)
         /\ \A t, n : Passing(t, n)' <=> Passing(t, n)
<1>1. IgnoreMirrorError' = IgnoreMirrorError
  BY Zenon DEF IgnoreMirrorError
<1>2. \A answers : taskErr(answers)' = taskErr(answers)
  BY Zenon, <1>1 DEF taskErr, mirrorError
<1>3. \A q, s, answers : done(q, s, answers)' = done(q, s, answers)
  BY Zenon, <1>2 DEF done
<1>4. \A t, n : Passing(t, n)' <=> Passing(t, n)
  BY Zenon, <1>1 DEF Passing
<1> QED BY Zenon, <1>1, <1>2, <1>3, <1>4

\* What holds of a caller is left alone by steps that do not touch it.
LEMMA Untouched ==
  ASSUME NEW c \in Callers, CallerInv(c), store' = store,
         pc'[c] = pc[c], call'[c] = call[c], plan'[c] = plan[c],
         tasks'[c] = tasks[c], result'[c] = result[c]
  PROVE  CallerInv(c)'
<1>1. /\ \A answers : taskErr(answers)' = taskErr(answers)
      /\ \A q, s, answers : done(q, s, answers)' = done(q, s, answers)
      /\ \A t, n : Passing(t, n)' <=> Passing(t, n)
  BY Zenon, SameOption
<1>2. waited(c)' <=> waited(c)
  BY Zenon, <1>1 DEF waited
<1>3. failedSets(c)' = failedSets(c)
  BY Zenon, <1>1 DEF failedSets
<1>4. Reported(c)' <=> Reported(c)
  BY Zenon, <1>1, <1>3 DEF Reported
<1>5. \A s : mirrors(call[c], s)' = mirrors(call[c], s)
  BY Zenon DEF mirrors
<1>6. (\A s \in DOMAIN tasks[c] : Passing(tasks[c][s], mirrors(call[c], s)))'
  BY Zenon, <1>1, <1>5 DEF CallerInv
<1> QED BY Zenon, <1>2, <1>4, <1>6 DEF CallerInv

\* The invariant holds before the first call.
LEMMA InitInv == Init => IInv
<1> SUFFICES ASSUME Init PROVE IInv
  BY Zenon
<1>e. DOMAIN <<>> = {} /\ <<>> \in Seq({})
  OBVIOUS
<1>0. IsSeq(<<>>)
  BY Zenon, <1>e, SeqIsSeq
<1>1. DOMAIN result = Callers /\ DOMAIN call = Callers
  BY Zenon DEF Init
<1>2. \A c \in Callers : pc[c] = "idle" /\ tasks[c] = <<>> /\ before[c] = {}
  BY Zenon DEF Init
<1>3. \A s \in 1 .. Sets : DOMAIN log[s] = Nodes /\ \A node \in Nodes : log[s][node] = <<>>
  BY Zenon DEF Init
<1>4. Shape
  BY Zenon, <1>e, <1>0, <1>1, <1>2, <1>3 DEF Init, Shape
<1>5. CallersInv
  <2>1. "idle" # "running" /\ "idle" # "returned"
    OBVIOUS
  <2> QED BY Zenon, <1>e, <1>0, <1>2, <2>1 DEF CallersInv, CallerInv
<1>6. LogInv
  BY Zenon, <1>e, <1>0, <1>2, <1>3 DEF LogInv
<1> QED BY Zenon, <1>4, <1>5, <1>6 DEF IInv

\* What a caller may ask for is a valid call.
LEMMA CallsAreValid ==
  ASSUME NEW st \in DOMAIN Stores, NEW m \in Stores[st].methods,
         NEW items \in Stores[st].inputs[m.mode], NEW o, NEW q,
         q = [method |-> m, items |-> items, options |-> o]
  PROVE  ValidCall(q)
<1>1. q.method = m /\ q.items = items
  OBVIOUS
<1>2. /\ m.mode \in {"routed", "all", "groupedMany", "groupedCopy"}
      /\ m.kind \in {"read", "write"}
      /\ items \in Seq(Range(items))
      /\ m.mode = "routed" => Len(items) = 1
      /\ \A item \in Range(items) :
           \/ item = Nil /\ m.mode = "groupedMany"
           \/ item # Nil /\ item.operand \in DOMAIN Home
  BY Zenon, StoreQueriesAssumption
<1>3. \A i \in DOMAIN items : items[i] \in Range(items)
  BY Zenon DEF Range
<1> QED BY Zenon, <1>1, <1>2, <1>3 DEF ValidCall, IsSeq

\* Planning a call keeps the invariant: it has sent nothing yet.
LEMMA CallKeeps ==
  ASSUME IInv, NEW c \in Callers, NEW m \in Stores[store].methods, NEW options,
         NEW items \in Stores[store].inputs[m.mode], Call(c, m, items, options)
  PROVE  IInv'
<1>1. PICK q, p : /\ q = [method |-> m, items |-> items, options |-> applyQueryOptions(options)]
                  /\ p = Plan(q)
  BY Zenon
<1>2. ValidCall(q) /\ PlanFits(q, p)
  <2>1. store \in DOMAIN Stores
    BY Zenon DEF IInv, Shape
  <2>2. ValidCall(q)
    BY <1>1, <2>1, CallsAreValid
  <2> QED BY Zenon, <1>1, <2>2, PlanIsRight
<1>3. PICK t, r : /\ t = [s \in DOMAIN p.groups |-> [answers |-> <<>>, value |-> Zero]]
                  /\ r = [value |-> Zero, err |-> p.err, failed |-> {}]
  BY Zenon
<1>4. /\ pc[c] = "idle"
      /\ call' = [call EXCEPT ![c] = q]
      /\ plan' = [plan EXCEPT ![c] = p]
      /\ before' = [before EXCEPT ![c] = {d \in Callers : pc[d] = "returned"}]
      /\ tasks' = [tasks EXCEPT ![c] = t]
      /\ pc' = [pc EXCEPT ![c] = IF DOMAIN p.groups = {} THEN "returned" ELSE "running"]
      /\ result' = [result EXCEPT ![c] = r]
      /\ store' = store /\ log' = log
  BY Zenon, <1>1, <1>3 DEF Call
<1>5. /\ DOMAIN pc = Callers /\ DOMAIN call = Callers /\ DOMAIN plan = Callers
      /\ DOMAIN tasks = Callers /\ DOMAIN result = Callers /\ DOMAIN before = Callers
  BY Zenon DEF IInv, Shape
<1>6. /\ call'[c] = q /\ plan'[c] = p /\ tasks'[c] = t /\ result'[c] = r
      /\ pc'[c] = IF DOMAIN p.groups = {} THEN "returned" ELSE "running"
      /\ before'[c] = {d \in Callers : pc[d] = "returned"}
  BY Zenon, <1>4, <1>5
<1>7. \A d \in Callers : d # c =>
        /\ call'[d] = call[d] /\ plan'[d] = plan[d] /\ tasks'[d] = tasks[d]
        /\ result'[d] = result[d] /\ pc'[d] = pc[d] /\ before'[d] = before[d]
  BY Zenon, <1>4, <1>5
<1>8. DOMAIN tasks[c] = {}
  BY Zenon, <1>4 DEF IInv, CallersInv, CallerInv
<1>9. \A d \in Callers : pc[d] = "returned" => pc'[d] = "returned"
  BY Zenon, <1>4, <1>7
<1>10. Shape'
  <2>1. \A d \in Callers : \A e \in before'[d] : e \in Callers /\ pc'[e] = "returned"
    BY ZenonT(30), <1>6, <1>7, <1>9 DEF IInv, Shape
  <2>2. /\ DOMAIN pc' = Callers /\ DOMAIN call' = Callers /\ DOMAIN plan' = Callers
        /\ DOMAIN tasks' = Callers /\ DOMAIN result' = Callers /\ DOMAIN before' = Callers
    BY Zenon, <1>4, <1>5
  <2> QED BY Zenon, <1>4, <2>1, <2>2 DEF IInv, Shape
<1>11. CallerInv(c)'
  <2>1. DOMAIN t = DOMAIN p.groups /\ \A s \in DOMAIN t : t[s] = [answers |-> <<>>, value |-> Zero]
    BY Zenon, <1>3
  <2>2. \A s \in DOMAIN t : t[s].answers = <<>> /\ t[s] = [answers |-> t[s].answers, value |-> t[s].value]
    <3> SUFFICES ASSUME NEW s \in DOMAIN t
                 PROVE  t[s].answers = <<>> /\ t[s] = [answers |-> t[s].answers, value |-> t[s].value]
      BY Zenon
    <3>1. PICK u, z : u = t[s] /\ z = Zero
      BY Zenon
    <3>2. u = [answers |-> <<>>, value |-> z]
      BY Zenon, <2>1, <3>1
    <3>3. u.answers = <<>> /\ u = [answers |-> u.answers, value |-> u.value]
      BY <3>2
    <3> QED BY Zenon, <3>1, <3>3
  <2>3. \A s \in DOMAIN t : Passing(t[s], mirrors(q, s))'
    <3> SUFFICES ASSUME NEW s \in DOMAIN t PROVE Passing(t[s], mirrors(q, s))'
      BY Zenon
    <3>1. PICK n : n = mirrors(q, s)
      BY Zenon
    <3>2. n \in Nat
      <4>1. s \in 1 .. Sets
        BY Zenon, <1>2, <2>1 DEF PlanFits
      <4>2. Mirrors[s] \in Nat /\ 0 \in Nat
        BY Zenon, <4>1, StoreQueriesAssumption
      <4> QED BY Zenon, <3>1, <4>2 DEF mirrors
    <3>3. PICK u : u = t[s]
      BY Zenon
    <3>4. u.answers = <<>> /\ u = [answers |-> u.answers, value |-> u.value]
      BY Zenon, <2>2, <3>3
    <3>5. /\ u.answers \in Seq({"ok", "norows", "error"})
          /\ Len(u.answers) <= 1 + n /\ ~ (Len(u.answers) > 1)
          /\ 2 .. Len(u.answers) - 1 = {}
      BY <3>2, <3>4
    <3>6. Passing(u, n)'
      BY Zenon, <3>4, <3>5 DEF Passing
    <3> QED BY Zenon, <3>1, <3>3, <3>6
  <2>4. CASE DOMAIN p.groups = {}
    <3>1. pc'[c] = "returned" /\ DOMAIN t = {}
      BY Zenon, <1>6, <2>1, <2>4
    <3>2. waited(c)'
      BY Zenon, <1>6, <3>1 DEF waited
    <3>3. Reported(c)'
      BY Zenon, <1>3, <1>6, <3>1 DEF Reported
    <3> QED BY Zenon, <1>2, <1>6, <2>1, <2>3, <3>1, <3>2, <3>3 DEF CallerInv
  <2>5. CASE DOMAIN p.groups # {}
    <3>1. pc'[c] = "running" /\ DOMAIN t # {}
      BY Zenon, <1>6, <2>1, <2>5
    <3> QED BY Zenon, <1>2, <1>6, <2>1, <2>3, <3>1 DEF CallerInv
  <2> QED BY Zenon, <2>4, <2>5
<1>12. CallersInv'
  <2>1. \A d \in Callers : d # c => CallerInv(d)'
    BY <1>4, <1>7, Untouched DEF IInv, CallersInv
  <2> QED BY Zenon, <1>11, <2>1 DEF CallersInv
<1>13. ASSUME NEW s \in 1 .. Sets, NEW node \in Nodes, NEW i \in DOMAIN log[s][node]
       PROVE  log[s][node][i].by # c /\ Owned(s, node, log[s][node][i])'
  <2>1. Owned(s, node, log[s][node][i])
    BY Zenon DEF IInv, LogInv
  <2>2. PICK e : e = log[s][node][i]
    BY Zenon
  <2>3. e.by # c /\ e.by \in Callers
    BY Zenon, <1>8, <2>1, <2>2 DEF Owned
  <2>4. \A k : NodeOf(e.by, k)' = NodeOf(e.by, k)
    BY Zenon, <1>7, <2>3 DEF NodeOf
  <2>5. Owned(s, node, e)'
    BY ZenonT(30), <1>7, <2>1, <2>2, <2>3, <2>4 DEF Owned
  <2> QED BY Zenon, <1>4, <2>2, <2>3, <2>5
<1>14. LogInv'
  <2>1. (\A s \in 1 .. Sets : \A node \in Nodes : \A i \in DOMAIN log[s][node] :
          Owned(s, node, log[s][node][i]))'
    BY Zenon, <1>4, <1>13
  <2>2. ASSUME NEW d \in Callers, NEW s \in DOMAIN tasks'[d],
               NEW k \in 1 .. Len(tasks'[d][s].answers)
        PROVE  \E e \in Entries(s, NodeOf(d, k), d)' : e.answer = tasks'[d][s].answers[k]
    <3>1. d # c
      <4> SUFFICES ASSUME d = c PROVE FALSE
        BY Zenon
      <4>1. tasks'[d][s] = [answers |-> <<>>, value |-> Zero]
        BY Zenon, <1>3, <1>6
      <4>2. tasks'[d][s].answers = <<>>
        <5>1. PICK u, z : u = tasks'[d][s] /\ z = Zero
          BY Zenon
        <5>2. u = [answers |-> <<>>, value |-> z]
          BY Zenon, <4>1, <5>1
        <5>3. u.answers = <<>>
          BY <5>2
        <5> QED BY Zenon, <5>1, <5>3
      <4>3. 1 .. Len(<<>>) = {}
        OBVIOUS
      <4> QED BY Zenon, <4>2, <4>3
    <3>2. NodeOf(d, k)' = NodeOf(d, k)
      BY Zenon, <1>7, <3>1 DEF NodeOf
    <3>3. \E e \in Entries(s, NodeOf(d, k), d) : e.answer = tasks[d][s].answers[k]
      <4>1. tasks'[d] = tasks[d]
        BY Zenon, <1>7, <3>1
      <4>2. s \in DOMAIN tasks[d] /\ k \in 1 .. Len(tasks[d][s].answers)
        BY Zenon, <2>2, <4>1
      <4>3. \A a \in Callers : \A b \in DOMAIN tasks[a] : \A n \in 1 .. Len(tasks[a][b].answers) :
              \E e \in Entries(b, NodeOf(a, n), a) : e.answer = tasks[a][b].answers[n]
        BY Zenon DEF IInv, LogInv
      <4> QED BY Zenon, <4>2, <4>3
    <3> QED BY Zenon, <1>4, <1>7, <3>1, <3>2, <3>3 DEF Entries
  <2>3. (\A s \in 1 .. Sets : \A node \in Nodes : \A i, j \in DOMAIN log[s][node] :
          log[s][node][i].by = log[s][node][j].by => i = j)'
    BY Zenon, <1>4 DEF IInv, LogInv
  <2>4. ASSUME NEW s \in 1 .. Sets, NEW node \in Nodes,
               NEW i \in DOMAIN log[s][node], NEW j \in DOMAIN log[s][node], i < j
        PROVE  log[s][node][j].by \notin before'[log[s][node][i].by]
    <3>1. log[s][node][i].by # c /\ log[s][node][i].by \in Callers
      <4>1. log[s][node][i].by # c
        BY Zenon, <1>13
      <4>2. Owned(s, node, log[s][node][i])
        BY Zenon DEF IInv, LogInv
      <4> QED BY Zenon, <4>1, <4>2 DEF Owned
    <3>2. log[s][node][j].by \notin before[log[s][node][i].by]
      BY Zenon, <2>4 DEF IInv, LogInv
    <3> QED BY Zenon, <1>7, <3>1, <3>2
  <2> QED BY Zenon, <1>4, <2>1, <2>2, <2>3, <2>4 DEF LogInv
<1> QED BY Zenon, <1>10, <1>12, <1>14 DEF IInv

\* A target is no mirror.
LEMMA Targets ==
  ASSUME NEW q
  PROVE  target(q) \in {<<"tx", 0>>, <<"replica", 0>>, <<"primary", 0>>}
BY Zenon DEF target

\* The statements of a goroutine go to different nodes.
LEMMA NodesDiffer ==
  ASSUME NEW c, NEW k \in Nat, NEW l \in Nat, NodeOf(c, k) = NodeOf(c, l)
  PROVE  k = l
<1>1. PICK x : x = target(call[c])
  BY Zenon
<1>2. x \in {<<"tx", 0>>, <<"replica", 0>>, <<"primary", 0>>}
  BY Zenon, <1>1, Targets
<1>3. (IF k = 1 THEN x ELSE <<"mirror", k - 1>>) = IF l = 1 THEN x ELSE <<"mirror", l - 1>>
  BY Zenon, <1>1 DEF NodeOf
<1> QED BY <1>2, <1>3

\* A set has a number of mirrors.
LEMMA MirrorCount ==
  ASSUME NEW q, NEW s \in 1 .. Sets
  PROVE  mirrors(q, s) \in Nat /\ (mirrors(q, s) = 0 \/ mirrors(q, s) = Mirrors[s])
<1>1. Mirrors[s] \in Nat /\ 0 \in Nat
  BY Zenon, StoreQueriesAssumption
<1> QED BY Zenon, <1>1 DEF mirrors

\* The statements of a goroutine go to nodes of its set.
LEMMA NodesExist ==
  ASSUME NEW c, NEW s \in 1 .. Sets, NEW k \in 1 .. 1 + mirrors(call[c], s)
  PROVE  NodeOf(c, k) \in Nodes
<1>1. CASE k = 1
  <2>1. target(call[c]) \in {"replica", "primary", "tx"} \X {0}
    <3>1. PICK x : x = target(call[c])
      BY Zenon
    <3>2. x \in {<<"tx", 0>>, <<"replica", 0>>, <<"primary", 0>>}
      BY Zenon, <3>1, Targets
    <3>3. x \in {"replica", "primary", "tx"} \X {0}
      BY <3>2
    <3> QED BY Zenon, <3>1, <3>3
  <2> QED BY Zenon, <1>1, <2>1 DEF NodeOf, Nodes
<1>2. CASE k # 1
  <2>1. PICK n : n = mirrors(call[c], s)
    BY Zenon
  <2>2. n \in Nat /\ (n = 0 \/ n = Mirrors[s]) /\ k \in 1 .. 1 + n
    BY Zenon, <2>1, MirrorCount
  <2>3. k - 1 \in 1 .. Mirrors[s]
    BY <1>2, <2>2
  <2>4. k - 1 \in UNION {1 .. Mirrors[r] : r \in 1 .. Sets}
    BY Zenon, <2>3
  <2>5. <<"mirror", k - 1>> \in {"mirror"} \X UNION {1 .. Mirrors[r] : r \in 1 .. Sets}
    BY Zenon, <2>4
  <2> QED BY Zenon, <1>2, <2>5 DEF NodeOf, Nodes
<1> QED BY Zenon, <1>1, <1>2

\* A goroutine that is not done passed all nodes so far.
LEMMA PassingNext ==
  ASSUME NEW q, NEW s, NEW n \in Nat, n = mirrors(q, s), NEW t, Passing(t, n),
         ~ done(q, s, t.answers), NEW a \in {"ok", "norows", "error"}, NEW v, NEW u,
         u = [answers |-> Append(t.answers, a), value |-> v]
  PROVE  /\ Passing(u, n)
         /\ u.answers = Append(t.answers, a) /\ IsSeq(t.answers)
         /\ Len(t.answers) + 1 \in 1 .. 1 + n
<1>1. PICK x, y : x = t.answers /\ y = Append(x, a)
  BY Zenon
<1>2. u.answers = y /\ u = [answers |-> u.answers, value |-> u.value]
  BY <1>1
<1>3. x \in Seq({"ok", "norows", "error"}) /\ Len(x) <= 1 + n
  BY Zenon, <1>1 DEF Passing
<1>4. /\ y \in Seq({"ok", "norows", "error"}) /\ Len(x) \in Nat /\ Len(y) = Len(x) + 1
      /\ \A i \in 1 .. Len(x) : y[i] = x[i]
  BY <1>1, <1>3
<1>5. CASE x = <<>>
  <2>1. Len(y) <= 1 + n /\ ~ (Len(y) > 1) /\ 2 .. Len(y) - 1 = {} /\ Len(x) + 1 \in 1 .. 1 + n
    BY <1>4, <1>5
  <2>2. Passing(u, n)
    BY Zenon, <1>2, <1>4, <2>1 DEF Passing
  <2> QED BY Zenon, <1>1, <1>2, <1>3, <2>1, <2>2, SeqIsSeq
<1>6. CASE x # <<>>
  <2>1. taskErr(x) = "" /\ Len(x) # 1 + n
    BY Zenon, <1>1, <1>6 DEF done
  <2>2. 1 \in 1 .. Len(x) /\ x[1] \in {"ok", "norows", "error"}
    BY <1>3, <1>6
  <2>3. x[1] = "ok" /\ mirrorError(x) = ""
    <3>1. x[1] # ""
      BY ZenonT(30), <2>2
    <3> QED BY Zenon, <2>1, <3>1 DEF taskErr
  <2>4. \A i \in 2 .. Len(x) : x[i] # "error" \/ IgnoreMirrorError
    BY Zenon, <2>3 DEF mirrorError
  <2>5. /\ Len(y) <= 1 + n /\ Len(x) + 1 \in 1 .. 1 + n /\ Len(y) - 1 = Len(x)
        /\ \A i \in 2 .. Len(x) : i \in 1 .. Len(x)
    <3>1. PICK lx, ly : lx = Len(x) /\ ly = Len(y)
      BY Zenon
    <3>2. lx \in Nat /\ lx <= 1 + n /\ lx # 1 + n /\ ly = lx + 1
      BY Zenon, <1>3, <1>4, <2>1, <3>1
    <3>3. /\ ly <= 1 + n /\ lx + 1 \in 1 .. 1 + n /\ ly - 1 = lx
          /\ \A i \in 2 .. lx : i \in 1 .. lx
      BY <3>2
    <3> QED BY Zenon, <3>1, <3>3
  <2>6. y[1] = "ok" /\ \A i \in 2 .. Len(y) - 1 : y[i] # "error" \/ IgnoreMirrorError
    BY Zenon, <1>4, <2>2, <2>3, <2>4, <2>5
  <2>7. Passing(u, n)
    BY Zenon, <1>2, <1>4, <2>5, <2>6 DEF Passing
  <2> QED BY Zenon, <1>1, <1>2, <1>3, <2>5, <2>7, SeqIsSeq
<1> QED BY Zenon, <1>5, <1>6

\* The goroutine of set s of caller c becomes u, the others stay.
TaskStep(c, s, u) ==
  /\ DOMAIN tasks' = Callers /\ \A d \in Callers : d # c => tasks'[d] = tasks[d]
  /\ DOMAIN tasks'[c] = DOMAIN tasks[c] /\ tasks'[c][s] = u
  /\ \A r \in DOMAIN tasks[c] : r # s => tasks'[c][r] = tasks[c][r]

\* The log of a node of set s gets an entry, the others stay.
LogStep(s, node, e) ==
  /\ DOMAIN log' = 1 .. Sets
  /\ \A r \in 1 .. Sets : /\ DOMAIN log'[r] = Nodes
                          /\ \A m \in Nodes : ~ (r = s /\ m = node) => log'[r][m] = log[r][m]
  /\ log'[s][node] = Append(log[s][node], e)

\* Log new is log old, or old with e at its end.
Extends(old, new, e, isNew) ==
  /\ IsSeq(new)
  /\ \A i \in DOMAIN old : i \in DOMAIN new /\ new[i] = old[i]
  /\ \A i \in DOMAIN new :
       \/ i \in DOMAIN old /\ new[i] = old[i]
       \/ isNew /\ new[i] = e /\ \A j \in DOMAIN old : j < i
  /\ isNew => \E i \in DOMAIN new : new[i] = e

\* Every entry of a log is an old one or the new one.
LEMMA LogGrows ==
  ASSUME Shape, NEW s \in 1 .. Sets, NEW node \in Nodes, NEW e, LogStep(s, node, e),
         NEW r \in 1 .. Sets, NEW m \in Nodes
  PROVE  Extends(log[r][m], log'[r][m], e, r = s /\ m = node)
<1>1. CASE ~ (r = s /\ m = node)
  <2>1. log'[r][m] = log[r][m]
    BY Zenon, <1>1 DEF LogStep
  <2> QED BY Zenon, <1>1, <2>1 DEF Shape, Extends
<1>2. CASE r = s /\ m = node
  <2>1. PICK old, new : old = log[r][m] /\ new = log'[r][m]
    BY Zenon
  <2>2. IsSeq(old) /\ new = Append(old, e)
    BY Zenon, <1>2, <2>1 DEF LogStep, Shape
  <2>3. /\ IsSeq(new) /\ Len(old) \in Nat
        /\ DOMAIN old = 1 .. Len(old) /\ DOMAIN new = 1 .. Len(old) + 1
        /\ new[Len(old) + 1] = e
        /\ \A i \in 1 .. Len(old) : new[i] = old[i]
    BY <2>2, AppendFacts
  <2>4. /\ \A i \in 1 .. Len(old) : i \in 1 .. Len(old) + 1 /\ i < Len(old) + 1
        /\ \A i \in 1 .. Len(old) + 1 : i \in 1 .. Len(old) \/ i = Len(old) + 1
        /\ Len(old) + 1 \in 1 .. Len(old) + 1
    BY <2>3
  <2>5. \A i \in DOMAIN old : i \in DOMAIN new /\ new[i] = old[i]
    BY Zenon, <2>3, <2>4
  <2>6. \A i \in DOMAIN new :
          \/ i \in DOMAIN old /\ new[i] = old[i]
          \/ new[i] = e /\ \A j \in DOMAIN old : j < i
    BY Zenon, <2>3, <2>4
  <2>7. \E i \in DOMAIN new : new[i] = e
    BY Zenon, <2>3, <2>4
  <2> QED BY ZenonT(30), <1>2, <2>1, <2>3, <2>5, <2>6, <2>7 DEF Extends
<1> QED BY Zenon, <1>1, <1>2

\* An answer to a goroutine keeps the invariant.
LEMMA AnsweredKeeps ==
  ASSUME IInv, NEW c \in Callers, NEW s \in DOMAIN tasks[c],
         NEW a \in {"ok", "norows", "error"}, NEW v, NEW t, t = tasks[c][s],
         ~ done(call[c], s, t.answers),
         NEW u, u = [answers |-> Append(t.answers, a), value |-> v],
         NEW k, k = Len(t.answers) + 1, NEW node, node = NodeOf(c, k),
         NEW e, e = [by |-> c, args |-> plan[c].groups[s], answer |-> a],
         TaskStep(c, s, u), LogStep(s, node, e),
         UNCHANGED <<store, call, pc, plan, result, before>>
  PROVE  IInv'
<1>1. Shape /\ CallerInv(c) /\ \A d \in Callers : CallerInv(d)
  BY Zenon DEF IInv, CallersInv
<1>2. pc[c] = "running"
  <2>1. ~ waited(c)
    BY Zenon DEF waited
  <2> QED BY Zenon, <1>1, <2>1 DEF CallerInv
<1>3. s \in 1 .. Sets /\ DOMAIN tasks[c] = DOMAIN plan[c].groups
  <2>1. "running" # "idle"
    OBVIOUS
  <2> QED BY ZenonT(30), <1>1, <1>2, <2>1 DEF CallerInv, PlanFits
<1>4. PICK n \in Nat : n = mirrors(call[c], s)
  BY Zenon, <1>3, MirrorCount
<1>5. Passing(t, n)
  BY Zenon, <1>1, <1>4 DEF CallerInv
<1>6. /\ Passing(u, n)
      /\ u.answers = Append(t.answers, a) /\ IsSeq(t.answers)
      /\ Len(t.answers) + 1 \in 1 .. 1 + n
  <2>1. PICK q : q = call[c]
    BY Zenon
  <2>2. n = mirrors(q, s) /\ ~ done(q, s, t.answers)
    BY Zenon, <1>4, <2>1
  <2>3. Passing(u, n)
    BY ZenonT(30), <1>4, <1>5, <2>2, PassingNext
  <2>4. u.answers = Append(t.answers, a)
    BY <1>5, <2>2, PassingNext
  <2>5. IsSeq(t.answers) /\ Len(t.answers) + 1 \in 1 .. 1 + n
    <3>1. t.answers \in Seq({"ok", "norows", "error"}) /\ Len(u.answers) <= 1 + n
      BY Zenon, <1>5, <2>3 DEF Passing
    <3>2. IsSeq(t.answers)
      BY ZenonT(30), <3>1, SeqIsSeq
    <3>3. Len(t.answers) \in Nat /\ Len(Append(t.answers, a)) = Len(t.answers) + 1
      BY <3>2, AppendFacts
    <3>4. PICK w \in Nat : w = Len(t.answers)
      BY Zenon, <3>3
    <3>5. w + 1 <= 1 + n
      BY ZenonT(30), <2>4, <3>1, <3>3, <3>4
    <3>6. w + 1 \in 1 .. 1 + n
      BY <1>4, <3>4, <3>5
    <3> QED BY Zenon, <3>2, <3>4, <3>6
  <2> QED BY Zenon, <2>3, <2>4, <2>5
<1>7. node \in Nodes
  BY Zenon, <1>3, <1>4, <1>6, NodesExist
<1>8. /\ Len(t.answers) \in Nat /\ k \in Nat /\ Len(u.answers) = k
      /\ k \notin 1 .. Len(t.answers) /\ k \in 1 .. k
      /\ \A l \in 1 .. Len(t.answers) : l \in 1 .. k /\ l \in Nat /\ l # k
      /\ \A l \in 1 .. k : l \in 1 .. Len(t.answers) \/ l = k
  <2>1. Len(t.answers) \in Nat /\ Len(Append(t.answers, a)) = Len(t.answers) + 1
    BY SMTT(30), <1>6, AppendFacts
  <2>2. PICK w \in Nat : w = Len(t.answers)
    BY Zenon, <2>1
  <2>3. /\ w + 1 \in Nat /\ w + 1 \notin 1 .. w /\ w + 1 \in 1 .. w + 1
        /\ \A l \in 1 .. w : l \in 1 .. w + 1 /\ l \in Nat /\ l # w + 1
        /\ \A l \in 1 .. w + 1 : l \in 1 .. w \/ l = w + 1
    BY <2>2
  <2> QED BY ZenonT(30), <1>6, <2>1, <2>2, <2>3
<1>9. u.answers[k] = a /\ \A l \in 1 .. Len(t.answers) : u.answers[l] = t.answers[l]
  <2>1. /\ Append(t.answers, a)[Len(t.answers) + 1] = a
        /\ \A l \in 1 .. Len(t.answers) : Append(t.answers, a)[l] = t.answers[l]
    BY SMTT(30), <1>6, AppendFacts
  <2> QED BY ZenonT(30), <1>6, <2>1
<1>10. e.by = c /\ e.args = plan[c].groups[s] /\ e.answer = a
  BY SMTT(30)
<1>11. ASSUME NEW r \in 1 .. Sets, NEW m \in Nodes
       PROVE  Extends(log[r][m], log'[r][m], e, r = s /\ m = node)
  BY SMTT(30), <1>1, <1>3, <1>7, LogGrows
<1>12. Shape'
  <2>1. \A r \in 1 .. Sets : \A m \in Nodes : IsSeq(log'[r][m])
    BY Zenon, <1>11 DEF Extends
  <2> QED BY Zenon, <1>1, <2>1 DEF Shape, TaskStep, LogStep
<1>13. CallersInv'
  <2>1. \A d \in Callers : d # c => CallerInv(d)'
    <3> SUFFICES ASSUME NEW d \in Callers, d # c PROVE CallerInv(d)'
      BY Zenon
    <3>1. tasks'[d] = tasks[d]
      BY Zenon DEF TaskStep
    <3> QED BY <1>1, <3>1, Untouched
  <2>2. CallerInv(c)'
    <3>1. \A x, y : Passing(x, y)' <=> Passing(x, y)
      BY Zenon, SameOption
    <3>2. \A r \in DOMAIN tasks[c] : Passing(tasks'[c][r], mirrors(call[c], r))
      BY Zenon, <1>1, <1>4, <1>6 DEF TaskStep, CallerInv
    <3>3. (\A r \in DOMAIN tasks[c] : Passing(tasks[c][r], mirrors(call[c], r)))'
      <4>1. \A r : mirrors(call[c], r)' = mirrors(call[c], r)
        BY ZenonT(30) DEF mirrors
      <4> QED BY Zenon, <3>1, <3>2, <4>1 DEF TaskStep
    <3>4. "running" # "idle" /\ "running" # "returned"
      OBVIOUS
    <3>5. pc'[c] = "running" /\ call'[c] = call[c] /\ plan'[c] = plan[c] /\ DOMAIN tasks'[c] = DOMAIN tasks[c]
      BY Zenon, <1>2 DEF TaskStep
    <3> QED BY Zenon, <1>1, <1>2, <3>3, <3>4, <3>5 DEF CallerInv
  <2> QED BY ZenonT(30), <2>1, <2>2 DEF CallersInv
<1>14. \A d, l : NodeOf(d, l)' = NodeOf(d, l)
  BY Zenon DEF NodeOf
<1>15. ASSUME NEW r \in 1 .. Sets, NEW m \in Nodes, NEW x, Owned(r, m, x)
       PROVE  Owned(r, m, x)'
  <2>1. PICK d : d = x.by
    BY Zenon
  <2>2. PICK l \in 1 .. Len(tasks[d][r].answers) :
          m = NodeOf(d, l) /\ x.answer = tasks[d][r].answers[l]
    BY Zenon, <1>15, <2>1 DEF Owned
  <2>3. d \in Callers /\ r \in DOMAIN tasks[d] /\ x.args = plan[d].groups[r]
    BY Zenon, <1>15, <2>1 DEF Owned
  <2>4. r \in DOMAIN tasks'[d]
    BY Zenon, <2>3 DEF TaskStep
  <2>5. l \in 1 .. Len(tasks'[d][r].answers) /\ x.answer = tasks'[d][r].answers[l]
    <3>1. CASE d = c /\ r = s
      BY Zenon, <1>8, <1>9, <2>2, <3>1 DEF TaskStep
    <3>2. CASE ~ (d = c /\ r = s)
      <4>1. tasks'[d][r] = tasks[d][r]
        BY Zenon, <2>3, <3>2 DEF TaskStep
      <4> QED BY Zenon, <2>2, <4>1
    <3> QED BY Zenon, <3>1, <3>2
  <2> QED BY Zenon, <1>14, <2>1, <2>2, <2>3, <2>4, <2>5 DEF Owned
<1>16. Owned(s, node, e)'
  <2>1. s \in DOMAIN tasks'[c] /\ tasks'[c][s] = u
    BY Zenon DEF TaskStep
  <2>2. k \in 1 .. Len(tasks'[c][s].answers) /\ a = tasks'[c][s].answers[k]
    BY Zenon, <1>8, <1>9, <2>1
  <2> QED BY Zenon, <1>10, <1>14, <2>1, <2>2 DEF Owned
<1>17. \A r \in 1 .. Sets : \A m \in Nodes : \A i \in DOMAIN log'[r][m] :
         \A x : x = log'[r][m][i] => Owned(r, m, x)'
  <2> SUFFICES ASSUME NEW r \in 1 .. Sets, NEW m \in Nodes, NEW i \in DOMAIN log'[r][m],
                      NEW x, x = log'[r][m][i]
               PROVE  Owned(r, m, x)'
    BY Zenon
  <2>1. CASE i \in DOMAIN log[r][m] /\ log'[r][m][i] = log[r][m][i]
    <3>1. Owned(r, m, log[r][m][i])
      BY Zenon, <2>1 DEF IInv, LogInv
    <3>2. Owned(r, m, x)
      BY Zenon, <2>1, <3>1
    <3> QED BY Zenon, <1>15, <3>2
  <2>2. CASE r = s /\ m = node /\ log'[r][m][i] = e
    BY Zenon, <1>16, <2>2 DEF Owned
  <2>3. Extends(log[r][m], log'[r][m], e, r = s /\ m = node)
    BY Zenon, <1>11
  <2> QED BY Zenon, <2>1, <2>2, <2>3 DEF Extends
<1>18. ASSUME NEW d \in Callers, NEW r \in DOMAIN tasks'[d],
              NEW l \in 1 .. Len(tasks'[d][r].answers)
       PROVE  \E x \in Entries(r, NodeOf(d, l), d)' : x.answer = tasks'[d][r].answers[l]
  <2>1. CASE d = c /\ r = s /\ l = k
    <3>1. PICK i \in DOMAIN log'[s][node] : log'[s][node][i] = e
      <4>1. Extends(log[s][node], log'[s][node], e, s = s /\ node = node)
        BY Zenon, <1>3, <1>7, <1>11
      <4> QED BY Zenon, <4>1 DEF Extends
    <3>2. e \in Range(log'[s][node])
      BY Zenon, <3>1 DEF Range
    <3>3. tasks'[d][r].answers[l] = a
      BY Zenon, <1>9, <2>1 DEF TaskStep
    <3>4. NodeOf(d, l)' = node
      BY Zenon, <1>14, <2>1
    <3> QED BY Zenon, <1>10, <2>1, <3>2, <3>3, <3>4 DEF Entries
  <2>2. CASE ~ (d = c /\ r = s /\ l = k)
    <3>1. r \in DOMAIN tasks[d]
      BY Zenon, <1>18 DEF TaskStep
    <3>2. l \in 1 .. Len(tasks[d][r].answers) /\ tasks'[d][r].answers[l] = tasks[d][r].answers[l]
      <4>1. CASE d = c /\ r = s
        <5>1. tasks'[d][r] = u /\ tasks[d][r] = t
          BY Zenon, <4>1 DEF TaskStep
        <5>2. l \in 1 .. Len(t.answers)
          BY Zenon, <1>8, <2>2, <4>1, <5>1
        <5> QED BY Zenon, <1>9, <5>1, <5>2
      <4>2. CASE ~ (d = c /\ r = s)
        <5>1. tasks'[d][r] = tasks[d][r]
          BY Zenon, <3>1, <4>2 DEF TaskStep
        <5> QED BY Zenon, <5>1
      <4> QED BY Zenon, <4>1, <4>2
    <3>3. \A w \in Callers : \A b \in DOMAIN tasks[w] : \A y \in 1 .. Len(tasks[w][b].answers) :
            \E x \in Entries(b, NodeOf(w, y), w) : x.answer = tasks[w][b].answers[y]
      BY Zenon DEF IInv, LogInv
    <3>4. PICK x \in Entries(r, NodeOf(d, l), d) : x.answer = tasks[d][r].answers[l]
      BY Zenon, <3>1, <3>2, <3>3
    <3>5. r \in 1 .. Sets /\ NodeOf(d, l) \in Nodes
      <4>1. pc[d] # "idle" /\ DOMAIN tasks[d] = DOMAIN plan[d].groups
        BY Zenon, <1>1, <3>1 DEF CallerInv
      <4>2. r \in 1 .. Sets
        BY Zenon, <1>1, <3>1, <4>1 DEF CallerInv, PlanFits
      <4>3. PICK y \in Nat : y = mirrors(call[d], r)
        BY Zenon, <4>2, MirrorCount
      <4>4. PICK z : z = Len(tasks[d][r].answers)
        BY Zenon
      <4>5. z <= 1 + y
        BY Zenon, <1>1, <3>1, <4>3, <4>4 DEF CallerInv, Passing
      <4>6. z \in Nat
        <5>1. PICK f : f = tasks[d][r].answers /\ f \in Seq({"ok", "norows", "error"})
          BY ZenonT(30), <1>1, <3>1 DEF CallerInv, Passing
        <5>2. Len(f) \in Nat
          BY SMTT(30), <5>1
        <5> QED BY Zenon, <4>4, <5>1, <5>2
      <4>7. l \in 1 .. 1 + y
        <5>1. l \in 1 .. z
          BY Zenon, <3>2, <4>4
        <5> QED BY <4>5, <4>6, <5>1
      <4> QED BY Zenon, <4>2, <4>3, <4>7, NodesExist
    <3>6. x \in Range(log'[r][NodeOf(d, l)]) /\ x.by = d
      <4>1. PICK i \in DOMAIN log[r][NodeOf(d, l)] : x = log[r][NodeOf(d, l)][i]
        BY Zenon, <3>4 DEF Entries, Range
      <4>2. x.by = d
        BY Zenon, <3>4 DEF Entries
      <4>3. i \in DOMAIN log'[r][NodeOf(d, l)] /\ log'[r][NodeOf(d, l)][i] = log[r][NodeOf(d, l)][i]
        BY ZenonT(30), <1>11, <3>5, <4>1 DEF Extends
      <4> QED BY Zenon, <4>1, <4>2, <4>3 DEF Range
    <3> QED BY Zenon, <1>14, <3>2, <3>4, <3>6 DEF Entries
  <2> QED BY Zenon, <2>1, <2>2
<1>19. ASSUME NEW i \in DOMAIN log[s][node]
       PROVE  log[s][node][i].by # c
  <2>1. PICK x : x = log[s][node][i] /\ Owned(s, node, x)
    BY ZenonT(30), <1>3, <1>7 DEF IInv, LogInv
  <2> SUFFICES ASSUME x.by = c PROVE FALSE
    BY Zenon, <2>1
  <2>2. PICK l \in 1 .. Len(t.answers) : node = NodeOf(c, l)
    BY Zenon, <2>1 DEF Owned
  <2>3. l \in Nat /\ k \in Nat /\ l # k /\ NodeOf(c, l) = NodeOf(c, k)
    BY Zenon, <1>8, <2>2
  <2> QED BY SMTT(30), <2>3, NodesDiffer
<1>20. ASSUME NEW r \in 1 .. Sets, NEW m \in Nodes,
              NEW i \in DOMAIN log'[r][m], NEW j \in DOMAIN log'[r][m]
       PROVE  /\ log'[r][m][i].by = log'[r][m][j].by => i = j
              /\ i < j => log'[r][m][j].by \notin before'[log'[r][m][i].by]
  <2>1. CASE r = s /\ m = node
    <3>e. Extends(log[r][m], log'[r][m], e, r = s /\ m = node)
      BY Zenon, <1>11
    <3>1. \A x \in DOMAIN log'[r][m] :
            \/ x \in DOMAIN log[r][m] /\ log'[r][m][x] = log[r][m][x]
            \/ /\ log'[r][m][x] = e
               /\ \A y \in DOMAIN log[r][m] : y < x
      BY Zenon, <3>e DEF Extends
    <3>2. DOMAIN log'[r][m] \subseteq Nat
      <4>1. IsSeq(log'[r][m])
        BY Zenon, <3>e DEF Extends
      <4>2. PICK f : f = log'[r][m]
        BY Zenon
      <4>3. IsSeq(f)
        BY ZenonT(30), <4>1, <4>2
      <4>4. DOMAIN f \subseteq Nat
        BY <4>3 DEF IsSeq
      <4> QED BY Zenon, <4>2, <4>4
    <3>3. \A x \in DOMAIN log'[r][m] : \A y \in DOMAIN log'[r][m] :
            x \notin DOMAIN log[r][m] /\ y \notin DOMAIN log[r][m] => x = y
      <4>1. PICK old, new : old = log[r][m] /\ new = log'[r][m] /\ new = Append(old, e) /\ IsSeq(old)
        BY ZenonT(30), <1>1, <1>3, <1>7, <2>1 DEF LogStep, Shape
      <4>2. Len(old) \in Nat /\ DOMAIN old = 1 .. Len(old) /\ DOMAIN new = 1 .. Len(old) + 1
        BY SMTT(30), <4>1, AppendFacts
      <4>3. \A x, y \in 1 .. Len(old) + 1 : x \notin 1 .. Len(old) /\ y \notin 1 .. Len(old) => x = y
        BY <4>2
      <4> QED BY Zenon, <4>1, <4>2, <4>3
    <3>4. \A x, y \in DOMAIN log[r][m] :
            /\ log[r][m][x].by = log[r][m][y].by => x = y
            /\ x < y => log[r][m][y].by \notin before[log[r][m][x].by]
      BY Zenon DEF IInv, LogInv
    <3>5. \A x \in DOMAIN log[r][m] : log[r][m][x].by # c /\ log[r][m][x].by \in Callers
      <4>1. \A x \in DOMAIN log[r][m] : log[r][m][x].by # c
        BY Zenon, <1>19, <2>1
      <4>2. \A x \in DOMAIN log[r][m] : log[r][m][x].by \in Callers
        BY Zenon DEF IInv, LogInv, Owned
      <4> QED BY Zenon, <4>1, <4>2
    <3>6. \A d \in Callers : c \notin before[d]
      <4>1. "running" # "returned"
        OBVIOUS
      <4> QED BY ZenonT(30), <1>1, <1>2, <4>1 DEF Shape
    <3>7. CASE i \in DOMAIN log[r][m] /\ j \in DOMAIN log[r][m]
      <4>1. log'[r][m][i] = log[r][m][i] /\ log'[r][m][j] = log[r][m][j]
        BY Zenon, <3>e, <3>7 DEF Extends
      <4> QED BY Zenon, <3>4, <3>7, <4>1
    <3>8. CASE i \in DOMAIN log[r][m] /\ j \notin DOMAIN log[r][m]
      <4>1. log'[r][m][j].by = c /\ log'[r][m][i] = log[r][m][i]
        <5>1. log'[r][m][j] = e
          BY Zenon, <3>1, <3>8
        <5>2. log'[r][m][i] = log[r][m][i]
          BY Zenon, <3>e, <3>8 DEF Extends
        <5> QED BY Zenon, <1>10, <5>1, <5>2
      <4> QED BY Zenon, <3>5, <3>6, <3>8, <4>1
    <3>9. CASE i \notin DOMAIN log[r][m] /\ j \in DOMAIN log[r][m]
      <4>1. log'[r][m][i].by = c /\ log'[r][m][j] = log[r][m][j] /\ j < i
        <5>1. log'[r][m][i] = e /\ j < i
          BY Zenon, <3>1, <3>9
        <5>2. log'[r][m][j] = log[r][m][j]
          BY ZenonT(30), <3>e, <3>9 DEF Extends
        <5> QED BY Zenon, <1>10, <5>1, <5>2
      <4>2. ~ (i < j)
        BY <3>2, <4>1
      <4> QED BY Zenon, <3>5, <3>9, <4>1, <4>2
    <3>10. CASE i \notin DOMAIN log[r][m] /\ j \notin DOMAIN log[r][m]
      <4>1. i = j /\ ~ (i < j)
        <5>1. i = j /\ i \in Nat
          BY Zenon, <3>2, <3>3, <3>10
        <5> QED BY <5>1
      <4> QED BY ZenonT(30), <4>1
    <3> QED BY Zenon, <3>7, <3>8, <3>9, <3>10
  <2>2. CASE ~ (r = s /\ m = node)
    <3>1. log'[r][m] = log[r][m]
      BY Zenon, <2>2 DEF LogStep
    <3> QED BY ZenonT(30), <3>1 DEF IInv, LogInv
  <2> QED BY Zenon, <2>1, <2>2
<1>21. LogInv'
  <2>1. (\A r \in 1 .. Sets : \A m \in Nodes : \A i \in DOMAIN log[r][m] : Owned(r, m, log[r][m][i]))'
    <3> SUFFICES ASSUME NEW r \in 1 .. Sets, NEW m \in Nodes, NEW i \in (DOMAIN log[r][m])'
                 PROVE  Owned(r, m, log[r][m][i])'
      BY Zenon
    <3>1. PICK x : x = log'[r][m][i]
      BY Zenon
    <3>2. Owned(r, m, x)'
      BY Zenon, <1>17, <3>1
    <3> QED BY Zenon, <3>1, <3>2 DEF Owned
  <2>2. (\A d \in Callers : \A r \in DOMAIN tasks[d] : \A l \in 1 .. Len(tasks[d][r].answers) :
           \E x \in Entries(r, NodeOf(d, l), d) : x.answer = tasks[d][r].answers[l])'
    BY Zenon, <1>18
  <2>3. \A r \in 1 .. Sets : \A m \in Nodes : \A i, j \in DOMAIN log'[r][m] :
          log'[r][m][i].by = log'[r][m][j].by => i = j
    BY Zenon, <1>20
  <2>4. \A r \in 1 .. Sets : \A m \in Nodes : \A i, j \in DOMAIN log'[r][m] :
          i < j => log'[r][m][j].by \notin before'[log'[r][m][i].by]
    BY Zenon, <1>20
  <2> QED BY Zenon, <2>1, <2>2, <2>3, <2>4 DEF LogInv
<1> QED BY Zenon, <1>12, <1>13, <1>21 DEF IInv

\* What holds of the log is left alone by steps that send nothing.
LEMMA LogKept ==
  ASSUME LogInv, call' = call, plan' = plan, tasks' = tasks, log' = log, before' = before
  PROVE  LogInv'
<1>1. \A d, l : NodeOf(d, l)' = NodeOf(d, l)
  BY Zenon DEF NodeOf
<1>2. \A s, m, e : Owned(s, m, e)' <=> Owned(s, m, e)
  BY Zenon, <1>1 DEF Owned
<1>4. (\A s \in 1 .. Sets : \A node \in Nodes : \A i \in DOMAIN log[s][node] :
         Owned(s, node, log[s][node][i]))'
  BY Zenon, <1>2 DEF LogInv
<1>5. ASSUME NEW c \in Callers, NEW s \in DOMAIN tasks'[c], NEW k \in 1 .. Len(tasks'[c][s].answers)
      PROVE  \E e \in Entries(s, NodeOf(c, k), c)' : e.answer = tasks'[c][s].answers[k]
  <2>1. s \in DOMAIN tasks[c] /\ k \in 1 .. Len(tasks[c][s].answers)
    BY Zenon, <1>5
  <2>2. \A d \in Callers : \A r \in DOMAIN tasks[d] : \A l \in 1 .. Len(tasks[d][r].answers) :
          \E e \in Entries(r, NodeOf(d, l), d) : e.answer = tasks[d][r].answers[l]
    BY Zenon DEF LogInv
  <2>3. \E e \in Entries(s, NodeOf(c, k), c) : e.answer = tasks[c][s].answers[k]
    BY Zenon, <2>1, <2>2
  <2> QED BY Zenon, <1>1, <2>3 DEF Entries
<1> QED BY Zenon, <1>4, <1>5 DEF LogInv

\* The fields of a result.
LEMMA ResultFields ==
  ASSUME NEW r, NEW v, NEW x, NEW f, r = [value |-> v, err |-> x, failed |-> f]
  PROVE  r.value = v /\ r.err = x /\ r.failed = f
OBVIOUS

\* What combine gives is what a call reports.
LEMMA CombineReports ==
  ASSUME NEW c \in Callers, DOMAIN tasks[c] # {}, NEW r, r = combine(c),
         ~ Fans(call[c].method) => \A s, t \in DOMAIN tasks[c] : s = t
  PROVE  /\ ~ Fans(call[c].method) =>
              /\ r.failed = {}
              /\ \A s \in DOMAIN tasks[c] : r.err = taskErr(tasks[c][s].answers)
         /\ Fans(call[c].method) =>
              /\ r.err = ""
              /\ failedSets(c) # {} => r.failed = failedSets(c)
              /\ r.failed # {} => r.value = Zero
<1>1. CASE ~ Fans(call[c].method)
  <2>1. PICK only : only = CHOOSE s \in DOMAIN tasks[c] : TRUE
    BY Zenon
  <2>2. only \in DOMAIN tasks[c]
    BY Zenon, <2>1
  <2>3. PICK v, x : v = tasks[c][only].value /\ x = taskErr(tasks[c][only].answers)
    BY Zenon
  <2>4. r = [value |-> v, err |-> x, failed |-> {}]
    BY Zenon, <1>1, <2>1, <2>3 DEF combine, Fans
  <2>5. r.err = x /\ r.failed = {}
    BY <2>4
  <2>6. \A s \in DOMAIN tasks[c] : s = only
    BY Zenon, <1>1, <2>2
  <2> QED BY Zenon, <1>1, <2>3, <2>5, <2>6
<1>2. CASE Fans(call[c].method)
  <2>1. PICK f : f = IF failedSets(c) = {} /\ call[c].method.mode = "groupedMany"
                     THEN refusedSets(c) ELSE failedSets(c)
    BY Zenon
  <2>2. PICK z, w : z = Zero /\ w = IF call[c].method.mode = "groupedMany"
                                    THEN [Zero EXCEPT !.rows = regroup(c)]
                                    ELSE accumulate(values(c))
    BY Zenon
  <2>3. PICK v : v = IF f # {} THEN z ELSE w
    BY Zenon
  <2>4. r.err = "" /\ r.failed = f /\ (f # {} => r.value = z)
    <3>1. PICK x : x = ""
      BY Zenon
    <3>2. r = [value |-> v, err |-> x, failed |-> f]
      BY Zenon, <1>2, <2>1, <2>2, <2>3, <3>1 DEF combine, Fans
    <3>3. r.value = v /\ r.err = x /\ r.failed = f
      BY Zenon, <3>2, ResultFields
    <3> QED BY Zenon, <2>3, <3>1, <3>3
  <2>5. failedSets(c) # {} => f = failedSets(c)
    BY Zenon, <2>1
  <2> QED BY Zenon, <1>2, <2>2, <2>4, <2>5
<1> QED BY Zenon, <1>1, <1>2

\* Returning keeps the invariant.
LEMMA ReturnKeeps ==
  ASSUME IInv, NEW c \in Callers, Return(c)
  PROVE  IInv'
<1>1. Shape /\ CallerInv(c) /\ \A d \in Callers : CallerInv(d)
  BY Zenon DEF IInv, CallersInv
<1>2. PICK r : r = combine(c)
  BY Zenon
<1>3. /\ pc[c] = "running" /\ waited(c)
      /\ result' = [result EXCEPT ![c] = r] /\ pc' = [pc EXCEPT ![c] = "returned"]
      /\ store' = store /\ call' = call /\ plan' = plan /\ tasks' = tasks
      /\ log' = log /\ before' = before
  BY Zenon, <1>2 DEF Return
<1>4. /\ DOMAIN pc' = Callers /\ DOMAIN result' = Callers
      /\ pc'[c] = "returned" /\ result'[c] = r
      /\ \A d \in Callers : d # c => pc'[d] = pc[d] /\ result'[d] = result[d]
  BY Zenon, <1>1, <1>3 DEF Shape
<1>5. "running" # "idle" /\ "returned" # "idle" /\ "returned" # "running"
  OBVIOUS
<1>6. Shape'
  <2>1. \A d \in Callers : pc[d] = "returned" => pc'[d] = "returned"
    BY Zenon, <1>4
  <2>2. \A b \in Callers : \A d \in before[b] : d \in Callers /\ pc'[d] = "returned"
    BY Zenon, <1>1, <2>1 DEF Shape
  <2> QED BY Zenon, <1>1, <1>3, <1>4, <2>2 DEF Shape
<1>7. /\ \A answers : taskErr(answers)' = taskErr(answers)
      /\ \A q, s, answers : done(q, s, answers)' = done(q, s, answers)
      /\ \A t, n : Passing(t, n)' <=> Passing(t, n)
  BY Zenon, <1>3, SameOption
<1>8. /\ ValidCall(call[c]) /\ PlanFits(call[c], plan[c])
      /\ DOMAIN tasks[c] = DOMAIN plan[c].groups /\ DOMAIN tasks[c] # {}
  BY Zenon, <1>1, <1>3, <1>5 DEF CallerInv
<1>9. ~ Fans(call[c].method) => \A s, t \in DOMAIN tasks[c] : s = t
  BY Zenon, <1>8 DEF Fans, PlanFits
<1>10. /\ ~ Fans(call[c].method) =>
            /\ r.failed = {}
            /\ \A s \in DOMAIN tasks[c] : r.err = taskErr(tasks[c][s].answers)
       /\ Fans(call[c].method) =>
            /\ r.err = ""
            /\ failedSets(c) # {} => r.failed = failedSets(c)
            /\ r.failed # {} => r.value = Zero
  BY ZenonT(30), <1>2, <1>8, <1>9, CombineReports
<1>11. Reported(c)'
  <2>1. failedSets(c)' = failedSets(c)
    BY Zenon, <1>3, <1>7 DEF failedSets
  <2> QED BY Zenon, <1>3, <1>4, <1>7, <1>8, <1>10, <2>1 DEF Reported
<1>12. waited(c)'
  BY Zenon, <1>3, <1>7 DEF waited
<1>13. CallerInv(c)'
  <2>1. \A s : mirrors(call[c], s)' = mirrors(call[c], s)
    BY Zenon, <1>3 DEF mirrors
  <2>2. (\A s \in DOMAIN tasks[c] : Passing(tasks[c][s], mirrors(call[c], s)))'
    BY Zenon, <1>1, <1>3, <1>7, <2>1 DEF CallerInv
  <2> QED BY Zenon, <1>3, <1>4, <1>5, <1>8, <1>11, <1>12, <2>2 DEF CallerInv
<1>14. CallersInv'
  <2>1. \A d \in Callers : d # c => CallerInv(d)'
    <3> SUFFICES ASSUME NEW d \in Callers, d # c PROVE CallerInv(d)'
      BY Zenon
    <3>1. CallerInv(d) /\ pc'[d] = pc[d] /\ result'[d] = result[d]
      BY Zenon, <1>1, <1>4
    <3>2. call'[d] = call[d] /\ plan'[d] = plan[d] /\ tasks'[d] = tasks[d]
      BY Zenon, <1>3
    <3> QED BY Zenon, <1>3, <3>1, <3>2, Untouched
  <2> QED BY Zenon, <1>13, <2>1 DEF CallersInv
<1>15. LogInv'
  BY <1>3, LogKept DEF IInv
<1> QED BY Zenon, <1>6, <1>14, <1>15 DEF IInv

\* Updating a goroutine is a step of it.
LEMMA TaskStepOf ==
  ASSUME Shape, NEW c \in Callers, NEW s \in DOMAIN tasks[c], NEW u,
         tasks' = [tasks EXCEPT ![c] = [tasks[c] EXCEPT ![s] = u]]
  PROVE  TaskStep(c, s, u)
<1>1. PICK row : row = [tasks[c] EXCEPT ![s] = u]
  BY Zenon
<1>2. DOMAIN row = DOMAIN tasks[c] /\ row[s] = u /\ \A r \in DOMAIN tasks[c] : r # s => row[r] = tasks[c][r]
  BY Zenon, <1>1
<1>3. DOMAIN tasks' = Callers /\ tasks'[c] = row /\ \A d \in Callers : d # c => tasks'[d] = tasks[d]
  BY Zenon, <1>1 DEF Shape
<1> QED BY Zenon, <1>2, <1>3 DEF TaskStep

\* Sending a statement is a step of the log.
LEMMA LogStepOf ==
  ASSUME Shape, NEW c, NEW s \in 1 .. Sets, NEW node \in Nodes, NEW args, NEW a,
         Send(c, s, node, args, a)
  PROVE  LogStep(s, node, [by |-> c, args |-> args, answer |-> a])
<1>1. PICK e : e = [by |-> c, args |-> args, answer |-> a]
  BY Zenon
<1>2. PICK row : row = [log[s] EXCEPT ![node] = Append(log[s][node], e)]
  BY Zenon
<1>3. log' = [log EXCEPT ![s] = row]
  BY Zenon, <1>1, <1>2 DEF Send
<1>4. DOMAIN row = Nodes /\ row[node] = Append(log[s][node], e) /\ \A m \in Nodes : m # node => row[m] = log[s][m]
  BY Zenon, <1>2 DEF Shape
<1>5. DOMAIN log' = 1 .. Sets /\ log'[s] = row /\ \A r \in 1 .. Sets : r # s => log'[r] = log[r]
  BY Zenon, <1>3 DEF Shape
<1>6. \A r \in 1 .. Sets : DOMAIN log[r] = Nodes
  BY Zenon DEF Shape
<1> QED BY Zenon, <1>1, <1>4, <1>5, <1>6 DEF LogStep

\* A step of a goroutine keeps the invariant: its target or its next mirror answers.
LEMMA RunKeeps ==
  ASSUME IInv, NEW c \in Callers, NEW s \in DOMAIN tasks[c], Run(c, s)
  PROVE  IInv'
<1>1. Shape /\ CallerInv(c)
  BY Zenon DEF IInv, CallersInv
<1>2. PICK a \in Stores[store].answers :
        \/ tasks[c][s].answers = <<>> /\ \E value : Execute(c, s, a, value)
        \/ Mirror(c, s, a)
  BY Zenon DEF Run
<1>3. a \in {"ok", "norows", "error"}
  BY Zenon, <1>1, StoreQueriesAssumption DEF Shape
<1>4. s \in 1 .. Sets
  BY Zenon, <1>1 DEF CallerInv, PlanFits
<1>5. PICK t, args, k : t = tasks[c][s] /\ args = plan[c].groups[s] /\ k = Len(t.answers) + 1
  BY Zenon
<1>6. PICK n \in Nat : n = mirrors(call[c], s)
  BY Zenon, <1>4, MirrorCount
<1>7. Passing(t, n)
  BY Zenon, <1>1, <1>5, <1>6 DEF CallerInv
<1>8. PICK e, node : e = [by |-> c, args |-> args, answer |-> a] /\ node = NodeOf(c, k)
  BY Zenon
<1>9. CASE t.answers = <<>> /\ \E value : Execute(c, s, a, value)
  <2>1. PICK value : Execute(c, s, a, value)
    BY Zenon, <1>9
  <2>2. PICK u : u = [answers |-> Append(t.answers, a), value |-> value]
    BY Zenon
  <2>3. k = 1 /\ Append(t.answers, a) = <<a>>
    BY <1>5, <1>9
  <2>4. node = target(call[c])
    BY Zenon, <1>8, <2>3 DEF NodeOf
  <2>5. u = [answers |-> <<a>>, value |-> value]
    BY Zenon, <2>2, <2>3
  <2>6. tasks' = [tasks EXCEPT ![c] = [tasks[c] EXCEPT ![s] = u]]
    BY Zenon, <2>1, <2>5 DEF Execute
  <2>7. TaskStep(c, s, u)
    BY Zenon, <1>1, <2>6, TaskStepOf
  <2>8. node \in Nodes
    <3>1. k \in 1 .. 1 + n
      BY <1>6, <2>3
    <3> QED BY Zenon, <1>4, <1>6, <1>8, <3>1, NodesExist
  <2>9. LogStep(s, node, e)
    <3>1. Send(c, s, node, args, a)
      BY Zenon, <1>5, <2>1, <2>4 DEF Execute
    <3> QED BY Zenon, <1>1, <1>4, <1>8, <2>8, <3>1, LogStepOf
  <2>10. ~ done(call[c], s, t.answers)
    BY Zenon, <1>9 DEF done
  <2>11. UNCHANGED <<store, call, pc, plan, result, before>>
    BY Zenon, <2>1 DEF Execute
  <2>12. e = [by |-> c, args |-> plan[c].groups[s], answer |-> a]
    BY Zenon, <1>5, <1>8
  <2> QED BY ZenonT(30), <1>3, <1>5, <1>8, <2>2, <2>7, <2>9, <2>10, <2>11, <2>12, AnsweredKeeps
<1>10. CASE Mirror(c, s, a)
  <2>1. /\ t.answers # <<>> /\ ~ done(call[c], s, t.answers)
        /\ tasks' = [tasks EXCEPT ![c][s].answers = Append(@, a)]
        /\ Send(c, s, <<"mirror", Len(t.answers)>>, args, a)
        /\ UNCHANGED <<store, call, pc, plan, result, before>>
    BY Zenon, <1>5, <1>10 DEF Mirror
  <2>2. PICK u, v : v = t.value /\ u = [answers |-> Append(t.answers, a), value |-> v]
    BY Zenon
  <2>3. [t EXCEPT !.answers = Append(t.answers, a)] = u
    <3>1. PICK y, z : y = t.answers /\ z = Append(y, a)
      BY Zenon
    <3>2. t = [answers |-> y, value |-> v]
      BY Zenon, <1>7, <2>2, <3>1 DEF Passing
    <3>3. [t EXCEPT !.answers = z] = [answers |-> z, value |-> v]
      BY <3>2
    <3> QED BY Zenon, <2>2, <3>1, <3>3
  <2>4. tasks' = [tasks EXCEPT ![c] = [tasks[c] EXCEPT ![s] = u]]
    BY Zenon, <1>5, <2>1, <2>3
  <2>5. TaskStep(c, s, u)
    BY Zenon, <1>1, <2>4, TaskStepOf
  <2>6. /\ k # 1 /\ k - 1 = Len(t.answers)
        /\ k \in 1 .. 1 + n
    <3>1. t.answers \in Seq({"ok", "norows", "error"})
      BY Zenon, <1>7 DEF Passing
    <3>2. PICK y, w : y = t.answers /\ w = Len(y)
      BY Zenon
    <3>3. w \in Nat /\ w # 0
      BY <2>1, <3>1, <3>2
    <3>4. Len(t.answers) = w
      BY Zenon, <3>2
    <3>5. w <= 1 + n
      BY Zenon, <1>7, <3>4 DEF Passing
    <3>6. w # 1 + n
      BY Zenon, <1>6, <2>1, <3>4 DEF done
    <3>7. k = w + 1
      BY ZenonT(30), <1>5, <3>4
    <3>8. k # 1 /\ k - 1 = w /\ k \in 1 .. 1 + n
      BY SMTT(30), <1>6, <3>3, <3>5, <3>6, <3>7
    <3> QED BY Zenon, <3>4, <3>8
  <2>7. node = <<"mirror", Len(t.answers)>>
    BY Zenon, <1>8, <2>6 DEF NodeOf
  <2>8. node \in Nodes
    BY ZenonT(30), <1>4, <1>6, <1>8, <2>6, NodesExist
  <2>9. LogStep(s, node, e)
    <3>1. Send(c, s, node, args, a)
      BY Zenon, <2>1, <2>7
    <3> QED BY Zenon, <1>1, <1>4, <1>8, <2>8, <3>1, LogStepOf
  <2>10. e = [by |-> c, args |-> plan[c].groups[s], answer |-> a]
    BY Zenon, <1>5, <1>8
  <2>11. UNCHANGED <<store, call, pc, plan, result, before>>
    BY Zenon, <2>1
  <2> QED BY ZenonT(30), <1>3, <1>5, <1>8, <2>1, <2>2, <2>5, <2>9, <2>10, <2>11, AnsweredKeeps
<1> QED BY Zenon, <1>2, <1>5, <1>9, <1>10

\* Every step keeps the invariant.
LEMMA NextKeeps == IInv /\ [Next]_vars => IInv'
<1> SUFFICES ASSUME IInv, [Next]_vars PROVE IInv'
  BY Zenon
<1>1. CASE Next
  <2>1. PICK c \in Stores[store].callers :
          \/ \E m \in Stores[store].methods, options \in Stores[store].options :
               \E items \in Stores[store].inputs[m.mode] : Call(c, m, items, options)
          \/ \E s \in DOMAIN tasks[c] : Run(c, s)
          \/ Return(c)
    BY Zenon, <1>1 DEF Next
  <2>2. c \in Callers
    <3>1. store \in DOMAIN Stores
      BY Zenon DEF IInv, Shape
    <3> QED BY Zenon, <2>1, <3>1, StoreQueriesAssumption
  <2> QED BY Zenon, <2>1, <2>2, CallKeeps, RunKeeps, ReturnKeeps
<1>2. CASE UNCHANGED vars
  <2>1. /\ store' = store /\ call' = call /\ pc' = pc /\ plan' = plan /\ tasks' = tasks
        /\ result' = result /\ log' = log /\ before' = before
    BY Zenon, <1>2 DEF vars
  <2>2. Shape'
    BY Zenon, <2>1 DEF IInv, Shape
  <2>3. CallersInv'
    <3>1. \A c \in Callers : CallerInv(c)'
      <4> SUFFICES ASSUME NEW c \in Callers PROVE CallerInv(c)'
        BY Zenon
      <4>1. CallerInv(c)
        BY Zenon DEF IInv, CallersInv
      <4> QED BY Zenon, <2>1, <4>1, Untouched
    <3> QED BY Zenon, <3>1 DEF CallersInv
  <2>4. LogInv'
    BY Zenon, <2>1, LogKept DEF IInv
  <2> QED BY Zenon, <2>2, <2>3, <2>4 DEF IInv
<1> QED BY Zenon, <1>1, <1>2

-----------------------------------------------------------------------------
(* What the invariant says of the properties.                              *)

\* The statement e on a node of set s is the l-th one of a goroutine of c.
Answered(c, s, node, e) ==
  /\ c \in Callers /\ s \in DOMAIN tasks[c] /\ e.args = plan[c].groups[s]
  /\ \E l \in 1 .. Len(tasks[c][s].answers) :
       node = NodeOf(c, l) /\ e.answer = tasks[c][s].answers[l]

\* A logged statement is one of a goroutine of its caller.
LEMMA EntryOf ==
  ASSUME IInv, NEW c, NEW s \in 1 .. Sets, NEW node \in Nodes, NEW e \in Entries(s, node, c)
  PROVE  Answered(c, s, node, e)
<1>1. e \in Range(log[s][node]) /\ e.by = c
  BY Zenon DEF Entries
<1>2. PICK i \in DOMAIN log[s][node] : log[s][node][i] = e
  BY Zenon, <1>1 DEF Range
<1>3. Owned(s, node, log[s][node][i])
  BY Zenon DEF IInv, LogInv
<1> QED BY Zenon, <1>1, <1>2, <1>3 DEF Owned, Answered

\* The l-th statement of a goroutine is logged.
LEMMA AnswerLogged ==
  ASSUME IInv, NEW c \in Callers, NEW s \in DOMAIN tasks[c],
         NEW l \in 1 .. Len(tasks[c][s].answers)
  PROVE  \E e \in Entries(s, NodeOf(c, l), c) : e.answer = tasks[c][s].answers[l]
<1>1. \A d \in Callers : \A r \in DOMAIN tasks[d] : \A k \in 1 .. Len(tasks[d][r].answers) :
        \E e \in Entries(r, NodeOf(d, k), d) : e.answer = tasks[d][r].answers[k]
  BY Zenon DEF IInv, LogInv
<1> QED BY Zenon, <1>1

\* What the invariant says of a goroutine: it belongs to a planned call, has n mirrors,
\* and its answers so far number at most 1 + n.
LEMMA TaskFacts ==
  ASSUME IInv, NEW c \in Callers, NEW s \in DOMAIN tasks[c], NEW as, as = tasks[c][s].answers
  PROVE  /\ pc[c] # "idle" /\ s \in DOMAIN plan[c].groups /\ s \in 1 .. Sets
         /\ mirrors(call[c], s) \in Nat /\ Len(as) \in Nat /\ Len(as) <= 1 + mirrors(call[c], s)
         /\ as \in Seq({"ok", "norows", "error"})
         /\ Len(as) > 1 => as[1] = "ok"
         /\ \A k \in 2 .. Len(as) - 1 : as[k] # "error" \/ IgnoreMirrorError
<1>1. CallerInv(c)
  BY Zenon DEF IInv, CallersInv
<1>2. pc[c] # "idle"
  BY Zenon, <1>1 DEF CallerInv
<1>3. s \in DOMAIN plan[c].groups /\ s \in 1 .. Sets
  BY Zenon, <1>1, <1>2 DEF CallerInv, PlanFits
<1>4. mirrors(call[c], s) \in Nat
  BY Zenon, <1>3, MirrorCount
<1>5. Passing(tasks[c][s], mirrors(call[c], s))
  BY Zenon, <1>1 DEF CallerInv
<1>6. as \in Seq({"ok", "norows", "error"})
  BY Zenon, <1>5 DEF Passing
<1>7. Len(as) \in Nat
  BY <1>6
<1> QED BY Zenon, <1>2, <1>3, <1>4, <1>5, <1>6, <1>7 DEF Passing

\* A call that visits mirrors writes to the primary, outside of a transaction.
LEMMA MirroredWrites ==
  ASSUME NEW q, NEW s, mirrors(q, s) # 0
  PROVE  /\ q.method.kind = "write" /\ ~ q.options.tx
         /\ target(q) = <<"primary", 0>>
<1>1. q.method.kind = "write" /\ ~ q.options.tx
  BY Zenon DEF mirrors
<1>2. "write" # "read"
  OBVIOUS
<1> QED BY Zenon, <1>1, <1>2 DEF target

\* The k-th mirror is visited after the target and k - 1 mirrors.
LEMMA MirrorNode ==
  ASSUME NEW c, NEW k \in Nat, NEW l \in Nat, l # 0, NodeOf(c, l) = <<"mirror", k>>
  PROVE  l = k + 1 /\ l # 1
<1>1. PICK x : x = target(call[c])
  BY Zenon
<1>2. x \in {<<"tx", 0>>, <<"replica", 0>>, <<"primary", 0>>}
  BY Zenon, <1>1, Targets
<1>3. (IF l = 1 THEN x ELSE <<"mirror", l - 1>>) = <<"mirror", k>>
  BY Zenon, <1>1 DEF NodeOf
<1> QED BY <1>2, <1>3

\* Mirror k is the node of statement k + 1.
LEMMA NodeOfMirror ==
  ASSUME NEW c, NEW k \in Nat, k # 0
  PROVE  NodeOf(c, k + 1) = <<"mirror", k>>
<1>1. PICK i : i = k + 1
  BY Zenon
<1>2. i # 1 /\ i - 1 = k
  BY <1>1
<1>3. NodeOf(c, i) = <<"mirror", k>>
  BY Zenon, <1>2 DEF NodeOf
<1> QED BY Zenon, <1>1, <1>3

\* The mirrors of a set are nodes.
LEMMA MirrorIsNode ==
  ASSUME NEW s \in 1 .. Sets, NEW k \in 1 .. Mirrors[s]
  PROVE  <<"mirror", k>> \in Nodes /\ k \in Nat /\ k # 0
<1>1. k \in UNION {1 .. Mirrors[r] : r \in 1 .. Sets}
  BY Zenon
<1>2. <<"mirror", k>> \in {"mirror"} \X UNION {1 .. Mirrors[r] : r \in 1 .. Sets}
  BY Zenon, <1>1
<1>3. Mirrors[s] \in Nat
  BY Zenon, StoreQueriesAssumption
<1>4. k \in Nat /\ k # 0
  BY <1>3
<1> QED BY Zenon, <1>2, <1>4 DEF Nodes

\* Mirrors are visited after the target and in their order.
LEMMA MirrorsFollow ==
  ASSUME IInv, NEW c \in Callers, NEW s \in 1 .. Sets, NEW k \in 1 .. Mirrors[s],
         Entries(s, <<"mirror", k>>, c) # {}
  PROVE  /\ \E e \in Entries(s, <<"primary", 0>>, c) : e.answer = "ok"
         /\ \A j \in 1 .. k - 1 : \E e \in Entries(s, <<"mirror", j>>, c) :
              e.answer # "error" \/ IgnoreMirrorError
<1>1. <<"mirror", k>> \in Nodes /\ k \in Nat /\ k # 0
  BY Zenon, MirrorIsNode
<1>2. PICK e \in Entries(s, <<"mirror", k>>, c) : TRUE
  BY Zenon
<1>3. s \in DOMAIN tasks[c] /\ \E l \in 1 .. Len(tasks[c][s].answers) : <<"mirror", k>> = NodeOf(c, l)
  BY Zenon, <1>1, EntryOf DEF Answered
<1>4. PICK l \in 1 .. Len(tasks[c][s].answers) : <<"mirror", k>> = NodeOf(c, l)
  BY Zenon, <1>3
<1>5. PICK as, w, n : as = tasks[c][s].answers /\ w = Len(as) /\ n = mirrors(call[c], s)
  BY Zenon
<1>6. /\ w \in Nat /\ n \in Nat /\ w <= 1 + n /\ (w > 1 => as[1] = "ok")
      /\ \A j \in 2 .. w - 1 : as[j] # "error" \/ IgnoreMirrorError
  <2>1. /\ mirrors(call[c], s) \in Nat /\ Len(as) \in Nat /\ Len(as) <= 1 + mirrors(call[c], s)
        /\ Len(as) > 1 => as[1] = "ok"
        /\ \A j \in 2 .. Len(as) - 1 : as[j] # "error" \/ IgnoreMirrorError
    BY SMTT(30), <1>3, <1>5, TaskFacts
  <2> QED BY ZenonT(30), <1>5, <2>1
<1>7. l \in 1 .. w
  BY Zenon, <1>4, <1>5
<1>8. l \in Nat /\ l # 0
  BY <1>6, <1>7
<1>9. l = k + 1 /\ l # 1
  BY Zenon, <1>1, <1>4, <1>8, MirrorNode
<1>10. w > 1 /\ 1 \in 1 .. w /\ n # 0
  BY SMTT(30), <1>6, <1>7, <1>8, <1>9
<1>11. NodeOf(c, 1) = <<"primary", 0>>
  BY Zenon, <1>5, <1>10, MirroredWrites DEF NodeOf
<1>12. \E x \in Entries(s, <<"primary", 0>>, c) : x.answer = "ok"
  <2>1. \E x \in Entries(s, NodeOf(c, 1), c) : x.answer = tasks[c][s].answers[1]
    BY Zenon, <1>3, <1>5, <1>10, AnswerLogged
  <2> QED BY Zenon, <1>5, <1>6, <1>10, <1>11, <2>1
<1>13. ASSUME NEW j \in 1 .. k - 1
       PROVE  \E x \in Entries(s, <<"mirror", j>>, c) : x.answer # "error" \/ IgnoreMirrorError
  <2>1. PICK i : i = j + 1
    BY Zenon
  <2>2. i \in 1 .. w /\ i \in 2 .. w - 1 /\ j \in Nat /\ j # 0
    BY SMTT(30), <1>1, <1>6, <1>7, <1>9, <2>1
  <2>3. NodeOf(c, i) = <<"mirror", j>>
    BY Zenon, <2>1, <2>2, NodeOfMirror
  <2>4. \E x \in Entries(s, NodeOf(c, i), c) : x.answer = tasks[c][s].answers[i]
    BY Zenon, <1>3, <1>5, <2>2, AnswerLogged
  <2> QED BY Zenon, <1>5, <1>6, <2>2, <2>3, <2>4
<1> QED BY Zenon, <1>12, <1>13

\* The invariant gives MirrorsInOrder.
LEMMA InvMirrors == IInv => MirrorsInOrder
<1> SUFFICES ASSUME IInv PROVE MirrorsInOrder
  BY Zenon
<1>1. \A s \in 1 .. Sets : \A node \in Nodes : \A i, j \in DOMAIN log[s][node] :
        i < j => log[s][node][j].by \notin before[log[s][node][i].by]
  BY Zenon DEF IInv, LogInv
<1>2. ASSUME NEW c \in Callers, NEW s \in 1 .. Sets, NEW k \in 1 .. Mirrors[s],
             Entries(s, <<"mirror", k>>, c) # {}
      PROVE  /\ \E e \in Entries(s, <<"primary", 0>>, c) : e.answer = "ok"
             /\ \A j \in 1 .. k - 1 : \E e \in Entries(s, <<"mirror", j>>, c) :
                  e.answer # "error" \/ IgnoreMirrorError
  BY Zenon, <1>2, MirrorsFollow
<1> QED BY Zenon, <1>1, <1>2 DEF MirrorsInOrder

\* An entry fails its call: the statement of a target did, or one of a mirror whose
\* errors count.
Breaks(node, e) ==
  \/ e.answer = "error" /\ (node[1] # "mirror" \/ ~ IgnoreMirrorError)
  \/ e.answer = "norows" /\ node[1] # "mirror"

\* The first statement goes to no mirror, the others do.
LEMMA NodeKind ==
  ASSUME NEW c, NEW l, NEW node, node = NodeOf(c, l)
  PROVE  node[1] = "mirror" <=> l # 1
<1>1. PICK x : x = target(call[c])
  BY Zenon
<1>2. x \in {<<"tx", 0>>, <<"replica", 0>>, <<"primary", 0>>}
  BY Zenon, <1>1, Targets
<1>3. x[1] # "mirror"
  BY <1>2
<1>4. CASE l = 1
  BY Zenon, <1>1, <1>3, <1>4 DEF NodeOf
<1>5. CASE l # 1
  <2>1. PICK i : i = l - 1
    BY Zenon
  <2>2. node = <<"mirror", i>>
    BY Zenon, <1>5, <2>1 DEF NodeOf
  <2>3. node[1] = "mirror"
    BY <2>2
  <2> QED BY Zenon, <1>5, <2>3
<1> QED BY Zenon, <1>4, <1>5

\* A sequence with an element has a first one, and elements of its set.
LEMMA NonEmptySeq ==
  ASSUME NEW S, NEW e \in Seq(S), e # <<>>
  PROVE  Len(e) # 0 /\ 1 \in 1 .. Len(e) /\ \A i \in 1 .. Len(e) : e[i] \in S
<1>1. Len(e) # 0 /\ Len(e) \in Nat
  OBVIOUS
<1>2. 1 \in 1 .. Len(e)
  BY <1>1
<1>3. \A i \in 1 .. Len(e) : e[i] \in S
  OBVIOUS
<1> QED BY Zenon, <1>1, <1>2, <1>3

\* A goroutine fails when and because one of its statements did.
LEMMA FailureShows ==
  ASSUME IInv, NEW c \in Callers, NEW s \in DOMAIN tasks[c], tasks[c][s].answers # <<>>
  PROVE  taskErr(tasks[c][s].answers) # "" <=>
           \E node \in Nodes : \E e \in Entries(s, node, c) : Breaks(node, e)
<1>1. PICK as, w, n : as = tasks[c][s].answers /\ w = Len(as) /\ n = mirrors(call[c], s)
  BY Zenon
<1>2. /\ s \in 1 .. Sets /\ n \in Nat /\ w \in Nat /\ w <= 1 + n
      /\ as \in Seq({"ok", "norows", "error"}) /\ (w > 1 => as[1] = "ok")
  <2>1. /\ s \in 1 .. Sets /\ mirrors(call[c], s) \in Nat /\ Len(as) \in Nat
        /\ Len(as) <= 1 + mirrors(call[c], s)
        /\ as \in Seq({"ok", "norows", "error"}) /\ (Len(as) > 1 => as[1] = "ok")
    BY <1>1, TaskFacts
  <2> QED BY Zenon, <1>1, <2>1
<1>3. w # 0 /\ 1 \in 1 .. w /\ \A i \in 1 .. w : as[i] \in {"ok", "norows", "error"}
  <2>1. w = Len(as) /\ as # <<>>
    BY Zenon, <1>1
  <2> QED BY Zenon, <1>2, <2>1, NonEmptySeq
<1>4. as[1] \in {"ok", "norows", "error"}
  BY Zenon, <1>3
<1>5. ASSUME NEW node \in Nodes, NEW e \in Entries(s, node, c), Breaks(node, e)
      PROVE  taskErr(as) # ""
  <2>1. \E l \in 1 .. Len(tasks[c][s].answers) :
          node = NodeOf(c, l) /\ e.answer = tasks[c][s].answers[l]
    BY <1>2, EntryOf DEF Answered
  <2>2. PICK l \in 1 .. w : node = NodeOf(c, l) /\ e.answer = as[l]
    BY Zenon, <1>1, <2>1
  <2>3. node[1] = "mirror" <=> l # 1
    BY Zenon, <2>2, NodeKind
  <2>4. CASE l = 1
    <3>1. as[1] # "ok" /\ as[1] # ""
      <4>1. as[1] = "error" \/ as[1] = "norows"
        BY Zenon, <1>5, <2>2, <2>3, <2>4 DEF Breaks
      <4> QED BY ZenonT(30), <4>1
    <3> QED BY Zenon, <3>1 DEF taskErr
  <2>5. CASE l # 1
    <3>1. w > 1 /\ l \in 2 .. w
      BY <1>2, <2>2, <2>5
    <3>2. as[1] = "ok" /\ as[l] = "error" /\ ~ IgnoreMirrorError
      BY ZenonT(30), <1>2, <1>5, <2>2, <2>3, <2>5, <3>1 DEF Breaks
    <3>3. l \in 2 .. Len(as) /\ "mirror" # ""
      BY <1>1, <3>1
    <3>4. mirrorError(as) = "mirror"
      BY Zenon, <3>2, <3>3 DEF mirrorError
    <3> QED BY Zenon, <3>2, <3>3, <3>4 DEF taskErr
  <2> QED BY Zenon, <2>4, <2>5
<1>6. ASSUME taskErr(as) # ""
      PROVE  \E node \in Nodes : \E e \in Entries(s, node, c) : Breaks(node, e)
  <2>1. PICK l \in 1 .. w : \/ l = 1 /\ (as[l] = "error" \/ as[l] = "norows")
                            \/ l # 1 /\ as[l] = "error" /\ ~ IgnoreMirrorError
    <3>1. CASE as[1] # "ok"
      BY Zenon, <1>3, <1>4, <3>1
    <3>2. CASE as[1] = "ok"
      <4>1. mirrorError(as) # ""
        BY Zenon, <1>6, <3>2 DEF taskErr
      <4>2. ~ IgnoreMirrorError /\ \E i \in 2 .. Len(as) : as[i] = "error"
        BY Zenon, <4>1 DEF mirrorError
      <4>3. PICK i \in 2 .. w : as[i] = "error"
        BY Zenon, <1>1, <4>2
      <4>4. i \in 1 .. w /\ i # 1
        BY <1>2, <4>3
      <4> QED BY Zenon, <4>2, <4>3, <4>4
    <3> QED BY Zenon, <3>1, <3>2
  <2>2. PICK node : node = NodeOf(c, l)
    BY Zenon
  <2>3. node[1] = "mirror" <=> l # 1
    BY Zenon, <2>2, NodeKind
  <2>4. node \in Nodes
    <3>1. l \in 1 .. 1 + n
      BY <1>2, <2>1
    <3> QED BY Zenon, <1>1, <1>2, <2>2, <3>1, NodesExist
  <2>5. \E e \in Entries(s, NodeOf(c, l), c) : e.answer = tasks[c][s].answers[l]
    BY Zenon, <1>1, <2>1, AnswerLogged
  <2>6. PICK e \in Entries(s, node, c) : e.answer = as[l]
    BY Zenon, <1>1, <2>2, <2>5
  <2>7. Breaks(node, e)
    BY Zenon, <2>1, <2>3, <2>6 DEF Breaks
  <2> QED BY Zenon, <2>4, <2>6, <2>7
<1> QED BY Zenon, <1>1, <1>5, <1>6

\* The invariant gives AllOrNothing: the sets that failed are those of a failed statement.
LEMMA InvAllOrNothing == IInv => AllOrNothing
<1> SUFFICES ASSUME IInv, NEW c \in Callers, Returned(c), Fans(call[c].method), NEW broken,
                    broken = {s \in 1 .. Sets : \E node \in Nodes : \E e \in Entries(s, node, c) :
                               Breaks(node, e)}
             PROVE  /\ broken # {} => result[c].failed = broken
                    /\ result[c].failed # {} \/ result[c].err # "" => result[c].value = Zero
  BY Zenon DEF AllOrNothing, Breaks
<1>1. CallerInv(c) /\ pc[c] = "returned"
  BY Zenon DEF IInv, CallersInv, Returned
<1>2. waited(c) /\ Reported(c)
  BY Zenon, <1>1 DEF CallerInv
<1>3. broken = failedSets(c)
  <2>1. ASSUME NEW s \in broken PROVE s \in failedSets(c)
    <3>1. PICK node \in Nodes : \E e \in Entries(s, node, c) : Breaks(node, e)
      BY Zenon
    <3>2. s \in 1 .. Sets
      BY Zenon
    <3>3. s \in DOMAIN tasks[c]
      BY Zenon, <3>1, <3>2, EntryOf DEF Answered
    <3>4. tasks[c][s].answers # <<>>
      BY Zenon, <1>2, <3>3 DEF waited, done
    <3>5. taskErr(tasks[c][s].answers) # ""
      BY Zenon, <3>1, <3>3, <3>4, FailureShows
    <3> QED BY Zenon, <3>3, <3>5 DEF failedSets
  <2>2. ASSUME NEW s \in failedSets(c) PROVE s \in broken
    <3>1. s \in DOMAIN tasks[c] /\ taskErr(tasks[c][s].answers) # ""
      BY Zenon DEF failedSets
    <3>2. tasks[c][s].answers # <<>>
      BY Zenon, <1>2, <3>1 DEF waited, done
    <3>3. s \in 1 .. Sets
      BY Zenon, <3>1, TaskFacts
    <3>4. \E node \in Nodes : \E e \in Entries(s, node, c) : Breaks(node, e)
      BY Zenon, <3>1, <3>2, FailureShows
    <3> QED BY Zenon, <3>3, <3>4
  <2> QED BY Zenon, <2>1, <2>2
<1>4. CASE DOMAIN tasks[c] = {}
  <2>1. failedSets(c) = {}
    BY Zenon, <1>4 DEF failedSets
  <2>2. PICK r, z, x : r = result[c] /\ z = Zero /\ x = plan[c].err
    BY Zenon
  <2>3. r = [value |-> z, err |-> x, failed |-> {}]
    BY Zenon, <1>2, <1>4, <2>2 DEF Reported
  <2>4. r.value = z
    BY <2>3
  <2> QED BY Zenon, <1>3, <2>1, <2>2, <2>4
<1>5. CASE DOMAIN tasks[c] # {}
  BY Zenon, <1>2, <1>3, <1>5 DEF Reported
<1> QED BY Zenon, <1>4, <1>5

\* A call that reports success was planned, and so was every set that something is due
\* at; none of its goroutines failed.
LEMMA SuccessfulTasks ==
  ASSUME IInv, NEW c \in Callers, Returned(c), result[c].err = "", result[c].failed = {}
  PROVE  /\ \A s \in 1 .. Sets : call[c].method.mode = "all" \/ Due(call[c], s) # {} =>
              s \in DOMAIN tasks[c]
         /\ \A s \in DOMAIN tasks[c] : /\ taskErr(tasks[c][s].answers) = ""
                                       /\ done(call[c], s, tasks[c][s].answers)
<1>1. CallerInv(c) /\ pc[c] = "returned"
  BY Zenon DEF IInv, CallersInv, Returned
<1>2. "returned" # "idle"
  BY ZenonT(30)
<1>3. waited(c) /\ Reported(c) /\ PlanFits(call[c], plan[c]) /\ DOMAIN tasks[c] = DOMAIN plan[c].groups
  BY Zenon, <1>1, <1>2 DEF CallerInv
<1>4. plan[c].err = ""
  <2>1. CASE DOMAIN tasks[c] = {}
    <3>1. PICK r, z, x : r = result[c] /\ z = Zero /\ x = plan[c].err
      BY Zenon
    <3>2. r = [value |-> z, err |-> x, failed |-> {}]
      BY Zenon, <1>3, <2>1, <3>1 DEF Reported
    <3>3. r.err = x
      BY Zenon, <3>2, ResultFields
    <3> QED BY Zenon, <3>1, <3>3
  <2>2. CASE DOMAIN tasks[c] # {}
    BY Zenon, <1>3, <2>2 DEF PlanFits
  <2> QED BY Zenon, <2>1, <2>2
<1>5. \A s \in 1 .. Sets : call[c].method.mode = "all" \/ Due(call[c], s) # {} => s \in DOMAIN tasks[c]
  BY Zenon, <1>3, <1>4 DEF PlanFits
<1>6. ASSUME NEW s \in DOMAIN tasks[c]
      PROVE  taskErr(tasks[c][s].answers) = ""
  <2>1. CASE ~ Fans(call[c].method)
    BY Zenon, <1>3, <2>1 DEF Reported
  <2>2. CASE Fans(call[c].method)
    <3>1. failedSets(c) = {}
      BY Zenon, <1>3, <2>2 DEF Reported
    <3> QED BY Zenon, <3>1 DEF failedSets
  <2> QED BY Zenon, <2>1, <2>2
<1> QED BY Zenon, <1>3, <1>5, <1>6 DEF waited

\* An index and the next one.
LEMMA NextIndex ==
  ASSUME NEW n \in Nat, NEW k \in 1 .. n, NEW w, w = 1 + n, NEW i, i = k + 1
  PROVE  k \in Nat /\ k # 0 /\ i \in 1 .. w /\ i \in 2 .. w
OBVIOUS

\* A goroutine of a write that succeeded wrote to its primary and to every mirror.
LEMMA TaskWrote ==
  ASSUME IInv, NEW c \in Callers, NEW s \in DOMAIN tasks[c],
         taskErr(tasks[c][s].answers) = "", done(call[c], s, tasks[c][s].answers),
         call[c].method.kind = "write", ~ call[c].options.tx
  PROVE  /\ \E e \in Entries(s, <<"primary", 0>>, c) : e.answer = "ok"
         /\ call[c].method.command # ":batch" =>
              \A k \in 1 .. Mirrors[s] : \E e \in Entries(s, <<"mirror", k>>, c) :
                e.answer # "error" \/ IgnoreMirrorError
<1>1. PICK as, w : as = tasks[c][s].answers /\ w = Len(as)
  BY Zenon
<1>2. s \in 1 .. Sets /\ w \in Nat /\ as \in Seq({"ok", "norows", "error"})
  <2>1. s \in 1 .. Sets /\ Len(as) \in Nat /\ as \in Seq({"ok", "norows", "error"})
    BY Zenon, <1>1, TaskFacts
  <2> QED BY Zenon, <1>1, <2>1
<1>3. taskErr(as) = "" /\ as # <<>> /\ w = 1 + mirrors(call[c], s)
  BY Zenon, <1>1 DEF done
<1>4. 1 \in 1 .. w /\ as[1] \in {"ok", "norows", "error"}
  BY Zenon, <1>1, <1>2, <1>3, NonEmptySeq
<1>5. as[1] = "ok" /\ mirrorError(as) = ""
  <2>1. as[1] # ""
    BY ZenonT(30), <1>4
  <2> QED BY Zenon, <1>3, <2>1 DEF taskErr
<1>6. \A i \in 2 .. w : as[i] # "error" \/ IgnoreMirrorError
  <2>1. "mirror" # ""
    BY ZenonT(30)
  <2> QED BY Zenon, <1>1, <1>5, <2>1 DEF mirrorError
<1>7. NodeOf(c, 1) = <<"primary", 0>>
  <2>1. "write" # "read"
    BY ZenonT(30)
  <2> QED BY Zenon, <2>1 DEF NodeOf, target
<1>8. \A l \in 1 .. w : \E e \in Entries(s, NodeOf(c, l), c) : e.answer = as[l]
  BY Zenon, <1>1, AnswerLogged
<1>9. \E e \in Entries(s, <<"primary", 0>>, c) : e.answer = "ok"
  BY Zenon, <1>4, <1>5, <1>7, <1>8
<1>10. ASSUME call[c].method.command # ":batch", NEW k \in 1 .. Mirrors[s]
       PROVE  \E e \in Entries(s, <<"mirror", k>>, c) : e.answer # "error" \/ IgnoreMirrorError
  <2>1. PICK i, n : i = k + 1 /\ n = Mirrors[s]
    BY Zenon
  <2>2. n \in Nat /\ w = 1 + n
    BY Zenon, <1>2, <1>3, <1>10, <2>1, StoreQueriesAssumption DEF mirrors
  <2>3. k \in 1 .. n /\ i = k + 1
    BY Zenon, <2>1
  <2>4. k \in Nat /\ k # 0 /\ i \in 1 .. w /\ i \in 2 .. w
    BY Zenon, <2>2, <2>3, NextIndex
  <2>5. NodeOf(c, i) = <<"mirror", k>>
    BY Zenon, <2>1, <2>4, NodeOfMirror
  <2> QED BY Zenon, <1>6, <1>8, <2>4, <2>5
<1> QED BY Zenon, <1>9, <1>10

\* The invariant gives SuccessMeansWritten.
LEMMA InvSuccess == IInv => SuccessMeansWritten
<1> SUFFICES ASSUME IInv, NEW c \in Callers, Returned(c), result[c].err = "", result[c].failed = {},
                    call[c].method.kind = "write", ~ call[c].options.tx, NEW s \in 1 .. Sets,
                    call[c].method.mode = "all" \/ Due(call[c], s) # {}
             PROVE  /\ \E e \in Entries(s, <<"primary", 0>>, c) : e.answer = "ok"
                    /\ call[c].method.command # ":batch" =>
                         \A k \in 1 .. Mirrors[s] : \E e \in Entries(s, <<"mirror", k>>, c) :
                           e.answer # "error" \/ IgnoreMirrorError
  BY Zenon DEF SuccessMeansWritten
<1>1. s \in DOMAIN tasks[c]
  BY Zenon, SuccessfulTasks
<1>2. taskErr(tasks[c][s].answers) = "" /\ done(call[c], s, tasks[c][s].answers)
  BY Zenon, <1>1, SuccessfulTasks
<1> QED BY Zenon, <1>1, <1>2, TaskWrote

\* Where a statement of a call may be, and what it carries.
LEMMA EntryPlace ==
  ASSUME IInv, NEW c \in Callers, NEW s \in 1 .. Sets, NEW node \in Nodes,
         NEW e \in Entries(s, node, c)
  PROVE  /\ s \in DOMAIN plan[c].groups /\ plan[c].err = ""
         /\ call[c].method.mode # "all" => Carries(call[c], s, e.args) /\ e.args # <<>>
         /\ call[c].options.tx => node = <<"tx", 0>>
         /\ ~ call[c].options.tx =>
              \/ node[1] = "primary" /\ (call[c].method.kind = "write" \/ call[c].options.primary)
              \/ node[1] = "replica" /\ call[c].method.kind = "read" /\ ~ call[c].options.primary
              \/ node[1] = "mirror" /\ call[c].method.kind = "write"
<1>0. Answered(c, s, node, e)
  BY Zenon, EntryOf
<1>1. /\ s \in DOMAIN tasks[c] /\ e.args = plan[c].groups[s]
      /\ \E l \in 1 .. Len(tasks[c][s].answers) : node = NodeOf(c, l)
  BY Zenon, <1>0 DEF Answered
<1>2. PICK l \in 1 .. Len(tasks[c][s].answers) : node = NodeOf(c, l)
  BY Zenon, <1>1
<1>3. PICK as, w, n : as = tasks[c][s].answers /\ w = Len(as) /\ n = mirrors(call[c], s)
  BY Zenon
<1>4. /\ pc[c] # "idle" /\ s \in DOMAIN plan[c].groups
      /\ n \in Nat /\ w \in Nat /\ w <= 1 + n
  <2>1. /\ pc[c] # "idle" /\ s \in DOMAIN plan[c].groups
        /\ mirrors(call[c], s) \in Nat /\ Len(as) \in Nat /\ Len(as) <= 1 + mirrors(call[c], s)
    BY SMTT(30), <1>1, <1>3, TaskFacts
  <2> QED BY Zenon, <1>3, <2>1
<1>5. l \in 1 .. w
  BY Zenon, <1>2, <1>3
<1>6. l # 1 => n # 0
  BY <1>4, <1>5
<1>7. ValidCall(call[c]) /\ PlanFits(call[c], plan[c])
  BY Zenon, <1>4 DEF IInv, CallersInv, CallerInv
<1>8. plan[c].err = ""
  BY Zenon, <1>4, <1>7 DEF PlanFits
<1>9. call[c].method.mode # "all" => Carries(call[c], s, e.args) /\ e.args # <<>>
  BY Zenon, <1>1, <1>4, <1>7 DEF PlanFits
<1>10. l # 1 => ~ call[c].options.tx /\ call[c].method.kind = "write"
  BY Zenon, <1>3, <1>6, MirroredWrites
<1>11. call[c].options.tx => node = <<"tx", 0>>
  BY Zenon, <1>2, <1>10 DEF NodeOf, target
<1>12. ASSUME ~ call[c].options.tx
       PROVE  \/ node[1] = "primary" /\ (call[c].method.kind = "write" \/ call[c].options.primary)
              \/ node[1] = "replica" /\ call[c].method.kind = "read" /\ ~ call[c].options.primary
              \/ node[1] = "mirror" /\ call[c].method.kind = "write"
  <2>1. CASE l # 1
    BY Zenon, <1>2, <1>10, <2>1, NodeKind
  <2>2. CASE l = 1
    <3>1. node = IF call[c].method.kind = "read" /\ ~ call[c].options.primary
                 THEN <<"replica", 0>> ELSE <<"primary", 0>>
      BY Zenon, <1>2, <1>12, <2>2 DEF NodeOf, target
    <3>2. node = <<"replica", 0>> => node[1] = "replica"
      OBVIOUS
    <3>3. node = <<"primary", 0>> => node[1] = "primary"
      OBVIOUS
    <3>4. call[c].method.kind \in {"read", "write"}
      BY Zenon, <1>7 DEF ValidCall
    <3> QED BY Zenon, <3>1, <3>2, <3>3, <3>4
  <2> QED BY Zenon, <2>1, <2>2
<1> QED BY Zenon, <1>4, <1>8, <1>9, <1>11, <1>12

\* The parts of a pair.
LEMMA Pairs ==
  ASSUME NEW A, NEW B, NEW x \in A \X B
  PROVE  x[1] \in A /\ x[2] \in B /\ x = <<x[1], x[2]>>
OBVIOUS

\* The invariant gives SentWhereItBelongs.
LEMMA InvSent == IInv => SentWhereItBelongs
<1> SUFFICES ASSUME IInv PROVE SentWhereItBelongs
  BY Zenon
<1>1. \A s \in 1 .. Sets : \A node \in Nodes : \A i, j \in DOMAIN log[s][node] :
        log[s][node][i].by = log[s][node][j].by => i = j
  BY Zenon DEF IInv, LogInv
<1>2. ASSUME NEW c \in Callers, pc[c] # "idle"
      PROVE  LET sent == {x \in (1 .. Sets) \X Nodes : Entries(x[1], x[2], c) # {}}
                 m == call[c].method
                 o == call[c].options
                 Node(x) == x[2][1]
             IN  /\ \A x \in sent : \A e \in Entries(x[1], x[2], c) :
                      /\ plan[c].err = ""
                      /\ m.mode # "all" => Carries(call[c], x[1], e.args) /\ e.args # <<>>
                 /\ o.tx => \A x, y \in sent : x = y /\ Node(x) = "tx"
                 /\ ~o.tx => \A x \in sent :
                      \/ Node(x) = "primary" /\ (m.kind = "write" \/ o.primary)
                      \/ Node(x) = "replica" /\ m.kind = "read" /\ ~o.primary
                      \/ Node(x) = "mirror" /\ m.kind = "write"
  <2> DEFINE sent == {x \in (1 .. Sets) \X Nodes : Entries(x[1], x[2], c) # {}}
  <2>1. \A x \in sent : x[1] \in 1 .. Sets /\ x[2] \in Nodes /\ x = <<x[1], x[2]>>
    BY Zenon, <1>2, Pairs
  <2>2. \A x \in sent : \E e \in Entries(x[1], x[2], c) : TRUE
    BY Zenon, <1>2
  <2>3. \A x \in sent : \A e \in Entries(x[1], x[2], c) :
          /\ plan[c].err = ""
          /\ call[c].method.mode # "all" => Carries(call[c], x[1], e.args) /\ e.args # <<>>
    BY Zenon, <2>1, EntryPlace
  <2>4. ASSUME call[c].options.tx, NEW x \in sent, NEW y \in sent
        PROVE  x = y /\ x[2][1] = "tx"
    <3>1. /\ x[1] \in DOMAIN plan[c].groups /\ x[2] = <<"tx", 0>>
          /\ y[1] \in DOMAIN plan[c].groups /\ y[2] = <<"tx", 0>>
      BY ZenonT(30), <2>1, <2>2, <2>4, EntryPlace
    <3>2. PlanFits(call[c], plan[c])
      BY Zenon, <1>2 DEF IInv, CallersInv, CallerInv
    <3>3. x[1] = y[1]
      BY Zenon, <2>4, <3>1, <3>2 DEF PlanFits
    <3>4. x = y
      BY Zenon, <2>1, <3>1, <3>3
    <3>5. x[2][1] = "tx"
      BY <3>1
    <3> QED BY Zenon, <3>4, <3>5
  <2>5. ASSUME ~ call[c].options.tx, NEW x \in sent
        PROVE  \/ x[2][1] = "primary" /\ (call[c].method.kind = "write" \/ call[c].options.primary)
               \/ x[2][1] = "replica" /\ call[c].method.kind = "read" /\ ~ call[c].options.primary
               \/ x[2][1] = "mirror" /\ call[c].method.kind = "write"
    BY Zenon, <2>1, <2>2, <2>5, EntryPlace
  <2> QED BY Zenon, <2>3, <2>4, <2>5
<1> QED BY Zenon, <1>1, <1>2 DEF SentWhereItBelongs

-----------------------------------------------------------------------------
(* The theorems.                                                           *)

\* The invariant holds in every state: the plan of every call fits its input, a
\* goroutine reached its next node only past the ones before, and the log of the
\* databases is exactly what the goroutines sent.
THEOREM QueryInvariant == Spec => []IInv
<1>1. Init => IInv
  BY InitInv
<1>2. IInv /\ [Next]_vars => IInv'
  BY NextKeeps
<1> QED BY <1>1, <1>2, PTL DEF Spec

\* Every statement carries exactly what belongs to its set, in input order, goes to
\* the node that the method and its options ask for and to each node at most once,
\* and a refused call has sent nothing, for all inputs, stores, sets and mirrors.
THEOREM SentWhereItBelongsHolds == Spec => []SentWhereItBelongs
BY QueryInvariant, InvSent, PTL

\* A fan-out returns values only when no statement failed, and names exactly the sets
\* that did, for all interleavings of any number of calls.
THEOREM AllOrNothingHolds == Spec => []AllOrNothing
BY QueryInvariant, InvAllOrNothing, PTL

\* A write that reports success is on the primary and on all mirrors of every set that
\* something of its input belongs to.
THEOREM SuccessMeansWrittenHolds == Spec => []SuccessMeansWritten
BY QueryInvariant, InvSuccess, PTL

\* No mirror sees a write before its primary and the mirrors before it did, and no node
\* sees two writes in the other order than one returned and the other began.
THEOREM MirrorsInOrderHolds == Spec => []MirrorsInOrder
BY QueryInvariant, InvMirrors, PTL

=============================================================================
