--------------------- MODULE CopyBatcherStructureProofs ---------------------
(***************************************************************************)
(* The structural invariant of CopyBatcher.                                *)
(*                                                                         *)
(* First what the steps work on and what they do, as facts that all the    *)
(* proofs about CopyBatcher share: sequences and slices of rows, the case  *)
(* split on Next, and for each step that moves rows what the batches,      *)
(* their parts and their rows are before and after it.                     *)
(*                                                                         *)
(* Then Structure: between any two steps, inside the critical section      *)
(* included, the fields are typed, every batch is in exactly one place,    *)
(* its name is in use once and its size is within its limit. There is one  *)
(* lemma per conjunct and step, or group of steps that do not differ for   *)
(* that conjunct; StructureStep puts them together.                        *)
(***************************************************************************)
EXTENDS CopyBatcherInv, TLAPS

\* A sequence is a function on 1 .. Len(seq).
LEMMA LenProperties ==
  ASSUME NEW S, NEW seq \in Seq(S)
  PROVE  /\ Len(seq) \in Nat
         /\ seq \in [1 .. Len(seq) -> S]
         /\ DOMAIN seq = 1 .. Len(seq)
OBVIOUS

\* The empty sequence is the one of length 0.
LEMMA EmptySeq ==
  ASSUME NEW S
  PROVE  /\ <<>> \in Seq(S)
         /\ \A seq \in Seq(S) : (seq = <<>>) <=> (Len(seq) = 0)
OBVIOUS

\* A function on 1 .. n is a sequence.
LEMMA FunctionIsSeq ==
  ASSUME NEW S, NEW n \in Nat, NEW f \in [1 .. n -> S]
  PROVE  f \in Seq(S)
OBVIOUS

\* The elements of a sequence over S are in S.
LEMMA ElementOfSeq ==
  ASSUME NEW S, NEW seq \in Seq(S), NEW n \in 1 .. Len(seq)
  PROVE  seq[n] \in S
OBVIOUS

\* What Head and Tail keep of a sequence.
LEMMA HeadTailProperties ==
  ASSUME NEW S, NEW seq \in Seq(S), seq # <<>>
  PROVE  /\ Head(seq) \in S
         /\ Tail(seq) \in Seq(S)
         /\ Len(Tail(seq)) = Len(seq) - 1
         /\ \A i \in 1 .. Len(Tail(seq)) : Tail(seq)[i] = seq[i + 1]
OBVIOUS

\* What a concatenation holds, and where.
LEMMA ConcatProperties ==
  ASSUME NEW S, NEW s1 \in Seq(S), NEW s2 \in Seq(S)
  PROVE  /\ s1 \o s2 \in Seq(S)
         /\ Len(s1 \o s2) = Len(s1) + Len(s2)
         /\ \A i \in 1 .. Len(s1) + Len(s2) :
              (s1 \o s2)[i] = IF i <= Len(s1) THEN s1[i] ELSE s2[i - Len(s1)]
OBVIOUS

\* Lengths add up under concatenation.
LEMMA ConcatLen ==
  ASSUME NEW s \in Seq(Row), NEW t \in Seq(Row)
  PROVE  Len(s \o t) = Len(s) + Len(t) /\ Len(s) \in Nat /\ Len(t) \in Nat
BY Zenon, ConcatProperties, LenProperties

\* Appending rows leaves a nonempty batch.
LEMMA ConcatNonEmpty ==
  ASSUME NEW s \in Seq(Row), NEW t \in Seq(Row), t # <<>>
  PROVE  s \o t # <<>>
<1>1. Len(t) # 0
  BY Zenon, EmptySeq
<1>2. Len(s \o t) = Len(s) + Len(t) /\ Len(s) \in Nat /\ Len(t) \in Nat
  BY Zenon, ConcatLen
<1>3. Len(s \o t) # 0
  BY <1>1, <1>2
<1> QED BY <1>3

\* What a concatenation holds.
LEMMA InConcat ==
  ASSUME NEW S, NEW s \in Seq(S), NEW t \in Seq(S), NEW x
  PROVE  In(x, s \o t) <=> In(x, s) \/ In(x, t)
<1>1. /\ DOMAIN (s \o t) = 1 .. Len(s) + Len(t)
      /\ DOMAIN s = 1 .. Len(s) /\ DOMAIN t = 1 .. Len(t)
      /\ Len(s) \in Nat /\ Len(t) \in Nat
      /\ \A i \in 1 .. Len(s) + Len(t) :
           (s \o t)[i] = IF i <= Len(s) THEN s[i] ELSE t[i - Len(s)]
  OBVIOUS
<1>2. ASSUME In(x, s \o t) PROVE In(x, s) \/ In(x, t)
  BY <1>1, <1>2 DEF In
<1>3. ASSUME In(x, s) PROVE In(x, s \o t)
  BY <1>1, <1>3 DEF In
<1>4. ASSUME In(x, t) PROVE In(x, s \o t)
  <2>1. PICK i \in 1 .. Len(t) : t[i] = x
    BY Zenon, <1>1, <1>4 DEF In
  <2>2. Len(s) + i \in 1 .. Len(s) + Len(t) /\ (s \o t)[Len(s) + i] = x
    BY <1>1, <2>1
  <2> QED
    BY Zenon, <1>1, <2>2 DEF In
<1> QED
  BY Zenon, <1>2, <1>3, <1>4

\* Sequences with distinct elements and nothing in common.
LEMMA DistinctConcat ==
  ASSUME NEW S, NEW s \in Seq(S), NEW t \in Seq(S), Distinct(s), Distinct(t),
         \A x \in S : ~ (In(x, s) /\ In(x, t))
  PROVE  Distinct(s \o t)
<1>1. /\ DOMAIN (s \o t) = 1 .. Len(s) + Len(t)
      /\ DOMAIN s = 1 .. Len(s) /\ DOMAIN t = 1 .. Len(t)
      /\ Len(s) \in Nat /\ Len(t) \in Nat
      /\ \A i \in 1 .. Len(s) + Len(t) :
           (s \o t)[i] = IF i <= Len(s) THEN s[i] ELSE t[i - Len(s)]
  OBVIOUS
<1>2. \A i \in 1 .. Len(s), j \in 1 .. Len(t) : s[i] # t[j]
  <2> TAKE i \in 1 .. Len(s), j \in 1 .. Len(t)
  <2>1. s[i] \in S /\ In(s[i], s) /\ In(t[j], t)
    BY <1>1 DEF In
  <2> QED
    BY Zenon, <2>1
<1>3. \A i, j \in 1 .. Len(s) : s[i] = s[j] => i = j
  BY Zenon, <1>1 DEF Distinct
<1>4. \A i, j \in 1 .. Len(t) : t[i] = t[j] => i = j
  BY Zenon, <1>1 DEF Distinct
<1> SUFFICES ASSUME NEW i \in 1 .. Len(s) + Len(t), NEW j \in 1 .. Len(s) + Len(t),
                    (s \o t)[i] = (s \o t)[j]
             PROVE  i = j
  BY Zenon, <1>1 DEF Distinct
<1>5. CASE i <= Len(s) /\ j <= Len(s)
  BY <1>1, <1>3, <1>5
<1>6. CASE i <= Len(s) /\ ~ (j <= Len(s))
  BY <1>1, <1>6, <1>2
<1>7. CASE ~ (i <= Len(s)) /\ j <= Len(s)
  BY <1>1, <1>7, <1>2
<1>8. CASE ~ (i <= Len(s)) /\ ~ (j <= Len(s))
  BY <1>1, <1>8, <1>4
<1> QED
  BY Zenon, <1>5, <1>6, <1>7, <1>8

\* What a slice of a call's rows holds.
LEMMA InSlice ==
  ASSUME NEW r \in Request, NEW i \in 1 .. MaxRows, NEW k \in Nat, i + k - 1 <= MaxRows,
         NEW q \in Request, NEW j \in 1 .. MaxRows
  PROVE  In(<<q, j>>, Slice(r, i, k)) <=> q = r /\ i <= j /\ j < i + k
<1>1. /\ DOMAIN Slice(r, i, k) = 1 .. k
      /\ \A h \in 1 .. k : Slice(r, i, k)[h] = <<r, i + h - 1>>
  BY Zenon DEF Slice
<1>2. ASSUME In(<<q, j>>, Slice(r, i, k)) PROVE q = r /\ i <= j /\ j < i + k
  BY <1>1, <1>2, ConfigAssumption DEF In
<1>3. ASSUME q = r, i <= j, j < i + k PROVE In(<<q, j>>, Slice(r, i, k))
  <2>1. j - i + 1 \in 1 .. k /\ i + (j - i + 1) - 1 = j
    BY <1>3, ConfigAssumption
  <2>2. Slice(r, i, k)[j - i + 1] = <<q, j>>
    BY Zenon, <1>1, <1>3, <2>1
  <2> QED
    BY Zenon, <1>1, <2>1, <2>2 DEF In
<1> QED
  BY Zenon, <1>2, <1>3

\* Its rows are distinct.
LEMMA DistinctSlice ==
  ASSUME NEW r, NEW i \in Nat, NEW k \in Nat
  PROVE  Distinct(Slice(r, i, k))
BY DEF Distinct, Slice

-----------------------------------------------------------------------------
(* Calls, rows and slices of rows.                                         *)

\* A row is a pair of a call and an index, and NoBatch is none.
LEMMA RowFacts ==
  /\ NoBatch \notin Row
  /\ Batch = Row
  /\ \A r \in Request, j \in 1 .. MaxRows :
       <<r, j>> \in Row /\ <<r, j>>[1] = r /\ <<r, j>>[2] = j
  /\ \A row \in Row : /\ row[1] \in Request
                      /\ row[2] \in 1 .. MaxRows
                      /\ row = <<row[1], row[2]>>
BY ConfigAssumption DEF NoBatch, Batch, Row, Request

\* submit numbers a new call with an unused number.
LEMMA NextRequest ==
  ASSUME TypeOK, submitted < NumRequests
  PROVE submitted + 1 \in Request /\ submitted + 1 \in 0 .. NumRequests
<1>1. submitted \in 0 .. NumRequests
  BY Zenon DEF TypeOK
<1> QED BY <1>1, ConfigAssumption DEF Request

\* A slice of a call's rows is a sequence of rows of the asked length.
LEMMA SliceType ==
  ASSUME NEW r \in Request, NEW i \in Nat \ {0}, NEW k \in Nat, i + k - 1 <= MaxRows
  PROVE  /\ Slice(r, i, k) \in Seq(Row)
         /\ Len(Slice(r, i, k)) = k
         /\ DOMAIN Slice(r, i, k) = 1 .. k
         /\ \A j \in 1 .. k : Slice(r, i, k)[j] = <<r, i + j - 1>>
<1>1. \A j \in 1 .. k : <<r, i + j - 1>> \in Row
  BY ConfigAssumption, RowFacts
<1>2. Slice(r, i, k) \in [1 .. k -> Row]
  BY Zenon, <1>1 DEF Slice
<1>3. Slice(r, i, k) \in Seq(Row)
  BY Zenon, <1>2, FunctionIsSeq
<1>4. DOMAIN Slice(r, i, k) = 1 .. k /\ \A j \in 1 .. k : Slice(r, i, k)[j] = <<r, i + j - 1>>
  BY Zenon DEF Slice
<1>5. Len(Slice(r, i, k)) = k
  <2> DEFINE m == Len(Slice(r, i, k))
  <2>1. m \in Nat /\ 1 .. k = 1 .. m
    BY Zenon, <1>3, <1>4, LenProperties
  <2> HIDE DEF m
  <2>2. m <= k
    BY <2>1
  <2>3. k <= m
    BY <2>1
  <2> QED BY <2>1, <2>2, <2>3 DEF m
<1> QED BY Zenon, <1>3, <1>4, <1>5

\* A slice of the rows that remain of a call is a sequence of rows.
LEMMA SliceFits ==
  ASSUME NEW r \in Request, NEW i \in 1 .. MaxRows, NEW n \in 0 .. MaxRows,
         NEW k \in 1 .. (n - i + 1)
  PROVE  Slice(r, i, k) \in Seq(Row) /\ Len(Slice(r, i, k)) = k
<1>1. i + k - 1 <= MaxRows /\ k \in Nat
  BY ConfigAssumption
<1> QED BY <1>1, SliceType

\* An open batch with room takes at least one row, never more than it has
\* room for, and is full when it does not take all that remain.
LEMMA TakeFacts ==
  ASSUME NEW rest \in Nat \ {0}, NEW len \in Nat,
         MaxRowsPerBatch > 0 => len < MaxRowsPerBatch
  PROVE  /\ Take(rest, len) \in 1 .. rest
         /\ MaxRowsPerBatch > 0 => len + Take(rest, len) <= MaxRowsPerBatch
         /\ MaxRowsPerBatch > 0 /\ Take(rest, len) < rest
              => len + Take(rest, len) = MaxRowsPerBatch
         /\ MaxRowsPerBatch = 0 => Take(rest, len) = rest
BY ConfigAssumption DEF Take

\* Replacing one copyRequest keeps the table of requests well typed.
LEMMA RequestUpdate ==
  ASSUME NEW r \in Request, req \in [Request -> RequestType], NEW q \in RequestType
  PROVE  [req EXCEPT ![r] = q] \in [Request -> RequestType]
BY Zenon

\* While the cursor is within the call, rows remain.
LEMMA RemainingFacts ==
  ASSUME NEW n \in 0 .. MaxRows, NEW m \in 1 .. MaxRows, m <= n
  PROVE  n - m + 1 \in Nat \ {0}
BY SMTT(30), ConfigAssumption

-----------------------------------------------------------------------------
(* What the steps work on.                                                 *)

\* What one iteration of appendRequestLocked works on: the cursor is a row of
\* the call, the batch exists or has an unused name, and some rows move.
LEMMA AppendFacts ==
  ASSUME TypeOK, CritInv, FreshNames, Sizes, AppendRows,
         NEW r, r = crit.cursor[1],
         NEW i, i = crit.cursor[2],
         NEW b, b = IF active = NoBatch THEN crit.cursor ELSE active,
         NEW k, k = Take(req[r].rowCount - i + 1, Len(batch[b].rows))
  PROVE  /\ r \in Request /\ i \in 1 .. MaxRows /\ b \in Batch
         /\ crit.cursor = <<r, i>> /\ crit.cursor \in Row
         /\ req[r].rowCount \in 0 .. MaxRows
         /\ active = NoBatch => batch[b] = EmptyBatch
         /\ Len(batch[b].rows) \in Nat
         /\ k \in 1 .. (req[r].rowCount - i + 1)
         /\ MaxRowsPerBatch > 0 => Len(batch[b].rows) + k <= MaxRowsPerBatch
         /\ MaxRowsPerBatch > 0 /\ k < req[r].rowCount - i + 1
              => Len(batch[b].rows) + k = MaxRowsPerBatch
         /\ MaxRowsPerBatch = 0 => k = req[r].rowCount - i + 1
<1>1. crit.pc = "append" /\ crit.cursor \in Row /\ i <= req[r].rowCount /\ r <= submitted
  BY Zenon DEF AppendRows, CritInv
<1>2. r \in Request /\ i \in 1 .. MaxRows /\ crit.cursor = <<r, i>>
  BY Zenon, <1>1, RowFacts
<1>3. b \in Batch
  BY <1>1, RowFacts DEF TypeOK
<1>4. req[r].rowCount \in 0 .. MaxRows
  BY Zenon, <1>2 DEF TypeOK, RequestType
<1>5. active = NoBatch => batch[b] = EmptyBatch
  BY <1>1, <1>3, <1>2 DEF FreshNames
<1>6. batch[b].rows \in Seq(Row)
  BY Zenon, <1>3 DEF TypeOK, BatchType
<1>7. Len(batch[b].rows) \in Nat
  BY <1>6
<1>8. MaxRowsPerBatch > 0 => Len(batch[b].rows) < MaxRowsPerBatch
  BY <1>5 DEF EmptyBatch, Sizes
<1>9. req[r].rowCount - i + 1 \in Nat \ {0}
  BY Zenon, <1>1, <1>2, <1>4, RemainingFacts
<1>10. /\ k \in 1 .. (req[r].rowCount - i + 1)
       /\ MaxRowsPerBatch > 0 => Len(batch[b].rows) + k <= MaxRowsPerBatch
       /\ MaxRowsPerBatch > 0 /\ k < req[r].rowCount - i + 1
              => Len(batch[b].rows) + k = MaxRowsPerBatch
       /\ MaxRowsPerBatch = 0 => k = req[r].rowCount - i + 1
  BY Zenon, <1>7, <1>8, <1>9, TakeFacts
<1> QED BY SMTT(30), <1>1, <1>2, <1>3, <1>4, <1>5, <1>7, <1>10

\* The first batch of a nonempty queue has rows, is closed, is not open and is
\* not in flight; the rest of the queue is the queue shifted by one.
LEMMA HeadFacts ==
  ASSUME TypeOK, Ownership, queue # <<>>
  PROVE  /\ Head(queue) \in Batch
         /\ 1 \in DOMAIN queue /\ queue[1] = Head(queue)
         /\ ~ InFlight(Head(queue)) /\ Head(queue) # active
         /\ batch[Head(queue)].rows # <<>> /\ batch[Head(queue)].reason # "none"
         /\ Tail(queue) \in Seq(Batch)
         /\ Len(Tail(queue)) = Len(queue) - 1
         /\ DOMAIN queue = 1 .. Len(queue) /\ Len(queue) \in Nat
         /\ DOMAIN Tail(queue) = 1 .. (Len(queue) - 1)
         /\ \A i \in DOMAIN Tail(queue) : i + 1 \in DOMAIN queue /\ Tail(queue)[i] = queue[i + 1]
<1>1. queue \in Seq(Batch)
  BY Zenon DEF TypeOK
<1>2. /\ Head(queue) \in Batch /\ Tail(queue) \in Seq(Batch)
      /\ Len(Tail(queue)) = Len(queue) - 1
      /\ \A i \in 1 .. Len(Tail(queue)) : Tail(queue)[i] = queue[i + 1]
  BY Zenon, <1>1, HeadTailProperties
<1>3. Len(queue) \in Nat \ {0} /\ DOMAIN queue = 1 .. Len(queue)
      /\ DOMAIN Tail(queue) = 1 .. Len(Tail(queue))
  BY <1>1, <1>2, LenProperties, EmptySeq
<1>4. 1 \in DOMAIN queue /\ queue[1] = Head(queue)
  BY <1>1, <1>3
<1>5. /\ ~ InFlight(Head(queue)) /\ batch[Head(queue)].rows # <<>>
      /\ batch[Head(queue)].reason # "none"
  BY Zenon, <1>4 DEF Ownership
<1>6. Head(queue) # active
  BY <1>2, <1>4, RowFacts DEF Ownership, Queued
<1> QED BY <1>2, <1>3, <1>4, <1>5, <1>6

\* What one iteration of the merge loop does, field by field.
LEMMA MergeFacts ==
  ASSUME TypeOK, CritInv, Ownership, Merge
  PROVE  /\ crit.pc = "merge" /\ queue # <<>>
         /\ crit.into \in Batch /\ crit.into \in crit.picked
         /\ Head(queue) \in Batch /\ Head(queue) # crit.into
         /\ batch'[Head(queue)] = EmptyBatch
         /\ batch'[crit.into].rows = batch[crit.into].rows \o batch[Head(queue)].rows
         /\ batch'[crit.into].requests = batch[crit.into].requests \o batch[Head(queue)].requests
         /\ batch'[crit.into].reason = "linger" /\ batch[crit.into].reason = "linger"
         /\ batch[Head(queue)].reason = "linger"
         /\ \A c \in Batch : c # crit.into /\ c # Head(queue) => batch'[c] = batch[c]
         /\ queue' = Tail(queue)
         /\ UNCHANGED <<crit, submitted, active, inFlight, pending, timer, run,
                     req, flush, sent, confirmed>>
         /\ MaxRowsPerBatch = 0
            \/ Len(batch[crit.into].rows) + Len(batch[Head(queue)].rows) <= MaxRowsPerBatch
<1>1. /\ crit.pc = "merge" /\ queue # <<>>
      /\ UNCHANGED <<crit, submitted, active, inFlight, pending, timer, run,
                     req, flush, sent, confirmed>>
      /\ batch[Head(queue)].reason = "linger"
      /\ MaxRowsPerBatch = 0
            \/ Len(batch[crit.into].rows) + Len(batch[Head(queue)].rows) <= MaxRowsPerBatch
      /\ queue' = Tail(queue)
  BY ZenonT(30) DEF Merge, CanMerge
<1>2. /\ crit.into \in Batch /\ crit.into \in crit.picked /\ batch[crit.into].reason = "linger"
  BY Zenon, <1>1 DEF CritInv, TypeOK, CritType
<1>3. Head(queue) \in Batch /\ Head(queue) # crit.into
  BY Zenon, <1>1, <1>2, HeadFacts DEF InFlight
<1>4. /\ batch'[Head(queue)] = EmptyBatch
      /\ batch'[crit.into].rows = batch[crit.into].rows \o batch[Head(queue)].rows
      /\ batch'[crit.into].requests = batch[crit.into].requests \o batch[Head(queue)].requests
      /\ batch'[crit.into].reason = batch[crit.into].reason
      /\ \A c \in Batch : c # crit.into /\ c # Head(queue) => batch'[c] = batch[c]
  BY Zenon, <1>2, <1>3 DEF Merge, TypeOK
<1> QED BY ZenonT(30), <1>1, <1>2, <1>3, <1>4

\* finishPart is called for a request of the batch.
LEMMA FinishFacts ==
  ASSUME TypeOK, NEW b \in Batch, FinishPart(b),
         NEW r, r = batch[b].requests[run[b].next]
  PROVE  /\ run[b].next \in 1 .. Len(batch[b].requests)
         /\ DOMAIN batch[b].requests = 1 .. Len(batch[b].requests)
         /\ Len(batch[b].requests) \in Nat
         /\ r \in Request
         /\ req[r] \in RequestType
<1>1. batch[b].requests \in Seq(Request)
  BY Zenon DEF TypeOK, BatchType
<1>2. run[b].next \in Nat \ {0}
  BY Zenon DEF TypeOK, RunType
<1>3. run[b].next <= Len(batch[b].requests)
  BY Zenon DEF FinishPart
<1>4. run[b].next \in 1 .. Len(batch[b].requests)
  BY <1>1, <1>2, <1>3, LenProperties
<1>5. r \in Request
  BY Zenon, <1>1, <1>4, ElementOfSeq
<1> QED BY Zenon, <1>1, <1>4, <1>5, LenProperties DEF TypeOK

\* The actions of Next, one disjunct each.
LEMMA Steps ==
  ASSUME Next
  PROVE  \/ \E n \in RefusedSizes : SubmitRefused(n)
         \/ \E n \in CoalescedSizes : SubmitCoalesced(n)
         \/ \E n \in UnbatchedSizes : SubmitUnbatched(n)
         \/ AppendRows \/ Dequeue \/ Merge \/ MergeEnds \/ Unlock
         \/ \E b \in Batch : TimerExpires(b) \/ StaleTimer(b)
         \/ \E b \in Batch : FlushExpiredBatch(b)
         \/ \E b \in Batch, err \in {{}, {"copy"}} : CopyOutcome(b, err)
         \/ \E b \in Batch : FinishPart(b)
         \/ \E b \in Batch : Settle(b)
         \/ \E f \in Flushes : FlushAsync(f)
         \/ \E f \in Flushes : FlushResolves(f)
         \/ UNCHANGED vars
<1>1. ASSUME NEW b \in Batch, CopyReturns(b)
      PROVE  \E err \in {{}, {"copy"}} : CopyOutcome(b, err)
  BY Zenon, <1>1 DEF CopyReturns
<1> QED BY Zenon, <1>1 DEF Next, Submit, Locked, Expire, RunBatch, Quiescent

-----------------------------------------------------------------------------
(* What the steps do to batches, parts and rows.                           *)

\* A sequence of one element.
LEMMA SingleFacts ==
  ASSUME NEW S, NEW y \in S
  PROVE  /\ <<y>> \in Seq(S) /\ Distinct(<<y>>)
         /\ \A x : In(x, <<y>>) <=> x = y
         /\ Distinct(<<>>) /\ \A x : ~ In(x, <<>>)
<1>1. <<y>> \in Seq(S) /\ DOMAIN <<y>> = 1 .. 1 /\ <<y>>[1] = y /\ DOMAIN <<>> = {}
  OBVIOUS
<1> QED
  BY <1>1 DEF Distinct, In

\* Appending is concatenating one element.
LEMMA AppendConcat ==
  ASSUME NEW S, NEW s \in Seq(S), NEW y \in S
  PROVE  Append(s, y) = s \o <<y>>
OBVIOUS

\* Batch b, in which nobody has finished a part yet, takes the rows i .. i+k-1
\* of call r.
Fills(r, i, b, k) ==
  /\ i + k - 1 <= MaxRows
  /\ batch'[b].rows = batch[b].rows \o Slice(r, i, k)
  /\ batch'[b].requests = Append(batch[b].requests, r)
  /\ \A c \in Batch \ {b} : batch'[c] = batch[c]
  /\ run' = run /\ run[b].next = 1

\* If it held none of them and no part of r, it now holds them all and one part.
LEMMA FillEffects ==
  ASSUME TypeOK, DistinctInv, NEW b \in Batch, NEW r \in Request,
         NEW i \in 1 .. MaxRows, NEW k \in Nat, Fills(r, i, b, k), ~ Lists(b, r),
         \A j \in 1 .. MaxRows : i <= j /\ j < i + k => ~ Contains(b, <<r, j>>)
  PROVE  /\ \A c \in Batch, q \in Request : Lists(c, q)' <=> Lists(c, q) \/ (c = b /\ q = r)
         /\ \A c \in Batch, q \in Request, j \in 1 .. MaxRows :
              Contains(c, <<q, j>>)' <=>
                Contains(c, <<q, j>>) \/ (c = b /\ q = r /\ i <= j /\ j < i + k)
         /\ \A q \in Request : Holders(q)' = IF q = r THEN Holders(q) \cup {b} ELSE Holders(q)
         /\ b \notin Holders(r)
         /\ DistinctInv'
<1> DEFINE s == batch[b].rows
           t == Slice(r, i, k)
           u == batch[b].requests
<1>1. s \in Seq(Row) /\ u \in Seq(Request)
  BY Zenon DEF TypeOK, BatchType
<1>2. /\ t \in Seq(Row)
      /\ \A q \in Request, j \in 1 .. MaxRows : In(<<q, j>>, t) <=> q = r /\ i <= j /\ j < i + k
  <2>1. i + k - 1 <= MaxRows /\ i \in Nat \ {0}
    BY DEF Fills
  <2>2. t \in Seq(Row)
    BY Zenon, <2>1, SliceType
  <2>3. \A q \in Request, j \in 1 .. MaxRows : In(<<q, j>>, t) <=> q = r /\ i <= j /\ j < i + k
    BY Zenon, <2>1, InSlice
  <2> QED
    BY Zenon, <2>2, <2>3
<1>3. <<r>> \in Seq(Request) /\ Distinct(<<r>>) /\ \A q : In(q, <<r>>) <=> q = r
  BY Zenon, SingleFacts
<1>4. batch'[b].rows = s \o t /\ batch'[b].requests = u \o <<r>>
  BY Zenon, <1>1, AppendConcat DEF Fills
<1> HIDE DEF s, t, u
<1>5. \A q \in Request : Lists(b, q)' <=> Lists(b, q) \/ q = r
  <2>1. \A q : (Lists(b, q)' <=> In(q, u \o <<r>>)) /\ (Lists(b, q) <=> In(q, u))
    BY Zenon, <1>4 DEF Lists, In, u
  <2> QED
    BY Zenon, <2>1, <1>1, <1>3, InConcat
<1>6. \A q \in Request, j \in 1 .. MaxRows :
        Contains(b, <<q, j>>)' <=> Contains(b, <<q, j>>) \/ (q = r /\ i <= j /\ j < i + k)
  <2>1. \A x : (Contains(b, x)' <=> In(x, s \o t)) /\ (Contains(b, x) <=> In(x, s))
    BY Zenon, <1>4 DEF Contains, In, s
  <2> QED
    BY Zenon, <2>1, <1>1, <1>2, InConcat
<1>7. \A c \in Batch \ {b} : \A x : /\ Lists(c, x)' <=> Lists(c, x)
                                    /\ Contains(c, x)' <=> Contains(c, x)
                                    /\ Holds(c, x)' <=> Holds(c, x)
  BY Zenon DEF Fills, Lists, Contains, Holds
<1>8. \A x : (Holds(b, x) <=> Lists(b, x)) /\ (Holds(b, x)' <=> Lists(b, x)')
  <2>1. \A h \in DOMAIN u : 1 <= h
    BY <1>1
  <2>2. \A h \in DOMAIN (u \o <<r>>) : 1 <= h
    BY <1>1, <1>3
  <2>3. run[b].next = 1 /\ run'[b].next = 1
    BY Zenon DEF Fills
  <2> QED
    BY Zenon, <1>4, <2>1, <2>2, <2>3 DEF Holds, Lists, u
<1>9. DistinctInv'
  <2>1. Distinct(u) /\ Distinct(s)
    BY Zenon DEF DistinctInv, s, u
  <2>2. Distinct(u \o <<r>>)
    <3>1. \A x \in Request : ~ (In(x, u) /\ In(x, <<r>>))
      BY Zenon, <1>3 DEF Lists, In, u
    <3> QED
      BY Zenon, <1>1, <1>3, <2>1, <3>1, DistinctConcat
  <2>3. Distinct(s \o t)
    <3>1. ASSUME NEW x \in Row, In(x, s), In(x, t) PROVE FALSE
      <4>1. PICK q \in Request, j \in 1 .. MaxRows : x = <<q, j>>
        BY RowFacts
      <4>2. q = r /\ i <= j /\ j < i + k /\ Contains(b, x)
        BY Zenon, <3>1, <4>1, <1>2 DEF Contains, In, s
      <4> QED
        BY Zenon, <4>1, <4>2
    <3>2. Distinct(t)
      BY DistinctSlice DEF t
    <3> QED
      BY Zenon, <1>1, <1>2, <2>1, <3>1, <3>2, DistinctConcat
  <2>4. \A c \in Batch \ {b} : batch'[c] = batch[c]
    BY Zenon DEF Fills
  <2> QED
    BY Zenon, <1>4, <2>2, <2>3, <2>4 DEF DistinctInv
<1>10. \A q \in Request : Holders(q)' = IF q = r THEN Holders(q) \cup {b} ELSE Holders(q)
  BY Zenon, <1>5, <1>7, <1>8 DEF Holders
<1>11. b \notin Holders(r)
  BY Zenon, <1>8 DEF Holders
<1> QED
  BY Zenon, <1>5, <1>6, <1>7, <1>9, <1>10, <1>11

\* Nobody holds a batch without rows, and its goroutine has not begun.
LEMMA EmptyFacts ==
  ASSUME TypeOK, Ownership, NEW b \in Batch, batch[b] = EmptyBatch
  PROVE  /\ ~ Queued(b) /\ ~ InFlight(b) /\ active # b /\ run[b] = NoRun
         /\ \A x : ~ Lists(b, x) /\ ~ Contains(b, x)
<1>1. ~ Queued(b) /\ ~ InFlight(b) /\ active # b
  BY RowFacts DEF Ownership, Queued, EmptyBatch
<1>2. run[b] = NoRun
  BY Zenon, <1>1 DEF Ownership, InFlight
<1>3. \A x : ~ Lists(b, x) /\ ~ Contains(b, x)
  BY DEF EmptyBatch, Lists, Contains
<1> QED
  BY Zenon, <1>1, <1>2, <1>3

\* One iteration of appendRequestLocked moves k rows of call r, from its i-th on,
\* into batch b, and closes b if that fills it.
Appends(r, i, b, k) ==
  /\ crit.pc = "append" /\ crit.cursor = <<r, i>> /\ crit'.picked = crit.picked
  /\ i + k - 1 <= req[r].rowCount /\ i + k - 1 <= MaxRows
  /\ active \in {NoBatch, b} /\ batch[b].reason = "none"
  /\ active = NoBatch => batch[b] = EmptyBatch
  /\ run[b] = NoRun /\ ~ InFlight(b) /\ ~ Queued(b)
  /\ batch'[b].rows = batch[b].rows \o Slice(r, i, k)
  /\ batch'[b].requests = Append(batch[b].requests, r)
  /\ \A c \in Batch \ {b} : batch'[c] = batch[c]
  /\ \/ batch'[b].reason = "full" /\ active' = NoBatch /\ queue' = Append(queue, b)
     \/ batch'[b].reason = "none" /\ active' = b /\ queue' = queue
  /\ req'[r] = [req[r] EXCEPT !.parts = @ + 1]
  /\ \A q \in Request \ {r} : req'[q] = req[q]
  /\ \/ i + k > req[r].rowCount /\ crit'.pc = "schedule"
     \/ /\ i + k <= req[r].rowCount /\ batch'[b].reason = "full"
        /\ crit'.pc = "append" /\ crit'.cursor = <<r, i + k>>
  /\ UNCHANGED <<submitted, inFlight, pending, run, flush, sent, confirmed>>

\* That is what AppendRows does.
LEMMA AppendShape ==
  ASSUME Structure, AppendRows
  PROVE  \E r \in Request, i \in 1 .. MaxRows, b \in Batch, k \in Nat \ {0} : Appends(r, i, b, k)
<1> DEFINE r == crit.cursor[1]
           i == crit.cursor[2]
           b == IF active = NoBatch THEN crit.cursor ELSE active
           k == Take(req[r].rowCount - i + 1, Len(batch[b].rows))
           full == IsFull(Len(batch[b].rows) + k)
<1> USE DEF Structure
<1>1. /\ b \in Batch /\ r \in Request /\ i \in 1 .. MaxRows
      /\ crit.cursor = <<r, i>>
      /\ req[r].rowCount \in 0 .. MaxRows
      /\ active = NoBatch => batch[b] = EmptyBatch
      /\ Len(batch[b].rows) \in Nat
      /\ k \in 1 .. (req[r].rowCount - i + 1)
      /\ MaxRowsPerBatch > 0 /\ k < req[r].rowCount - i + 1
           => Len(batch[b].rows) + k = MaxRowsPerBatch
      /\ MaxRowsPerBatch = 0 => k = req[r].rowCount - i + 1
  BY SMTT(30), AppendFacts
<1>2. /\ crit.pc = "append"
      /\ batch' = [batch EXCEPT
                     ![b] = [rows |-> @.rows \o Slice(r, i, k),
                             requests |-> Append(@.requests, r),
                             reason |-> IF full THEN "full" ELSE "none"]]
      /\ req' = [req EXCEPT ![r].parts = @ + 1]
      /\ active' = IF full THEN NoBatch ELSE b
      /\ queue' = IF full THEN Enqueue(queue, b, MaxRowsPerBatch) ELSE queue
      /\ crit' = IF i + k > req[r].rowCount
                 THEN [crit EXCEPT !.pc = "schedule", !.cursor = NoBatch]
                 ELSE [crit EXCEPT !.cursor = <<r, i + k>>]
      /\ UNCHANGED <<submitted, inFlight, pending, run, flush, sent, confirmed>>
  BY Zenon DEF AppendRows
<1>3. active \in {NoBatch, b}
  BY Zenon
<1> HIDE DEF r, i, b, k
<1>4. /\ k \in Nat \ {0} /\ i + k - 1 <= req[r].rowCount /\ i + k - 1 <= MaxRows
      /\ i + k <= req[r].rowCount => full
  <2>1. /\ i \in 1 .. MaxRows /\ req[r].rowCount \in 0 .. MaxRows
        /\ k \in 1 .. (req[r].rowCount - i + 1)
    BY Zenon, <1>1
  <2>2. MaxRows \in Nat /\ MaxRowsPerBatch \in Nat
    BY Zenon, ConfigAssumption
  <2>3. i + k <= req[r].rowCount => k < req[r].rowCount - i + 1 /\ k # req[r].rowCount - i + 1
    BY <2>1, <2>2
  <2>4. i + k <= req[r].rowCount => full
    BY <1>1, <2>2, <2>3 DEF IsFull
  <2> QED
    BY <2>1, <2>2, <2>4
<1>5. /\ batch[b].reason = "none" /\ run[b] = NoRun /\ ~ InFlight(b) /\ ~ Queued(b)
  BY <1>1, EmptyFacts, <1>3 DEF EmptyBatch, Ownership, InFlight
<1>6. /\ batch'[b].rows = batch[b].rows \o Slice(r, i, k)
      /\ batch'[b].requests = Append(batch[b].requests, r)
      /\ batch'[b].reason = IF full THEN "full" ELSE "none"
      /\ \A c \in Batch \ {b} : batch'[c] = batch[c]
  BY Zenon, <1>1, <1>2 DEF TypeOK
<1>7. \/ batch'[b].reason = "full" /\ active' = NoBatch /\ queue' = Append(queue, b)
      \/ batch'[b].reason = "none" /\ active' = b /\ queue' = queue
  BY <1>2, <1>6 DEF IsFull, Enqueue
<1>8. /\ req'[r] = [req[r] EXCEPT !.parts = @ + 1]
      /\ \A q \in Request \ {r} : req'[q] = req[q]
  BY Zenon, <1>1, <1>2 DEF TypeOK
<1>9. /\ crit'.picked = crit.picked
      /\ \/ i + k > req[r].rowCount /\ crit'.pc = "schedule"
         \/ /\ i + k <= req[r].rowCount /\ batch'[b].reason = "full"
            /\ crit'.pc = "append" /\ crit'.cursor = <<r, i + k>>
  <2>1. CASE i + k > req[r].rowCount
    BY Zenon, <1>2, <2>1 DEF TypeOK, CritType
  <2>2. CASE ~ (i + k > req[r].rowCount)
    BY SMTT(30), <2>2, <1>1, <1>4, <1>2, <1>6 DEF TypeOK, CritType
  <2> QED
    BY Zenon, <2>1, <2>2
<1>10. Appends(r, i, b, k)
  BY Zenon, <1>1, <1>2, <1>3, <1>4, <1>5, <1>6, <1>7, <1>8, <1>9 DEF Appends
<1> QED
  BY Zenon, <1>1, <1>4, <1>10

\* SubmitUnbatched numbers a call r and queues its n rows as a batch of their own.
Queues(r, b, n) ==
  /\ crit.pc = "free" /\ crit'.pc = "schedule" /\ crit'.picked = crit.picked
  /\ submitted < NumRequests /\ submitted' = submitted + 1 /\ r = submitted + 1
  /\ pending' = pending \cup {r}
  /\ batch[b] = EmptyBatch
  /\ batch'[b].rows = Slice(r, 1, n) /\ batch'[b].requests = <<r>>
  /\ batch'[b].reason = "unbatched"
  /\ \A c \in Batch \ {b} : batch'[c] = batch[c]
  /\ req'[r].mode = "unbatched" /\ req'[r].rowCount = n
  /\ req'[r].parts = req[r].parts + 1
  /\ req'[r].errs = req[r].errs /\ req'[r].result = req[r].result
  /\ \A q \in Request \ {r} : req'[q] = req[q]
  /\ queue' = Append(queue, b)
  /\ UNCHANGED <<active, inFlight, timer, run, flush, sent, confirmed>>

\* That is what SubmitUnbatched does.
LEMMA UnbatchedShape ==
  ASSUME Structure, NEW n \in UnbatchedSizes, SubmitUnbatched(n)
  PROVE  \E r \in Request, b \in Batch : n \in 1 .. MaxRows /\ Queues(r, b, n)
<1> DEFINE r == submitted + 1
           b == <<r, 1>>
<1> USE DEF Structure
<1>1. r \in Request /\ n \in 1 .. MaxRows /\ b \in Batch /\ submitted < NumRequests
  BY NextRequest, ConfigAssumption, RowFacts DEF SubmitUnbatched
<1>2. /\ crit.pc = "free" /\ submitted' = r /\ pending' = pending \cup {r}
      /\ req' = [req EXCEPT ![r].mode = "unbatched",
                            ![r].rowCount = n, ![r].parts = @ + 1]
      /\ batch' = [batch EXCEPT ![b] = [rows |-> Slice(r, 1, n),
                                        requests |-> <<r>>,
                                        reason |-> "unbatched"]]
      /\ queue' = Enqueue(queue, b, n)
      /\ crit' = [crit EXCEPT !.pc = "schedule"]
      /\ UNCHANGED <<active, inFlight, timer, run, flush, sent, confirmed>>
  BY Zenon DEF SubmitUnbatched
<1>3. batch[b] = EmptyBatch
  BY <1>1, RowFacts DEF TypeOK, FreshNames
<1>4. crit'.pc = "schedule" /\ crit'.picked = crit.picked
  BY Zenon, <1>2 DEF TypeOK, CritType
<1> HIDE DEF b
<1>5. /\ batch'[b].rows = Slice(r, 1, n) /\ batch'[b].requests = <<r>>
      /\ batch'[b].reason = "unbatched"
      /\ \A c \in Batch \ {b} : batch'[c] = batch[c]
  BY Zenon, <1>1, <1>2 DEF TypeOK
<1>6. /\ req'[r].mode = "unbatched" /\ req'[r].rowCount = n
      /\ req'[r].parts = req[r].parts + 1
      /\ req'[r].errs = req[r].errs /\ req'[r].result = req[r].result
      /\ \A q \in Request \ {r} : req'[q] = req[q]
  BY Zenon, <1>1, <1>2 DEF TypeOK, RequestType
<1>7. queue' = Append(queue, b)
  BY <1>1, <1>2 DEF Enqueue
<1>8. Queues(r, b, n)
  BY Zenon, <1>1, <1>2, <1>3, <1>4, <1>5, <1>6, <1>7 DEF Queues
<1> QED
  BY Zenon, <1>1, <1>8

\* The merge loop of dequeueLocked moves what batch n holds into batch b.
Merges(b, n) ==
  /\ b # n /\ run' = run /\ run[b] = NoRun /\ run[n] = NoRun
  /\ batch[b].reason = "linger" /\ batch[n].reason = "linger"
  /\ batch'[b].rows = batch[b].rows \o batch[n].rows
  /\ batch'[b].requests = batch[b].requests \o batch[n].requests
  /\ batch'[b].reason = "linger" /\ batch'[n] = EmptyBatch
  /\ \A c \in Batch \ {b, n} : batch'[c] = batch[c]
  /\ crit.pc = "merge"
  /\ UNCHANGED <<crit, submitted, pending, req, sent, confirmed>>

\* That is what Merge does.
LEMMA MergeShape ==
  ASSUME Structure, Merge
  PROVE  \E b, n \in Batch : Merges(b, n)
<1> USE DEF Structure
<1> DEFINE b == crit.into
           n == Head(queue)
<1>1. /\ b \in Batch /\ n \in Batch /\ n # b /\ b \in crit.picked /\ queue # <<>>
      /\ batch'[n] = EmptyBatch
      /\ batch'[b].rows = batch[b].rows \o batch[n].rows
      /\ batch'[b].requests = batch[b].requests \o batch[n].requests
      /\ batch'[b].reason = "linger" /\ batch[b].reason = "linger" /\ batch[n].reason = "linger"
      /\ \A c \in Batch \ {b, n} : batch'[c] = batch[c]
      /\ crit.pc = "merge"
      /\ UNCHANGED <<crit, submitted, pending, run, req, sent, confirmed>>
  BY Zenon, MergeFacts
<1>2. ~ InFlight(n)
  BY Zenon, <1>1, HeadFacts
<1> HIDE DEF b, n
<1>3. run[b] = NoRun /\ run[n] = NoRun
  BY Zenon, <1>1, <1>2 DEF Ownership, InFlight
<1>4. Merges(b, n)
  BY Zenon, <1>1, <1>3 DEF Merges
<1> QED
  BY Zenon, <1>1, <1>4

\* Afterwards b lists, contains and holds what b and n did before, and n nothing;
\* no call had a part in both, and no row was in both.
LEMMA MergeEffects ==
  ASSUME TypeOK, AccountInv, NEW b \in Batch, NEW n \in Batch, Merges(b, n)
  PROVE  /\ \A q \in Request : /\ Lists(b, q)' <=> Lists(b, q) \/ Lists(n, q)
                               /\ ~ (Lists(b, q) /\ Lists(n, q))
         /\ \A x \in Row : Contains(b, x)' <=> Contains(b, x) \/ Contains(n, x)
         /\ \A x : ~ Lists(n, x)' /\ ~ Contains(n, x)'
         /\ \A c \in Batch \ {b, n} : \A x : /\ Lists(c, x)' <=> Lists(c, x)
                                             /\ Contains(c, x)' <=> Contains(c, x)
         /\ \A q \in Request :
              /\ Holders(q)' = IF n \in Holders(q) THEN (Holders(q) \ {n}) \cup {b} ELSE Holders(q)
              /\ n \in Holders(q) => b \notin Holders(q)
         /\ DistinctInv'
<1>1. /\ batch[b].rows \in Seq(Row) /\ batch[n].rows \in Seq(Row)
      /\ batch[b].requests \in Seq(Request) /\ batch[n].requests \in Seq(Request)
  BY DEF TypeOK, BatchType
<1>2. /\ batch'[b].rows = batch[b].rows \o batch[n].rows
      /\ batch'[b].requests = batch[b].requests \o batch[n].requests
      /\ batch'[n] = EmptyBatch
      /\ \A c \in Batch \ {b, n} : batch'[c] = batch[c]
      /\ b # n
  BY Zenon DEF Merges
<1>3. \A q \in Request : Lists(b, q)' <=> Lists(b, q) \/ Lists(n, q)
  <2>1. \A q : (Lists(b, q)' <=> In(q, batch[b].requests \o batch[n].requests))
    BY Zenon, <1>2 DEF Lists, In
  <2>2. \A c, q : Lists(c, q) <=> In(q, batch[c].requests)
    BY Zenon DEF Lists, In
  <2> QED
    BY Zenon, <1>1, <2>1, <2>2, InConcat
<1>4. \A x \in Row : Contains(b, x)' <=> Contains(b, x) \/ Contains(n, x)
  <2>1. \A x : (Contains(b, x)' <=> In(x, batch[b].rows \o batch[n].rows))
    BY Zenon, <1>2 DEF Contains, In
  <2>2. \A c, x : Contains(c, x) <=> In(x, batch[c].rows)
    BY Zenon DEF Contains, In
  <2> QED
    BY Zenon, <1>1, <2>1, <2>2, InConcat
<1>5. \A x : ~ Lists(n, x)' /\ ~ Contains(n, x)' /\ ~ Holds(n, x)'
  BY <1>2 DEF Lists, Contains, Holds, EmptyBatch
<1>6. \A c \in Batch \ {b, n} : \A x : /\ Lists(c, x)' <=> Lists(c, x)
                                       /\ Contains(c, x)' <=> Contains(c, x)
                                       /\ Holds(c, x)' <=> Holds(c, x)
  <2>1. run' = run
    BY Zenon DEF Merges
  <2> QED
    BY Zenon, <1>2, <2>1 DEF Lists, Contains, Holds
<1>7. \A q \in Request : ~ (Lists(b, q) /\ Lists(n, q))
  <2>1. batch[b].reason # "full" /\ batch[n].reason # "full" /\ OneNonFull
    BY DEF Merges, AccountInv
  <2> QED
    BY Zenon, <1>2, <2>1 DEF OneNonFull
<1>8. \A x \in Row : ~ (Contains(b, x) /\ Contains(n, x))
  BY Zenon, <1>2 DEF AccountInv, OneBatch
<1>9. DistinctInv'
  <2>1. /\ Distinct(batch[b].requests) /\ Distinct(batch[n].requests)
        /\ Distinct(batch[b].rows) /\ Distinct(batch[n].rows)
    BY Zenon DEF AccountInv, DistinctInv
  <2>2. Distinct(batch'[b].requests)
    <3>1. \A q \in Request : ~ (In(q, batch[b].requests) /\ In(q, batch[n].requests))
      BY Zenon, <1>7 DEF Lists, In
    <3> QED
      BY Zenon, <1>1, <1>2, <2>1, <3>1, DistinctConcat
  <2>3. Distinct(batch'[b].rows)
    <3>1. \A x \in Row : ~ (In(x, batch[b].rows) /\ In(x, batch[n].rows))
      BY Zenon, <1>8 DEF Contains, In
    <3> QED
      BY Zenon, <1>1, <1>2, <2>1, <3>1, DistinctConcat
  <2>4. Distinct(batch'[n].requests) /\ Distinct(batch'[n].rows)
    BY <1>2 DEF EmptyBatch, Distinct
  <2>5. \A c \in Batch \ {b, n} : Distinct(batch'[c].requests) /\ Distinct(batch'[c].rows)
    BY Zenon, <1>2 DEF AccountInv, DistinctInv
  <2> QED
    BY Zenon, <2>2, <2>3, <2>4, <2>5 DEF DistinctInv
<1>10. \A x : (Holds(b, x) <=> Lists(b, x)) /\ (Holds(n, x) <=> Lists(n, x))
  <2>1. run[b].next = 1 /\ run[n].next = 1
    BY DEF Merges, NoRun
  <2>2. \A s \in Seq(Request) : \A i \in DOMAIN s : 1 <= i
    OBVIOUS
  <2> QED
    BY Zenon, <1>1, <2>1, <2>2 DEF Holds, Lists
<1>11. \A x : Holds(b, x)' <=> Lists(b, x)'
  <2>1. run'[b].next = 1
    BY DEF Merges, NoRun
  <2>2. batch'[b].requests \in Seq(Request)
    BY <1>1, <1>2
  <2>3. \A i \in DOMAIN batch'[b].requests : 1 <= i
    BY <2>2
  <2> QED
    BY Zenon, <2>1, <2>3 DEF Holds, Lists
<1>12. \A q \in Request :
         /\ Holders(q)' = IF n \in Holders(q) THEN (Holders(q) \ {n}) \cup {b} ELSE Holders(q)
         /\ n \in Holders(q) => b \notin Holders(q)
  <2> TAKE q \in Request
  <2>1. \A c \in Batch : /\ c \in Holders(q) <=> Holds(c, q)
                         /\ c \in Holders(q)' <=> Holds(c, q)'
    BY Zenon DEF Holders
  <2>2. Holds(b, q)' <=> Holds(b, q) \/ Holds(n, q)
    BY Zenon, <1>3, <1>10, <1>11
  <2>3. n \in Holders(q) => b \notin Holders(q)
    BY Zenon, <2>1, <1>7, <1>10
  <2>4. \A c \in Batch : c \in Holders(q)' <=> IF c = b THEN b \in Holders(q) \/ n \in Holders(q)
                                              ELSE c # n /\ c \in Holders(q)
    BY Zenon, <2>1, <2>2, <1>2, <1>5, <1>6
  <2>5. Holders(q) \subseteq Batch /\ Holders(q)' \subseteq Batch
    BY Zenon DEF Holders
  <2> QED
    BY ZenonT(30), <2>3, <2>4, <2>5, <1>2
<1> QED
  BY Zenon, <1>3, <1>4, <1>5, <1>6, <1>7, <1>9, <1>12

\* Batch b finishes its part of call r.
Finishes(r, b) ==
  /\ r \in Request /\ Lists(b, r) /\ b \in Holders(r)
  /\ \A q \in Request : Holders(q)' = IF q = r THEN Holders(q) \ {b} ELSE Holders(q)
  /\ run[b].phase = "finishing"
  /\ \A c \in Batch : run'[c].phase = run[c].phase /\ run'[c].err = run[c].err
  /\ \A c \in Batch \ {b} : run'[c] = run[c]
  /\ run'[b].completed = IF req[r].parts = 1 THEN run[b].completed \cup {r}
                         ELSE run[b].completed
  /\ \A q \in Request \ {r} : req'[q] = req[q]
  /\ req'[r].mode = req[r].mode /\ req'[r].rowCount = req[r].rowCount
  /\ req'[r].parts = req[r].parts - 1
  /\ req'[r].errs = req[r].errs \cup run[b].err
  /\ req'[r].result =
       IF req[r].parts = 1
       THEN Resolve(req[r].result, IF req'[r].errs = {} THEN req[r].rowCount ELSE 0,
                    req'[r].errs)
       ELSE req[r].result
  /\ UNCHANGED <<crit, submitted, pending, batch, sent, confirmed>>

\* finishPart takes the call's part out of the batch: the batch no longer holds
\* one of r, and nothing else moves.
LEMMA FinishEffects ==
  ASSUME Structure, AccountInv, NEW b \in Batch, FinishPart(b),
         NEW r, r = batch[b].requests[run[b].next]
  PROVE  Finishes(r, b)
<1> USE DEF Structure
<1>1. /\ run[b].next \in 1 .. Len(batch[b].requests)
      /\ DOMAIN batch[b].requests = 1 .. Len(batch[b].requests)
      /\ r \in Request
      /\ req[r] \in RequestType /\ req \in [Request -> RequestType]
      /\ run[b] \in RunType /\ run \in [Batch -> RunType]
  BY Zenon, FinishFacts DEF TypeOK
<1>2. /\ run[b].phase = "finishing" /\ UNCHANGED batch
      /\ run' = [run EXCEPT ![b] = [run[b] EXCEPT
                   !.next = run[b].next + 1,
                   !.completed = IF req[r].parts = 1 THEN run[b].completed \cup {r}
                                 ELSE run[b].completed]]
  BY Zenon, <1>1 DEF FinishPart, IsLast
<1>3. req' = [req EXCEPT ![r] = [req[r] EXCEPT
                !.errs = req[r].errs \cup run[b].err,
                !.parts = req[r].parts - 1,
                !.result = IF req[r].parts = 1
                           THEN Resolve(req[r].result,
                                        IF req[r].errs \cup run[b].err = {}
                                        THEN req[r].rowCount ELSE 0,
                                        req[r].errs \cup run[b].err)
                           ELSE req[r].result]]
  BY Zenon, <1>1 DEF FinishPart, IsLast, Joined
<1>4. /\ \A q \in Request \ {r} : req'[q] = req[q]
      /\ req'[r].mode = req[r].mode /\ req'[r].rowCount = req[r].rowCount
      /\ req'[r].parts = req[r].parts - 1
      /\ req'[r].errs = req[r].errs \cup run[b].err
      /\ req'[r].result =
           IF req[r].parts = 1
           THEN Resolve(req[r].result, IF req'[r].errs = {} THEN req[r].rowCount ELSE 0,
                        req'[r].errs)
           ELSE req[r].result
  BY Zenon, <1>1, <1>3 DEF RequestType
<1>5. /\ run'[b].phase = run[b].phase /\ run'[b].err = run[b].err
      /\ run'[b].next = run[b].next + 1
      /\ run'[b].completed = IF req[r].parts = 1 THEN run[b].completed \cup {r}
                             ELSE run[b].completed
      /\ \A c \in Batch \ {b} : run'[c] = run[c]
  BY Zenon, <1>1, <1>2 DEF RunType
<1>6. Holds(b, r) /\ Lists(b, r)
  BY <1>1 DEF Holds, Lists
<1>7. \A q \in Request : Holds(b, q)' <=> Holds(b, q) /\ q # r
  <2>1. Distinct(batch[b].requests)
    BY Zenon DEF AccountInv, DistinctInv
  <2>2. \A q : Holds(b, q)' <=> \E i \in 1 .. Len(batch[b].requests) :
                                   run[b].next + 1 <= i /\ batch[b].requests[i] = q
    BY Zenon, <1>1, <1>2, <1>5 DEF Holds
  <2>3. \A q : Holds(b, q) <=> \E i \in 1 .. Len(batch[b].requests) :
                                   run[b].next <= i /\ batch[b].requests[i] = q
    BY Zenon, <1>1 DEF Holds
  <2>4. \A i \in 1 .. Len(batch[b].requests) : batch[b].requests[i] = r <=> i = run[b].next
    BY Zenon, <1>1, <2>1 DEF Distinct
  <2> QED
    BY <1>1, <2>2, <2>3, <2>4
<1>8. \A c \in Batch \ {b} : \A q : Holds(c, q)' <=> Holds(c, q)
  BY Zenon, <1>2, <1>5 DEF Holds
<1>9. \A q \in Request : Holders(q)' = IF q = r THEN Holders(q) \ {b} ELSE Holders(q)
  BY Zenon, <1>6, <1>7, <1>8 DEF Holders
<1>10. UNCHANGED <<crit, submitted, pending, batch, sent, confirmed>>
  BY Zenon DEF FinishPart
<1> QED
  BY Zenon, <1>1, <1>2, <1>4, <1>5, <1>6, <1>9, <1>10 DEF Holders, Finishes
-----------------------------------------------------------------------------
(* TypeOK, one lemma per step.                                             *)

\* A refused call keeps every field in its type.
LEMMA Type_SubmitRefused ==
  ASSUME TypeOK, NEW n \in RefusedSizes, SubmitRefused(n)
  PROVE  TypeOK'
<1> DEFINE s == submitted + 1
<1>0. s \in Request /\ n \in 0 .. MaxRows /\ s \in 0 .. NumRequests
  BY Zenon, ConfigAssumption, NextRequest DEF SubmitRefused
<1>1. req' \in [Request -> RequestType]
  <2>1. req \in [Request -> RequestType]
    BY Zenon DEF TypeOK
  <2> DEFINE new == Resolve(req[s].result, 0, IF n = 0 THEN {} ELSE {"canceled"})
  <2>2. new \in FutureType
    BY <1>0, <2>1, ConfigAssumption DEF Resolve, ErrorKind, RequestType, FutureType
  <2>3. req' = [req EXCEPT ![s] = [@ EXCEPT !.mode = "refused", !.rowCount = n, !.result = new]]
    BY Zenon, <1>0, <2>1 DEF SubmitRefused
  <2> QED
    BY ZenonT(30), <2>1, <2>2, <2>3, <1>0 DEF RequestType, Mode
<1> QED BY Zenon, <1>0, <1>1 DEF TypeOK, SubmitRefused

\* So does an accepted call of Submit.
LEMMA Type_SubmitCoalesced ==
  ASSUME TypeOK, NEW n \in CoalescedSizes, SubmitCoalesced(n)
  PROVE  TypeOK'
<1>0. submitted + 1 \in Request /\ n \in 0 .. MaxRows /\ submitted + 1 \in 0 .. NumRequests /\ 1 \in 1 .. MaxRows
  BY ConfigAssumption, NextRequest DEF SubmitCoalesced
<1>1. req' \in [Request -> RequestType]
  <2>1. req \in [Request -> RequestType] /\ req[submitted + 1] \in RequestType
    BY Zenon, <1>0 DEF TypeOK
  <2>2. [req[submitted + 1] EXCEPT !.mode = "coalesced", !.rowCount = n]
          \in RequestType
    BY Zenon, <1>0, <2>1 DEF RequestType, Mode
  <2>3. req' = [req EXCEPT ![submitted + 1] =
                  [req[submitted + 1] EXCEPT !.mode = "coalesced", !.rowCount = n]]
    BY Zenon DEF SubmitCoalesced
  <2> QED BY Zenon, <1>0, <2>1, <2>2, <2>3
<1>2. crit' \in CritType
  BY Zenon, <1>0, RowFacts DEF TypeOK, SubmitCoalesced, CritType
<1> QED BY Zenon, <1>0, <1>1, <1>2 DEF TypeOK, SubmitCoalesced

\* enqueueUnbatchedLocked builds a well-typed batch.
LEMMA Type_SubmitUnbatched ==
  ASSUME TypeOK, NEW n \in UnbatchedSizes, SubmitUnbatched(n)
  PROVE  TypeOK'
<1> DEFINE s == submitted + 1
<1>0. s \in Request /\ n \in 1 .. MaxRows /\ s \in 0 .. NumRequests /\ n \in Nat /\ 1 \in 1 .. MaxRows
  BY ConfigAssumption, NextRequest DEF SubmitUnbatched
<1>1. Slice(s, 1, n) \in Seq(Row) /\ <<s>> \in Seq(Request)
  BY <1>0, SliceType, ConfigAssumption
<1>2. <<s, 1>> \in Batch
  BY Zenon, <1>0, RowFacts
<1>3. batch' \in [Batch -> BatchType]
  BY Zenon, <1>1, <1>2 DEF TypeOK, SubmitUnbatched, BatchType, Reason
<1>4. queue' \in Seq(Batch)
  BY <1>2 DEF TypeOK, SubmitUnbatched, Enqueue
<1>5. req' \in [Request -> RequestType]
  <2>1. req \in [Request -> RequestType]
    BY Zenon DEF TypeOK
  <2>2. req' = [req EXCEPT ![s] = [@ EXCEPT !.mode = "unbatched", !.rowCount = n,
                                            !.parts = req[s].parts + 1]]
    BY Zenon, <1>0, <2>1 DEF SubmitUnbatched
  <2>3. [req[s] EXCEPT !.mode = "unbatched", !.rowCount = n,
                       !.parts = req[s].parts + 1] \in RequestType
    <3> HIDE DEF s
    <3>1. n \in 0 .. MaxRows /\ s \in Request
      BY <1>0
    <3>2. req[s] \in RequestType
      BY Zenon, <2>1, <3>1
    <3>3. req[s].parts + 1 \in Int
      BY <3>2 DEF RequestType
    <3> QED BY Zenon, <3>1, <3>2, <3>3 DEF RequestType, Mode
  <2> QED BY Zenon, <1>0, <2>1, <2>2, <2>3
<1>6. crit' \in CritType
  BY Zenon DEF TypeOK, SubmitUnbatched, CritType
<1> QED BY Zenon, <1>0, <1>3, <1>4, <1>5, <1>6 DEF TypeOK, SubmitUnbatched

\* An iteration of appendRequestLocked keeps every field in its type.
LEMMA Type_AppendRows ==
  ASSUME TypeOK, CritInv, FreshNames, Sizes, AppendRows
  PROVE  TypeOK'
<1> DEFINE r == crit.cursor[1]
           i == crit.cursor[2]
           b == IF active = NoBatch THEN crit.cursor ELSE active
           k == Take(req[r].rowCount - i + 1, Len(batch[b].rows))
           full == IsFull(Len(batch[b].rows) + k)
<1>1. /\ r \in Request /\ i \in 1 .. MaxRows /\ b \in Batch
      /\ crit.cursor = <<r, i>> /\ req[r].rowCount \in 0 .. MaxRows
      /\ k \in 1 .. (req[r].rowCount - i + 1)
  BY SMTT(30), AppendFacts
<1>2. /\ batch' = [batch EXCEPT
                     ![b] = [rows |-> @.rows \o Slice(r, i, k),
                             requests |-> Append(@.requests, r),
                             reason |-> IF full THEN "full" ELSE "none"]]
      /\ req' = [req EXCEPT ![r].parts = @ + 1]
      /\ \E t \in (IF active = NoBatch THEN {"armed", "fired"} ELSE {timer[b]}) :
            timer' = [timer EXCEPT ![b] = IF full THEN Stop(t) ELSE t]
      /\ active' = IF full THEN NoBatch ELSE b
      /\ queue' = IF full THEN Enqueue(queue, b, MaxRowsPerBatch) ELSE queue
      /\ crit' = IF i + k > req[r].rowCount
                 THEN [crit EXCEPT !.pc = "schedule", !.cursor = NoBatch]
                 ELSE [crit EXCEPT !.cursor = <<r, i + k>>]
      /\ UNCHANGED <<submitted, inFlight, pending, run, flush, sent,
                     confirmed>>
  BY Zenon DEF AppendRows
<1> HIDE DEF r, i, b, k, full
<1>3. Slice(r, i, k) \in Seq(Row)
  <2>1. /\ i \in 1 .. MaxRows /\ req[r].rowCount \in 0 .. MaxRows /\ r \in Request
        /\ k \in 1 .. (req[r].rowCount - i + 1) /\ MaxRows \in Nat
    BY Zenon, <1>1, ConfigAssumption
  <2>2. k \in Nat /\ i + k - 1 <= MaxRows
    BY <2>1
  <2> QED
    BY <2>1, <2>2, SliceType
<1>4. batch' \in [Batch -> BatchType]
  <2>1. batch \in [Batch -> BatchType] /\ b \in Batch /\ r \in Request
    BY Zenon, <1>1 DEF TypeOK
  <2>2. batch[b].rows \in Seq(Row) /\ batch[b].requests \in Seq(Request)
    BY Zenon, <2>1 DEF BatchType
  <2>3. [rows |-> batch[b].rows \o Slice(r, i, k), requests |-> Append(batch[b].requests, r),
         reason |-> IF full THEN "full" ELSE "none"] \in BatchType
    BY <2>1, <2>2, <1>3 DEF BatchType, Reason
  <2> QED
    BY Zenon, <1>2, <2>1, <2>3
<1>5. queue' \in Seq(Batch)
  BY <1>1, <1>2 DEF TypeOK, Enqueue
<1>6. req' \in [Request -> RequestType]
  <2>1. req \in [Request -> RequestType]
    BY Zenon DEF TypeOK
  <2>2. [req[r] EXCEPT !.parts = req[r].parts + 1] \in RequestType
    BY <1>1, <2>1 DEF RequestType
  <2> QED BY Zenon, <1>1, <1>2, <2>1, <2>2
<1>7. timer' \in [Batch -> {"off", "armed", "fired"}]
  BY Zenon, <1>1, <1>2 DEF TypeOK, Stop
<1>8. crit' \in CritType
  <2>1. CASE i + k > req[r].rowCount
    BY Zenon, <2>1, <1>2 DEF TypeOK, CritType
  <2>2. CASE ~ (i + k > req[r].rowCount)
    <3>1. i + k \in 1 .. MaxRows
      BY <2>2, <1>1, ConfigAssumption
    <3>2. <<r, i + k>> \in Row
      BY Zenon, <3>1, <1>1, RowFacts
    <3> QED BY Zenon, <2>2, <3>2, <1>2 DEF TypeOK, CritType
  <2> QED BY Zenon, <2>1, <2>2
<1> QED BY SMTT(30), <1>1, <1>2, <1>4, <1>5, <1>6, <1>7, <1>8 DEF TypeOK

\* Expiry of a timer, and a stale callback, only touch the timer.
LEMMA Type_Timer ==
  ASSUME TypeOK, NEW b \in Batch, TimerExpires(b) \/ StaleTimer(b)
  PROVE  TypeOK'
BY Zenon DEF TypeOK, TimerExpires, StaleTimer

\* flushExpiredBatch keeps every field in its type.
LEMMA Type_FlushExpiredBatch ==
  ASSUME TypeOK, NEW b \in Batch, FlushExpiredBatch(b)
  PROVE  TypeOK'
<1>1. batch' \in [Batch -> BatchType]
  BY Zenon DEF TypeOK, FlushExpiredBatch, BatchType, Reason
<1>2. queue' \in Seq(Batch)
  BY DEF TypeOK, FlushExpiredBatch, Enqueue
<1>3. crit' \in CritType
  BY Zenon DEF TypeOK, FlushExpiredBatch, CritType
<1> QED BY Zenon, <1>1, <1>2, <1>3 DEF TypeOK, FlushExpiredBatch

\* So does FlushAsync.
LEMMA Type_FlushAsync ==
  ASSUME TypeOK, NEW f \in Flushes, FlushAsync(f)
  PROVE  TypeOK'
<1>1. batch' \in [Batch -> BatchType]
  <2>1. batch \in [Batch -> BatchType] /\ active \in Batch \cup {NoBatch}
    BY Zenon DEF TypeOK
  <2>2. CASE active = NoBatch
    BY Zenon, <2>1, <2>2 DEF FlushAsync
  <2>3. CASE active # NoBatch
    <3>1. active \in Batch /\ batch[active] \in BatchType
      BY Zenon, <2>1, <2>3
    <3>2. [batch[active] EXCEPT !.reason = "manual"] \in BatchType
      BY Zenon, <3>1 DEF BatchType, Reason
    <3>3. batch' = [batch EXCEPT ![active] =
                      [batch[active] EXCEPT !.reason = "manual"]]
      BY Zenon, <2>3 DEF FlushAsync
    <3> QED BY Zenon, <2>1, <3>1, <3>2, <3>3
  <2> QED BY Zenon, <2>2, <2>3
<1>2. queue' \in Seq(Batch)
  <2>1. CASE active = NoBatch
    BY Zenon, <2>1 DEF TypeOK, FlushAsync
  <2>2. CASE active # NoBatch
    <3>1. queue' = Enqueue(queue, active, Len(batch[active].rows))
      BY Zenon, <2>2 DEF FlushAsync
    <3> QED BY <2>2, <3>1 DEF TypeOK, Enqueue
  <2> QED BY Zenon, <2>1, <2>2
<1>3. crit' \in CritType
  BY Zenon DEF TypeOK, FlushAsync, CritType
<1>4. timer' \in [Batch -> {"off", "armed", "fired"}]
  BY Zenon DEF TypeOK, FlushAsync, Stop
<1>5. flush' \in [Flushes -> FlushType]
  BY ZenonT(30) DEF TypeOK, FlushAsync, FlushType
<1> QED BY Zenon, <1>1, <1>2, <1>3, <1>4, <1>5 DEF TypeOK, FlushAsync

\* So does the goroutine of FlushAsync.
LEMMA Type_FlushResolves ==
  ASSUME TypeOK, NEW f \in Flushes, FlushResolves(f)
  PROVE  TypeOK'
<1> DEFINE failed == {r \in flush[f].awaited : req[r].result.err # {}}
<1>1. flush' \in [Flushes -> FlushType]
  <2>1. flush \in [Flushes -> FlushType] /\ flush[f] \in FlushType
    BY Zenon DEF TypeOK
  <2>2. failed \in SUBSET Request
    BY Zenon, <2>1 DEF FlushType
  <2>3. flush' = [flush EXCEPT ![f] =
                    [flush[f] EXCEPT !.phase = "done", !.failed = failed]]
    BY Zenon DEF FlushResolves
  <2> HIDE DEF failed
  <2>4. [flush[f] EXCEPT !.phase = "done", !.failed = failed] \in FlushType
    BY Zenon, <2>1, <2>2 DEF FlushType
  <2> QED BY Zenon, <2>1, <2>3, <2>4
<1> QED BY Zenon, <1>1 DEF TypeOK, FlushResolves

\* So does an iteration of scheduleLocked.
LEMMA Type_Dequeue ==
  ASSUME TypeOK, Dequeue
  PROVE  TypeOK'
<1>1. Head(queue) \in Batch /\ queue' \in Seq(Batch)
  BY Zenon, HeadTailProperties DEF TypeOK, Dequeue, HasCapacity
<1>2. crit' \in CritType
  BY Zenon, <1>1 DEF TypeOK, Dequeue, CritType
<1>3. inFlight' \in Int
  BY DEF TypeOK, Dequeue
<1> QED BY Zenon, <1>1, <1>2, <1>3 DEF TypeOK, Dequeue

\* So does an iteration of the merge loop of dequeueLocked.
LEMMA Type_Merge ==
  ASSUME TypeOK, CritInv, Merge
  PROVE  TypeOK'
<1> DEFINE b == crit.into
           n == Head(queue)
<1>1. n \in Batch /\ queue' \in Seq(Batch)
  BY Zenon, HeadTailProperties DEF TypeOK, Merge, CanMerge
<1>2. b \in Batch
  BY Zenon DEF TypeOK, Merge, CritInv, CritType
<1>3. batch' = [batch EXCEPT
                  ![b] = [rows |-> @.rows \o batch[n].rows,
                          requests |-> @.requests \o batch[n].requests,
                          reason |-> @.reason],
                  ![n] = EmptyBatch]
  BY Zenon DEF Merge
<1> HIDE DEF b, n
<1>4. batch' \in [Batch -> BatchType]
  <2>1. batch \in [Batch -> BatchType] /\ EmptyBatch \in BatchType
    BY DEF TypeOK, EmptyBatch, BatchType, Reason
  <2>2. [rows |-> batch[b].rows \o batch[n].rows,
         requests |-> batch[b].requests \o batch[n].requests,
         reason |-> batch[b].reason] \in BatchType
    BY <1>1, <1>2, <2>1 DEF BatchType
  <2> QED BY Zenon, <1>1, <1>2, <1>3, <2>1, <2>2
<1> QED BY Zenon, <1>1, <1>4 DEF TypeOK, Merge

\* So does the return of dequeueLocked.
LEMMA Type_MergeEnds ==
  ASSUME TypeOK, MergeEnds
  PROVE  TypeOK'
BY Zenon DEF TypeOK, MergeEnds, CritType

\* So do Unlock and dispatch.
LEMMA Type_Unlock ==
  ASSUME TypeOK, Unlock
  PROVE  TypeOK'
<1>1. crit' \in CritType
  BY Zenon DEF Unlock, Unlocked, CritType
<1>2. run' \in [Batch -> RunType]
  BY DEF NewRun, RunType, TypeOK, Unlock
<1>3. flush' \in [Flushes -> FlushType]
  BY Zenon DEF TypeOK, Unlock, FlushType
<1> QED BY Zenon, <1>1, <1>2, <1>3 DEF TypeOK, Unlock

\* So does the return of a physical COPY.
LEMMA Type_CopyOutcome ==
  ASSUME TypeOK, NEW b \in Batch, NEW err \in {{}, {"copy"}}, CopyOutcome(b, err)
  PROVE  TypeOK'
<1>1. err \in SUBSET ErrorKind
  BY Zenon DEF ErrorKind
<1>2. run' \in [Batch -> RunType]
  <2>1. run \in [Batch -> RunType]
    BY Zenon DEF TypeOK
  <2>2. run[b] \in RunType
    BY Zenon, <2>1
  <2>3. [run[b] EXCEPT !.phase = "finishing", !.err = err] \in RunType
    BY Zenon, <1>1, <2>2 DEF RunType
  <2>4. run' = [run EXCEPT ![b] =
                  [run[b] EXCEPT !.phase = "finishing", !.err = err]]
    BY Zenon DEF CopyOutcome
  <2> QED BY Zenon, <2>1, <2>3, <2>4
<1>3. sent' \in [Row -> Nat]
  BY DEF TypeOK, CopyOutcome
<1>4. {batch[b].rows[i] : i \in DOMAIN batch[b].rows} \subseteq Row
  BY DEF TypeOK, BatchType
<1>5. confirmed' \in SUBSET Row
  BY Zenon, <1>4 DEF TypeOK, CopyOutcome
<1> QED BY Zenon, <1>2, <1>3, <1>5 DEF TypeOK, CopyOutcome

\* finishPart keeps the request, its Future and the goroutine well typed.
LEMMA Type_FinishPart ==
  ASSUME TypeOK, NEW b \in Batch, FinishPart(b)
  PROVE  TypeOK'
<1> DEFINE r == batch[b].requests[run[b].next]
           errs == req[r].errs \cup run[b].err
           last == req[r].parts = 1
           result == IF last
                     THEN Resolve(req[r].result,
                                  IF errs = {} THEN req[r].rowCount ELSE 0, errs)
                     ELSE req[r].result
<1>1. r \in Request /\ req[r] \in RequestType
  BY Zenon, FinishFacts
<1>2. /\ req' = [req EXCEPT ![r] = [@ EXCEPT !.errs = errs, !.parts = req[r].parts - 1,
                                             !.result = result]]
      /\ run' = [run EXCEPT ![b] = [@ EXCEPT !.next = run[b].next + 1,
                           !.completed = IF last THEN run[b].completed \cup {r}
                                         ELSE run[b].completed]]
  BY ZenonT(30), <1>1 DEF TypeOK, FinishPart, Joined, IsLast
<1>3. run[b] \in RunType
  BY SMTT(30) DEF TypeOK
<1>4. errs \in SUBSET ErrorKind
  BY SMTT(30), <1>1, <1>3 DEF RequestType, RunType
<1> HIDE DEF r
<1>5. result \in FutureType
  <2> HIDE DEF errs
  <2>1. req[r].result \in FutureType /\ req[r].rowCount \in 0 .. MaxRows
    BY Zenon, <1>1 DEF RequestType
  <2> QED BY <1>4, <2>1, ConfigAssumption DEF Resolve, FutureType
<1> HIDE DEF errs, result, last
<1>6. req' \in [Request -> RequestType]
  <2>1. req[r].parts - 1 \in Int
    BY <1>1 DEF RequestType
  <2>2. [req[r] EXCEPT !.errs = errs, !.parts = req[r].parts - 1,
                       !.result = result] \in RequestType
    BY Zenon, <1>1, <1>4, <1>5, <2>1 DEF RequestType
  <2> QED BY Zenon, <1>1, <1>2, <2>2 DEF TypeOK
<1>7. run' \in [Batch -> RunType]
  <2>1. run[b].next + 1 \in Nat \ {0}
    BY <1>3 DEF RunType
  <2>2. [run[b] EXCEPT !.next = run[b].next + 1,
                       !.completed = IF last THEN run[b].completed \cup {r}
                                     ELSE run[b].completed] \in RunType
    BY Zenon, <1>1, <1>3, <2>1 DEF RunType
  <2> QED BY Zenon, <1>2, <2>2 DEF TypeOK
<1> QED BY Zenon, <1>6, <1>7 DEF TypeOK, FinishPart

\* The last critical section of runBatch keeps every field in its type.
LEMMA Type_Settle ==
  ASSUME TypeOK, NEW b \in Batch, Settle(b)
  PROVE  TypeOK'
<1>1. NoRun \in RunType /\ EmptyBatch \in BatchType
  BY DEF NoRun, RunType, EmptyBatch, BatchType, Reason
<1>2. crit' \in CritType
  BY Zenon DEF TypeOK, Settle, CritType
<1>3. run' \in [Batch -> RunType] /\ batch' \in [Batch -> BatchType]
  BY Zenon, <1>1 DEF TypeOK, Settle
<1>4. inFlight' \in Int
  BY DEF TypeOK, Settle
<1> QED BY Zenon, <1>2, <1>3, <1>4 DEF TypeOK, Settle

-----------------------------------------------------------------------------
(* CritInv.                                                                *)

\* A call refused while another caller holds the mutex leaves the holder's
\* cursor valid.
LEMMA Crit_SubmitRefused ==
  ASSUME TypeOK, CritInv, NEW n \in RefusedSizes, SubmitRefused(n)
  PROVE  CritInv'
<1>1. submitted' = submitted + 1 /\ submitted \in Nat /\ UNCHANGED <<crit, batch>>
  BY ConfigAssumption DEF SubmitRefused, TypeOK
<1>2. \A r \in Request : r # submitted + 1 => req'[r] = req[r]
  BY Zenon, NextRequest DEF SubmitRefused, TypeOK
<1>3. ASSUME crit.pc = "append"
      PROVE  /\ crit.cursor \in Row
             /\ crit.cursor[1] <= submitted'
             /\ crit.cursor[2] <= req'[crit.cursor[1]].rowCount
  BY <1>3, RowFacts, <1>1, <1>2 DEF CritInv, Request
<1> QED BY Zenon, <1>1, <1>3 DEF CritInv

\* Submit enters appendRequestLocked with its first row under the cursor.
LEMMA Crit_SubmitCoalesced ==
  ASSUME TypeOK, CritInv, NEW n \in CoalescedSizes, SubmitCoalesced(n)
  PROVE  CritInv'
<1> DEFINE s == submitted + 1
<1>1. s \in Request /\ s \in Int /\ 1 \in 1 .. MaxRows /\ n \in Nat /\ 1 <= n
  BY ConfigAssumption, NextRequest DEF SubmitCoalesced, Request
<1>2. <<s, 1>> \in Row /\ <<s, 1>>[1] = s /\ <<s, 1>>[2] = 1
  BY Zenon, <1>1, RowFacts
<1>3. /\ crit'.pc = "append" /\ crit'.cursor = <<s, 1>> /\ crit'.picked = {}
      /\ crit'.flush = NoFlush
  BY Zenon DEF SubmitCoalesced, TypeOK, CritType, CritInv
<1>4. submitted' = s /\ req'[s].rowCount = n
  BY Zenon, <1>1 DEF SubmitCoalesced, TypeOK, RequestType
<1> QED BY <1>1, <1>2, <1>3, <1>4 DEF CritInv

\* Handlers that are about to call scheduleLocked, and those that leave.
LEMMA Crit_Schedule ==
  ASSUME TypeOK,
         \/ \E n \in UnbatchedSizes : SubmitUnbatched(n)
         \/ \E b \in Batch : FlushExpiredBatch(b) \/ Settle(b)
         \/ \E f \in Flushes : FlushAsync(f)
         \/ MergeEnds
         \/ Unlock
  PROVE  CritInv'
<1>1. CASE Unlock
  BY Zenon, <1>1 DEF Unlock, Unlocked, CritInv
<1>2. CASE ~ Unlock
  BY Zenon, <1>2 DEF SubmitUnbatched, FlushExpiredBatch, Settle, FlushAsync, MergeEnds,
     TypeOK, CritType, CritInv
<1> QED BY Zenon, <1>1, <1>2

\* The cursor of appendRequestLocked stays within the call.
LEMMA Crit_AppendRows ==
  ASSUME TypeOK, CritInv, FreshNames, Sizes, AppendRows
  PROVE  CritInv'
<1> DEFINE r == crit.cursor[1]
           i == crit.cursor[2]
           b == IF active = NoBatch THEN crit.cursor ELSE active
           k == Take(req[r].rowCount - i + 1, Len(batch[b].rows))
<1>1. /\ r \in Request /\ i \in 1 .. MaxRows
      /\ req[r].rowCount \in 0 .. MaxRows
      /\ k \in 1 .. (req[r].rowCount - i + 1)
  BY SMTT(30), AppendFacts
<1>2. /\ crit.pc = "append" /\ submitted' = submitted
      /\ req' = [req EXCEPT ![r].parts = @ + 1]
      /\ crit' = IF i + k > req[r].rowCount
                 THEN [crit EXCEPT !.pc = "schedule", !.cursor = NoBatch]
                 ELSE [crit EXCEPT !.cursor = <<r, i + k>>]
  BY Zenon DEF AppendRows
<1>3. crit.picked = {} /\ crit.flush = NoFlush /\ r <= submitted
  BY Zenon, <1>2 DEF CritInv
<1> HIDE DEF r, i, b, k
<1>4. CASE i + k > req[r].rowCount
  BY Zenon, <1>2, <1>4 DEF CritInv, TypeOK, CritType
<1>5. CASE ~ (i + k > req[r].rowCount)
  <2>1. i + k \in 1 .. MaxRows /\ i + k <= req[r].rowCount
    BY <1>5, <1>1, ConfigAssumption
  <2>2. <<r, i + k>> \in Row /\ <<r, i + k>>[1] = r /\ <<r, i + k>>[2] = i + k
    BY Zenon, <2>1, <1>1, RowFacts
  <2>3. crit'.pc = "append" /\ crit'.cursor = <<r, i + k>> /\ crit'.picked = {}
        /\ crit'.flush = NoFlush
    BY Zenon, <1>2, <1>3, <1>5 DEF TypeOK, CritType
  <2>4. req'[r].rowCount = req[r].rowCount
    BY Zenon, <1>1, <1>2 DEF TypeOK, RequestType
  <2> QED BY Zenon, <1>2, <1>3, <2>1, <2>2, <2>3, <2>4 DEF CritInv
<1> QED BY Zenon, <1>4, <1>5

\* Timers, flush goroutines and COPYs do not touch the critical section.
LEMMA Crit_Timer ==
  ASSUME CritInv,
         \/ \E b \in Batch : TimerExpires(b) \/ StaleTimer(b)
         \/ \E f \in Flushes : FlushResolves(f)
         \/ \E b \in Batch, err \in {{}, {"copy"}} : CopyOutcome(b, err)
  PROVE  CritInv'
BY Zenon DEF CritInv, TimerExpires, StaleTimer, FlushResolves, CopyOutcome

\* finishPart, which runs outside the mutex, changes no row count.
LEMMA Crit_FinishPart ==
  ASSUME TypeOK, CritInv, NEW b \in Batch, FinishPart(b)
  PROVE  CritInv'
<1>1. UNCHANGED <<crit, batch, submitted>>
  BY Zenon DEF FinishPart
<1>2. \A q \in Request : req'[q].rowCount = req[q].rowCount
  <2> DEFINE r == batch[b].requests[run[b].next]
             errs == Joined(r, run[b].err)
             res == IF IsLast(r)
                    THEN Resolve(req[r].result,
                                 IF errs = {} THEN req[r].rowCount ELSE 0, errs)
                    ELSE req[r].result
  <2>1. req \in [Request -> RequestType]
    BY Zenon DEF TypeOK
  <2>2. r \in Request /\ req[r] \in RequestType
    BY Zenon, FinishFacts
  <2>3. req' = [req EXCEPT ![r] = [req[r] EXCEPT !.errs = errs,
                                     !.parts = req[r].parts - 1, !.result = res]]
    BY Zenon DEF FinishPart
  <2> HIDE DEF r, errs, res
  <2>4. req'[r].rowCount = req[r].rowCount
    BY Zenon, <2>1, <2>2, <2>3 DEF RequestType
  <2>5. \A q \in Request : q # r => req'[q] = req[q]
    BY Zenon, <2>1, <2>3
  <2> QED BY Zenon, <2>4, <2>5
<1>3. crit.cursor \in Row => crit.cursor[1] \in Request
  BY Zenon, RowFacts
<1> QED BY Zenon, <1>1, <1>2, <1>3 DEF CritInv

\* scheduleLocked enters the merge loop only with a batch closed by its timer.
LEMMA Crit_Dequeue ==
  ASSUME TypeOK, CritInv, Dequeue
  PROVE  CritInv'
BY Zenon DEF TypeOK, CritInv, Dequeue, CritType

\* Merging leaves the batch merged into closed by its timer.
LEMMA Crit_Merge ==
  ASSUME TypeOK, CritInv, Ownership, Merge
  PROVE  CritInv'
<1>1. crit.pc = "merge" /\ queue # <<>> /\ crit' = crit
  BY Zenon DEF Merge, CanMerge
<1>2. crit.into \in Batch /\ crit.into \in crit.picked /\ batch[crit.into].reason = "linger"
  BY Zenon, <1>1 DEF CritInv, TypeOK, CritType
<1>3. crit.into # Head(queue)
  BY Zenon, <1>1, <1>2, HeadFacts DEF InFlight
<1>4. batch'[crit.into].reason = batch[crit.into].reason
  BY Zenon, <1>2, <1>3 DEF Merge, TypeOK, BatchType
<1> QED BY Zenon, <1>1, <1>2, <1>4 DEF CritInv

-----------------------------------------------------------------------------
(* FreshNames.                                                             *)

\* Names stay fresh when no empty batch gets rows.
LEMMA Fresh_Frame ==
  ASSUME TypeOK, FreshNames,
         submitted' \in Int, submitted <= submitted',
         crit'.pc # "append" \/ crit' = crit,
         \A b \in Batch : batch[b] = EmptyBatch => batch'[b] = EmptyBatch
  PROVE  FreshNames'
<1> SUFFICES ASSUME NEW b \in Batch, batch'[b] # EmptyBatch
             PROVE  /\ b[1] <= submitted'
                    /\ crit'.pc = "append" /\ b[1] = crit'.cursor[1] => b[2] < crit'.cursor[2]
  BY Zenon DEF FreshNames
<1>1. /\ b[1] <= submitted
      /\ crit.pc = "append" /\ b[1] = crit.cursor[1] => b[2] < crit.cursor[2]
  BY Zenon DEF FreshNames
<1>2. b[1] \in Int /\ submitted \in Int
  BY RowFacts, ConfigAssumption DEF TypeOK, Request
<1>3. b[1] <= submitted'
  BY <1>1, <1>2
<1> QED BY Zenon, <1>1, <1>3

\* A refused call uses up a number and no batch name.
LEMMA Fresh_SubmitRefused ==
  ASSUME TypeOK, FreshNames, NEW n \in RefusedSizes, SubmitRefused(n)
  PROVE  FreshNames'
<1>1. submitted' = submitted + 1 /\ submitted \in Int /\ UNCHANGED <<crit, batch>>
  BY ConfigAssumption DEF SubmitRefused, TypeOK
<1> QED BY <1>1, Fresh_Frame

\* No batch is named by a row of a call that has just arrived.
LEMMA Fresh_SubmitCoalesced ==
  ASSUME TypeOK, FreshNames, NEW n \in CoalescedSizes, SubmitCoalesced(n)
  PROVE  FreshNames'
<1>1. submitted' = submitted + 1 /\ submitted \in Int /\ UNCHANGED batch
  BY ConfigAssumption DEF SubmitCoalesced, TypeOK
<1>2. crit'.cursor[1] = submitted + 1
  BY Zenon DEF SubmitCoalesced, TypeOK, CritType
<1>3. \A b \in Batch : b[1] \in Int
  BY RowFacts DEF Request
<1> QED BY <1>1, <1>2, <1>3 DEF FreshNames

\* The batch of SubmitUnbatched is named by the first row of its call.
LEMMA Fresh_SubmitUnbatched ==
  ASSUME TypeOK, FreshNames, NEW n \in UnbatchedSizes, SubmitUnbatched(n)
  PROVE  FreshNames'
<1> DEFINE s == submitted + 1
<1>1. submitted' = s /\ submitted \in Int /\ crit'.pc = "schedule"
  BY ConfigAssumption DEF SubmitUnbatched, TypeOK, CritType
<1>2. \A b \in Batch : b # <<s, 1>> => batch'[b] = batch[b]
  BY Zenon DEF SubmitUnbatched, TypeOK
<1>3. \A b \in Batch : b[1] \in Int
  BY RowFacts DEF Request
<1>4. <<s, 1>>[1] = s
  BY Zenon
<1>5. ASSUME NEW b \in Batch, batch'[b] # EmptyBatch
      PROVE  b[1] <= submitted'
  BY <1>1, <1>4, <1>2, <1>5, <1>3 DEF FreshNames
<1> QED BY Zenon, <1>1, <1>5 DEF FreshNames

\* A batch opened by appendRequestLocked is named by a row behind the cursor.
LEMMA Fresh_AppendRows ==
  ASSUME TypeOK, CritInv, Ownership, FreshNames, Sizes, AppendRows
  PROVE  FreshNames'
<1> DEFINE r == crit.cursor[1]
           i == crit.cursor[2]
           b == IF active = NoBatch THEN crit.cursor ELSE active
           k == Take(req[r].rowCount - i + 1, Len(batch[b].rows))
<1>1. /\ r \in Request /\ i \in 1 .. MaxRows /\ b \in Batch
      /\ req[r].rowCount \in 0 .. MaxRows
      /\ active = NoBatch => batch[b] = EmptyBatch
      /\ k \in 1 .. (req[r].rowCount - i + 1)
  BY SMTT(30), AppendFacts
<1>2. /\ crit.pc = "append" /\ submitted' = submitted
      /\ crit' = IF i + k > req[r].rowCount
                 THEN [crit EXCEPT !.pc = "schedule", !.cursor = NoBatch]
                 ELSE [crit EXCEPT !.cursor = <<r, i + k>>]
      /\ \A c \in Batch : c # b => batch'[c] = batch[c]
  BY Zenon DEF AppendRows, TypeOK
<1>3. r <= submitted
  BY Zenon, <1>2 DEF CritInv
<1>4. \A c \in Batch : c[1] \in Int /\ c[2] \in Int
  BY RowFacts DEF Request
<1>5. active = NoBatch => b[1] = r /\ b[2] = i
  BY Zenon
<1>6. active # NoBatch => b = active
  BY Zenon
<1> HIDE DEF r, i, b, k
<1>7. i \in Int /\ k \in Int /\ k > 0 /\ req[r].rowCount \in Int
  BY <1>1, ConfigAssumption
<1>8. ASSUME NEW c \in Batch, batch'[c] # EmptyBatch
      PROVE  c[1] <= submitted /\ (c[1] = r => c[2] < i + k)
  BY SMTT(30), <1>3, <1>5, <1>7, <1>2, <1>6, <1>8, <1>4 DEF Ownership, EmptyBatch, FreshNames, r, i
<1>9. CASE i + k > req[r].rowCount
  BY Zenon, <1>9, <1>2, <1>8 DEF TypeOK, CritType, FreshNames
<1>10. CASE ~ (i + k > req[r].rowCount)
  BY Zenon, <1>10, <1>2, <1>8 DEF TypeOK, CritType, FreshNames
<1> QED BY Zenon, <1>9, <1>10

\* The other steps give no rows to a batch that has none.
LEMMA Fresh_Others ==
  ASSUME TypeOK, CritInv, Ownership, FreshNames,
         \/ \E b \in Batch : TimerExpires(b) \/ StaleTimer(b) \/ FlushExpiredBatch(b)
         \/ \E b \in Batch : FinishPart(b) \/ Settle(b)
         \/ \E b \in Batch, err \in {{}, {"copy"}} : CopyOutcome(b, err)
         \/ \E f \in Flushes : FlushAsync(f) \/ FlushResolves(f)
         \/ Dequeue \/ Merge \/ MergeEnds \/ Unlock
  PROVE  FreshNames'
<1>1. submitted' = submitted /\ submitted \in Int
  <2>1. submitted' = submitted
    BY Zenon DEF TimerExpires, StaleTimer, FlushExpiredBatch, FinishPart, Settle, CopyOutcome,
         FlushAsync, FlushResolves, Dequeue, Merge, MergeEnds, Unlock
  <2>2. submitted \in Int
    BY ConfigAssumption DEF TypeOK
  <2> QED BY Zenon, <2>1, <2>2
<1>2. crit'.pc # "append" \/ crit' = crit
  <2>1. crit \in CritType
    BY Zenon DEF TypeOK
  <2>2. CASE Unlock
    BY Zenon, <2>2 DEF Unlock, Unlocked
  <2>3. CASE Dequeue
    BY Zenon, <2>1, <2>3 DEF Dequeue, CritType
  <2>4. CASE \E b \in Batch : FlushExpiredBatch(b)
    BY Zenon, <2>1, <2>4 DEF FlushExpiredBatch, CritType
  <2>5. CASE \E b \in Batch : Settle(b)
    BY Zenon, <2>1, <2>5 DEF Settle, CritType
  <2>6. CASE \E f \in Flushes : FlushAsync(f)
    BY Zenon, <2>1, <2>6 DEF FlushAsync, CritType
  <2>7. CASE MergeEnds
    BY Zenon, <2>1, <2>7 DEF MergeEnds, CritType
  <2>8. CASE crit' = crit
    BY Zenon, <2>8
  <2> QED BY Zenon, <2>2, <2>3, <2>4, <2>5, <2>6, <2>7, <2>8
       DEF TimerExpires, StaleTimer, FinishPart, CopyOutcome, FlushResolves, Merge
<1>3. ASSUME NEW c \in Batch, batch[c] = EmptyBatch
      PROVE  batch'[c] = EmptyBatch
  <2>1. CASE Merge
    BY SMTT(30), <2>1, <1>3 DEF Merge, CritInv, EmptyBatch, TypeOK
  <2>2. CASE \E b \in Batch : FlushExpiredBatch(b)
    BY SMTT(30), <2>2, <1>3, RowFacts DEF FlushExpiredBatch, Ownership, EmptyBatch, TypeOK
  <2>3. CASE \E f \in Flushes : FlushAsync(f)
    <3>1. active # NoBatch => c # active
      BY <1>3 DEF Ownership, EmptyBatch
    <3> QED BY Zenon, <2>3, <3>1, <1>3 DEF FlushAsync, TypeOK
  <2>4. CASE \E b \in Batch : Settle(b)
    BY Zenon, <2>4, <1>3 DEF Settle, TypeOK
  <2>5. CASE UNCHANGED batch
    BY Zenon, <2>5, <1>3
  <2> QED BY ZenonT(30), <2>1, <2>2, <2>3, <2>4, <2>5
       DEF TimerExpires, StaleTimer, FinishPart, CopyOutcome, FlushResolves, Dequeue,
           MergeEnds, Unlock
<1> QED BY <1>1, <1>2, <1>3, Fresh_Frame

-----------------------------------------------------------------------------
(* Sizes.                                                                  *)

\* Sizes depends on the open batch and the batches only.
LEMMA Sizes_Frame ==
  ASSUME Sizes, UNCHANGED <<active, batch>>
  PROVE  Sizes'
BY Zenon DEF Sizes, CoalescedWithinLimit

\* The steps that touch no batch.
LEMMA Sizes_Idle ==
  ASSUME Sizes,
         \/ \E n \in RefusedSizes : SubmitRefused(n)
         \/ \E n \in CoalescedSizes : SubmitCoalesced(n)
         \/ \E b \in Batch : TimerExpires(b) \/ StaleTimer(b) \/ FinishPart(b)
         \/ \E b \in Batch, err \in {{}, {"copy"}} : CopyOutcome(b, err)
         \/ \E f \in Flushes : FlushResolves(f)
         \/ Dequeue \/ MergeEnds \/ Unlock
  PROVE  Sizes'
<1>1. UNCHANGED <<active, batch>>
  BY Zenon DEF SubmitRefused, SubmitCoalesced, TimerExpires, StaleTimer, FinishPart, CopyOutcome,
       FlushResolves, Dequeue, MergeEnds, Unlock
<1> QED BY Zenon, <1>1, Sizes_Frame

\* The batch of SubmitUnbatched is exempt and is not the open one.
LEMMA Sizes_SubmitUnbatched ==
  ASSUME TypeOK, Ownership, FreshNames, Sizes, NEW n \in UnbatchedSizes, SubmitUnbatched(n)
  PROVE  Sizes'
<1> DEFINE b == <<submitted + 1, 1>>
<1>1. /\ active' = active /\ submitted \in Int
      /\ \A c \in Batch : c # b => batch'[c] = batch[c]
      /\ b \in Batch => batch'[b].reason = "unbatched"
  BY SMTT(30), ConfigAssumption DEF SubmitUnbatched, TypeOK
<1>2. active # NoBatch => active \in Batch /\ batch[active] # EmptyBatch
  BY DEF Ownership, TypeOK, EmptyBatch
<1>3. active # NoBatch => active # b
  BY <1>2, <1>1 DEF FreshNames
<1> HIDE DEF b
<1> QED BY Zenon, <1>1, <1>2, <1>3 DEF Sizes, CoalescedWithinLimit

\* appendRequestLocked never overfills a batch and closes one that is full.
LEMMA Sizes_AppendRows ==
  ASSUME TypeOK, CritInv, FreshNames, Sizes, AppendRows
  PROVE  Sizes'
<1> DEFINE r == crit.cursor[1]
           i == crit.cursor[2]
           b == IF active = NoBatch THEN crit.cursor ELSE active
           k == Take(req[r].rowCount - i + 1, Len(batch[b].rows))
           full == IsFull(Len(batch[b].rows) + k)
<1>1. /\ b \in Batch /\ r \in Request /\ i \in 1 .. MaxRows
      /\ req[r].rowCount \in 0 .. MaxRows
      /\ Len(batch[b].rows) \in Nat
      /\ k \in 1 .. (req[r].rowCount - i + 1)
      /\ MaxRowsPerBatch > 0 => Len(batch[b].rows) + k <= MaxRowsPerBatch
  BY SMTT(30), AppendFacts
<1>2. /\ batch' = [batch EXCEPT
                     ![b] = [rows |-> @.rows \o Slice(r, i, k),
                             requests |-> Append(@.requests, r),
                             reason |-> IF full THEN "full" ELSE "none"]]
      /\ active' = IF full THEN NoBatch ELSE b
  BY Zenon DEF AppendRows
<1> HIDE DEF r, i, b, k
<1>3. batch[b].rows \in Seq(Row) /\ Slice(r, i, k) \in Seq(Row) /\ Len(Slice(r, i, k)) = k
  BY Zenon, <1>1, SliceFits DEF TypeOK, BatchType
<1>4. Len(batch'[b].rows) = Len(batch[b].rows) + k
  BY Zenon, <1>1, <1>2, <1>3, ConcatLen DEF TypeOK
<1>5. \A c \in Batch : c # b => batch'[c] = batch[c]
  BY Zenon, <1>2 DEF TypeOK
<1>6. MaxRowsPerBatch > 0 => CoalescedWithinLimit'
  BY Zenon, <1>1, <1>4, <1>5 DEF Sizes, CoalescedWithinLimit
<1>7. MaxRowsPerBatch > 0 /\ active' # NoBatch => Len(batch'[active'].rows) < MaxRowsPerBatch
  BY SMTT(30), <1>2, <1>1, ConfigAssumption, <1>4 DEF IsFull
<1> QED BY Zenon, <1>6, <1>7 DEF Sizes

\* Closing the open batch does not change its rows.
LEMMA Sizes_Close ==
  ASSUME TypeOK, Ownership, Sizes,
         \/ \E b \in Batch : FlushExpiredBatch(b)
         \/ \E f \in Flushes : FlushAsync(f)
  PROVE  Sizes'
<1>1. active' = NoBatch
  BY Zenon DEF FlushExpiredBatch, FlushAsync
<1>2. ASSUME NEW c \in Batch
      PROVE  /\ batch'[c].rows = batch[c].rows
             /\ batch'[c].reason = batch[c].reason \/ batch[c].reason = "none"
  <2>1. CASE \E b \in Batch : FlushExpiredBatch(b)
    <3>1. PICK b \in Batch : FlushExpiredBatch(b)
      BY Zenon, <2>1
    <3>2. /\ batch \in [Batch -> BatchType]
          /\ batch' = [batch EXCEPT ![b].reason = "linger"]
          /\ active = b
      BY Zenon, <3>1 DEF FlushExpiredBatch, TypeOK
    <3>3. batch[b].reason = "none"
      BY Zenon, <3>2, RowFacts DEF Ownership
    <3>4. CASE c = b
      BY Zenon, <3>2, <3>4, <3>3 DEF BatchType
    <3>5. CASE c # b
      BY Zenon, <3>2, <3>5
    <3> QED BY Zenon, <3>4, <3>5
  <2>2. CASE \E f \in Flushes : FlushAsync(f)
    <3>1. CASE active = NoBatch
      BY Zenon, <2>2, <3>1 DEF FlushAsync
    <3>2. CASE active # NoBatch
      <4>1. batch' = [batch EXCEPT ![active].reason = "manual"] /\ active \in Batch
        BY Zenon, <2>2, <3>2 DEF FlushAsync, TypeOK
      <4>2. batch[active].reason = "none" /\ batch \in [Batch -> BatchType]
        BY Zenon, <3>2 DEF Ownership, TypeOK
      <4> QED BY Zenon, <4>1, <4>2 DEF BatchType
    <3> QED BY Zenon, <3>1, <3>2
  <2> QED BY Zenon, <2>1, <2>2
<1> QED BY Zenon, <1>1, <1>2 DEF Sizes, CoalescedWithinLimit

\* The size check of dequeueLocked keeps a merged batch within the limit.
LEMMA Sizes_Merge ==
  ASSUME TypeOK, CritInv, Ownership, Sizes, Merge
  PROVE  Sizes'
<1> DEFINE b == crit.into
           n == Head(queue)
<1>1. /\ queue # <<>> /\ b \in Batch /\ n \in Batch /\ b \in crit.picked
      /\ batch'[n] = EmptyBatch /\ batch'[b].rows = batch[b].rows \o batch[n].rows
      /\ \A c \in Batch : c # b /\ c # n => batch'[c] = batch[c]
      /\ MaxRowsPerBatch = 0 \/ Len(batch[b].rows) + Len(batch[n].rows) <= MaxRowsPerBatch
      /\ active' = active
  BY ZenonT(30), MergeFacts
<1>2. Len(batch'[b].rows) = Len(batch[b].rows) + Len(batch[n].rows)
  BY ZenonT(30), <1>1, ConcatLen DEF TypeOK, BatchType
<1>3. Len(batch'[n].rows) = 0
  BY SMTT(30), <1>1 DEF EmptyBatch
<1>4. active # NoBatch => active \in Batch /\ active # b /\ active # n
  BY SMTT(30), <1>1, HeadFacts DEF TypeOK, Ownership, InFlight
<1> HIDE DEF b, n
<1>5. ASSUME MaxRowsPerBatch > 0
      PROVE  CoalescedWithinLimit'
  <2> SUFFICES ASSUME NEW c \in Batch, batch'[c].reason # "unbatched"
               PROVE  Len(batch'[c].rows) <= MaxRowsPerBatch
    BY Zenon DEF CoalescedWithinLimit
  <2>1. CASE c = n
    BY <2>1, <1>3, <1>5, ConfigAssumption
  <2>2. CASE c = b
    <3>1. MaxRowsPerBatch # 0
      BY <1>5, ConfigAssumption
    <3> QED BY Zenon, <2>2, <3>1, <1>1, <1>2
  <2>3. CASE c # b /\ c # n
    BY Zenon, <2>3, <1>1, <1>5 DEF Sizes, CoalescedWithinLimit
  <2> QED BY Zenon, <2>1, <2>2, <2>3
<1>6. MaxRowsPerBatch > 0 /\ active' # NoBatch => Len(batch'[active'].rows) < MaxRowsPerBatch
  BY Zenon, <1>1, <1>4 DEF Sizes
<1> QED BY Zenon, <1>5, <1>6 DEF Sizes

\* A batch that is done has no rows.
LEMMA Sizes_Settle ==
  ASSUME TypeOK, Ownership, Sizes, NEW b \in Batch, Settle(b)
  PROVE  Sizes'
<1>1. /\ active' = active /\ batch'[b] = EmptyBatch /\ run[b].phase # "none"
      /\ \A c \in Batch : c # b => batch'[c] = batch[c]
  BY Zenon DEF Settle, TypeOK
<1>2. active # NoBatch => active \in Batch /\ active # b
  BY Zenon, <1>1 DEF TypeOK, Ownership, InFlight
<1>3. Len(batch'[b].rows) = 0
  BY SMTT(30), <1>1 DEF EmptyBatch
<1>4. MaxRowsPerBatch > 0 => CoalescedWithinLimit'
  BY <1>1, <1>3, ConfigAssumption DEF Sizes, CoalescedWithinLimit
<1>5. MaxRowsPerBatch > 0 /\ active' # NoBatch => Len(batch'[active'].rows) < MaxRowsPerBatch
  BY Zenon, <1>1, <1>2 DEF Sizes
<1> QED BY Zenon, <1>4, <1>5 DEF Sizes

-----------------------------------------------------------------------------
(* Ownership.                                                              *)

\* Ownership depends on the open batch, the queue, the batches and on which of
\* them are in flight.
LEMMA Own_Frame ==
  ASSUME Ownership,
         UNCHANGED <<active, queue, batch>>,
         crit'.picked = crit.picked,
         \A b \in Batch : run'[b].phase = "none" <=> run[b].phase = "none",
         \A b \in Batch : run'[b].phase = "none" => run'[b] = run[b],
         active \in Batch \cup {NoBatch}, queue \in Seq(Batch)
  PROVE  Ownership'
<1>1. \A b \in Batch : InFlight(b)' <=> InFlight(b)
  BY Zenon DEF InFlight
<1>2. \A b \in Batch : Queued(b)' <=> Queued(b)
  BY Zenon DEF Queued
<1>3. \A i \in DOMAIN queue : queue[i] \in Batch
  OBVIOUS
<1> QED BY Zenon, <1>1, <1>2, <1>3 DEF Ownership

\* Steps that move no batch.
LEMMA Own_Idle ==
  ASSUME TypeOK, Ownership,
         \/ \E n \in RefusedSizes : SubmitRefused(n)
         \/ \E n \in CoalescedSizes : SubmitCoalesced(n)
         \/ \E b \in Batch : TimerExpires(b) \/ StaleTimer(b)
         \/ \E f \in Flushes : FlushResolves(f)
         \/ MergeEnds
  PROVE  Ownership'
<1>1. UNCHANGED <<active, queue, batch, run>>
  BY Zenon DEF SubmitRefused, SubmitCoalesced, TimerExpires, StaleTimer, FlushResolves, MergeEnds
<1>2. crit'.picked = crit.picked
  BY Zenon DEF SubmitRefused, SubmitCoalesced, TimerExpires, StaleTimer, FlushResolves, MergeEnds,
       TypeOK, CritType
<1>3. active \in Batch \cup {NoBatch} /\ queue \in Seq(Batch)
  BY Zenon DEF TypeOK
<1> QED BY Zenon, <1>1, <1>2, <1>3, Own_Frame

\* runBatch keeps its batch until it settles.
LEMMA Own_Run ==
  ASSUME TypeOK, Ownership, NEW b \in Batch,
         FinishPart(b) \/ \E err \in {{}, {"copy"}} : CopyOutcome(b, err)
  PROVE  Ownership'
<1>1. UNCHANGED <<active, queue, batch, crit>>
  BY Zenon DEF FinishPart, CopyOutcome
<1>2. run[b].phase # "none" /\ run'[b].phase # "none" /\ \A c \in Batch : c # b => run'[c] = run[c]
  <2>1. run \in [Batch -> RunType]
    BY Zenon DEF TypeOK
  <2>2. CASE FinishPart(b)
    BY Zenon, <2>1, <2>2 DEF FinishPart, RunType
  <2>3. CASE \E err \in {{}, {"copy"}} : CopyOutcome(b, err)
    BY <2>1, <2>3 DEF CopyOutcome, RunType
  <2> QED BY Zenon, <2>2, <2>3
<1>3. active \in Batch \cup {NoBatch} /\ queue \in Seq(Batch)
  BY Zenon DEF TypeOK
<1> QED BY Zenon, <1>1, <1>2, <1>3, Own_Frame

\* The queue after enqueueLocked, element by element.
LEMMA AppendQueue ==
  ASSUME NEW q \in Seq(Batch), NEW b \in Batch
  PROVE  /\ \A i \in DOMAIN Append(q, b) :
              \/ i \in DOMAIN q /\ Append(q, b)[i] = q[i]
              \/ i = Len(q) + 1 /\ Append(q, b)[i] = b
         /\ \A i \in DOMAIN q : i \in DOMAIN Append(q, b) /\ Append(q, b)[i] = q[i]
         /\ Len(q) + 1 \in DOMAIN Append(q, b) /\ Append(q, b)[Len(q) + 1] = b
         /\ \A i \in DOMAIN q : q[i] \in Batch
OBVIOUS

\* Putting a batch that is neither queued nor in flight at the end of the queue.
LEMMA Own_Enqueue ==
  ASSUME TypeOK, Ownership, NEW b \in Batch, ~ Queued(b), ~ InFlight(b),
         queue' = Append(queue, b),
         active = b => active' = NoBatch,
         active # b => active' = active,
         UNCHANGED run, crit'.picked = crit.picked,
         \A c \in Batch : c # b => batch'[c] = batch[c],
         batch'[b].rows # <<>>, batch'[b].reason # "none"
  PROVE  Ownership'
<1>1. queue \in Seq(Batch) /\ active \in Batch \cup {NoBatch} /\ b # NoBatch
  BY Zenon, RowFacts DEF TypeOK
<1>2. \A c \in Batch : InFlight(c)' <=> InFlight(c)
  BY Zenon DEF InFlight
<1>3. \A c \in Batch : Queued(c)' <=> Queued(c) \/ c = b
  BY <1>1, AppendQueue DEF Queued
<1>4. \A i \in DOMAIN queue : queue[i] # b
  BY Zenon DEF Queued
<1>5. active' # NoBatch =>
        /\ batch'[active'].rows # <<>> /\ batch'[active'].reason = "none"
        /\ ~ Queued(active)' /\ ~ InFlight(active)'
  BY SMTT(30), <1>1, <1>2, <1>3 DEF Ownership, Queued, InFlight
<1>6. \A i \in DOMAIN queue' :
        /\ batch'[queue'[i]].rows # <<>> /\ batch'[queue'[i]].reason # "none"
        /\ ~ InFlight(queue[i])'
  BY SMTT(30), <1>1, <1>4, AppendQueue DEF InFlight, Ownership
<1>7. \A i, j \in DOMAIN queue' : queue'[i] = queue'[j] => i = j
  BY <1>1, <1>4, AppendQueue DEF Ownership
<1>8. ASSUME NEW c \in Batch
      PROVE  /\ InFlight(c)' => batch'[c].rows # <<>> /\ batch'[c].reason # "none"
             /\ c \in crit'.picked => run'[c].phase = "none"
             /\ run'[c].phase = "none" => run'[c] = NoRun
             /\ c # active' /\ ~ Queued(c)' /\ ~ InFlight(c)' => batch'[c] = EmptyBatch
  BY Zenon, <1>1, <1>2, <1>3 DEF Ownership
<1> QED BY Zenon, <1>5, <1>6, <1>7, <1>8 DEF Ownership

\* Opening a batch, or adding rows to the open one.
LEMMA Own_Open ==
  ASSUME TypeOK, Ownership, NEW b \in Batch, ~ Queued(b), ~ InFlight(b),
         queue' = queue, active' = b, active = NoBatch \/ active = b,
         UNCHANGED run, crit'.picked = crit.picked,
         \A c \in Batch : c # b => batch'[c] = batch[c],
         batch'[b].rows # <<>>, batch'[b].reason = "none"
  PROVE  Ownership'
<1>1. queue \in Seq(Batch) /\ b # NoBatch
  BY RowFacts DEF TypeOK
<1>2. \A c \in Batch : InFlight(c)' <=> InFlight(c)
  BY Zenon DEF InFlight
<1>3. \A c \in Batch : Queued(c)' <=> Queued(c)
  BY Zenon DEF Queued
<1>4. \A i \in DOMAIN queue : queue[i] # b /\ queue[i] \in Batch
  BY <1>1 DEF Queued
<1>5. active' # NoBatch =>
        /\ batch'[active'].rows # <<>> /\ batch'[active'].reason = "none"
        /\ ~ Queued(active)' /\ ~ InFlight(active)'
  BY Zenon DEF Queued, InFlight
<1>6. ASSUME NEW i \in DOMAIN queue'
      PROVE  /\ batch'[queue'[i]].rows # <<>> /\ batch'[queue'[i]].reason # "none"
             /\ ~ InFlight(queue[i])'
  BY Zenon, <1>4 DEF Ownership, InFlight
<1>7. \A i, j \in DOMAIN queue' : queue'[i] = queue'[j] => i = j
  BY Zenon DEF Ownership
<1>8. ASSUME NEW c \in Batch
      PROVE  /\ InFlight(c)' => batch'[c].rows # <<>> /\ batch'[c].reason # "none"
             /\ c \in crit'.picked => run'[c].phase = "none"
             /\ run'[c].phase = "none" => run'[c] = NoRun
             /\ c # active' /\ ~ Queued(c)' /\ ~ InFlight(c)' => batch'[c] = EmptyBatch
  BY SMTT(30), <1>2, <1>1, RowFacts, <1>3 DEF Ownership
<1> QED BY Zenon, <1>5, <1>6, <1>7, <1>8 DEF Ownership

\* detachActiveLocked closes the open batch for the timer and for a flush.
LEMMA Own_Close ==
  ASSUME TypeOK, Ownership, active # NoBatch,
         (\E b \in Batch : FlushExpiredBatch(b)) \/ (\E f \in Flushes : FlushAsync(f))
  PROVE  Ownership'
<1>1. /\ active \in Batch /\ ~ Queued(active) /\ ~ InFlight(active)
      /\ batch[active].rows # <<>>
  BY Zenon DEF TypeOK, Ownership
<1>2. Len(batch[active].rows) # 0
  BY <1>1, EmptySeq DEF TypeOK, BatchType
<1>3. /\ queue' = Enqueue(queue, active, Len(batch[active].rows))
      /\ active' = NoBatch /\ UNCHANGED run
      /\ \E why \in {"linger", "manual"} : batch' = [batch EXCEPT ![active].reason = why]
  BY Zenon DEF FlushExpiredBatch, FlushAsync
<1>4. crit'.picked = crit.picked
  BY Zenon DEF FlushExpiredBatch, FlushAsync, TypeOK, CritType
<1>5. queue' = Append(queue, active)
  BY Zenon, <1>2, <1>3 DEF Enqueue
<1>6. batch \in [Batch -> BatchType]
  BY Zenon DEF TypeOK
<1>7. /\ \A c \in Batch : c # active => batch'[c] = batch[c]
      /\ batch'[active].rows # <<>> /\ batch'[active].reason # "none"
  BY Zenon, <1>1, <1>3, <1>6 DEF BatchType
<1> QED BY Zenon, <1>1, <1>3, <1>4, <1>5, <1>7, Own_Enqueue

\* FlushAsync with no open batch moves nothing.
LEMMA Own_FlushNothing ==
  ASSUME TypeOK, Ownership, active = NoBatch, NEW f \in Flushes, FlushAsync(f)
  PROVE  Ownership'
<1>1. UNCHANGED <<active, queue, batch, run>>
  BY Zenon DEF FlushAsync
<1>2. crit'.picked = crit.picked
  BY Zenon DEF FlushAsync, TypeOK, CritType
<1>3. active \in Batch \cup {NoBatch} /\ queue \in Seq(Batch)
  BY Zenon DEF TypeOK
<1> QED BY Zenon, <1>1, <1>2, <1>3, Own_Frame

\* A batch without rows is not queued and not in flight.
LEMMA UnusedName ==
  ASSUME Ownership, NEW b \in Batch, batch[b] = EmptyBatch
  PROVE  ~ Queued(b) /\ ~ InFlight(b) /\ active # b
BY RowFacts DEF Ownership, Queued, EmptyBatch

\* SubmitUnbatched queues a batch nobody else holds.
LEMMA Own_SubmitUnbatched ==
  ASSUME TypeOK, Ownership, FreshNames, NEW n \in UnbatchedSizes, SubmitUnbatched(n)
  PROVE  Ownership'
<1> DEFINE s == submitted + 1
           b == <<s, 1>>
<1>1. s \in Request /\ n \in 1 .. MaxRows /\ n \in Nat /\ n # 0 /\ 1 \in 1 .. MaxRows
      /\ submitted \in Int
  BY ConfigAssumption, NextRequest DEF SubmitUnbatched, TypeOK
<1>2. b \in Batch /\ b[1] = s
  BY Zenon, <1>1, RowFacts
<1>3. batch[b] = EmptyBatch
  BY <1>2, <1>1 DEF FreshNames
<1>4. ~ Queued(b) /\ ~ InFlight(b) /\ active # b
  BY Zenon, <1>2, <1>3, UnusedName
<1>5. /\ queue' = Append(queue, b) /\ UNCHANGED <<active, run>>
      /\ batch' = [batch EXCEPT ![b] = [rows |-> Slice(s, 1, n), requests |-> <<s>>,
                                        reason |-> "unbatched"]]
  BY Zenon, <1>1 DEF SubmitUnbatched, Enqueue
<1>6. crit'.picked = crit.picked
  BY Zenon DEF SubmitUnbatched, TypeOK, CritType
<1>7. Slice(s, 1, n) # <<>>
  BY <1>1, SliceType, ConfigAssumption
<1> HIDE DEF b
<1>8. /\ \A c \in Batch : c # b => batch'[c] = batch[c]
      /\ batch'[b].rows # <<>> /\ batch'[b].reason # "none"
  BY Zenon, <1>2, <1>5, <1>7 DEF TypeOK
<1> QED BY Zenon, <1>2, <1>4, <1>5, <1>6, <1>8, Own_Enqueue

\* appendRequestLocked fills the open batch and hands it to the queue when full.
LEMMA Own_AppendRows ==
  ASSUME TypeOK, CritInv, Ownership, FreshNames, Sizes, AppendRows
  PROVE  Ownership'
<1> DEFINE r == crit.cursor[1]
           i == crit.cursor[2]
           b == IF active = NoBatch THEN crit.cursor ELSE active
           k == Take(req[r].rowCount - i + 1, Len(batch[b].rows))
           full == IsFull(Len(batch[b].rows) + k)
<1>1. /\ b \in Batch /\ r \in Request /\ i \in 1 .. MaxRows
      /\ req[r].rowCount \in 0 .. MaxRows
      /\ active = NoBatch => batch[b] = EmptyBatch
      /\ k \in 1 .. (req[r].rowCount - i + 1)
  BY SMTT(30), AppendFacts
<1>2. /\ batch' = [batch EXCEPT
                     ![b] = [rows |-> @.rows \o Slice(r, i, k),
                             requests |-> Append(@.requests, r),
                             reason |-> IF full THEN "full" ELSE "none"]]
      /\ active' = IF full THEN NoBatch ELSE b
      /\ queue' = IF full THEN Enqueue(queue, b, MaxRowsPerBatch) ELSE queue
      /\ UNCHANGED run
      /\ crit' = IF i + k > req[r].rowCount
                 THEN [crit EXCEPT !.pc = "schedule", !.cursor = NoBatch]
                 ELSE [crit EXCEPT !.cursor = <<r, i + k>>]
  BY Zenon DEF AppendRows
<1>3. active = NoBatch \/ active = b
  BY Zenon
<1> HIDE DEF r, i, b, k
<1>4. crit'.picked = crit.picked
  BY Zenon, <1>2 DEF TypeOK, CritType
<1>5. ~ Queued(b) /\ ~ InFlight(b)
  BY Zenon, <1>1, <1>3, UnusedName DEF Ownership
<1>6. batch[b].rows \o Slice(r, i, k) # <<>>
  <2>1. batch[b].rows \in Seq(Row)
    BY Zenon, <1>1 DEF TypeOK, BatchType
  <2>2. k \in Nat /\ k > 0
    BY <1>1, ConfigAssumption
  <2>3. Slice(r, i, k) \in Seq(Row) /\ Len(Slice(r, i, k)) = k
    BY Zenon, <1>1, SliceFits
  <2>4. Len(batch[b].rows \o Slice(r, i, k)) > 0
    BY <2>1, <2>2, <2>3, ConcatLen
  <2> QED BY <2>4
<1>7. /\ \A c \in Batch : c # b => batch'[c] = batch[c]
      /\ batch'[b].rows # <<>>
      /\ batch'[b].reason = IF full THEN "full" ELSE "none"
  BY Zenon, <1>1, <1>2, <1>6 DEF TypeOK
<1>8. CASE full
  <2>1. queue' = Append(queue, b)
    BY <1>2, <1>8 DEF Enqueue, IsFull
  <2>2. active' = NoBatch /\ batch'[b].reason # "none"
    BY <1>2, <1>7, <1>8
  <2>3. active # b => active' = active
    BY Zenon, <1>3, <2>2
  <2> QED BY Zenon, <1>1, <1>2, <1>4, <1>5, <1>7, <2>1, <2>2, <2>3, Own_Enqueue
<1>9. CASE ~ full
  BY Zenon, <1>2, <1>7, <1>9, <1>1, <1>3, <1>4, <1>5, Own_Open
<1> QED BY Zenon, <1>8, <1>9

\* popQueueLocked takes the first batch off the queue and no other.
LEMMA TailFacts ==
  ASSUME TypeOK, Ownership, queue # <<>>, queue' = Tail(queue),
         NEW h, h = Head(queue)
  PROVE  /\ \A i \in DOMAIN queue' :
              i \in Int /\ i + 1 # 1 /\ i + 1 \in DOMAIN queue /\ queue'[i] = queue[i + 1]
         /\ \A c \in Batch : Queued(c) <=> Queued(c)' \/ c = h
         /\ \A i \in DOMAIN queue' : queue'[i] \in Batch /\ queue'[i] # h
<1>1. queue' = Tail(queue)
  BY Zenon
<1>2. /\ h \in Batch /\ 1 \in DOMAIN queue /\ queue[1] = h
      /\ DOMAIN queue = 1 .. Len(queue) /\ Len(queue) \in Nat
      /\ DOMAIN Tail(queue) = 1 .. (Len(queue) - 1)
      /\ \A i \in DOMAIN Tail(queue) : i + 1 \in DOMAIN queue /\ Tail(queue)[i] = queue[i + 1]
  BY Zenon, HeadFacts
<1>3. \A i \in DOMAIN queue : queue[i] \in Batch
  BY DEF TypeOK
<1>4. \A i \in DOMAIN queue' : i \in Int /\ i + 1 # 1 /\ i + 1 \in DOMAIN queue /\ queue'[i] = queue[i + 1]
  BY <1>1, <1>2
<1>5. \A c \in Batch : Queued(c) <=> Queued(c)' \/ c = h
  <2> SUFFICES ASSUME NEW c \in Batch
               PROVE  Queued(c) <=> Queued(c)' \/ c = h
    BY Zenon
  <2>1. Queued(c)' \/ c = h => Queued(c)
    BY Zenon, <1>2, <1>4 DEF Queued
  <2>2. ASSUME NEW i \in DOMAIN queue, queue[i] = c, c # h
        PROVE  Queued(c)'
    <3>1. i # 1 /\ i \in 1 .. Len(queue)
      BY Zenon, <2>2, <1>2
    <3>2. i - 1 \in DOMAIN queue' /\ (i - 1) + 1 = i
      BY <3>1, <1>1, <1>2
    <3>3. queue'[i - 1] = c
      BY Zenon, <3>2, <1>4, <2>2
    <3> QED BY Zenon, <3>2, <3>3 DEF Queued
  <2> QED BY Zenon, <2>1, <2>2 DEF Queued
<1>6. \A i \in DOMAIN queue' : queue'[i] \in Batch /\ queue'[i] # h
  BY SMTT(30), <1>2, <1>3, <1>4 DEF Ownership
<1> QED BY Zenon, <1>4, <1>5, <1>6

\* scheduleLocked moves the first batch from the queue to the picked ones.
LEMMA Own_Dequeue ==
  ASSUME TypeOK, Ownership, Dequeue
  PROVE  Ownership'
<1> DEFINE h == Head(queue)
<1>1. queue # <<>> /\ UNCHANGED <<active, batch, run>> /\ queue' = Tail(queue)
  BY Zenon DEF Dequeue, HasCapacity
<1>2. crit'.picked = crit.picked \cup {h}
  BY Zenon DEF Dequeue, TypeOK, CritType
<1>3. /\ h \in Batch /\ 1 \in DOMAIN queue /\ queue[1] = h /\ ~ InFlight(h) /\ h # active
      /\ batch[h].rows # <<>> /\ batch[h].reason # "none"
  BY Zenon, <1>1, HeadFacts
<1>4. active \in Batch \cup {NoBatch} /\ \A i \in DOMAIN queue : queue[i] \in Batch
  BY DEF TypeOK
<1> HIDE DEF h
<1>5. \A c \in Batch : InFlight(c)' <=> InFlight(c) \/ c = h
  BY Zenon, <1>1, <1>2 DEF InFlight
<1>6. \A i \in DOMAIN queue' : i \in Int /\ i + 1 # 1 /\ i + 1 \in DOMAIN queue /\ queue'[i] = queue[i + 1]
  BY Zenon, <1>1, TailFacts
<1>7. \A c \in Batch : Queued(c) <=> Queued(c)' \/ c = h
  BY Zenon, <1>1, TailFacts DEF h
<1>8. \A i \in DOMAIN queue' : queue'[i] \in Batch /\ queue'[i] # h
  BY Zenon, <1>1, TailFacts DEF h
<1>9. active' # NoBatch =>
        /\ batch'[active'].rows # <<>> /\ batch'[active'].reason = "none"
        /\ ~ Queued(active)' /\ ~ InFlight(active)'
  BY ZenonT(30), <1>1, <1>3, <1>4, <1>7, <1>2 DEF Ownership, Queued, InFlight
<1>10. ASSUME NEW i \in DOMAIN queue'
       PROVE  /\ batch'[queue'[i]].rows # <<>> /\ batch'[queue'[i]].reason # "none"
              /\ ~ InFlight(queue[i])'
  BY SMTT(30), <1>6, <1>8, <1>1, <1>2 DEF Ownership, InFlight
<1>11. ASSUME NEW i \in DOMAIN queue', NEW j \in DOMAIN queue', queue'[i] = queue'[j]
       PROVE  i = j
  BY SMTT(30), <1>6, <1>11 DEF Ownership
<1>12. ASSUME NEW c \in Batch
       PROVE  /\ InFlight(c)' => batch'[c].rows # <<>> /\ batch'[c].reason # "none"
              /\ c \in crit'.picked => run'[c].phase = "none"
              /\ run'[c].phase = "none" => run'[c] = NoRun
              /\ c # active' /\ ~ Queued(c)' /\ ~ InFlight(c)' => batch'[c] = EmptyBatch
  BY ZenonT(30), <1>1, <1>3, <1>5, <1>2, <1>7 DEF Ownership, InFlight
<1> QED BY Zenon, <1>9, <1>10, <1>11, <1>12 DEF Ownership

\* The merge loop empties the next batch into the one just picked.
LEMMA Own_Merge ==
  ASSUME TypeOK, CritInv, Ownership, Merge
  PROVE  Ownership'
<1> DEFINE h == Head(queue)
           m == crit.into
<1>1. /\ queue # <<>> /\ m \in Batch /\ m \in crit.picked /\ h # m /\ h \in Batch
      /\ batch'[h] = EmptyBatch
      /\ batch'[m].rows = batch[m].rows \o batch[h].rows
      /\ batch'[m].reason = "linger"
      /\ \A c \in Batch : c # m /\ c # h => batch'[c] = batch[c]
      /\ queue' = Tail(queue) /\ UNCHANGED <<crit, active, run>>
  BY ZenonT(30), MergeFacts
<1>2. InFlight(m) /\ ~ InFlight(h) /\ h # active
  BY ZenonT(30), <1>1, HeadFacts DEF InFlight
<1>3. active \in Batch \cup {NoBatch} /\ m # active
  BY SMTT(30), <1>1, <1>2, RowFacts DEF TypeOK, Ownership
<1>4. batch'[m].rows # <<>>
  <2>1. batch[m].rows \in Seq(Row) /\ batch[h].rows \in Seq(Row)
    BY SMTT(30), <1>1 DEF TypeOK, BatchType
  <2>2. batch[h].rows # <<>>
    BY Zenon, <1>1, HeadFacts
  <2> QED BY SMTT(30), <2>1, <2>2, <1>1, ConcatNonEmpty
<1>5. \A i \in DOMAIN queue' : i \in Int /\ i + 1 # 1 /\ i + 1 \in DOMAIN queue /\ queue'[i] = queue[i + 1]
  BY Zenon, <1>1, TailFacts
<1>6. \A c \in Batch : Queued(c) <=> Queued(c)' \/ c = h
  BY Zenon, <1>1, TailFacts
<1>7. \A i \in DOMAIN queue' : queue'[i] \in Batch /\ queue'[i] # h
  BY Zenon, <1>1, TailFacts
<1> HIDE DEF h, m
<1>8. \A c \in Batch : InFlight(c)' <=> InFlight(c)
  BY Zenon, <1>1 DEF InFlight
<1>9. active' # NoBatch =>
        /\ batch'[active'].rows # <<>> /\ batch'[active'].reason = "none"
        /\ ~ Queued(active)' /\ ~ InFlight(active)'
  BY ZenonT(30), <1>1, <1>2, <1>3, <1>6 DEF Ownership, Queued, InFlight
<1>10. ASSUME NEW i \in DOMAIN queue'
       PROVE  /\ batch'[queue'[i]].rows # <<>> /\ batch'[queue'[i]].reason # "none"
              /\ ~ InFlight(queue[i])'
  BY SMTT(30), <1>5, <1>7, <1>1 DEF Ownership, InFlight
<1>11. ASSUME NEW i \in DOMAIN queue', NEW j \in DOMAIN queue', queue'[i] = queue'[j]
       PROVE  i = j
  BY SMTT(30), <1>5, <1>11 DEF Ownership
<1>12. ASSUME NEW c \in Batch
       PROVE  /\ InFlight(c)' => batch'[c].rows # <<>> /\ batch'[c].reason # "none"
              /\ c \in crit'.picked => run'[c].phase = "none"
              /\ run'[c].phase = "none" => run'[c] = NoRun
              /\ c # active' /\ ~ Queued(c)' /\ ~ InFlight(c)' => batch'[c] = EmptyBatch
  BY ZenonT(30), <1>1, <1>2, <1>8, <1>4, <1>6 DEF Ownership
<1> QED BY SMTT(30), <1>9, <1>10, <1>11, <1>12 DEF Ownership

\* dispatch hands every picked batch to one goroutine.
LEMMA Own_Unlock ==
  ASSUME TypeOK, Ownership, Unlock
  PROVE  Ownership'
<1>1. UNCHANGED <<active, queue, batch>> /\ crit'.picked = {}
      /\ \A c \in Batch : run'[c] = IF c \in crit.picked THEN NewRun ELSE run[c]
  BY Zenon DEF Unlock, Unlocked
<1>2. active \in Batch \cup {NoBatch} /\ \A i \in DOMAIN queue : queue[i] \in Batch
  BY DEF TypeOK
<1>3. \A c \in Batch : InFlight(c)' <=> InFlight(c)
  BY <1>1 DEF InFlight, NewRun
<1>4. \A c \in Batch : Queued(c)' <=> Queued(c)
  BY Zenon, <1>1 DEF Queued
<1>5. \A c \in Batch : run'[c].phase = "none" => run'[c] = NoRun
  BY <1>1 DEF NewRun, Ownership
<1>6. active # NoBatch => ~ Queued(active)' /\ ~ InFlight(active)'
  BY Zenon, <1>2, <1>1 DEF Ownership, Queued, InFlight
<1>7. \A i \in DOMAIN queue : ~ InFlight(queue[i])'
  BY ZenonT(30), <1>2, <1>1 DEF Ownership, InFlight
<1> QED BY SMTT(30), <1>1, <1>3, <1>4, <1>5, <1>6, <1>7 DEF Ownership

\* runBatch gives up its batch.
LEMMA Own_Settle ==
  ASSUME TypeOK, CritInv, Ownership, NEW b \in Batch, Settle(b)
  PROVE  Ownership'
<1>1. /\ UNCHANGED <<active, queue>> /\ run[b].phase # "none" /\ crit.pc = "free"
      /\ run' = [run EXCEPT ![b] = NoRun] /\ batch' = [batch EXCEPT ![b] = EmptyBatch]
  BY Zenon DEF Settle
<1>2. crit'.picked = {} /\ crit.picked = {}
  BY Zenon DEF Settle, TypeOK, CritType, CritInv
<1>3. /\ active \in Batch \cup {NoBatch} /\ \A i \in DOMAIN queue : queue[i] \in Batch
      /\ run'[b] = NoRun /\ batch'[b] = EmptyBatch
      /\ \A c \in Batch : c # b => run'[c] = run[c] /\ batch'[c] = batch[c]
  BY SMTT(30), <1>1 DEF TypeOK
<1>4. active # NoBatch => active # b /\ ~ Queued(active)' /\ ~ InFlight(active)'
  BY ZenonT(30), <1>3, <1>1, <1>2 DEF Ownership, InFlight, Queued
<1>5. \A i \in DOMAIN queue : queue[i] # b /\ ~ InFlight(queue[i])'
  BY SMTT(30), <1>3, <1>1, <1>2 DEF Ownership, InFlight
<1>6. \A c \in Batch : InFlight(c)' <=> InFlight(c) /\ c # b
  BY <1>2, <1>3 DEF InFlight, NoRun
<1>7. \A c \in Batch : Queued(c)' <=> Queued(c)
  BY ZenonT(30), <1>1 DEF Queued
<1>8. ASSUME NEW c \in Batch
      PROVE  /\ InFlight(c)' => batch'[c].rows # <<>> /\ batch'[c].reason # "none"
             /\ c \in crit'.picked => run'[c].phase = "none"
             /\ run'[c].phase = "none" => run'[c] = NoRun
             /\ c # active' /\ ~ Queued(c)' /\ ~ InFlight(c)' => batch'[c] = EmptyBatch
  BY SMTT(30), <1>2, <1>3, <1>6, <1>1, <1>7 DEF Ownership
<1> QED BY SMTT(30), <1>1, <1>3, <1>4, <1>5, <1>8 DEF Ownership

-----------------------------------------------------------------------------
(* The structural invariant.                                               *)

\* NewCopyBatcher establishes the invariant.
LEMMA StructureInit == Init => Structure
<1> SUFFICES ASSUME Init PROVE Structure
  BY Zenon
<1>1. TypeOK
  <2>1. crit \in CritType /\ submitted \in 0 .. NumRequests
    BY SMTT(30), ConfigAssumption DEF Init, Unlocked, CritType
  <2>2. batch \in [Batch -> BatchType]
    BY SMTT(30) DEF Init, EmptyBatch, BatchType, Reason
  <2>3. run \in [Batch -> RunType]
    BY SMTT(30) DEF Init, NoRun, RunType
  <2>4. req \in [Request -> RequestType]
    BY ConfigAssumption DEF Init, RequestType, Pending, FutureType, Mode
  <2>5. flush \in [Flushes -> FlushType]
    BY Zenon DEF Init, FlushType
  <2>6. active \in Batch \cup {NoBatch} /\ queue \in Seq(Batch) /\ inFlight \in Int
    BY DEF Init
  <2>7. pending \in SUBSET Request /\ confirmed \in SUBSET Row
    BY Zenon DEF Init
  <2>8. timer \in [Batch -> {"off", "armed", "fired"}]
    BY Zenon DEF Init
  <2>9. sent \in [Row -> Nat]
    BY Zenon DEF Init
  <2> QED BY SMTT(30), <2>1, <2>2, <2>3, <2>4, <2>5, <2>6, <2>7, <2>8, <2>9 DEF TypeOK
<1>2. CritInv
  BY ZenonT(30) DEF Init, Unlocked, CritInv
<1>3. Ownership
  BY DEF Init, Unlocked, Ownership, InFlight, NoRun
<1>4. FreshNames
  BY Zenon DEF Init, FreshNames
<1>5. Sizes
  BY SMTT(30), ConfigAssumption DEF Init, Sizes, CoalescedWithinLimit, EmptyBatch
<1> QED BY Zenon, <1>1, <1>2, <1>3, <1>4, <1>5 DEF Structure

\* A step that changes nothing preserves it.
LEMMA StructureStutter ==
  ASSUME Structure, UNCHANGED vars
  PROVE  Structure'
BY ZenonT(30) DEF Structure, vars, TypeOK, CritInv, Ownership, FreshNames, Sizes, CoalescedWithinLimit,
     InFlight, Queued

\* Every step of every caller, timer and goroutine preserves it.
LEMMA StructureStep ==
  ASSUME Structure, Next
  PROVE  Structure'
<1> USE DEF Structure
<1>1. CASE \E n \in RefusedSizes : SubmitRefused(n)
  BY Zenon, <1>1, Type_SubmitRefused, Crit_SubmitRefused, Own_Idle, Fresh_SubmitRefused, Sizes_Idle
<1>2. CASE \E n \in CoalescedSizes : SubmitCoalesced(n)
  BY Zenon, <1>2, Type_SubmitCoalesced, Crit_SubmitCoalesced, Own_Idle, Fresh_SubmitCoalesced,
     Sizes_Idle
<1>3. CASE \E n \in UnbatchedSizes : SubmitUnbatched(n)
  BY Zenon, <1>3, Type_SubmitUnbatched, Crit_Schedule, Own_SubmitUnbatched, Fresh_SubmitUnbatched,
     Sizes_SubmitUnbatched
<1>4. CASE AppendRows
  BY Zenon, <1>4, Type_AppendRows, Crit_AppendRows, Own_AppendRows, Fresh_AppendRows,
     Sizes_AppendRows
<1>5. CASE Dequeue
  BY Zenon, <1>5, Type_Dequeue, Crit_Dequeue, Own_Dequeue, Fresh_Others, Sizes_Idle
<1>6. CASE Merge
  BY Zenon, <1>6, Type_Merge, Crit_Merge, Own_Merge, Fresh_Others, Sizes_Merge
<1>7. CASE MergeEnds
  BY Zenon, <1>7, Type_MergeEnds, Crit_Schedule, Own_Idle, Fresh_Others, Sizes_Idle
<1>8. CASE Unlock
  BY Zenon, <1>8, Type_Unlock, Crit_Schedule, Own_Unlock, Fresh_Others, Sizes_Idle
<1>9. CASE \E b \in Batch : TimerExpires(b) \/ StaleTimer(b)
  BY Zenon, <1>9, Type_Timer, Crit_Timer, Own_Idle, Fresh_Others, Sizes_Idle
<1>10. CASE \E b \in Batch : FlushExpiredBatch(b)
  <2>1. active # NoBatch
    BY <1>10, RowFacts DEF FlushExpiredBatch
  <2> QED BY Zenon, <1>10, <2>1, Type_FlushExpiredBatch, Crit_Schedule, Own_Close, Fresh_Others,
          Sizes_Close
<1>11. CASE \E b \in Batch, err \in {{}, {"copy"}} : CopyOutcome(b, err)
  BY Zenon, <1>11, Type_CopyOutcome, Crit_Timer, Own_Run, Fresh_Others, Sizes_Idle
<1>12. CASE \E b \in Batch : FinishPart(b)
  BY Zenon, <1>12, Type_FinishPart, Crit_FinishPart, Own_Run, Fresh_Others, Sizes_Idle
<1>13. CASE \E b \in Batch : Settle(b)
  BY Zenon, <1>13, Type_Settle, Crit_Schedule, Own_Settle, Fresh_Others, Sizes_Settle
<1>14. CASE \E f \in Flushes : FlushAsync(f)
  <2>1. Ownership'
    BY Zenon, <1>14, Own_Close, Own_FlushNothing
  <2> QED BY Zenon, <1>14, <2>1, Type_FlushAsync, Crit_Schedule, Fresh_Others, Sizes_Close
<1>15. CASE \E f \in Flushes : FlushResolves(f)
  BY Zenon, <1>15, Type_FlushResolves, Crit_Timer, Own_Idle, Fresh_Others, Sizes_Idle
<1>16. CASE UNCHANGED vars
  BY Zenon, <1>16, StructureStutter
<1> QED BY SMTT(30), <1>1, <1>2, <1>3, <1>4, <1>5, <1>6, <1>7, <1>8, <1>9, <1>10, <1>11, <1>12, <1>13,
        <1>14, <1>15, <1>16, Steps

\* Between any two steps of the batcher every batch is in exactly one place,
\* named by a row of its own, and the locals of the mutex holder are valid.
THEOREM StructureInvariant == Spec => []Structure
<1>1. Structure /\ [Next]_vars => Structure'
  BY Zenon, StructureStep, StructureStutter
<1> QED BY <1>1, StructureInit, PTL DEF Spec

\* Every field of CopyBatcher and its helpers keeps its type.
THEOREM TypeCorrect == Spec => []TypeOK
<1>1. Structure => TypeOK
  BY Zenon DEF Structure
<1> QED BY <1>1, StructureInvariant, PTL

\* Splitting in appendRequestLocked and merging in dequeueLocked keep every
\* coalesced batch within MaxRowsPerBatch, for every limit and call size.
THEOREM CoalescedLimit == Spec => []CoalescedWithinLimit
<1>1. Structure => CoalescedWithinLimit
  BY Zenon DEF Structure, Sizes, CoalescedWithinLimit
<1> QED BY <1>1, StructureInvariant, PTL

=============================================================================
