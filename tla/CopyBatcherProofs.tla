------------------------- MODULE CopyBatcherProofs --------------------------
(***************************************************************************)
(* The theorems about CopyBatcher, for every number of calls, rows and     *)
(* flushes and every limit: inFlight counts the running COPYs and stays    *)
(* within MaxConcurrentBatches, no handler leaves the mutex with capacity  *)
(* to spare and a batch waiting, the books of split calls balance,         *)
(* CopyBatcher implements AsyncCopy, and the queue keeps rows in order.    *)
(*                                                                         *)
(* The structural invariant comes from CopyBatcherStructureProofs. What is *)
(* added here is what counts: the running batches and the parts of a call  *)
(* as cardinalities of finite sets.                                        *)
(***************************************************************************)
EXTENDS CopyBatcherAccountProofs, CopyBatcherPromiseProofs, FiniteSetTheorems

-----------------------------------------------------------------------------
(* Capacity.                                                               *)

\* The batches that hold capacity.
Running == {b \in Batch : InFlight(b)}

\* There are finitely many batches.
LEMMA FiniteBatch == IsFiniteSet(Batch)
<1>1. IsFiniteSet(Request) /\ IsFiniteSet(1 .. MaxRows)
  BY SMTT(30), FS_Interval, ConfigAssumption DEF Request
<1> QED BY Zenon, <1>1, FS_Product DEF Batch, Row

\* So finitely many are in flight.
LEMMA FiniteRunning == IsFiniteSet(Running)
<1>1. Running \subseteq Batch
  BY Zenon DEF Running
<1> QED BY ZenonT(30), <1>1, FiniteBatch, FS_Subset

\* The steps that neither take nor return capacity.
LEMMA Capacity_Frame ==
  ASSUME ConcurrencyLimit, UNCHANGED inFlight,
         \A b \in Batch : InFlight(b)' <=> InFlight(b)
  PROVE  ConcurrencyLimit'
<1>1. {b \in Batch : InFlight(b)}' = {b \in Batch : InFlight(b)}
  BY Zenon
<1> QED BY Zenon, <1>1 DEF ConcurrencyLimit

\* Submitting, expiring, flushing and merging take no capacity.
LEMMA Capacity_Others ==
  ASSUME Structure, ConcurrencyLimit,
         \/ \E n \in RefusedSizes : SubmitRefused(n)
         \/ \E n \in CoalescedSizes : SubmitCoalesced(n)
         \/ \E n \in UnbatchedSizes : SubmitUnbatched(n)
         \/ AppendRows \/ Merge \/ MergeEnds
         \/ \E b \in Batch : TimerExpires(b) \/ StaleTimer(b)
         \/ \E b \in Batch : FlushExpiredBatch(b)
         \/ \E f \in Flushes : FlushAsync(f)
         \/ \E f \in Flushes : FlushResolves(f)
         \/ UNCHANGED vars
  PROVE  ConcurrencyLimit'
<1>1. UNCHANGED <<inFlight, run>>
  BY Zenon DEF SubmitRefused, SubmitCoalesced, SubmitUnbatched, AppendRows, Merge, MergeEnds,
       TimerExpires, StaleTimer, FlushExpiredBatch, FlushAsync, FlushResolves, vars
<1>2. crit'.picked = crit.picked
  <2>1. crit \in CritType
    BY Zenon DEF Structure, TypeOK
  <2>2. CASE \E n \in CoalescedSizes : SubmitCoalesced(n)
    BY Zenon, <2>1, <2>2 DEF SubmitCoalesced, CritType
  <2>3. CASE \E n \in UnbatchedSizes : SubmitUnbatched(n)
    BY Zenon, <2>1, <2>3 DEF SubmitUnbatched, CritType
  <2>4. CASE AppendRows
    <3>1. PICK r \in Request, i \in 1 .. MaxRows, b \in Batch, n \in Nat \ {0} : Appends(r, i, b, n)
      BY Zenon, <2>4, AppendShape
    <3> QED BY Zenon, <3>1 DEF Appends
  <2>5. CASE MergeEnds
    BY Zenon, <2>1, <2>5 DEF MergeEnds, CritType
  <2>6. CASE \E b \in Batch : FlushExpiredBatch(b)
    BY Zenon, <2>1, <2>6 DEF FlushExpiredBatch, CritType
  <2>7. CASE \E f \in Flushes : FlushAsync(f)
    BY Zenon, <2>1, <2>7 DEF FlushAsync, CritType
  <2>8. CASE crit' = crit
    BY Zenon, <2>8
  <2> QED BY ZenonT(30), <2>2, <2>3, <2>4, <2>5, <2>6, <2>7, <2>8
       DEF SubmitRefused, Merge, TimerExpires, StaleTimer, FlushResolves, vars
<1>3. \A b \in Batch : InFlight(b)' <=> InFlight(b)
  BY Zenon, <1>1, <1>2 DEF InFlight
<1> QED BY ZenonT(30), <1>1, <1>3, Capacity_Frame

\* Nor do the steps of runBatch before its last one.
LEMMA Capacity_Run ==
  ASSUME Structure, ConcurrencyLimit, NEW b \in Batch,
         FinishPart(b) \/ \E err \in {{}, {"copy"}} : CopyOutcome(b, err)
  PROVE  ConcurrencyLimit'
<1>1. UNCHANGED <<inFlight, crit>>
  BY Zenon DEF FinishPart, CopyOutcome
<1>2. run \in [Batch -> RunType]
  BY Zenon DEF Structure, TypeOK
<1>3. run[b].phase # "none" /\ run'[b].phase # "none" /\ \A c \in Batch : c # b => run'[c] = run[c]
  <2>1. CASE FinishPart(b)
    BY ZenonT(30), <1>2, <2>1 DEF FinishPart, RunType
  <2>2. CASE \E err \in {{}, {"copy"}} : CopyOutcome(b, err)
    BY SMTT(30), <1>2, <2>2 DEF CopyOutcome, RunType
  <2> QED BY Zenon, <2>1, <2>2
<1>4. \A c \in Batch : InFlight(c)' <=> InFlight(c)
  BY Zenon, <1>1, <1>3 DEF InFlight
<1> QED BY ZenonT(30), <1>1, <1>4, Capacity_Frame

\* dispatch hands the picked batches over to goroutines.
LEMMA Capacity_Unlock ==
  ASSUME Structure, ConcurrencyLimit, Unlock
  PROVE  ConcurrencyLimit'
<1>1. UNCHANGED inFlight /\ crit'.picked = {}
      /\ \A c \in Batch : run'[c] = IF c \in crit.picked THEN NewRun ELSE run[c]
  BY Zenon DEF Unlock, Unlocked
<1>2. \A c \in Batch : InFlight(c)' <=> InFlight(c)
  BY <1>1 DEF InFlight, NewRun
<1> QED BY Zenon, <1>1, <1>2, Capacity_Frame

\* scheduleLocked takes one unit of capacity for one batch that had none.
LEMMA Capacity_Dequeue ==
  ASSUME Structure, ConcurrencyLimit, Dequeue
  PROVE  ConcurrencyLimit'
<1> DEFINE h == Head(queue)
<1>1. /\ queue # <<>> /\ UNCHANGED run /\ inFlight' = inFlight + 1
      /\ inFlight < MaxConcurrentBatches
  BY Zenon DEF Dequeue, HasCapacity
<1>2. crit'.picked = crit.picked \cup {h}
  BY Zenon DEF Dequeue, Structure, TypeOK, CritType
<1>3. h \in Batch /\ ~ InFlight(h)
  BY Zenon, <1>1, HeadFacts DEF Structure
<1> HIDE DEF h
<1>4. Running' = Running \cup {h} /\ h \notin Running
  BY Zenon, <1>1, <1>2, <1>3 DEF Running, InFlight
<1>5. Cardinality(Running') = Cardinality(Running) + 1
  BY ZenonT(30), <1>4, FiniteRunning, FS_AddElement
<1>6. inFlight = Cardinality(Running) /\ inFlight \in Int
  BY Zenon DEF ConcurrencyLimit, Running, Structure, TypeOK
<1>7. inFlight' = Cardinality(Running') /\ inFlight' <= MaxConcurrentBatches
  BY SMTT(30), <1>1, <1>5, <1>6, ConfigAssumption
<1> QED BY Zenon, <1>7 DEF ConcurrencyLimit, Running

\* runBatch returns the unit its batch held.
LEMMA Capacity_Settle ==
  ASSUME Structure, ConcurrencyLimit, NEW b \in Batch, Settle(b)
  PROVE  ConcurrencyLimit'
<1>1. /\ run[b].phase # "none" /\ crit.pc = "free" /\ inFlight' = inFlight - 1
      /\ run' = [run EXCEPT ![b] = NoRun]
  BY Zenon DEF Settle
<1>2. crit'.picked = {} /\ crit.picked = {}
  BY Zenon DEF Settle, Structure, TypeOK, CritType, CritInv
<1>3. run'[b] = NoRun /\ \A c \in Batch : c # b => run'[c] = run[c]
  BY Zenon, <1>1 DEF Structure, TypeOK
<1>4. Running' = Running \ {b} /\ b \in Running
  <2>1. InFlight(b) /\ ~ InFlight(b)'
    BY SMTT(30), <1>1, <1>2, <1>3 DEF InFlight, NoRun
  <2>2. \A c \in Batch : c # b => (InFlight(c)' <=> InFlight(c))
    BY Zenon, <1>2, <1>3 DEF InFlight
  <2>3. Running' = {c \in Batch : InFlight(c)'}
    BY Zenon DEF Running, Batch, Row, Request
  <2> QED BY ZenonT(30), <2>1, <2>2, <2>3, Zenon DEF Running
<1>5. Cardinality(Running') = Cardinality(Running) - 1
  BY ZenonT(30), <1>4, FiniteRunning, FS_RemoveElement
<1>6. inFlight = Cardinality(Running) /\ inFlight \in Int /\ inFlight <= MaxConcurrentBatches
  BY Zenon DEF ConcurrencyLimit, Running, Structure, TypeOK
<1>7. inFlight' = Cardinality(Running') /\ inFlight' <= MaxConcurrentBatches
  BY SMTT(30), <1>1, <1>5, <1>6, ConfigAssumption
<1> QED BY Zenon, <1>7 DEF ConcurrencyLimit, Running

\* A new batcher runs nothing.
LEMMA CapacityInit == Init => ConcurrencyLimit
<1> SUFFICES ASSUME Init PROVE ConcurrencyLimit
  BY Zenon
<1>1. {b \in Batch : InFlight(b)} = {}
  BY Zenon DEF Init, Unlocked, NoRun, InFlight
<1>2. inFlight = 0
  BY Zenon DEF Init
<1> QED BY SMTT(30), <1>1, <1>2, FS_EmptySet, ConfigAssumption DEF ConcurrencyLimit

\* inFlight is the number of batches in flight, and scheduleLocked keeps it
\* within MaxConcurrentBatches, for every limit.
THEOREM Concurrency == Spec => []ConcurrencyLimit
<1>1. Structure /\ ConcurrencyLimit /\ [Next]_vars => ConcurrencyLimit'
  <2> SUFFICES ASSUME Structure, ConcurrencyLimit, [Next]_vars PROVE ConcurrencyLimit'
    BY Zenon
  <2>1. CASE UNCHANGED vars
    BY ZenonT(30), <2>1, Capacity_Others
  <2>2. CASE Next
    BY ZenonT(30), <2>2, Steps, Capacity_Others, Capacity_Run, Capacity_Unlock, Capacity_Dequeue,
       Capacity_Settle
  <2> QED BY ZenonT(30), <2>1, <2>2
<1> QED BY <1>1, CapacityInit, StructureInvariant, PTL DEF Spec

\* Every critical section ends with scheduleLocked.
LEMMA WorkStep ==
  ASSUME Structure, ConcurrencyLimit, ConcurrencyLimit', WorkConserving, [Next]_vars
  PROVE  WorkConserving'
<1> SUFFICES ASSUME crit'.pc = "free", queue' # <<>>
             PROVE  inFlight' = MaxConcurrentBatches
  BY Zenon DEF WorkConserving
<1>1. CASE Unlock
  <2>1. UNCHANGED <<queue, inFlight>> /\ ~ HasCapacity
    BY ZenonT(30), <1>1 DEF Unlock
  <2>2. inFlight \in Int /\ inFlight <= MaxConcurrentBatches
    BY Zenon DEF ConcurrencyLimit, Structure, TypeOK
  <2>3. ~ (inFlight < MaxConcurrentBatches)
    BY Zenon, <2>1 DEF HasCapacity
  <2> QED BY SMTT(30), <2>1, <2>2, <2>3, ConfigAssumption
<1>2. CASE UNCHANGED <<crit, queue, inFlight>>
  BY Zenon, <1>2 DEF WorkConserving
<1>3. crit \in CritType
  BY Zenon DEF Structure, TypeOK
<1>4. ASSUME NEW n, SubmitCoalesced(n) PROVE crit'.pc = "append"
  BY ZenonT(30), <1>3, <1>4 DEF SubmitCoalesced, CritType
<1>5. ASSUME NEW n, SubmitUnbatched(n) PROVE crit'.pc = "schedule"
  BY SMTT(30), <1>3, <1>5 DEF SubmitUnbatched, CritType
<1>6. ASSUME AppendRows PROVE crit'.pc # "free"
  BY SMTT(30), <1>3, <1>6 DEF AppendRows, CritType
<1>7. ASSUME Dequeue \/ MergeEnds PROVE crit'.pc # "free"
  BY ZenonT(30), <1>3, <1>7 DEF Dequeue, MergeEnds, CritType
<1>8. ASSUME Merge PROVE crit'.pc = "merge"
  BY Zenon, <1>8 DEF Merge
<1>9. ASSUME NEW b, FlushExpiredBatch(b) \/ Settle(b) PROVE crit'.pc = "schedule"
  BY ZenonT(30), <1>3, <1>9 DEF FlushExpiredBatch, Settle, CritType
<1>10. ASSUME NEW f, FlushAsync(f) PROVE crit'.pc = "schedule"
  BY ZenonT(30), <1>3, <1>10 DEF FlushAsync, CritType
<1>11. CASE UNCHANGED vars
  BY ZenonT(30), <1>2, <1>11 DEF vars
<1>12. CASE Next
  BY ZenonT(30), <1>1, <1>2, <1>4, <1>5, <1>6, <1>7, <1>8, <1>9, <1>10, <1>12, Steps
     DEF SubmitRefused, TimerExpires, StaleTimer, CopyOutcome, FinishPart, FlushResolves, vars
<1> QED BY ZenonT(30), <1>11, <1>12

\* No handler of the batcher releases the mutex with capacity to spare and a
\* batch waiting.
THEOREM NoIdleCapacity == Spec => []WorkConserving
<1>1. Init => WorkConserving
  BY Zenon DEF Init, WorkConserving
<1>2. Structure /\ ConcurrencyLimit /\ ConcurrencyLimit' /\ WorkConserving /\ [Next]_vars
        => WorkConserving'
  BY Zenon, WorkStep
<1> QED BY <1>1, <1>2, StructureInvariant, Concurrency, PTL DEF Spec

-----------------------------------------------------------------------------
(* The accounting.                                                         *)

\* Finitely many batches hold a part of a call.
LEMMA FiniteHolders == \A r : IsFiniteSet(Holders(r))
<1>1. \A r : Holders(r) \in SUBSET Batch
  BY Zenon DEF Holders
<1> QED BY ZenonT(30), <1>1, FiniteBatch, FS_Subset

\* Appending, finishing and merging keep the number of parts of a call.
LEMMA CountedStep ==
  ASSUME TypeOK, Counted,
         \/ PartsStay
         \/ \E r \in Request, b \in Batch : AddsPart(r, b) \/ EndsPart(r, b)
         \/ \E b, n \in Batch : MovesParts(b, n)
  PROVE  Counted'
<1>1. ASSUME NEW S, NEW T, NEW m, NEW m1, NEW b, IsFiniteSet(S), m = Cardinality(S),
             \/ T = S \cup {b} /\ b \notin S /\ m1 = m + 1
             \/ T = S \ {b} /\ b \in S /\ m1 = m - 1
      PROVE  m1 = Cardinality(T)
  <2>1. CASE T = S \cup {b} /\ b \notin S /\ m1 = m + 1
    BY ZenonT(30), <1>1, <2>1, FS_AddElement
  <2>2. CASE T = S \ {b} /\ b \in S /\ m1 = m - 1
    BY ZenonT(30), <1>1, <2>2, FS_RemoveElement
  <2> QED BY ZenonT(30), <1>1, <2>1, <2>2
<1>2. ASSUME NEW S, NEW b, NEW n, IsFiniteSet(S), b \notin S, n \in S
      PROVE  Cardinality((S \ {n}) \cup {b}) = Cardinality(S)
  <2>1. IsFiniteSet(S \ {n}) /\ Cardinality(S \ {n}) = Cardinality(S) - 1
    BY ZenonT(30), <1>2, FS_RemoveElement
  <2>2. Cardinality((S \ {n}) \cup {b}) = Cardinality(S \ {n}) + 1
    BY ZenonT(30), <1>2, <2>1, FS_AddElement
  <2>3. Cardinality(S) \in Nat
    BY ZenonT(30), <1>2, FS_CardinalityType
  <2> QED BY SMTT(30), <2>1, <2>2, <2>3
<1>3. ASSUME NEW r \in Request, NEW b \in Batch, AddsPart(r, b) \/ EndsPart(r, b)
      PROVE  Counted'
  <2>1. \A q \in Request \ {r} : req'[q].parts = Cardinality(Holders(q)')
    BY Zenon, <1>3 DEF AddsPart, EndsPart, Counted
  <2>2. req'[r].parts = Cardinality(Holders(r)')
    <3>1. IsFiniteSet(Holders(r)) /\ req[r].parts = Cardinality(Holders(r))
      BY Zenon, FiniteHolders DEF Counted
    <3>2. \/ /\ Holders(r)' = Holders(r) \cup {b} /\ b \notin Holders(r)
             /\ req'[r].parts = req[r].parts + 1
          \/ /\ Holders(r)' = Holders(r) \ {b} /\ b \in Holders(r)
             /\ req'[r].parts = req[r].parts - 1
      BY Zenon, <1>3 DEF AddsPart, EndsPart
    <3> QED BY ZenonT(30), <1>1, <3>1, <3>2
  <2> QED BY ZenonT(30), <2>1, <2>2 DEF Counted
<1>4. ASSUME NEW b \in Batch, NEW n \in Batch, MovesParts(b, n)
      PROVE  Counted'
  <2>1. ASSUME NEW q \in Request PROVE req'[q].parts = Cardinality(Holders(q)')
    <3>1. IsFiniteSet(Holders(q)) /\ req'[q].parts = Cardinality(Holders(q))
      BY ZenonT(30), <1>4, FiniteHolders DEF MovesParts, Counted
    <3>2. CASE n \in Holders(q)
      <4>1. Holders(q)' = (Holders(q) \ {n}) \cup {b} /\ b \notin Holders(q)
        BY ZenonT(30), <1>4, <3>2 DEF MovesParts
      <4>2. Cardinality((Holders(q) \ {n}) \cup {b}) = Cardinality(Holders(q))
        BY ZenonT(30), <1>2, <3>1, <3>2, <4>1
      <4> QED BY ZenonT(30), <3>1, <4>1, <4>2
    <3>3. CASE n \notin Holders(q)
      BY ZenonT(30), <1>4, <3>1, <3>3 DEF MovesParts
    <3> QED BY ZenonT(30), <3>2, <3>3
  <2> QED BY Zenon, <2>1 DEF Counted
<1> QED BY Zenon, <1>3, <1>4 DEF PartsStay

\* A call has parts exactly while some batch holds one of them.
LEMMA PartsHeld ==
  ASSUME Counted
  PROVE  \A r \in Request : /\ Holders(r) # {} => req[r].parts >= 1
                            /\ req[r].parts = 0 => Holders(r) = {}
<1> SUFFICES ASSUME NEW r \in Request
             PROVE  /\ Holders(r) # {} => req[r].parts >= 1
                    /\ req[r].parts = 0 => Holders(r) = {}
  BY Zenon
<1>1. /\ Cardinality(Holders(r)) \in Nat
      /\ Cardinality(Holders(r)) = 0 <=> Holders(r) = {}
  BY ZenonT(30), FiniteHolders, FS_CardinalityType, FS_EmptySet
<1>2. req[r].parts = Cardinality(Holders(r))
  BY Zenon DEF Counted
<1> QED BY SMTT(30), <1>1, <1>2

\* appendRequestLocked, runBatch and finishPart keep the books of every call,
\* for every number of calls and rows and every batch limit: no row, part or
\* error of a split call is lost or counted twice.
THEOREM AccountingHolds == Spec => []Accounting
<1>1. Init => AccountInv /\ Counted
  <2> SUFFICES ASSUME Init PROVE AccountInv /\ Counted
    BY Zenon
  <2>1. AccountInv /\ \A r \in Request : req[r].parts = 0 /\ Holders(r) = {}
    BY Zenon, AccountInit
  <2> QED BY ZenonT(30), <2>1, FS_EmptySet DEF Counted
<1>2. Structure /\ AccountInv /\ Counted /\ [Next]_vars => AccountInv' /\ Counted'
  <2> SUFFICES ASSUME Structure, AccountInv, Counted, [Next]_vars
               PROVE  AccountInv' /\ Counted'
    BY Zenon
  <2>1. TypeOK
    BY Zenon DEF Structure
  <2> QED BY ZenonT(30), <2>1, PartsHeld, AccountStep, CountedStep
<1> QED BY <1>1, <1>2, StructureInvariant, PTL DEF Spec, Accounting

-----------------------------------------------------------------------------
(* What callers are promised.                                              *)

\* A Future resolves after every row of its call went out once, and without
\* an error exactly when every COPY that carried one of them succeeded.
THEOREM ResultsHonestHolds == Spec => []ResultsHonest
<1>1. Structure /\ AccountInv /\ Counted => ResultsHonest
  BY ZenonT(30), Honest, PartsHeld
<1> QED BY <1>1, StructureInvariant, AccountingHolds, PTL DEF Accounting

\* CopyBatcher implements AsyncCopy, for every number of calls, rows and
\* flushes and every limit: what callers of submit and FlushAsync see of the
\* batches, timers, merges and goroutines is what the abstract specification
\* allows.
THEOREM RefinesAsyncCopy == Spec => ImplementsAsyncCopy
<1>1. Init => FlushInv /\ Promise!Init
  BY Zenon, SimulationInit
<1>2. Structure /\ AccountInv /\ Counted /\ FlushInv /\ ResultsHonest' /\ [Next]_vars
        => FlushInv' /\ [Promise!Next]_(Promise!vars)
  <2> SUFFICES ASSUME Structure, AccountInv, Counted, FlushInv, ResultsHonest', [Next]_vars
               PROVE  FlushInv' /\ [Promise!Next]_(Promise!vars)
    BY Zenon
  <2>1. FlushInv' /\ (Promise!Next \/ UNCHANGED Promise!vars)
    BY ZenonT(30), PartsHeld, SimulationStep
  <2> QED BY Zenon, <2>1
<1> QED
  BY <1>1, <1>2, StructureInvariant, AccountingHolds, ResultsHonestHolds, PTL
     DEF Spec, Accounting, ImplementsAsyncCopy, Promise!Spec

\* Merging batches in dequeueLocked and SubmitUnbatched overtaking the open
\* batch change neither the order in which coalesced rows reach a COPY nor
\* put other rows into the COPY of an unbatched call.
THEOREM QueueDisciplineHolds == Spec => []QueueDiscipline
<1>1. Init => OrderInv /\ AloneInv
  BY Zenon, OrderInit
<1>2. Structure /\ AccountInv /\ OrderInv /\ AloneInv /\ [Next]_vars => OrderInv' /\ AloneInv'
  BY ZenonT(30), OrderStep, AloneStep
<1>3. Structure /\ AccountInv /\ OrderInv /\ AloneInv => QueueDiscipline
  BY Zenon, Discipline DEF Structure
<1> QED BY <1>1, <1>2, <1>3, StructureInvariant, AccountingHolds, PTL DEF Spec, Accounting
=============================================================================
