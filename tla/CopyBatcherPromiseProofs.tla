---------------------- MODULE CopyBatcherPromiseProofs ----------------------
(***************************************************************************)
(* What the steps of CopyBatcher look like to its callers: each one is a   *)
(* step of AsyncCopy, or changes nothing a caller can see                  *)
(* (SimulationStep); and each keeps the rows of coalesced calls in order   *)
(* (OrderStep) and unbatched calls by themselves (AloneStep).              *)
(***************************************************************************)
EXTENDS CopyBatcherStructureProofs, CopyBatcherPromise

-----------------------------------------------------------------------------
(* The caller's view.                                                      *)

\* What the state of a call is.
LEMMA StateFacts ==
  ASSUME NEW r \in Request
  PROVE  /\ req[r].mode = "none" => StateOf(r) = "new"
         /\ req[r].mode = "refused" => StateOf(r) = "refused"
         /\ Accepted(r) /\ ~ req[r].result.done => StateOf(r) = "accepted"
         /\ Accepted(r) /\ req[r].result.done /\ req[r].result.err = {} => StateOf(r) = "stored"
         /\ Accepted(r) /\ req[r].result.done /\ req[r].result.err # {} => StateOf(r) = "failed"
BY DEF StateOf, Accepted

\* And after a step.
LEMMA StateFactsPrimed ==
  ASSUME NEW r \in Request
  PROVE  /\ req'[r].mode = "refused" => StateOf(r)' = "refused"
         /\ Accepted(r)' /\ ~ req'[r].result.done => StateOf(r)' = "accepted"
         /\ Accepted(r)' /\ req'[r].result.done /\ req'[r].result.err = {}
              => StateOf(r)' = "stored"
         /\ Accepted(r)' /\ req'[r].result.done /\ req'[r].result.err # {}
              => StateOf(r)' = "failed"
BY DEF StateOf, Accepted

\* A call was accepted exactly if it waits or has a result.
LEMMA StateOfAccepted ==
  ASSUME TypeOK, NEW r \in Request
  PROVE  /\ StateOf(r) = "accepted" <=> Accepted(r) /\ ~ req[r].result.done
         /\ StateOf(r) \in {"accepted", "stored", "failed"} <=> Accepted(r)
<1>1. req[r].mode \in {"none", "refused", "coalesced", "unbatched"}
  BY Zenon DEF TypeOK, RequestType, Mode
<1>2. CASE Accepted(r)
  BY <1>2, StateFacts
<1>3. CASE ~ Accepted(r)
  BY <1>1, <1>3, StateFacts DEF Accepted
<1> QED
  BY Zenon, <1>2, <1>3

\* A step that changes one flush.
LEMMA BarrierChange ==
  ASSUME NEW f \in Flushes, NEW v, BarrierOf(f)' = v,
         \A g \in Flushes \ {f} : BarrierOf(g)' = BarrierOf(g)
  PROVE  Barrier[f] = BarrierOf(f) /\ Barrier' = [Barrier EXCEPT ![f] = v]
BY Zenon DEF Barrier

\* A step after which no caller, row or flush looks different.
LEMMA Sim_Stutter ==
  ASSUME UNCHANGED <<submitted, sent, confirmed>>,
         \A r \in Request : /\ req'[r].mode = req[r].mode /\ req'[r].rowCount = req[r].rowCount
                            /\ req'[r].result = req[r].result,
         \A f \in Flushes : BarrierOf(f)' = BarrierOf(f)
  PROVE  UNCHANGED Promise!vars
<1>1. CallSize' = CallSize
  BY Zenon DEF CallSize
<1>2. \A r \in Request : StateOf(r)' = StateOf(r)
  BY Zenon DEF StateOf
<1>3. CallState' = CallState
  BY Zenon, <1>2 DEF CallState
<1>4. RowOutcome' = RowOutcome
  BY Zenon DEF RowOutcome
<1>5. Barrier' = Barrier
  BY Zenon DEF Barrier
<1> QED
  BY Zenon, <1>1, <1>3, <1>4, <1>5 DEF Promise!vars

\* A step that makes call r, of n rows.
LEMMA Sim_Call ==
  ASSUME NEW r \in Request, r = submitted + 1, submitted' = r, submitted < NumRequests,
         NEW n \in 0 .. MaxRows, NEW answer, StateOf(r)' = answer, req'[r].rowCount = n,
         \A q \in Request \ {r} : req'[q] = req[q],
         UNCHANGED <<flush, sent, confirmed>>
  PROVE  Promise!Call(n, answer)
<1>1. CallSize' = [CallSize EXCEPT ![r] = n]
  BY Zenon DEF CallSize
<1>2. \A q \in Request \ {r} : StateOf(q)' = StateOf(q)
  BY Zenon DEF StateOf
<1>3. CallState' = [CallState EXCEPT ![r] = answer]
  BY Zenon, <1>2 DEF CallState
<1>4. RowOutcome' = RowOutcome /\ Barrier' = Barrier
  BY Zenon DEF RowOutcome, Barrier, BarrierOf
<1> QED
  BY Zenon, <1>1, <1>3, <1>4 DEF Promise!Call

\* A goroutine whose COPY has not returned holds a part of every call in its
\* batch, so that none of their Futures is resolved.
LEMMA Sim_Copy ==
  ASSUME TypeOK, AccountInv, NEW b \in Batch, NEW err, CopyOutcome(b, err),
         \A r \in Request : Holders(r) # {} => req[r].parts >= 1
  PROVE  \E rows \in SUBSET Row, result \in {"stored", "lost"} : Promise!Copy(rows, result)
<1> DEFINE rows == RowsOf(b)
           result == IF err = {} THEN "stored" ELSE "lost"
<1>1. run[b].phase = "copying" /\ run[b] = NewRun
  BY Zenon DEF CopyOutcome, AccountInv, Copying
<1>2. run[b].next = 1
  BY <1>1 DEF NewRun
<1>3. batch[b].rows \in Seq(Row) /\ batch[b].requests \in Seq(Request)
  BY Zenon DEF TypeOK, BatchType
<1>4. rows \in SUBSET Row
  BY <1>3 DEF RowsOf
<1>5. ASSUME NEW r \in Request, NEW j \in 1 .. MaxRows, <<r, j>> \in rows
      PROVE  /\ Accepted(r) /\ j <= req[r].rowCount /\ ~ req[r].result.done
             /\ sent[<<r, j>>] = 0 /\ <<r, j>> \notin confirmed
  <2>1. Contains(b, <<r, j>>)
    BY Zenon, <1>5 DEF RowsOf, Contains
  <2>2. RowState(b, r, j) /\ RowFate(r, j)
    BY Zenon, <2>1 DEF AccountInv, RowsInv
  <2>3. /\ Lists(b, r) /\ Accepted(r) /\ j <= req[r].rowCount
        /\ sent[<<r, j>>] = 0 /\ <<r, j>> \notin confirmed
    BY Zenon, <2>2, <1>1 DEF RowState, RowFate
  <2>4. Holds(b, r)
    BY <2>3, <1>2, <1>3 DEF Lists, Holds
  <2>5. req[r].parts >= 1
    BY Zenon, <2>4 DEF Holders
  <2>6. req[r].parts # 0
    BY <2>5
  <2> QED
    BY Zenon, <2>3, <2>6 DEF AccountInv, Futures
<1>6. ASSUME NEW row \in rows
      PROVE  CallState[row[1]] = "accepted" /\ row[2] <= CallSize[row[1]]
             /\ RowOutcome[row] = "waiting"
  <2>1. PICK r \in Request, j \in 1 .. MaxRows : row = <<r, j>>
    BY <1>4, RowFacts
  <2>2. /\ Accepted(r) /\ j <= req[r].rowCount /\ ~ req[r].result.done
        /\ sent[<<r, j>>] = 0 /\ <<r, j>> \notin confirmed /\ <<r, j>> \in Row
    BY Zenon, <1>4, <1>5, <2>1
  <2>3. StateOf(r) = "accepted"
    BY Zenon, <2>2, StateFacts
  <2>4. ~ (sent[<<r, j>>] > 0)
    BY <2>2
  <2>5. RowOutcome[<<r, j>>] = "waiting"
    BY Zenon, <2>2, <2>4 DEF RowOutcome
  <2>6. CallState[r] = "accepted" /\ j <= CallSize[r]
    BY Zenon, <2>2, <2>3 DEF CallState, CallSize
  <2> QED
    BY <2>1, <2>5, <2>6
<1>7. RowOutcome' = [row \in Row |-> IF row \in rows THEN result ELSE RowOutcome[row]]
  <2>1. /\ sent' = [row \in Row |-> IF row \in rows THEN sent[row] + 1 ELSE sent[row]]
        /\ confirmed' = IF err = {} THEN confirmed \cup rows ELSE confirmed
    BY Zenon DEF CopyOutcome, RowsOf
  <2>2. ASSUME NEW row \in Row
        PROVE  RowOutcome'[row] = IF row \in rows THEN result ELSE RowOutcome[row]
    <3>1. CASE row \in rows
      <4>1. sent'[row] > 0 /\ row \notin confirmed
        <5>1. PICK r \in Request, j \in 1 .. MaxRows : row = <<r, j>>
          BY RowFacts
        <5>2. sent[row] = 0 /\ row \notin confirmed
          BY Zenon, <3>1, <5>1, <1>5
        <5> QED
          BY <2>1, <3>1, <5>2
      <4>2. row \in confirmed' <=> err = {}
        BY Zenon, <2>1, <3>1, <4>1
      <4> QED
        BY Zenon, <3>1, <4>1, <4>2 DEF RowOutcome
    <3>2. CASE row \notin rows
      <4>1. sent'[row] = sent[row] /\ (row \in confirmed' <=> row \in confirmed)
        BY Zenon, <2>1, <3>2
      <4> QED
        BY Zenon, <3>2, <4>1 DEF RowOutcome
    <3> QED
      BY Zenon, <3>1, <3>2
  <2>3. RowOutcome' = [row \in Row |-> RowOutcome'[row]]
    BY Zenon DEF RowOutcome
  <2> QED
    BY Zenon, <2>2, <2>3
<1>8. UNCHANGED <<submitted, CallSize, CallState, Barrier>>
  BY Zenon DEF CopyOutcome, CallSize, CallState, StateOf, Barrier, BarrierOf
<1>9. Promise!Row = Row
  BY Zenon DEF Promise!Row, Promise!Request, Row, Request
<1> HIDE DEF rows, result
<1>10. Promise!Copy(rows, result)
  BY Zenon, <1>6, <1>7, <1>8, <1>9 DEF Promise!Copy
<1> QED
  BY Zenon, <1>4, <1>10 DEF result

\* The last part of a call resolves its Future when every row has been carried.
LEMMA Sim_Resolve ==
  ASSUME TypeOK, AccountInv, ResultsHonest', NEW b \in Batch, NEW r \in Request,
         Finishes(r, b), req[r].parts = 1, UNCHANGED flush
  PROVE  Promise!ResolveCall(r)
<1>1. /\ Lists(b, r) /\ req'[r].mode = req[r].mode /\ req'[r].rowCount = req[r].rowCount
      /\ req'[r].result = Resolve(req[r].result, IF req'[r].errs = {} THEN req[r].rowCount ELSE 0,
                                  req'[r].errs)
      /\ \A q \in Request \ {r} : req'[q] = req[q]
      /\ UNCHANGED <<submitted, sent, confirmed>>
  BY Zenon DEF Finishes
<1>2. Accepted(r)
  BY Zenon, <1>1 DEF AccountInv, Listed, RowsInv, RowState
<1>3. ~ req[r].result.done
  <2>1. req[r].parts # 0
    OBVIOUS
  <2> QED
    BY Zenon, <1>2, <2>1 DEF AccountInv, Futures
<1>4. Accepted(r)' /\ req'[r].result.done
  <2>1. Accepted(r)'
    BY Zenon, <1>1, <1>2 DEF Accepted
  <2>2. req'[r].result = [done |-> TRUE, err |-> req'[r].errs,
                          value |-> IF req'[r].errs = {} THEN req[r].rowCount ELSE 0]
    BY Zenon, <1>1, <1>3 DEF Resolve
  <2>3. req'[r].result.done
    BY <2>2
  <2> QED
    BY Zenon, <2>1, <2>3
<1>5. \A j \in 1 .. req[r].rowCount :
        sent[<<r, j>>] = 1 /\ <<r, j>> \in Row
  <2>1. \A j \in 1 .. req[r].rowCount : sent[<<r, j>>] = 1
    BY Zenon, <1>1, <1>4 DEF ResultsHonest
  <2>2. req[r].rowCount \in 0 .. MaxRows
    BY Zenon DEF TypeOK, RequestType
  <2>3. \A j \in 1 .. req[r].rowCount : j \in 1 .. MaxRows
    BY <2>2, ConfigAssumption
  <2> QED
    BY Zenon, <2>1, <2>3, RowFacts
<1>6. req'[r].result.err = {} <=> \A j \in 1 .. req[r].rowCount : <<r, j>> \in confirmed
  BY Zenon, <1>1, <1>4 DEF ResultsHonest
<1>7. /\ \A row \in Promise!RowsOf(r) : RowOutcome[row] # "waiting"
      /\ (\A row \in Promise!RowsOf(r) : RowOutcome[row] = "stored") <=> req'[r].result.err = {}
  <2>1. \A row : row \in Promise!RowsOf(r) <=> \E j \in 1 .. req[r].rowCount : row = <<r, j>>
    BY DEF Promise!RowsOf, CallSize
  <2>2. ASSUME NEW j \in 1 .. req[r].rowCount
        PROVE  RowOutcome[<<r, j>>] = IF <<r, j>> \in confirmed THEN "stored" ELSE "lost"
    <3>1. <<r, j>> \in Row /\ sent[<<r, j>>] > 0
      BY <1>5
    <3> QED
      BY Zenon, <3>1 DEF RowOutcome
  <2>3. \A j \in 1 .. req[r].rowCount : /\ RowOutcome[<<r, j>>] # "waiting"
                                        /\ RowOutcome[<<r, j>>] = "stored" <=> <<r, j>> \in confirmed
    BY <2>2
  <2> QED
    BY Zenon, <1>6, <2>1, <2>3
<1>8. /\ StateOf(r) = "accepted"
      /\ StateOf(r)' = IF req'[r].result.err = {} THEN "stored" ELSE "failed"
      /\ \A q \in Request \ {r} : StateOf(q)' = StateOf(q)
  BY Zenon, <1>1, <1>2, <1>3, <1>4, StateFacts, StateFactsPrimed DEF StateOf
<1>9. /\ CallState[r] = "accepted"
      /\ CallState' = [CallState EXCEPT ![r] = IF req'[r].result.err = {} THEN "stored" ELSE "failed"]
  BY Zenon, <1>8 DEF CallState
<1>10. UNCHANGED <<submitted, CallSize, RowOutcome, Barrier>>
  BY Zenon, <1>1 DEF CallSize, RowOutcome, Barrier, BarrierOf
<1> QED
  BY Zenon, <1>7, <1>9, <1>10 DEF Promise!ResolveCall

\* Two flushes that agree in every field are the same.
LEMMA FlushEqual ==
  ASSUME NEW x \in FlushType, NEW y \in FlushType,
         x.phase = y.phase, x.awaited = y.awaited, x.failed = y.failed
  PROVE  x = y
BY DEF FlushType

\* FlushAsync takes its snapshot as it leaves the critical section.
LEMMA Sim_Unlock ==
  ASSUME TypeOK, AccountInv, FlushInv, Unlock
  PROVE  \/ UNCHANGED Promise!vars
         \/ \E f \in Flushes, awaited \in SUBSET Request : Promise!FlushBegins(f, awaited)
<1>1. UNCHANGED <<submitted, pending, req, sent, confirmed>>
  BY Zenon DEF Unlock
<1>2. CASE crit.flush = NoFlush
  <2>1. \A f \in Flushes : BarrierOf(f)' = BarrierOf(f)
    BY Zenon, <1>2 DEF Unlock, BarrierOf
  <2> QED
    BY Zenon, <1>1, <2>1, Sim_Stutter
<1>3. CASE crit.flush # NoFlush
  <2>1. PICK f \in Flushes : f = crit.flush /\ flush \in [Flushes -> FlushType]
    BY Zenon, <1>3 DEF TypeOK, CritType
  <2>2. flush' = [flush EXCEPT ![f] = [phase |-> "waiting", awaited |-> pending, failed |-> {}]]
    BY Zenon, <1>3, <2>1 DEF Unlock
  <2>3. flush[f].phase = "locked"
    BY Zenon, <1>3, <2>1 DEF FlushInv
  <2>4. flush[f].failed = {} /\ flush[f] \in FlushType
    BY Zenon, <2>1, <2>3 DEF FlushInv
  <2>5. BarrierOf(f) = [phase |-> "idle", awaited |-> flush[f].awaited, failed |-> {}]
    <3>1. BarrierOf(f) = [flush[f] EXCEPT !.phase = "idle"]
      BY Zenon, <2>3 DEF BarrierOf
    <3> QED
      BY <2>4, <3>1 DEF FlushType
  <2>6. BarrierOf(f).phase = "idle"
    BY <2>5
  <2>7. [BarrierOf(f) EXCEPT !.phase = "waiting", !.awaited = pending]
          = [phase |-> "waiting", awaited |-> pending, failed |-> {}]
    <3> DEFINE x == [BarrierOf(f) EXCEPT !.phase = "waiting", !.awaited = pending]
               y == [phase |-> "waiting", awaited |-> pending, failed |-> {}]
    <3>1. BarrierOf(f) \in FlushType /\ BarrierOf(f).failed = {} /\ pending \in SUBSET Request
      BY <2>4, <2>5 DEF FlushType, TypeOK
    <3>2. x \in FlushType /\ x.phase = "waiting" /\ x.awaited = pending /\ x.failed = {}
      BY Zenon, <3>1 DEF FlushType
    <3>3. y \in FlushType /\ y.phase = "waiting" /\ y.awaited = pending /\ y.failed = {}
      BY <3>1 DEF FlushType
    <3> HIDE DEF x, y
    <3>4. x = y
      BY Zenon, <3>2, <3>3, FlushEqual
    <3> QED
      BY Zenon, <3>4 DEF x, y
  <2>8. BarrierOf(f)' = [phase |-> "waiting", awaited |-> pending, failed |-> {}]
    <3>1. flush'[f] = [phase |-> "waiting", awaited |-> pending, failed |-> {}]
      BY Zenon, <2>1, <2>2
    <3>2. flush'[f].phase # "locked"
      BY <3>1
    <3>3. BarrierOf(f)' = flush'[f]
      BY Zenon, <3>2 DEF BarrierOf
    <3> QED
      BY Zenon, <3>1, <3>3
  <2>9. \A g \in Flushes \ {f} : BarrierOf(g)' = BarrierOf(g)
    BY Zenon, <2>1, <2>2 DEF BarrierOf
  <2>10. /\ Barrier[f].phase = "idle"
         /\ Barrier' = [Barrier EXCEPT ![f].phase = "waiting", ![f].awaited = pending]
    <3>1. /\ Barrier[f] = BarrierOf(f)
          /\ Barrier' = [Barrier EXCEPT ![f] = [phase |-> "waiting", awaited |-> pending,
                                                failed |-> {}]]
      BY Zenon, <2>1, <2>8, <2>9, BarrierChange
    <3> QED
      BY Zenon, <2>6, <2>7, <3>1
  <2>11. UNCHANGED <<submitted, CallSize, CallState, RowOutcome>>
    BY Zenon, <1>1 DEF CallSize, CallState, StateOf, RowOutcome
  <2>12. Promise!Unresolved \subseteq pending
    <3>1. \A r \in Request : CallState[r] = "accepted" => r \in pending
      BY Zenon, StateOfAccepted DEF CallState, AccountInv, PendingCalls, PendingExact
    <3> QED
      BY Zenon, <3>1 DEF Promise!Unresolved, Promise!Request, Request
  <2>13. pending \subseteq Promise!Made
    <3>1. \A r \in pending : r \in Request /\ CallState[r] \in {"accepted", "stored", "failed"}
      BY Zenon, StateOfAccepted DEF CallState, AccountInv, PendingCalls, TypeOK
    <3> QED
      BY Zenon, <3>1 DEF Promise!Made, Promise!Request, Request
  <2>14. pending \in SUBSET Request
    BY Zenon DEF TypeOK
  <2>15. Promise!FlushBegins(f, pending)
    BY Zenon, <2>10, <2>11, <2>12, <2>13 DEF Promise!FlushBegins
  <2> QED
    BY Zenon, <2>1, <2>14, <2>15
<1> QED
  BY Zenon, <1>2, <1>3

\* FlushAsync inside its critical section has promised nothing yet.
LEMMA Sim_FlushAsync ==
  ASSUME TypeOK, NEW f \in Flushes, FlushAsync(f)
  PROVE  UNCHANGED Promise!vars
<1>1. /\ flush \in [Flushes -> FlushType] /\ flush[f].phase = "idle"
      /\ flush' = [flush EXCEPT ![f].phase = "locked"]
      /\ UNCHANGED <<submitted, req, sent, confirmed>>
  BY Zenon DEF TypeOK, FlushAsync
<1>2. \A g \in Flushes \ {f} : BarrierOf(g)' = BarrierOf(g)
  BY Zenon, <1>1 DEF BarrierOf
<1>3. BarrierOf(f)' = BarrierOf(f)
  <2> DEFINE x == [flush[f] EXCEPT !.phase = "locked"]
             y == [x EXCEPT !.phase = "idle"]
  <2>1. flush[f] \in FlushType /\ flush'[f] = x
    BY Zenon, <1>1
  <2>2. /\ x \in FlushType /\ x.phase = "locked" /\ x.awaited = flush[f].awaited
        /\ x.failed = flush[f].failed
    BY Zenon, <2>1 DEF FlushType
  <2>3. BarrierOf(f)' = y
    BY Zenon, <2>1, <2>2 DEF BarrierOf
  <2>4. BarrierOf(f) = flush[f]
    BY <1>1 DEF BarrierOf
  <2> HIDE DEF x
  <2>5. /\ y \in FlushType /\ y.phase = "idle" /\ y.awaited = flush[f].awaited
        /\ y.failed = flush[f].failed
    BY Zenon, <2>2 DEF FlushType
  <2> HIDE DEF y
  <2> QED
    BY Zenon, <1>1, <2>1, <2>3, <2>4, <2>5, FlushEqual
<1> QED
  BY Zenon, <1>1, <1>2, <1>3, Sim_Stutter

\* FlushAsync resolves when every call of its snapshot has.
LEMMA Sim_FlushResolves ==
  ASSUME TypeOK, FlushInv, NEW f \in Flushes, FlushResolves(f)
  PROVE  Promise!FlushEnds(f)
<1> DEFINE w == flush[f].awaited
           bad == {r \in w : CallState[r] = "failed"}
<1>1. /\ flush \in [Flushes -> FlushType] /\ flush[f].phase = "waiting" /\ flush[f] \in FlushType
      /\ flush' = [flush EXCEPT ![f].phase = "done",
                                ![f].failed = {r \in w : req[r].result.err # {}}]
      /\ \A r \in w : req[r].result.done
      /\ UNCHANGED <<submitted, req, sent, confirmed>>
  BY Zenon DEF TypeOK, FlushResolves
<1>2. w \subseteq Request /\ \A r \in w : Accepted(r)
  BY Zenon, <1>1 DEF FlushType, FlushInv
<1>3. \A r \in w : /\ CallState[r] \in {"stored", "failed"}
                   /\ CallState[r] = "failed" <=> req[r].result.err # {}
  <2>1. ASSUME NEW r \in w
        PROVE  CallState[r] = IF req[r].result.err = {} THEN "stored" ELSE "failed"
    BY Zenon, <1>1, <1>2, StateFacts DEF CallState
  <2> QED
    BY <2>1
<1>4. bad = {r \in w : req[r].result.err # {}}
  BY Zenon, <1>3
<1>5. BarrierOf(f) = flush[f]
  BY <1>1 DEF BarrierOf
<1>6. BarrierOf(f)' = [BarrierOf(f) EXCEPT !.phase = "done", !.failed = bad]
  <2>1. flush'[f] = [flush[f] EXCEPT !.phase = "done", !.failed = bad]
    BY Zenon, <1>1, <1>4
  <2>2. flush'[f].phase = "done"
    BY Zenon, <1>1, <2>1 DEF FlushType
  <2>3. flush'[f].phase # "locked"
    BY <2>2
  <2>4. BarrierOf(f)' = flush'[f]
    BY Zenon, <2>3 DEF BarrierOf
  <2> QED
    BY Zenon, <1>5, <2>1, <2>4
<1>7. \A g \in Flushes \ {f} : BarrierOf(g)' = BarrierOf(g)
  BY Zenon, <1>1 DEF BarrierOf
<1>8. /\ Barrier[f] = flush[f]
      /\ Barrier' = [Barrier EXCEPT ![f] = [flush[f] EXCEPT !.phase = "done", !.failed = bad]]
  BY Zenon, <1>5, <1>6, <1>7, BarrierChange
<1>9. UNCHANGED <<submitted, CallSize, CallState, RowOutcome>>
  BY Zenon, <1>1 DEF CallSize, CallState, StateOf, RowOutcome
<1> QED
  BY Zenon, <1>1, <1>3, <1>8, <1>9 DEF Promise!FlushEnds

\* The parts of AccountInv that make a resolved Future honest: a row that no COPY
\* has carried would be in a batch that still holds a part of its call.
LEMMA Honest ==
  ASSUME Structure, AccountInv,
         \A r \in Request : req[r].parts = 0 => Holders(r) = {}
  PROVE  ResultsHonest
<1> SUFFICES ASSUME NEW r \in Request, Accepted(r), req[r].result.done
             PROVE  /\ \A j \in 1 .. req[r].rowCount : sent[<<r, j>>] = 1
                    /\ req[r].result.err = {} <=>
                         \A j \in 1 .. req[r].rowCount : <<r, j>> \in confirmed
  BY Zenon DEF ResultsHonest
<1>1. /\ req[r].parts = 0 /\ ~ Appending(r)
      /\ req[r].result = [done |-> TRUE, err |-> req[r].errs,
                          value |-> IF req[r].errs = {} THEN req[r].rowCount ELSE 0]
  BY Zenon DEF AccountInv, Futures
<1>2. req[r].result.err = req[r].errs
  BY <1>1
<1>3. Holders(r) = {}
  BY Zenon, <1>1
<1>4. req[r].rowCount \in 0 .. MaxRows
  BY Zenon DEF Structure, TypeOK, RequestType
<1>5. ASSUME NEW j \in 1 .. req[r].rowCount PROVE sent[<<r, j>>] = 1
  <2>1. j \in 1 .. MaxRows /\ j <= req[r].rowCount
    BY <1>4, ConfigAssumption
  <2>2. RowFate(r, j) /\ sent[<<r, j>>] \in Nat
    BY Zenon, <2>1, RowFacts DEF AccountInv, RowsInv, Structure, TypeOK
  <2>3. ASSUME NEW b \in Batch, Contains(b, <<r, j>>), sent[<<r, j>>] = 0 PROVE FALSE
    <3>1. RowState(b, r, j)
      BY Zenon, <2>1, <2>3 DEF AccountInv, RowsInv
    <3>2. Lists(b, r) /\ run[b].phase # "finishing"
      BY <3>1, <2>3 DEF RowState
    <3>3. run[b] = NoRun \/ run[b] = NewRun
      BY Zenon, <3>2 DEF AccountInv, Copying, Structure, Ownership, TypeOK, RunType
    <3>4. run[b].next = 1
      BY <3>3 DEF NoRun, NewRun
    <3>5. batch[b].requests \in Seq(Request)
      BY Zenon DEF Structure, TypeOK, BatchType
    <3>6. Holds(b, r)
      BY <3>2, <3>4, <3>5 DEF Lists, Holds
    <3> QED
      BY Zenon, <1>3, <3>6 DEF Holders
  <2>4. sent[<<r, j>>] # 0 /\ sent[<<r, j>>] <= 1
    BY Zenon, <2>1, <2>2, <2>3, <1>1 DEF RowFate
  <2> QED
    BY <2>2, <2>4
<1>6. ASSUME NEW j \in 1 .. req[r].rowCount, <<r, j>> \notin confirmed
      PROVE  req[r].errs # {}
  <2>1. j \in 1 .. MaxRows
    BY <1>4, ConfigAssumption
  <2> QED
    BY Zenon, <1>3, <1>5, <1>6, <2>1 DEF AccountInv, Errors
<1>7. req[r].errs # {} => \E j \in 1 .. req[r].rowCount : <<r, j>> \notin confirmed
  BY Zenon DEF AccountInv, Errors
<1> QED
  BY Zenon, <1>2, <1>5, <1>6, <1>7

\* Calls made by submit are calls of the promise.
LEMMA Sim_Submit ==
  ASSUME Structure, AccountInv,
         \/ \E n \in RefusedSizes : SubmitRefused(n)
         \/ \E n \in CoalescedSizes : SubmitCoalesced(n)
         \/ \E n \in UnbatchedSizes : SubmitUnbatched(n)
  PROVE  /\ \E n \in 0 .. MaxRows, answer \in {"accepted", "refused"} : Promise!Call(n, answer)
         /\ \A q \in Request : Accepted(q) => Accepted(q)'
         /\ flush' = flush /\ crit'.flush = crit.flush
<1>1. /\ submitted < NumRequests /\ submitted' = submitted + 1
      /\ UNCHANGED <<flush, sent, confirmed>>
  BY Zenon DEF SubmitRefused, SubmitCoalesced, SubmitUnbatched
<1>2. PICK r \in Request : r = submitted + 1
  BY Zenon, <1>1, NextRequest DEF Structure
<1>3. req \in [Request -> RequestType] /\ crit \in CritType /\ req[r].result.done \in BOOLEAN
  BY Zenon DEF Structure, TypeOK, RequestType, FutureType
<1>4. req[r].mode = "none" /\ ~ req[r].result.done
  <2>1. r > submitted
    BY <1>2 DEF Structure, TypeOK
  <2> QED
    BY Zenon, <2>1 DEF AccountInv, Calls
<1>5. \A n \in RefusedSizes \cup CoalescedSizes \cup UnbatchedSizes : n \in 0 .. MaxRows
  BY ConfigAssumption
<1>6. crit'.flush = crit.flush
  BY Zenon, <1>3 DEF SubmitRefused, SubmitCoalesced, SubmitUnbatched, CritType
<1>7. \A q \in Request \ {r} : req'[q] = req[q]
  BY Zenon, <1>2, <1>3 DEF SubmitRefused, SubmitCoalesced, SubmitUnbatched
<1>8. \A q \in Request : Accepted(q) => Accepted(q)'
  <2>1. ~ Accepted(r)
    BY <1>4 DEF Accepted
  <2> QED
    BY Zenon, <1>7, <2>1 DEF Accepted
<1>9. CASE \E n \in RefusedSizes : SubmitRefused(n)
  <2>1. PICK n \in RefusedSizes : SubmitRefused(n)
    BY Zenon, <1>9
  <2>2. req'[r].mode = "refused" /\ req'[r].rowCount = n
    BY Zenon, <1>2, <1>3, <2>1 DEF SubmitRefused, RequestType
  <2>3. StateOf(r)' = "refused"
    BY Zenon, <2>2, StateFactsPrimed
  <2>4. n \in 0 .. MaxRows
    BY Zenon, <1>5
  <2>5. Promise!Call(n, "refused")
    BY Zenon, <1>1, <1>2, <1>7, <2>2, <2>3, <2>4, Sim_Call
  <2> QED
    BY Zenon, <1>1, <1>6, <1>8, <2>4, <2>5
<1>10. CASE \/ \E n \in CoalescedSizes : SubmitCoalesced(n)
            \/ \E n \in UnbatchedSizes : SubmitUnbatched(n)
  <2>1. PICK n \in CoalescedSizes \cup UnbatchedSizes :
               /\ req'[r].mode = "coalesced" \/ req'[r].mode = "unbatched"
               /\ req'[r].rowCount = n /\ req'[r].result = req[r].result
    <3>1. ASSUME NEW n \in CoalescedSizes, SubmitCoalesced(n)
          PROVE  req'[r].mode = "coalesced" /\ req'[r].rowCount = n /\ req'[r].result = req[r].result
      BY Zenon, <1>2, <1>3, <3>1 DEF SubmitCoalesced, RequestType
    <3>2. ASSUME NEW n \in UnbatchedSizes, SubmitUnbatched(n)
          PROVE  req'[r].mode = "unbatched" /\ req'[r].rowCount = n /\ req'[r].result = req[r].result
      <4>1. PICK q \in Request, b \in Batch : Queues(q, b, n)
        BY Zenon, <3>2, UnbatchedShape
      <4>2. q = r
        BY Zenon, <1>2, <4>1 DEF Queues
      <4> QED
        BY Zenon, <4>1, <4>2 DEF Queues
    <3> QED
      BY Zenon, <1>10, <3>1, <3>2
  <2>3. StateOf(r)' = "accepted"
    BY Zenon, <1>4, <2>1, StateFactsPrimed DEF Accepted
  <2>4. n \in 0 .. MaxRows
    BY Zenon, <1>5, <2>1
  <2>5. Promise!Call(n, "accepted")
    BY Zenon, <1>1, <1>2, <1>7, <2>1, <2>3, <2>4, Sim_Call
  <2> QED
    BY Zenon, <1>1, <1>6, <1>8, <2>4, <2>5
<1> QED
  BY Zenon, <1>9, <1>10

\* The steps that only move batches show nothing of it to a caller.
LEMMA Sim_Quiet ==
  ASSUME Structure,
         \/ AppendRows \/ Dequeue \/ Merge \/ MergeEnds
         \/ \E b \in Batch : TimerExpires(b) \/ StaleTimer(b) \/ FlushExpiredBatch(b) \/ Settle(b)
         \/ UNCHANGED vars
  PROVE  /\ UNCHANGED Promise!vars
         /\ \A q \in Request : Accepted(q) => Accepted(q)'
         /\ flush' = flush /\ crit'.flush = crit.flush
<1>1. UNCHANGED <<submitted, flush, sent, confirmed>>
  BY Zenon DEF AppendRows, Dequeue, Merge, MergeEnds, TimerExpires, StaleTimer,
     FlushExpiredBatch, Settle, vars
<1>2. crit \in CritType
  BY Zenon DEF Structure, TypeOK
<1>3. crit'.flush = crit.flush
  <2>1. CASE AppendRows
    BY Zenon, <1>2, <2>1 DEF AppendRows, CritType
  <2>2. CASE Dequeue
    BY Zenon, <1>2, <2>2 DEF Dequeue, CritType
  <2>3. CASE \/ Merge \/ MergeEnds \/ UNCHANGED vars
             \/ \E b \in Batch : TimerExpires(b) \/ StaleTimer(b) \/ FlushExpiredBatch(b) \/ Settle(b)
    BY Zenon, <1>2, <2>3 DEF Merge, MergeEnds, TimerExpires, StaleTimer,
       FlushExpiredBatch, Settle, vars, CritType
  <2> QED
    BY Zenon, <2>1, <2>2, <2>3
<1>4. \A q \in Request : /\ req'[q].mode = req[q].mode /\ req'[q].rowCount = req[q].rowCount
                         /\ req'[q].result = req[q].result
  <2>1. CASE AppendRows
    <3>1. PICK r \in Request, i \in 1 .. MaxRows, b \in Batch, n \in Nat \ {0} : Appends(r, i, b, n)
      BY Zenon, <2>1, AppendShape
    <3>2. req'[r] = [req[r] EXCEPT !.parts = @ + 1] /\ \A q \in Request \ {r} : req'[q] = req[q]
      BY Zenon, <3>1 DEF Appends
    <3>3. req[r] \in RequestType
      BY Zenon DEF Structure, TypeOK
    <3>4. /\ req'[r].mode = req[r].mode /\ req'[r].rowCount = req[r].rowCount
          /\ req'[r].result = req[r].result
      BY Zenon, <3>2, <3>3 DEF RequestType
    <3> QED
      BY Zenon, <3>2, <3>4
  <2>2. CASE ~ AppendRows
    BY Zenon, <2>2 DEF Dequeue, Merge, MergeEnds, TimerExpires, StaleTimer, FlushExpiredBatch,
       Settle, vars
  <2> QED
    BY Zenon, <2>1, <2>2
<1>5. \A f \in Flushes : BarrierOf(f)' = BarrierOf(f)
  BY Zenon, <1>1 DEF BarrierOf
<1>6. UNCHANGED Promise!vars
  BY Zenon, <1>1, <1>4, <1>5, Sim_Stutter
<1> QED
  BY Zenon, <1>1, <1>3, <1>4, <1>6 DEF Accepted

-----------------------------------------------------------------------------
(* The flushes.                                                            *)

\* What a step does to the flushes: it leaves them alone, or one of the three
\* steps of FlushAsync takes place.
LEMMA FlushInv_Frame ==
  ASSUME FlushInv, flush' = flush, crit'.flush = crit.flush,
         \A q \in Request : Accepted(q) => Accepted(q)', TypeOK
  PROVE  FlushInv'
<1>1. \A f \in Flushes : flush[f].awaited \subseteq Request
  BY Zenon DEF TypeOK, FlushType
<1>2. \A f \in Flushes : \A r \in flush[f].awaited : Accepted(r)'
  BY Zenon, <1>1 DEF FlushInv
<1>3. \A f \in Flushes : \A r \in flush'[f].awaited : Accepted(r)'
  BY Zenon, <1>2
<1> QED
  BY Zenon, <1>3 DEF FlushInv

\* FlushAsync locks its flush.
LEMMA FlushInv_FlushAsync ==
  ASSUME TypeOK, FlushInv, NEW f \in Flushes, FlushAsync(f)
  PROVE  FlushInv'
<1>1. /\ flush' = [flush EXCEPT ![f].phase = "locked"] /\ crit' = [crit EXCEPT !.pc = "schedule", !.flush = f]
      /\ flush[f].phase = "idle" /\ req' = req
  BY Zenon DEF FlushAsync
<1>2. flush \in [Flushes -> FlushType] /\ crit \in CritType
  BY Zenon DEF TypeOK
<1>3. /\ crit'.flush = f /\ flush'[f].phase = "locked"
      /\ \A g \in Flushes : flush'[g].awaited = flush[g].awaited /\ flush'[g].failed = flush[g].failed
      /\ \A g \in Flushes \ {f} : flush'[g] = flush[g]
  BY Zenon, <1>1, <1>2 DEF FlushType, CritType
<1>4. \A g \in Flushes : flush'[g].phase \in {"idle", "locked"} => flush'[g].failed = {}
  BY Zenon, <1>1, <1>3 DEF FlushInv
<1>5. \A g \in Flushes : \A r \in flush'[g].awaited : Accepted(r)'
  BY Zenon, <1>1, <1>3 DEF FlushInv, Accepted
<1> QED
  BY Zenon, <1>3, <1>4, <1>5 DEF FlushInv

\* As it unlocks, it snapshots the pending calls, which were accepted.
LEMMA FlushInv_Unlock ==
  ASSUME TypeOK, AccountInv, FlushInv, Unlock
  PROVE  FlushInv'
<1>1. /\ crit' = Unlocked /\ req' = req
      /\ flush' = IF crit.flush = NoFlush THEN flush
                  ELSE [flush EXCEPT ![crit.flush] =
                          [phase |-> "waiting", awaited |-> pending, failed |-> {}]]
  BY Zenon DEF Unlock
<1>2. crit'.flush = NoFlush
  BY Zenon, <1>1 DEF Unlocked
<1>3. \A r \in pending : Accepted(r)
  BY Zenon DEF AccountInv, PendingCalls
<1>4. flush \in [Flushes -> FlushType]
  BY Zenon DEF TypeOK
<1>5. \A g \in Flushes : \/ flush'[g] = flush[g]
                         \/ flush'[g] = [phase |-> "waiting", awaited |-> pending, failed |-> {}]
  BY Zenon, <1>1, <1>4
<1>6. ASSUME NEW g \in Flushes
      PROVE  /\ flush'[g].phase \in {"idle", "locked"} => flush'[g].failed = {}
             /\ \A r \in flush'[g].awaited : Accepted(r)'
  <2>1. CASE flush'[g] = flush[g]
    BY Zenon, <1>1, <2>1 DEF FlushInv, Accepted
  <2>2. CASE flush'[g] = [phase |-> "waiting", awaited |-> pending, failed |-> {}]
    <3>1. flush'[g].failed = {} /\ flush'[g].awaited = pending
      BY <2>2
    <3> QED
      BY Zenon, <1>1, <1>3, <3>1 DEF Accepted
  <2> QED
    BY Zenon, <1>5, <2>1, <2>2
<1> QED
  BY Zenon, <1>2, <1>6 DEF FlushInv

\* It resolves outside of the critical section of another flush.
LEMMA FlushInv_FlushResolves ==
  ASSUME TypeOK, FlushInv, NEW f \in Flushes, FlushResolves(f)
  PROVE  FlushInv'
<1>1. /\ crit' = crit /\ req' = req /\ flush[f].phase = "waiting"
      /\ flush' = [flush EXCEPT ![f].phase = "done",
                     ![f].failed = {r \in flush[f].awaited : req[r].result.err # {}}]
  BY Zenon DEF FlushResolves
<1>2. flush \in [Flushes -> FlushType]
  BY Zenon DEF TypeOK
<1>3. /\ flush'[f].phase = "done" /\ flush'[f].awaited = flush[f].awaited
      /\ \A g \in Flushes \ {f} : flush'[g] = flush[g]
  BY Zenon, <1>1, <1>2 DEF FlushType
<1>4. crit.flush # NoFlush => crit.flush \in Flushes \ {f}
  <2>1. crit.flush \in Flushes \cup {NoFlush}
    BY Zenon DEF TypeOK, CritType
  <2>2. "locked" # "waiting"
    OBVIOUS
  <2> QED
    BY Zenon, <1>1, <2>1, <2>2 DEF FlushInv
<1>5. crit'.flush # NoFlush => flush'[crit'.flush].phase = "locked"
  BY Zenon, <1>1, <1>3, <1>4 DEF FlushInv
<1>6. ASSUME NEW g \in Flushes
      PROVE  /\ flush'[g].phase \in {"idle", "locked"} => flush'[g].failed = {}
             /\ \A r \in flush'[g].awaited : Accepted(r)'
  <2>1. "done" \notin {"idle", "locked"}
    OBVIOUS
  <2> QED
    BY Zenon, <1>1, <1>3, <2>1 DEF FlushInv, Accepted
<1> QED
  BY Zenon, <1>5, <1>6 DEF FlushInv

-----------------------------------------------------------------------------
(* All steps.                                                              *)

\* Initially nothing has been promised.
LEMMA SimulationInit ==
  ASSUME Init
  PROVE  FlushInv /\ Promise!Init
<1>1. /\ submitted = 0 /\ sent = [row \in Row |-> 0] /\ confirmed = {}
      /\ crit.flush = NoFlush
      /\ req = [r \in Request |-> [mode |-> "none", rowCount |-> 0, parts |-> 0, errs |-> {},
                                   result |-> Pending]]
      /\ flush = [f \in Flushes |-> [phase |-> "idle", awaited |-> {}, failed |-> {}]]
  BY Zenon DEF Init, Unlocked
<1>2. \A f \in Flushes : /\ flush[f] = [phase |-> "idle", awaited |-> {}, failed |-> {}]
                         /\ flush[f].phase = "idle" /\ flush[f].awaited = {} /\ flush[f].failed = {}
  BY <1>1
<1>3. FlushInv
  BY Zenon, <1>1, <1>2 DEF FlushInv
<1>4. \A r \in Request : req[r].rowCount = 0 /\ StateOf(r) = "new"
  <2>1. \A r \in Request : req[r].rowCount = 0 /\ req[r].mode = "none"
    BY <1>1
  <2> QED
    BY Zenon, <2>1, StateFacts
<1>5. CallSize = [r \in Request |-> 0] /\ CallState = [r \in Request |-> "new"]
  BY Zenon, <1>4 DEF CallSize, CallState
<1>6. RowOutcome = [row \in Row |-> "waiting"]
  BY <1>1 DEF RowOutcome
<1>7. Barrier = [f \in Flushes |-> [phase |-> "idle", awaited |-> {}, failed |-> {}]]
  <2>1. \A f \in Flushes : BarrierOf(f) = flush[f]
    BY <1>2 DEF BarrierOf
  <2> QED
    BY Zenon, <1>2, <2>1 DEF Barrier
<1> QED
  BY Zenon, <1>1, <1>3, <1>5, <1>6, <1>7 DEF Promise!Init, Promise!Request, Promise!Row, Request, Row

\* Every step of the batcher is a step of the promise, or shows nothing.
LEMMA SimulationStep ==
  ASSUME Structure, AccountInv, FlushInv, ResultsHonest', [Next]_vars,
         \A r \in Request : Holders(r) # {} => req[r].parts >= 1
  PROVE  FlushInv' /\ (Promise!Next \/ UNCHANGED Promise!vars)
<1>1. TypeOK
  BY Zenon DEF Structure
<1> DEFINE Goal == FlushInv' /\ (Promise!Next \/ UNCHANGED Promise!vars)
<1>2. CASE \/ \E n \in RefusedSizes : SubmitRefused(n)
           \/ \E n \in CoalescedSizes : SubmitCoalesced(n)
           \/ \E n \in UnbatchedSizes : SubmitUnbatched(n)
  BY Zenon, <1>1, <1>2, Sim_Submit, FlushInv_Frame DEF Promise!Next
<1>3. CASE \/ AppendRows \/ Dequeue \/ Merge \/ MergeEnds
           \/ \E b \in Batch : TimerExpires(b) \/ StaleTimer(b) \/ FlushExpiredBatch(b) \/ Settle(b)
           \/ UNCHANGED vars
  BY Zenon, <1>1, <1>3, Sim_Quiet, FlushInv_Frame
<1>4. CASE Unlock
  BY Zenon, <1>1, <1>4, Sim_Unlock, FlushInv_Unlock DEF Promise!Next, Promise!Request, Request
<1>5. ASSUME NEW b \in Batch, NEW err \in {{}, {"copy"}}, CopyOutcome(b, err)
      PROVE  Goal
  <2>1. \E rows \in SUBSET Row, result \in {"stored", "lost"} : Promise!Copy(rows, result)
    BY Zenon, <1>1, <1>5, Sim_Copy
  <2>2. flush' = flush /\ crit' = crit /\ req' = req
    BY Zenon, <1>5 DEF CopyOutcome
  <2>3. FlushInv'
    BY Zenon, <1>1, <2>2, FlushInv_Frame DEF Accepted
  <2> QED
    BY Zenon, <2>1, <2>3 DEF Promise!Next, Promise!Row, Promise!Request, Row, Request
<1>6. ASSUME NEW b \in Batch, FinishPart(b)
      PROVE  Goal
  <2>1. flush' = flush /\ crit' = crit
    BY Zenon, <1>6 DEF FinishPart
  <2>2. PICK r : r = batch[b].requests[run[b].next]
    OBVIOUS
  <2>3. Finishes(r, b)
    BY Zenon, <1>6, <2>2, FinishEffects
  <2>4. /\ r \in Request /\ \A q \in Request \ {r} : req'[q] = req[q]
        /\ req'[r].mode = req[r].mode /\ req'[r].rowCount = req[r].rowCount
        /\ req[r].parts # 1 => req'[r].result = req[r].result
        /\ UNCHANGED <<submitted, sent, confirmed>>
    BY Zenon, <2>3 DEF Finishes
  <2>5. FlushInv'
    BY Zenon, <1>1, <2>1, <2>4, FlushInv_Frame DEF Accepted
  <2>6. CASE req[r].parts = 1
    <3>1. Promise!ResolveCall(r)
      BY Zenon, <1>1, <2>1, <2>3, <2>4, <2>6, Sim_Resolve
    <3> QED
      BY Zenon, <2>4, <2>5, <3>1 DEF Promise!Next, Promise!Request, Request
  <2>7. CASE req[r].parts # 1
    <3>1. \A q \in Request : /\ req'[q].mode = req[q].mode /\ req'[q].rowCount = req[q].rowCount
                             /\ req'[q].result = req[q].result
      BY Zenon, <2>4, <2>7
    <3>2. \A f \in Flushes : BarrierOf(f)' = BarrierOf(f)
      BY Zenon, <2>1 DEF BarrierOf
    <3> QED
      BY Zenon, <2>4, <2>5, <3>1, <3>2, Sim_Stutter
  <2> QED
    BY Zenon, <2>6, <2>7
<1>7. ASSUME NEW f \in Flushes, FlushAsync(f)
      PROVE  Goal
  BY Zenon, <1>1, <1>7, Sim_FlushAsync, FlushInv_FlushAsync
<1>8. ASSUME NEW f \in Flushes, FlushResolves(f)
      PROVE  Goal
  BY Zenon, <1>1, <1>8, Sim_FlushResolves, FlushInv_FlushResolves DEF Promise!Next
<1> QED
  BY Zenon, <1>2, <1>3, <1>4, <1>5, <1>6, <1>7, <1>8, Steps

-----------------------------------------------------------------------------
(* The order of the rows of coalesced calls.                               *)

\* A row is started when a COPY carried it or a batch in flight contains it.
LEMMA StartedFacts ==
  \A x \in Row : x \in Started <=> sent[x] > 0 \/ \E c \in Batch : InFlight(c) /\ Contains(c, x)
<1>1. \A c \in Batch, x \in Row : x \in RowsOf(c) <=> Contains(c, x)
  BY Zenon DEF RowsOf, Contains
<1> QED
  BY Zenon, <1>1 DEF Started

\* And after a step.
LEMMA StartedAfter ==
  \A x \in Row : x \in Started' <=>
                   sent'[x] > 0 \/ \E c \in Batch : InFlight(c)' /\ Contains(c, x)'
<1>1. \A c \in Batch, x \in Row : x \in RowsOf(c)' <=> Contains(c, x)'
  BY Zenon DEF RowsOf, Contains
<1> QED
  BY Zenon, <1>1 DEF Started

\* A step that sends nothing, starts and ends no batch, and leaves the rows of the
\* batches in flight alone starts no row.
LEMMA SameStarted ==
  ASSUME sent' = sent, \A c \in Batch : InFlight(c)' <=> InFlight(c),
         \A c \in Batch : InFlight(c) => \A x \in Row : Contains(c, x)' <=> Contains(c, x)
  PROVE  \A x \in Row : x \in Started' <=> x \in Started
BY Zenon, StartedFacts, StartedAfter

\* What is appended to the queue is behind everything in it.
LEMMA LastInQueue ==
  ASSUME queue \in Seq(Batch), NEW b \in Batch, queue' = Append(queue, b)
  PROVE  /\ Len(queue) \in Nat /\ DOMAIN queue = 1 .. Len(queue)
         /\ DOMAIN queue' = 1 .. (Len(queue) + 1)
         /\ Len(queue) + 1 \in DOMAIN queue' /\ queue'[Len(queue) + 1] = b
         /\ \A i \in DOMAIN queue : queue'[i] = queue[i] /\ i <= Len(queue) + 1 /\ i \in DOMAIN queue'
         /\ \A i \in DOMAIN queue' : i = Len(queue) + 1 \/ i \in DOMAIN queue
OBVIOUS

\* Every row of a coalesced call is in the hands of appendRequestLocked or in a
\* place Located names.
LEMMA Placed ==
  ASSUME Structure, AccountInv, NEW x \in Row, Coalesced(x),
         ~ (Appending(x[1]) /\ x[2] >= crit.cursor[2])
  PROVE  Located(x)
<1>1. x[1] \in Request /\ x[2] \in 1 .. MaxRows /\ x = <<x[1], x[2]>>
  BY Zenon, RowFacts
<1>2. PICK r \in Request, j \in 1 .. MaxRows : r = x[1] /\ j = x[2] /\ x = <<r, j>>
  BY Zenon, <1>1
<1>3. Accepted(r) /\ j <= req[r].rowCount /\ ~ (Appending(r) /\ j >= crit.cursor[2])
  BY Zenon, <1>2 DEF Coalesced, Accepted
<1>4. sent[x] = 0 => \E b \in Batch : Contains(b, x)
  BY Zenon, <1>2, <1>3 DEF AccountInv, RowsInv, RowFate
<1>5. sent[x] \in Nat
  BY Zenon DEF Structure, TypeOK
<1>6. CASE sent[x] > 0
  BY Zenon, <1>6, StartedFacts DEF Located
<1>7. CASE ~ (sent[x] > 0)
  <2>1. sent[x] = 0
    BY <1>5, <1>7
  <2>2. PICK b \in Batch : Contains(b, x)
    BY Zenon, <1>4, <2>1
  <2>3. batch[b] # EmptyBatch
    BY Zenon, <2>2, EmptyFacts DEF Structure
  <2>4. b = active \/ Queued(b) \/ InFlight(b)
    BY Zenon, <2>3 DEF Structure, Ownership
  <2>5. b # NoBatch
    BY Zenon, RowFacts
  <2> QED
    BY Zenon, <2>2, <2>4, <2>5, StartedFacts DEF Located, Open, Queued
<1> QED
  BY Zenon, <1>6, <1>7

\* A step that moves no row into or out of the open batch, the queue and the
\* batches in flight.
Stays ==
  /\ queue' = queue /\ active' = active
  /\ \A x \in Row : x \in Started' <=> x \in Started
  /\ \A c \in Batch : c = active \/ Queued(c) =>
       /\ batch'[c].rows = batch[c].rows /\ batch'[c].reason = batch[c].reason

\* Such a step keeps the order.
LEMMA Order_Stays ==
  ASSUME TypeOK, Stays, NEW x \in Row, NEW y \in Row, Ordered(x, y)
  PROVE  Ordered(x, y)'
<1>1. \A c \in Batch : c = active \/ Queued(c) => \A z : Contains(c, z)' <=> Contains(c, z)
  BY Zenon DEF Stays, Contains
<1>2. \A i \in DOMAIN queue : queue[i] \in Batch /\ Queued(queue[i])
  BY LenProperties DEF TypeOK, Queued
<1>3. \A z \in Row : Open(z)' <=> Open(z)
  <2>1. active # NoBatch => active \in Batch
    BY Zenon DEF TypeOK
  <2> QED
    BY Zenon, <1>1, <2>1 DEF Open, Stays
<1>4. \A z \in Row : \A i \in DOMAIN queue : Contains(queue[i], z)' <=> Contains(queue[i], z)
  BY Zenon, <1>1, <1>2 DEF Stays
<1>5. \A j : Waiting(x, j)' <=> Waiting(x, j)
  BY Zenon, <1>4 DEF Stays, Waiting
<1>6. Located(x)' <=> Located(x)
  BY Zenon, <1>3, <1>4 DEF Stays, Located
<1> QED
  BY Zenon, <1>3, <1>4, <1>5, <1>6 DEF Ordered, Stays

\* A step that closes the open batch b and queues it.
Closes(b) ==
  /\ b \in Batch /\ active = b /\ active' = NoBatch /\ queue' = Append(queue, b)
  /\ \A x \in Row : x \in Started' <=> x \in Started
  /\ \A c \in Batch : batch'[c].rows = batch[c].rows
  /\ batch[b].reason = "none" /\ batch'[b].reason \in {"linger", "manual"}
  /\ \A c \in Batch \ {b} : batch'[c] = batch[c]

\* What was ahead of the rows of b is in the queue or started.
LEMMA Order_Closes ==
  ASSUME TypeOK, NEW b, Closes(b), NEW x \in Row, NEW y \in Row, Ordered(x, y)
  PROVE  Ordered(x, y)'
<1>1. \A c \in Batch : \A z : Contains(c, z)' <=> Contains(c, z)
  BY Zenon DEF Closes, Contains
<1>2. b \in Batch /\ queue \in Seq(Batch) /\ queue' = Append(queue, b)
  BY Zenon DEF Closes, TypeOK
<1>0. PICK n : n = Len(queue) + 1
  OBVIOUS
<1>3. /\ n \in DOMAIN queue' /\ queue'[n] = b
      /\ \A i \in DOMAIN queue : queue'[i] = queue[i] /\ i <= n /\ i \in DOMAIN queue'
      /\ \A i \in DOMAIN queue' : i = n \/ i \in DOMAIN queue
  BY Zenon, <1>0, <1>2, LastInQueue
<1>4. n <= n
  BY <1>0, <1>2, LastInQueue
<1>5. \A i \in DOMAIN queue : queue[i] \in Batch
  BY LenProperties, <1>2
<1>6. \A z : \A i \in DOMAIN queue : Contains(queue[i], z)' <=> Contains(queue[i], z)
  BY Zenon, <1>1, <1>3, <1>5
<1>7. \A z : Contains(queue[n], z)' <=> Contains(b, z)
  BY Zenon, <1>1, <1>2, <1>3
<1>8. ~ Open(y)' /\ (Open(x) <=> Contains(b, x)) /\ (Open(y) <=> Contains(b, y))
  BY Zenon, RowFacts DEF Open, Closes
<1>9. Located(x) => x \in Started' \/ Waiting(x, n)'
  BY Zenon, <1>3, <1>4, <1>6, <1>7, <1>8 DEF Located, Waiting, Closes
<1>10. \A j \in DOMAIN queue : Waiting(x, j) => Waiting(x, j)'
  BY Zenon, <1>3, <1>6 DEF Waiting
<1> QED
  BY Zenon, <1>3, <1>6, <1>7, <1>8, <1>9, <1>10 DEF Ordered, Closes

\* A step that pops batch n off the queue and starts its rows.
Pops(n) ==
  /\ queue # <<>> /\ n = Head(queue) /\ queue' = Tail(queue) /\ active' = active
  /\ \A x \in Row : x \in Started' <=> x \in Started \/ Contains(n, x)
  /\ \A c \in Batch \ {n} : c = active \/ Queued(c) => batch'[c].rows = batch[c].rows

\* Popping moves everything else in the queue up by one.
LEMMA QueueMovesUp ==
  ASSUME queue \in Seq(Batch), queue # <<>>, queue' = Tail(queue)
  PROVE  /\ 1 \in DOMAIN queue /\ queue[1] = Head(queue)
         /\ \A i \in DOMAIN queue : i <= 1 => i = 1
         /\ \A j \in DOMAIN queue' : /\ j + 1 \in DOMAIN queue /\ queue'[j] = queue[j + 1]
                                     /\ j + 1 # 1
         /\ \A i \in DOMAIN queue \ {1} :
              /\ i - 1 \in DOMAIN queue' /\ queue'[i - 1] = queue[i]
              /\ \A j \in DOMAIN queue' : i <= j + 1 => i - 1 <= j
<1>1. /\ Len(queue) \in Nat \ {0} /\ DOMAIN queue = 1 .. Len(queue) /\ queue[1] = Head(queue)
      /\ queue' \in Seq(Batch) /\ Len(queue') = Len(queue) - 1
      /\ \A j \in 1 .. Len(queue') : queue'[j] = queue[j + 1]
  OBVIOUS
<1>2. DOMAIN queue' = 1 .. Len(queue')
  BY Zenon, <1>1, LenProperties
<1> QED
  BY <1>1, <1>2

\* What was ahead of the rows of n is started.
LEMMA Order_Pops ==
  ASSUME TypeOK, Ownership, NEW n, Pops(n), NEW x \in Row, NEW y \in Row, Ordered(x, y)
  PROVE  Ordered(x, y)'
<1>1. queue \in Seq(Batch) /\ queue # <<>> /\ queue' = Tail(queue) /\ n = Head(queue)
  BY Zenon DEF Pops, TypeOK
<1>2. /\ 1 \in DOMAIN queue /\ queue[1] = n
      /\ \A i \in DOMAIN queue : i <= 1 => i = 1
      /\ \A j \in DOMAIN queue' : /\ j + 1 \in DOMAIN queue /\ queue'[j] = queue[j + 1]
                                  /\ j + 1 # 1
      /\ \A i \in DOMAIN queue \ {1} :
           /\ i - 1 \in DOMAIN queue' /\ queue'[i - 1] = queue[i]
           /\ \A j \in DOMAIN queue' : i <= j + 1 => i - 1 <= j
  BY Zenon, <1>1, QueueMovesUp
<1>3. n \in Batch /\ n # active
  BY Zenon, <1>1, HeadFacts
<1>4. \A c \in Batch \ {n} : c = active \/ Queued(c) => \A z : Contains(c, z)' <=> Contains(c, z)
  BY Zenon DEF Pops, Contains
<1>5. \A i \in DOMAIN queue \ {1} : queue[i] \in Batch \ {n} /\ Queued(queue[i])
  <2>1. \A i \in DOMAIN queue : queue[i] \in Batch
    BY LenProperties, <1>1
  <2> QED
    BY Zenon, <1>2, <2>1 DEF Ownership, Queued
<1>6. \A j \in DOMAIN queue' : \A z : Contains(queue[j], z)' <=> Contains(queue[j + 1], z)
  <2> SUFFICES ASSUME NEW j \in DOMAIN queue', NEW z
               PROVE  Contains(queue[j], z)' <=> Contains(queue[j + 1], z)
    BY Zenon
  <2>1. PICK c : c = queue[j + 1]
    OBVIOUS
  <2>2. queue'[j] = c /\ (Contains(c, z)' <=> Contains(c, z))
    BY Zenon, <1>2, <1>4, <1>5, <2>1
  <2> QED
    BY Zenon, <2>1, <2>2
<1>7. \A z : Open(z)' <=> Open(z)
  <2>1. active # NoBatch => active \in Batch
    BY Zenon DEF TypeOK
  <2> QED
    BY Zenon, <1>3, <1>4, <2>1 DEF Open, Pops
<1>8. ASSUME NEW i \in DOMAIN queue, Contains(queue[i], x)
      PROVE  \/ x \in Started'
             \/ /\ i - 1 \in DOMAIN queue' /\ Contains(queue[i - 1], x)'
                /\ \A j \in DOMAIN queue' : i <= j + 1 => i - 1 <= j
  <2>1. CASE i = 1
    BY Zenon, <1>2, <1>8, <2>1 DEF Pops
  <2>2. CASE i # 1
    <3>1. PICK c : c = queue[i]
      OBVIOUS
    <3>2. queue'[i - 1] = c /\ Contains(c, x)'
      BY Zenon, <1>2, <1>4, <1>5, <1>8, <2>2, <3>1
    <3>3. Contains(queue[i - 1], x)'
      BY Zenon, <3>2
    <3> QED
      BY Zenon, <1>2, <2>2, <3>3
  <2> QED
    BY Zenon, <2>1, <2>2
<1>9. y \in Started' => x \in Started'
  <2>1. Contains(n, y) => x \in Started \/ Contains(n, x)
    <3>1. Contains(n, y) => x \in Started \/ Waiting(x, 1)
      BY Zenon, <1>2 DEF Ordered
    <3>2. Waiting(x, 1) => Contains(n, x)
      BY Zenon, <1>2 DEF Waiting
    <3> QED
      BY Zenon, <3>1, <3>2
  <2>2. y \in Started => x \in Started
    BY Zenon DEF Ordered
  <2> QED
    BY Zenon, <2>1, <2>2 DEF Pops
<1>10. ASSUME NEW j \in DOMAIN queue', Contains(queue[j], y)'
       PROVE  x \in Started' \/ Waiting(x, j)'
  <2>1. x \in Started \/ Waiting(x, j + 1)
    BY Zenon, <1>2, <1>6, <1>10 DEF Ordered
  <2> QED
    BY Zenon, <1>8, <2>1 DEF Waiting, Pops
<1>11. Located(x) => Located(x)'
  BY Zenon, <1>7, <1>8 DEF Located, Pops
<1> QED
  BY Zenon, <1>7, <1>9, <1>10, <1>11 DEF Ordered

\* One iteration of appendRequestLocked puts rows behind all that came before.
LEMMA Order_Appends ==
  ASSUME Structure, AccountInv, NEW r \in Request, NEW i \in 1 .. MaxRows, NEW b \in Batch,
         NEW k \in Nat \ {0}, Appends(r, i, b, k), NEW x \in Row, NEW y \in Row,
         Coalesced(x), Coalesced(y), Before(x, y), Ordered(x, y)
  PROVE  Ordered(x, y)'
<1> DEFINE New(z) == z[1] = r /\ i <= z[2] /\ z[2] < i + k
<1>1. /\ Appending(r) /\ crit.cursor[2] = i /\ \A q \in Request \ {r} : ~ Appending(q)
  BY DEF Appends, Appending
<1>2. ~ Lists(b, r)
  BY Zenon, <1>1 DEF AccountInv, Listed, Appends
<1>3. \A c \in Batch, j \in 1 .. MaxRows : i <= j => ~ Contains(c, <<r, j>>) /\ sent[<<r, j>>] = 0
  BY <1>1 DEF AccountInv, RowsInv, RowState, RowFate
<1>4. \A c \in Batch, z \in Row : Contains(c, z)' <=> Contains(c, z) \/ (c = b /\ New(z))
  <2>1. run[b].next = 1
    BY DEF Appends, NoRun
  <2>2. Fills(r, i, b, k)
    BY Zenon, <2>1 DEF Appends, Fills
  <2>3. k \in Nat /\ \A j \in 1 .. MaxRows : i <= j /\ j < i + k => ~ Contains(b, <<r, j>>)
    BY Zenon, <1>3
  <2>4. DistinctInv /\ TypeOK
    BY Zenon DEF AccountInv, Structure
  <2>5. \A c \in Batch, q \in Request, j \in 1 .. MaxRows :
           Contains(c, <<q, j>>)' <=>
             Contains(c, <<q, j>>) \/ (c = b /\ q = r /\ i <= j /\ j < i + k)
    <3> HIDE DEF New
    <3>1. /\ \A c \in Batch, q \in Request : Lists(c, q)' <=> Lists(c, q) \/ (c = b /\ q = r)
          /\ \A c \in Batch, q \in Request, j \in 1 .. MaxRows :
               Contains(c, <<q, j>>)' <=>
                 Contains(c, <<q, j>>) \/ (c = b /\ q = r /\ i <= j /\ j < i + k)
          /\ \A q \in Request : Holders(q)' = IF q = r THEN Holders(q) \cup {b} ELSE Holders(q)
          /\ b \notin Holders(r)
          /\ DistinctInv'
      BY Zenon, <1>2, <2>2, <2>3, <2>4, FillEffects
    <3> QED
      BY Zenon, <3>1
  <2> SUFFICES ASSUME NEW c \in Batch, NEW z \in Row
               PROVE  Contains(c, z)' <=> Contains(c, z) \/ (c = b /\ New(z))
    BY Zenon
  <2>6. PICK q \in Request, j \in 1 .. MaxRows : z = <<q, j>> /\ z[1] = q /\ z[2] = j
    BY RowFacts
  <2> QED
    BY Zenon, <2>5, <2>6
<1>5. \A z \in Row : z \in Started' <=> z \in Started
  <2>1. \A c \in Batch : InFlight(c)' <=> InFlight(c)
    BY Zenon DEF Appends, InFlight
  <2>2. ~ InFlight(b) /\ sent' = sent
    BY Zenon DEF Appends
  <2> QED
    BY Zenon, <1>4, <2>1, <2>2, SameStarted
<1>6. \A z \in Row : New(z) => z \notin Started /\ \A c \in Batch : ~ Contains(c, z)
  <2> SUFFICES ASSUME NEW z \in Row, New(z)
               PROVE  z \notin Started /\ \A c \in Batch : ~ Contains(c, z)
    BY Zenon
  <2>1. PICK j \in 1 .. MaxRows : z = <<r, j>> /\ i <= j
    BY RowFacts
  <2>2. sent[z] = 0 /\ \A c \in Batch : ~ Contains(c, z)
    BY Zenon, <1>3, <2>1
  <2>3. ~ (sent[z] > 0)
    BY <2>2
  <2> QED
    BY Zenon, <2>2, <2>3, StartedFacts
<1>7. /\ active \in {NoBatch, b} /\ b # NoBatch /\ queue \in Seq(Batch) /\ ~ Queued(b)
      /\ \/ active' = NoBatch /\ queue' = Append(queue, b)
         \/ active' = b /\ queue' = queue
  BY Zenon, RowFacts DEF Appends, Structure, TypeOK
<1>8. \A z : Contains(b, z) => Open(z)
  <2>1. active = NoBatch => \A z : ~ Contains(b, z)
    BY Zenon, EmptyFacts DEF Appends, Structure
  <2> QED
    BY Zenon, <1>7, <2>1 DEF Open
<1>0. PICK n : n = Len(queue) + 1
  OBVIOUS
<1>9. /\ \A j \in DOMAIN queue : /\ j \in DOMAIN queue' /\ queue'[j] = queue[j] /\ queue[j] \in Batch
                                 /\ queue[j] # b
      /\ queue' # queue => /\ active' = NoBatch /\ n \in DOMAIN queue' /\ queue'[n] = b
                           /\ \A j \in DOMAIN queue' : j <= n /\ (j = n \/ j \in DOMAIN queue)
  <2>1. \A j \in DOMAIN queue : queue[j] \in Batch /\ queue[j] # b
    BY LenProperties, <1>7 DEF Queued
  <2>2. CASE queue' = queue
    BY Zenon, <2>1, <2>2
  <2>3. CASE active' = NoBatch /\ queue' = Append(queue, b)
    <3>1. n <= n
      BY <1>0, <1>7, LastInQueue
    <3> QED
      BY Zenon, <1>0, <1>7, <2>1, <2>3, <3>1, LastInQueue
  <2> QED
    BY Zenon, <1>7, <2>2, <2>3
<1>10. \A z \in Row : Located(z) \/ New(z) => Located(z)'
  <2>1. \A z \in Row : \A j \in DOMAIN queue : Contains(queue[j], z) => Contains(queue[j], z)'
    BY Zenon, <1>4, <1>9
  <2>2. \A z \in Row : Contains(b, z)' => Located(z)'
    <3>1. CASE queue' # queue
      BY Zenon, <1>9, <3>1 DEF Located
    <3>2. CASE queue' = queue /\ active' = b
      BY Zenon, <1>7, <3>2 DEF Located, Open
    <3>3. Append(queue, b) # queue
      BY <1>7
    <3> QED
      BY Zenon, <1>7, <3>1, <3>2, <3>3
  <2>3. \A z \in Row : Open(z) => Contains(b, z)
    BY Zenon, <1>7 DEF Open
  <2> QED
    BY Zenon, <1>4, <1>5, <1>9, <2>1, <2>2, <2>3 DEF Located
<1>11. Located(x)' /\ queue' # queue => x \in Started' \/ Waiting(x, n)'
  BY Zenon, <1>9 DEF Located, Open, Waiting
<1>12. \A j \in DOMAIN queue : Waiting(x, j) => Waiting(x, j)'
  BY Zenon, <1>4, <1>9 DEF Waiting
<1>13. CASE New(y)
  <2>1. Located(x)'
    <3>1. CASE New(x)
      BY Zenon, <1>10, <3>1
    <3>2. CASE ~ New(x)
      <4>1. ~ (Appending(x[1]) /\ x[2] >= crit.cursor[2])
        <5>1. x[1] \in Request /\ x[2] \in 1 .. MaxRows /\ y[2] \in 1 .. MaxRows
          BY RowFacts
        <5>2. CASE x[1] # r
          BY Zenon, <1>1, <5>1, <5>2
        <5>3. CASE x[1] = r
          <6>1. y[1] = r /\ y[2] < i + k /\ ~ (i <= x[2] /\ x[2] < i + k)
            BY Zenon, <1>13, <3>2, <5>3
          <6>2. x[2] < y[2]
            BY <5>3, <6>1, ConfigAssumption DEF Before, Request
          <6> HIDE DEF New
          <6>3. ~ (x[2] >= i)
            BY SMTT(30), <5>1, <6>1, <6>2, ConfigAssumption
          <6> QED
            BY Zenon, <1>1, <6>3
        <5> QED
          BY Zenon, <5>2, <5>3
      <4> QED
        BY Zenon, <1>10, <4>1, Placed
    <3> QED
      BY Zenon, <3>1, <3>2
  <2>2. \A j \in DOMAIN queue' : Contains(queue[j], y)' => j = n /\ queue' # queue
    <3>1. ASSUME NEW j \in DOMAIN queue, Contains(queue[j], y)'
          PROVE  FALSE
      <4>1. PICK c \in Batch : c = queue[j] /\ queue'[j] = c /\ c # b
        BY Zenon, <1>9
      <4>2. Contains(c, y)'
        BY Zenon, <3>1, <4>1
      <4>3. Contains(c, y)
        BY Zenon, <1>4, <4>1, <4>2
      <4> QED
        BY Zenon, <1>6, <1>13, <4>3
    <3>2. \A j \in DOMAIN queue' : j \notin DOMAIN queue => j = n /\ queue' # queue
      BY Zenon, <1>9
    <3> QED
      BY Zenon, <3>1, <3>2
  <2> QED
    BY Zenon, <1>5, <1>6, <1>11, <1>13, <2>1, <2>2 DEF Ordered
<1>14. CASE ~ New(y)
  <2>1. Contains(b, y)' => Located(x)'
    BY Zenon, <1>4, <1>8, <1>10, <1>14 DEF Ordered
  <2>2. \A j \in DOMAIN queue : Contains(queue[j], y)' => x \in Started' \/ Waiting(x, j)'
    BY Zenon, <1>4, <1>5, <1>9, <1>12, <1>14 DEF Ordered
  <2>3. Open(y)' => Contains(b, y)'
    BY Zenon, <1>7 DEF Open
  <2>4. \A j \in DOMAIN queue' : Contains(queue[j], y)' => x \in Started' \/ Waiting(x, j)'
    BY Zenon, <1>9, <1>11, <2>1, <2>2
  <2> QED
    BY Zenon, <1>5, <2>1, <2>3, <2>4 DEF Ordered
<1> QED
  BY Zenon, <1>13, <1>14

\* A batch of SubmitUnbatched holds no row of a coalesced call.
LEMMA Order_Queues ==
  ASSUME Structure, NEW r \in Request, NEW b \in Batch, NEW m \in 1 .. MaxRows, Queues(r, b, m),
         NEW x \in Row, NEW y \in Row, Coalesced(x)', Coalesced(y)', Ordered(x, y)
  PROVE  Ordered(x, y)'
<1>1. /\ queue \in Seq(Batch) /\ queue' = Append(queue, b) /\ active' = active
      /\ batch[b] = EmptyBatch /\ b # active
      /\ \A c \in Batch \ {b} : batch'[c] = batch[c]
  BY Zenon, EmptyFacts DEF Queues, Structure, TypeOK
<1>2. \A c \in Batch \ {b} : \A z : Contains(c, z)' <=> Contains(c, z)
  BY Zenon, <1>1 DEF Contains
<1>3. ~ Contains(b, y)'
  <2>1. PICK q \in Request, j \in 1 .. MaxRows : y = <<q, j>> /\ y[1] = q
    BY RowFacts
  <2>2. req'[q].mode = "coalesced" /\ req'[r].mode = "unbatched"
    BY Zenon, <2>1 DEF Coalesced, Queues
  <2>3. "coalesced" # "unbatched"
    OBVIOUS
  <2>4. q # r
    BY Zenon, <2>2, <2>3
  <2>5. 1 \in 1 .. MaxRows /\ m \in Nat /\ 1 + m - 1 <= MaxRows
    BY ConfigAssumption
  <2>6. ~ In(<<q, j>>, Slice(r, 1, m))
    BY Zenon, <2>4, <2>5, InSlice
  <2> QED
    BY Zenon, <2>1, <2>6 DEF Contains, In, Queues
<1>4. \A z \in Row : z \in Started' <=> z \in Started
  <2>1. \A c \in Batch : InFlight(c)' <=> InFlight(c)
    BY Zenon DEF Queues, InFlight
  <2>2. ~ InFlight(b) /\ sent' = sent
    BY Zenon, <1>1, EmptyFacts DEF Queues, Structure
  <2>3. \A c \in Batch : InFlight(c) => \A z \in Row : Contains(c, z)' <=> Contains(c, z)
    BY Zenon, <1>2, <2>2
  <2> QED
    BY Zenon, <2>1, <2>2, <2>3, SameStarted
<1>5. \A z : Open(z)' <=> Open(z)
  <2>1. active # NoBatch => active \in Batch
    BY Zenon DEF Structure, TypeOK
  <2> QED
    BY Zenon, <1>1, <1>2, <2>1 DEF Open
<1>0. PICK n : n = Len(queue) + 1
  OBVIOUS
<1>6. /\ queue'[n] = b
      /\ \A i \in DOMAIN queue : queue'[i] = queue[i] /\ i \in DOMAIN queue'
      /\ \A i \in DOMAIN queue' : i = n \/ i \in DOMAIN queue
  BY Zenon, <1>0, <1>1, LastInQueue
<1>7. \A i \in DOMAIN queue : queue[i] \in Batch \ {b}
  <2>1. \A i \in DOMAIN queue : queue[i] \in Batch
    BY LenProperties, <1>1
  <2>2. ~ Queued(b)
    BY Zenon, <1>1, EmptyFacts DEF Structure
  <2> QED
    BY Zenon, <2>1, <2>2 DEF Queued
<1>8. \A z : \A i \in DOMAIN queue : Contains(queue[i], z)' <=> Contains(queue[i], z)
  BY Zenon, <1>2, <1>6, <1>7
<1>9. \A j \in DOMAIN queue : Waiting(x, j) => Waiting(x, j)'
  BY Zenon, <1>6, <1>8 DEF Waiting
<1>10. Located(x) => Located(x)'
  BY Zenon, <1>4, <1>5, <1>6, <1>8 DEF Located
<1>11. \A j \in DOMAIN queue' : Contains(queue[j], y)' => j \in DOMAIN queue
  BY Zenon, <1>3, <1>6
<1> QED
  BY Zenon, <1>4, <1>5, <1>8, <1>9, <1>10, <1>11 DEF Ordered

\* The steps that move no row.
LEMMA StaysShape ==
  ASSUME Structure, AccountInv,
         \/ \E n \in RefusedSizes : SubmitRefused(n)
         \/ \E n \in CoalescedSizes : SubmitCoalesced(n)
         \/ MergeEnds \/ Unlock \/ UNCHANGED vars
         \/ \E b \in Batch : TimerExpires(b) \/ StaleTimer(b) \/ FinishPart(b) \/ Settle(b)
         \/ \E b \in Batch, err \in {{}, {"copy"}} : CopyOutcome(b, err)
         \/ active = NoBatch /\ \E f \in Flushes : FlushAsync(f)
  PROVE  Stays
<1> USE DEF Structure
<1>1. queue' = queue /\ active' = active
  BY Zenon DEF SubmitRefused, SubmitCoalesced, MergeEnds, Unlock, vars, TimerExpires, StaleTimer,
     FinishPart, Settle, CopyOutcome, FlushAsync
<1>2. CASE \/ \E n \in RefusedSizes : SubmitRefused(n)
           \/ \E n \in CoalescedSizes : SubmitCoalesced(n)
           \/ MergeEnds \/ UNCHANGED vars
           \/ \E b \in Batch : TimerExpires(b) \/ StaleTimer(b)
           \/ active = NoBatch /\ \E f \in Flushes : FlushAsync(f)
  <2>1. batch' = batch /\ run' = run /\ sent' = sent
    BY Zenon, <1>2 DEF SubmitRefused, SubmitCoalesced, MergeEnds, vars, TimerExpires, StaleTimer,
       FlushAsync
  <2>2. crit'.picked = crit.picked
    BY Zenon, <1>2 DEF SubmitRefused, SubmitCoalesced, MergeEnds, vars, TimerExpires, StaleTimer,
       FlushAsync, TypeOK, CritType
  <2> QED
    BY Zenon, <1>1, <2>1, <2>2, SameStarted DEF Stays, InFlight, Contains
<1>3. CASE Unlock
  <2>1. /\ batch' = batch /\ sent' = sent /\ crit' = Unlocked
        /\ run' = [b \in Batch |-> IF b \in crit.picked THEN NewRun ELSE run[b]]
    BY Zenon, <1>3 DEF Unlock
  <2>2. crit'.picked = {} /\ NewRun.phase # "none"
    BY <2>1 DEF Unlocked, NewRun
  <2>3. \A c \in Batch : InFlight(c)' <=> InFlight(c)
    BY Zenon, <2>1, <2>2 DEF InFlight
  <2> QED
    BY Zenon, <1>1, <2>1, <2>3, SameStarted DEF Stays, Contains
<1>4. ASSUME NEW b \in Batch, FinishPart(b)
      PROVE  Stays
  <2>1. /\ batch' = batch /\ sent' = sent /\ crit' = crit
        /\ \A c \in Batch : run'[c].phase = run[c].phase
    BY Zenon, <1>4, FinishEffects DEF Finishes
  <2> QED
    BY Zenon, <1>1, <2>1, SameStarted DEF Stays, InFlight, Contains
<1>5. ASSUME NEW b \in Batch, NEW err \in {{}, {"copy"}}, CopyOutcome(b, err)
      PROVE  Stays
  <2>1. /\ batch' = batch /\ crit' = crit /\ run[b].phase = "copying"
        /\ run' = [run EXCEPT ![b].phase = "finishing", ![b].err = err]
        /\ sent' = [row \in Row |-> IF row \in RowsOf(b) THEN sent[row] + 1 ELSE sent[row]]
    BY Zenon, <1>5 DEF CopyOutcome, RowsOf
  <2>2. run \in [Batch -> RunType] /\ run[b] \in RunType /\ sent \in [Row -> Nat]
    BY Zenon DEF TypeOK
  <2>3. run'[b].phase = "finishing" /\ \A c \in Batch \ {b} : run'[c] = run[c]
    BY <2>1, <2>2 DEF RunType
  <2>4. "copying" # "none" /\ "finishing" # "none"
    OBVIOUS
  <2>5. InFlight(b) /\ \A c \in Batch : InFlight(c)' <=> InFlight(c)
    BY Zenon, <2>1, <2>3, <2>4 DEF InFlight
  <2>6. \A c \in Batch, z \in Row : Contains(c, z)' <=> Contains(c, z)
    BY Zenon, <2>1 DEF Contains
  <2>7. \A z \in Row : /\ z \in RowsOf(b) <=> Contains(b, z)
                       /\ ~ Contains(b, z) => sent'[z] = sent[z]
                       /\ Contains(b, z) => sent'[z] > 0
    <3>1. \A z \in Row : z \in RowsOf(b) <=> Contains(b, z)
      BY Zenon DEF RowsOf, Contains
    <3> QED
      BY <2>1, <2>2, <3>1
  <2>8. \A z \in Row : z \in Started' <=> z \in Started
    BY Zenon, <2>5, <2>6, <2>7, StartedFacts, StartedAfter
  <2> QED
    BY Zenon, <1>1, <2>1, <2>8 DEF Stays
<1>6. ASSUME NEW b \in Batch, Settle(b)
      PROVE  Stays
  <2>1. /\ batch' = [batch EXCEPT ![b] = EmptyBatch] /\ sent' = sent /\ crit' = [crit EXCEPT !.pc = "schedule"]
        /\ run' = [run EXCEPT ![b] = NoRun] /\ run[b].phase = "finishing"
        /\ crit.pc = "free" /\ crit \in CritType /\ run \in [Batch -> RunType]
        /\ batch \in [Batch -> BatchType]
    BY Zenon, <1>6 DEF Settle, TypeOK
  <2>2. /\ crit.picked = {} /\ crit'.picked = crit.picked
    BY Zenon, <2>1 DEF CritInv, CritType
  <2>3. NoRun.phase = "none" /\ "finishing" # "none"
    BY DEF NoRun
  <2>4. InFlight(b) /\ ~ InFlight(b)' /\ \A c \in Batch \ {b} : InFlight(c)' <=> InFlight(c)
    BY Zenon, <2>1, <2>2, <2>3 DEF InFlight
  <2>5. \A c \in Batch \ {b} : batch'[c] = batch[c]
    BY Zenon, <2>1
  <2>6. \A c \in Batch \ {b}, z \in Row : Contains(c, z)' <=> Contains(c, z)
    BY Zenon, <2>5 DEF Contains
  <2>7. \A z \in Row : Contains(b, z) => sent[z] > 0
    <3> SUFFICES ASSUME NEW z \in Row, Contains(b, z) PROVE sent[z] > 0
      BY Zenon
    <3>1. PICK q \in Request, j \in 1 .. MaxRows : z = <<q, j>>
      BY RowFacts
    <3>2. sent[z] = 1
      BY Zenon, <2>1, <3>1 DEF AccountInv, RowsInv, RowState
    <3> QED
      BY <3>2
  <2>8. \A z \in Row : z \in Started' <=> z \in Started
    BY Zenon, <2>1, <2>4, <2>6, <2>7, StartedFacts, StartedAfter
  <2>9. b # active /\ ~ Queued(b)
    <3>1. b # NoBatch
      BY Zenon, RowFacts
    <3> QED
      BY Zenon, <2>4, <3>1 DEF Ownership, Queued
  <2> QED
    BY Zenon, <1>1, <2>5, <2>8, <2>9 DEF Stays
<1> QED
  BY Zenon, <1>2, <1>3, <1>4, <1>5, <1>6

\* The timer and FlushAsync close the open batch.
LEMMA ClosesShape ==
  ASSUME Structure,
         \/ \E b \in Batch : FlushExpiredBatch(b)
         \/ active # NoBatch /\ \E f \in Flushes : FlushAsync(f)
  PROVE  Closes(active)
<1> USE DEF Structure
<1>1. active \in Batch /\ active # NoBatch
  <2>1. CASE \E b \in Batch : FlushExpiredBatch(b)
    <3>1. active \in Batch
      BY Zenon, <2>1 DEF FlushExpiredBatch
    <3> QED
      BY Zenon, <3>1, RowFacts
  <2>2. CASE active # NoBatch
    BY Zenon, <2>2 DEF TypeOK
  <2> QED
    BY Zenon, <2>1, <2>2
<1>2. PICK b \in Batch : b = active
  BY Zenon, <1>1
<1>3. PICK why \in {"linger", "manual"} :
        /\ batch' = [batch EXCEPT ![b].reason = why]
        /\ queue' = Enqueue(queue, b, Len(batch[b].rows))
        /\ active' = NoBatch /\ sent' = sent /\ run' = run
  BY Zenon, <1>1, <1>2 DEF FlushExpiredBatch, FlushAsync
<1>4. crit'.picked = crit.picked
  BY Zenon DEF FlushExpiredBatch, FlushAsync, TypeOK, CritType
<1>5. batch \in [Batch -> BatchType] /\ batch[b] \in BatchType
  BY Zenon DEF TypeOK
<1>6. /\ batch'[b].reason = why /\ batch'[b].rows = batch[b].rows
      /\ \A c \in Batch \ {b} : batch'[c] = batch[c]
  BY Zenon, <1>3, <1>5 DEF BatchType
<1>7. batch[b].rows # <<>> /\ batch[b].reason = "none"
  BY Zenon, <1>1, <1>2 DEF Ownership
<1>8. Len(batch[b].rows) # 0
  BY Zenon, <1>5, <1>7, EmptySeq DEF BatchType
<1>9. queue' = Append(queue, b)
  BY Zenon, <1>3, <1>8 DEF Enqueue
<1>10. \A c \in Batch : batch'[c].rows = batch[c].rows
  BY Zenon, <1>6
<1>11. \A x \in Row : x \in Started' <=> x \in Started
  BY Zenon, <1>3, <1>4, <1>10, SameStarted DEF InFlight, Contains
<1> QED
  BY Zenon, <1>1, <1>2, <1>3, <1>6, <1>7, <1>9, <1>10, <1>11 DEF Closes

\* dequeueLocked pops the head of the queue, by itself or into the batch it
\* popped before.
LEMMA PopsShape ==
  ASSUME Structure, AccountInv, Dequeue \/ Merge
  PROVE  Pops(Head(queue))
<1> USE DEF Structure
<1>1. PICK n : n = Head(queue)
  OBVIOUS
<1>2. queue # <<>> /\ queue' = Tail(queue) /\ active' = active /\ sent' = sent /\ run' = run
  BY Zenon DEF Dequeue, HasCapacity, Merge, CanMerge
<1>3. n \in Batch /\ ~ InFlight(n) /\ n # active
  BY Zenon, <1>1, <1>2, HeadFacts
<1>4. CASE Dequeue
  <2>1. batch' = batch /\ crit'.picked = crit.picked \cup {n}
    BY Zenon, <1>1, <1>4 DEF Dequeue, TypeOK, CritType
  <2>2. InFlight(n)' /\ \A c \in Batch \ {n} : InFlight(c)' <=> InFlight(c)
    BY Zenon, <1>2, <2>1 DEF InFlight
  <2>3. \A c \in Batch, z \in Row : Contains(c, z)' <=> Contains(c, z)
    BY Zenon, <2>1 DEF Contains
  <2>4. \A z \in Row : z \in Started' <=> z \in Started \/ Contains(n, z)
    BY Zenon, <1>2, <1>3, <2>2, <2>3, StartedFacts, StartedAfter
  <2> QED
    BY Zenon, <1>1, <1>2, <2>1, <2>4 DEF Pops
<1>5. CASE Merge
  <2>1. PICK b \in Batch : b = crit.into
    BY Zenon, <1>5, MergeFacts
  <2>2. Merges(b, n) /\ crit' = crit /\ b \in crit.picked
    <3>1. /\ b # n /\ b \in crit.picked /\ crit.pc = "merge"
          /\ batch'[n] = EmptyBatch
          /\ batch'[b].rows = batch[b].rows \o batch[n].rows
          /\ batch'[b].requests = batch[b].requests \o batch[n].requests
          /\ batch'[b].reason = "linger" /\ batch[b].reason = "linger" /\ batch[n].reason = "linger"
          /\ \A c \in Batch \ {b, n} : batch'[c] = batch[c]
      BY Zenon, <1>1, <1>5, <2>1, MergeFacts
    <3>2. UNCHANGED <<crit, submitted, pending, run, req, sent, confirmed>>
      BY Zenon, <1>5 DEF Merge
    <3>3. run[n].phase = "none" /\ run[b].phase = "none"
      BY Zenon, <1>3, <3>1 DEF InFlight, Ownership
    <3>4. run[n] = NoRun /\ run[b] = NoRun
      BY Zenon, <1>3, <3>3 DEF Ownership
    <3> QED
      BY Zenon, <3>1, <3>2, <3>4 DEF Merges
  <2>3. /\ \A x \in Row : Contains(b, x)' <=> Contains(b, x) \/ Contains(n, x)
        /\ \A x : ~ Contains(n, x)'
        /\ \A c \in Batch \ {b, n} : \A x : Contains(c, x)' <=> Contains(c, x)
    BY Zenon, <1>3, <2>2, MergeEffects
  <2>4. InFlight(b) /\ \A c \in Batch : InFlight(c)' <=> InFlight(c)
    BY Zenon, <1>2, <2>2 DEF InFlight
  <2>5. \A z \in Row : z \in Started' <=> z \in Started \/ Contains(n, z)
    BY Zenon, <1>2, <1>3, <2>3, <2>4, StartedFacts, StartedAfter
  <2>6. b # active /\ ~ Queued(b)
    <3>1. b # NoBatch
      BY Zenon, RowFacts
    <3> QED
      BY Zenon, <2>4, <3>1 DEF Ownership, Queued
  <2>7. \A c \in Batch \ {n} : c = active \/ Queued(c) => batch'[c].rows = batch[c].rows
    BY Zenon, <2>2, <2>6 DEF Merges
  <2> QED
    BY Zenon, <1>1, <1>2, <2>5, <2>7 DEF Pops
<1> QED
  BY Zenon, <1>4, <1>5

\* An accepted call keeps its mode and its rows, and apart from the call that
\* Submit makes none becomes coalesced.
LEMMA CallsKept ==
  ASSUME Structure, AccountInv, [Next]_vars
  PROVE  /\ \A r \in Request : Accepted(r) => /\ req'[r].mode = req[r].mode
                                              /\ req'[r].rowCount = req[r].rowCount
         /\ ~ (\E n \in CoalescedSizes : SubmitCoalesced(n))
              => \A x \in Row : Coalesced(x)' => Coalesced(x)
<1> USE DEF Structure
<1> DEFINE Same(q) == req'[q].mode = req[q].mode /\ req'[q].rowCount = req[q].rowCount
<1>1. CASE \/ \E n \in RefusedSizes : SubmitRefused(n)
           \/ \E n \in CoalescedSizes : SubmitCoalesced(n)
           \/ \E n \in UnbatchedSizes : SubmitUnbatched(n)
  <2>1. submitted < NumRequests
    BY Zenon, <1>1 DEF SubmitRefused, SubmitCoalesced, SubmitUnbatched
  <2>2. PICK r \in Request : r = submitted + 1
    BY Zenon, <2>1, NextRequest
  <2>3. req \in [Request -> RequestType] /\ req[r].mode = "none"
    <3>1. r > submitted
      BY <2>2 DEF TypeOK
    <3> QED
      BY Zenon, <3>1 DEF TypeOK, AccountInv, Calls
  <2>4. \A q \in Request \ {r} : req'[q] = req[q]
    BY Zenon, <1>1, <2>2, <2>3 DEF SubmitRefused, SubmitCoalesced, SubmitUnbatched
  <2>5. ~ Accepted(r)
    BY <2>3 DEF Accepted
  <2>6. ~ (\E n \in CoalescedSizes : SubmitCoalesced(n)) => req'[r].mode # "coalesced"
    <3>1. ASSUME NEW n \in RefusedSizes, SubmitRefused(n)
          PROVE  req'[r].mode = "refused"
      BY Zenon, <2>2, <2>3, <3>1 DEF SubmitRefused, RequestType
    <3>2. ASSUME NEW n \in UnbatchedSizes, SubmitUnbatched(n)
          PROVE  req'[r].mode = "unbatched"
      <4>1. PICK q \in Request, b \in Batch : Queues(q, b, n)
        BY Zenon, <3>2, UnbatchedShape
      <4> QED
        BY Zenon, <2>2, <4>1 DEF Queues
    <3>3. "refused" # "coalesced" /\ "unbatched" # "coalesced"
      OBVIOUS
    <3> QED
      BY Zenon, <1>1, <3>1, <3>2, <3>3
  <2>7. \A x \in Row : x[1] \in Request
    BY Zenon, RowFacts
  <2> QED
    BY Zenon, <2>4, <2>5, <2>6, <2>7 DEF Coalesced
<1>2. ASSUME \A q \in Request : Same(q)
      PROVE  /\ \A r \in Request : Accepted(r) => Same(r)
             /\ \A x \in Row : Coalesced(x)' => Coalesced(x)
  <2>1. \A x \in Row : x[1] \in Request
    BY Zenon, RowFacts
  <2> QED
    BY Zenon, <1>2, <2>1 DEF Coalesced
<1>3. CASE AppendRows
  <2>1. PICK r \in Request, i \in 1 .. MaxRows, b \in Batch, n \in Nat \ {0} : Appends(r, i, b, n)
    BY Zenon, <1>3, AppendShape
  <2>2. req'[r] = [req[r] EXCEPT !.parts = @ + 1] /\ \A q \in Request \ {r} : req'[q] = req[q]
    BY Zenon, <2>1 DEF Appends
  <2>3. req[r] \in RequestType
    BY Zenon DEF TypeOK
  <2>4. Same(r)
    BY Zenon, <2>2, <2>3 DEF RequestType
  <2> QED
    BY Zenon, <1>2, <2>2, <2>4
<1>4. ASSUME NEW b \in Batch, FinishPart(b)
      PROVE  \A q \in Request : Same(q)
  <2>1. PICK r : r = batch[b].requests[run[b].next]
    OBVIOUS
  <2>2. Finishes(r, b)
    BY Zenon, <1>4, <2>1, FinishEffects
  <2> QED
    BY Zenon, <2>2 DEF Finishes
<1>5. CASE \/ Dequeue \/ Merge \/ MergeEnds \/ Unlock \/ UNCHANGED vars
           \/ \E b \in Batch : TimerExpires(b) \/ StaleTimer(b)
           \/ \E b \in Batch : FlushExpiredBatch(b)
           \/ \E b \in Batch, err \in {{}, {"copy"}} : CopyOutcome(b, err)
           \/ \E b \in Batch : Settle(b)
           \/ \E f \in Flushes : FlushAsync(f)
           \/ \E f \in Flushes : FlushResolves(f)
  <2>1. req' = req
    BY Zenon, <1>5 DEF Dequeue, Merge, MergeEnds, Unlock, vars, TimerExpires, StaleTimer,
       FlushExpiredBatch, CopyOutcome, Settle, FlushAsync, FlushResolves
  <2> QED
    BY Zenon, <1>2, <2>1
<1> QED
  BY Zenon, <1>1, <1>2, <1>3, <1>4, <1>5, Steps

\* A call that Submit makes comes last, and no row of it is anywhere yet.
LEMMA Order_SubmitCoalesced ==
  ASSUME Structure, AccountInv, OrderInv, [Next]_vars, NEW n \in CoalescedSizes, SubmitCoalesced(n)
  PROVE  OrderInv'
<1> USE DEF Structure
<1>1. PICK r \in Request : r = submitted + 1
  BY Zenon, NextRequest DEF SubmitCoalesced
<1>2. /\ \A q \in Request : q >= r => req[q].mode = "none" /\ ~ Accepted(q)
      /\ \A q \in Request \ {r} : req'[q] = req[q]
  <2>1. \A q \in Request : q >= r => q > submitted
    BY <1>1, ConfigAssumption DEF TypeOK, Request
  <2>2. \A q \in Request : req[q].mode = "none" => ~ Accepted(q)
    BY DEF Accepted
  <2> QED
    BY Zenon, <1>1, <2>1, <2>2 DEF AccountInv, Calls, SubmitCoalesced, TypeOK
<1>3. Stays
  BY Zenon, StaysShape
<1>4. \A q \in Request, j \in 1 .. MaxRows :
        q >= r => <<q, j>> \notin Started /\ \A c \in Batch : ~ Contains(c, <<q, j>>)
  <2> SUFFICES ASSUME NEW q \in Request, NEW j \in 1 .. MaxRows, q >= r
               PROVE  <<q, j>> \notin Started /\ \A c \in Batch : ~ Contains(c, <<q, j>>)
    BY Zenon
  <2>1. \A c \in Batch : ~ Contains(c, <<q, j>>)
    BY Zenon, <1>2 DEF AccountInv, RowsInv, RowState
  <2>2. sent[<<q, j>>] = 0
    BY Zenon, <1>2 DEF AccountInv, RowsInv, RowFate
  <2>3. ~ (sent[<<q, j>>] > 0) /\ <<q, j>> \in Row
    BY <2>2, RowFacts
  <2> QED
    BY Zenon, <2>1, <2>3, StartedFacts
<1>5. SUFFICES ASSUME NEW x \in Row, NEW y \in Row, Coalesced(x)', Coalesced(y)', Before(x, y)
               PROVE  Ordered(x, y)'
  BY Zenon DEF OrderInv
<1>6. PICK p \in Request, h \in 1 .. MaxRows : x = <<p, h>> /\ x[1] = p
  BY RowFacts
<1>7. PICK q \in Request, j \in 1 .. MaxRows : y = <<q, j>> /\ y[1] = q
  BY RowFacts
<1>8. CASE q >= r
  <2>1. y \notin Started /\ \A c \in Batch : ~ Contains(c, y)
    BY Zenon, <1>4, <1>7, <1>8
  <2>2. queue \in Seq(Batch) /\ active \in Batch \cup {NoBatch}
    BY Zenon DEF TypeOK
  <2>3. \A i \in DOMAIN queue : queue[i] \in Batch
    BY LenProperties, <2>2
  <2>4. Ordered(x, y)
    BY Zenon, <2>1, <2>2, <2>3 DEF Ordered, Open
  <2> QED
    BY Zenon, <1>3, <2>4, Order_Stays
<1>9. CASE ~ (q >= r)
  <2>1. q # r /\ p # r
    BY SMTT(30), <1>5, <1>6, <1>7, <1>9, ConfigAssumption DEF Before, Request
  <2>2. Coalesced(x) /\ Coalesced(y)
    BY Zenon, <1>2, <1>5, <1>6, <1>7, <2>1 DEF Coalesced
  <2>3. Ordered(x, y)
    BY Zenon, <1>5, <2>2 DEF OrderInv
  <2> QED
    BY Zenon, <1>3, <2>3, Order_Stays
<1> QED
  BY Zenon, <1>8, <1>9

\* Every step keeps the rows of coalesced calls in order.
LEMMA OrderStep ==
  ASSUME Structure, AccountInv, OrderInv, [Next]_vars
  PROVE  OrderInv'
<1>1. TypeOK /\ Ownership
  BY Zenon DEF Structure
<1>2. CASE \E n \in CoalescedSizes : SubmitCoalesced(n)
  BY Zenon, <1>2, Order_SubmitCoalesced
<1>3. CASE ~ \E n \in CoalescedSizes : SubmitCoalesced(n)
  <2>1. SUFFICES ASSUME NEW x \in Row, NEW y \in Row, Coalesced(x)', Coalesced(y)', Before(x, y),
                        Coalesced(x), Coalesced(y), Ordered(x, y)
                 PROVE  Ordered(x, y)'
    BY Zenon, <1>3, CallsKept DEF OrderInv
  <2>2. CASE Stays
    BY Zenon, <1>1, <2>1, <2>2, Order_Stays
  <2>3. CASE \E f \in Flushes : FlushAsync(f)
    BY Zenon, <1>1, <2>1, <2>2, <2>3, StaysShape, ClosesShape, Order_Closes
  <2>4. CASE \E b \in Batch : FlushExpiredBatch(b)
    BY Zenon, <1>1, <2>1, <2>4, ClosesShape, Order_Closes
  <2>5. CASE Dequeue \/ Merge
    BY Zenon, <1>1, <2>1, <2>5, PopsShape, Order_Pops
  <2>6. CASE AppendRows
    BY Zenon, <2>1, <2>6, AppendShape, Order_Appends
  <2>7. CASE \E n \in UnbatchedSizes : SubmitUnbatched(n)
    BY Zenon, <2>1, <2>7, UnbatchedShape, Order_Queues
  <2>8. CASE \E f \in Flushes : FlushResolves(f)
    <3>1. UNCHANGED <<queue, active, batch, sent, crit, run>>
      BY Zenon, <2>8 DEF FlushResolves
    <3>2. Stays
      BY Zenon, <3>1, SameStarted DEF Stays, InFlight, Contains
    <3> QED
      BY Zenon, <2>2, <3>2
  <2> QED
    BY ZenonT(30), <1>3, <2>2, <2>3, <2>4, <2>5, <2>6, <2>7, <2>8, Steps, StaysShape
<1> QED
  BY Zenon, <1>2, <1>3

-----------------------------------------------------------------------------
(* Unbatched calls.                                                        *)

\* A batch that keeps its rows and stays unbatched or not, and one that is given
\* rows of coalesced calls only.
LEMMA Alone_Frame ==
  ASSUME Structure, AccountInv, AloneInv, [Next]_vars,
         \A c \in Batch :
           \/ /\ batch'[c].rows = batch[c].rows
              /\ batch'[c].reason = "unbatched" <=> batch[c].reason = "unbatched"
           \/ CoalescedOnly(c)' \/ WholeCall(c)'
  PROVE  AloneInv'
<1> SUFFICES ASSUME NEW c \in Batch,
                    batch'[c].rows = batch[c].rows,
                    batch'[c].reason = "unbatched" <=> batch[c].reason = "unbatched"
             PROVE  CoalescedOnly(c)' \/ WholeCall(c)'
  BY Zenon DEF AloneInv
<1>1. \A z : Contains(c, z)' <=> Contains(c, z)
  BY Zenon DEF Contains
<1>2. \A r \in Request : Accepted(r) => /\ req'[r].mode = req[r].mode
                                        /\ req'[r].rowCount = req[r].rowCount
  BY Zenon, CallsKept
<1>3. CASE CoalescedOnly(c)
  BY Zenon, <1>1, <1>2, <1>3 DEF CoalescedOnly, AccountInv, RowsInv, RowState
<1>4. CASE WholeCall(c)
  <2>1. PICK r \in Request : req[r].mode = "unbatched" /\ RowsOf(c) = RowsOfRequest(r)
    BY Zenon, <1>4 DEF WholeCall
  <2>2. Accepted(r)
    BY <2>1 DEF Accepted
  <2>3. req'[r].mode = "unbatched" /\ req'[r].rowCount = req[r].rowCount
    BY Zenon, <1>2, <2>1, <2>2
  <2>4. RowsOf(c)' = RowsOf(c) /\ RowsOfRequest(r)' = RowsOfRequest(r)
    BY Zenon, <2>3 DEF RowsOf, RowsOfRequest
  <2> QED
    BY Zenon, <1>4, <2>1, <2>3, <2>4 DEF WholeCall
<1> QED
  BY Zenon, <1>3, <1>4 DEF AloneInv

\* A batch without rows has none to mix.
LEMMA Alone_Empty ==
  ASSUME NEW b \in Batch, batch'[b] = EmptyBatch
  PROVE  CoalescedOnly(b)'
<1>1. batch'[b].rows = <<>> /\ batch'[b].reason = "none"
  BY DEF EmptyBatch
<1>2. DOMAIN <<>> = {} /\ "none" # "unbatched"
  OBVIOUS
<1>3. \A z : ~ Contains(b, z)'
  BY Zenon, <1>1, <1>2 DEF Contains
<1> QED
  BY Zenon, <1>1, <1>2, <1>3 DEF CoalescedOnly

\* Every step keeps unbatched calls apart from all others.
LEMMA AloneStep ==
  ASSUME Structure, AccountInv, AloneInv, [Next]_vars
  PROVE  AloneInv'
<1> USE DEF Structure
<1>1. CASE batch' = batch
  BY Zenon, <1>1, Alone_Frame
<1>2. CASE \/ \E b \in Batch : FlushExpiredBatch(b)
           \/ active # NoBatch /\ \E f \in Flushes : FlushAsync(f)
  <2>1. Closes(active)
    BY Zenon, <1>2, ClosesShape
  <2>2. \A s \in {"none", "linger", "manual"} : s # "unbatched"
    OBVIOUS
  <2>3. \A c \in Batch : /\ batch'[c].rows = batch[c].rows
                         /\ batch'[c].reason = "unbatched" <=> batch[c].reason = "unbatched"
    BY Zenon, <2>1, <2>2 DEF Closes
  <2> QED
    BY Zenon, <2>3, Alone_Frame
<1>3. CASE Merge
  <2>1. PICK b \in Batch, n \in Batch : Merges(b, n)
    BY Zenon, <1>3, MergeShape
  <2>2. /\ \A z \in Row : Contains(b, z)' <=> Contains(b, z) \/ Contains(n, z)
    BY Zenon, <2>1, MergeEffects
  <2>3. "linger" # "unbatched"
    OBVIOUS
  <2>4. /\ batch[b].reason = "linger" /\ batch[n].reason = "linger" /\ batch'[b].reason = "linger"
        /\ req' = req /\ \A c \in Batch \ {b, n} : batch'[c] = batch[c]
    BY Zenon, <2>1 DEF Merges
  <2>5. CoalescedOnly(b) /\ CoalescedOnly(n)
    BY Zenon, <2>3, <2>4 DEF AloneInv, WholeCall
  <2>6. CoalescedOnly(b)'
    BY Zenon, <2>2, <2>3, <2>4, <2>5, RowFacts DEF CoalescedOnly
  <2>7. CoalescedOnly(n)'
    BY Zenon, <2>1, Alone_Empty DEF Merges
  <2> QED
    BY Zenon, <2>4, <2>6, <2>7, Alone_Frame
<1>4. ASSUME NEW b \in Batch, Settle(b)
      PROVE  AloneInv'
  <2>1. batch'[b] = EmptyBatch /\ \A c \in Batch \ {b} : batch'[c] = batch[c]
    BY Zenon, <1>4 DEF Settle, TypeOK
  <2> QED
    BY Zenon, <2>1, Alone_Empty, Alone_Frame
<1>5. CASE AppendRows
  <2>1. PICK r \in Request, i \in 1 .. MaxRows, b \in Batch, k \in Nat \ {0} : Appends(r, i, b, k)
    BY Zenon, <1>5, AppendShape
  <2>2. /\ batch'[b].rows = batch[b].rows \o Slice(r, i, k) /\ batch[b].reason = "none"
        /\ batch'[b].reason \in {"full", "none"}
        /\ \A c \in Batch \ {b} : batch'[c] = batch[c]
        /\ i + k - 1 <= MaxRows
    BY Zenon, <2>1 DEF Appends
  <2>3. \A s \in {"full", "none"} : s # "unbatched"
    OBVIOUS
  <2>4. CoalescedOnly(b)
    BY Zenon, <2>2, <2>3 DEF AloneInv, WholeCall
  <2>5. req[r].mode = "coalesced" /\ Accepted(r)
    <3>1. Appending(r)
      BY <2>1 DEF Appends, Appending
    <3> QED
      BY Zenon, <3>1 DEF AccountInv, Calls, Accepted
  <2>6. \A q \in Request : Accepted(q) => req'[q].mode = req[q].mode
    BY Zenon, CallsKept
  <2>7. batch[b].rows \in Seq(Row) /\ Slice(r, i, k) \in Seq(Row)
    <3>1. i \in Nat \ {0} /\ k \in Nat
      BY ConfigAssumption
    <3> QED
      BY Zenon, <2>2, <3>1, SliceType DEF TypeOK, BatchType
  <2>8. ASSUME NEW q \in Request, NEW j \in 1 .. MaxRows, Contains(b, <<q, j>>)'
        PROVE  req'[q].mode = "coalesced"
    <3>1. In(<<q, j>>, batch[b].rows \o Slice(r, i, k))
      BY Zenon, <2>2, <2>8 DEF Contains, In
    <3>2. CASE In(<<q, j>>, batch[b].rows)
      <4>1. Contains(b, <<q, j>>)
        BY Zenon, <3>2 DEF Contains, In
      <4> QED
        BY Zenon, <2>4, <2>6, <4>1 DEF CoalescedOnly, AccountInv, RowsInv, RowState
    <3>3. CASE In(<<q, j>>, Slice(r, i, k))
      <4>1. k \in Nat
        OBVIOUS
      <4>2. q = r
        BY Zenon, <2>2, <3>3, <4>1, InSlice
      <4> QED
        BY Zenon, <2>5, <2>6, <4>2
    <3> QED
      BY Zenon, <2>7, <3>1, <3>2, <3>3, InConcat
  <2>9. CoalescedOnly(b)'
    BY Zenon, <2>2, <2>3, <2>8 DEF CoalescedOnly
  <2> QED
    BY Zenon, <2>2, <2>9, Alone_Frame
<1>6. ASSUME NEW m \in UnbatchedSizes, SubmitUnbatched(m)
      PROVE  AloneInv'
  <2>1. PICK r \in Request, b \in Batch : m \in 1 .. MaxRows /\ Queues(r, b, m)
    BY Zenon, <1>6, UnbatchedShape
  <2>2. /\ batch'[b].rows = Slice(r, 1, m) /\ batch'[b].reason = "unbatched"
        /\ req'[r].mode = "unbatched" /\ req'[r].rowCount = m
        /\ \A c \in Batch \ {b} : batch'[c] = batch[c]
    BY Zenon, <2>1 DEF Queues
  <2>3. /\ DOMAIN batch'[b].rows = 1 .. m
        /\ \A j \in 1 .. m : batch'[b].rows[j] = <<r, j>>
    BY <2>1, <2>2, ConfigAssumption DEF Slice
  <2>4. RowsOf(b)' = {<<r, j>> : j \in 1 .. m}
    BY Zenon, <2>3 DEF RowsOf
  <2>5. RowsOf(b)' = RowsOfRequest(r)'
    <3>1. RowsOfRequest(r)' = {r} \X (1 .. m)
      BY Zenon, <2>2 DEF RowsOfRequest
    <3>2. {r} \X (1 .. m) = {<<r, j>> : j \in 1 .. m}
      OBVIOUS
    <3> QED
      BY Zenon, <2>4, <3>1, <3>2
  <2>6. WholeCall(b)'
    BY Zenon, <2>2, <2>5 DEF WholeCall
  <2> QED
    BY Zenon, <2>2, <2>6, Alone_Frame
<1>7. CASE \/ \E n \in RefusedSizes : SubmitRefused(n)
           \/ \E n \in CoalescedSizes : SubmitCoalesced(n)
           \/ Dequeue \/ MergeEnds \/ Unlock \/ UNCHANGED vars
           \/ \E b \in Batch : TimerExpires(b) \/ StaleTimer(b)
           \/ \E b \in Batch, err \in {{}, {"copy"}} : CopyOutcome(b, err)
           \/ \E b \in Batch : FinishPart(b)
           \/ active = NoBatch /\ \E f \in Flushes : FlushAsync(f)
           \/ \E f \in Flushes : FlushResolves(f)
  <2>1. batch' = batch
    BY Zenon, <1>7 DEF SubmitRefused, SubmitCoalesced, Dequeue, MergeEnds, Unlock, vars,
       TimerExpires, StaleTimer, CopyOutcome, FinishPart, FlushAsync, FlushResolves
  <2> QED
    BY Zenon, <1>1, <2>1
<1> QED
  BY Zenon, <1>2, <1>3, <1>4, <1>5, <1>6, <1>7, Steps

\* No row is anywhere in an initial state.
LEMMA OrderInit ==
  ASSUME Init
  PROVE  OrderInv /\ AloneInv
<1>1. /\ batch = [b \in Batch |-> EmptyBatch] /\ queue = <<>> /\ active = NoBatch
      /\ req = [r \in Request |-> [mode |-> "none", rowCount |-> 0, parts |-> 0, errs |-> {},
                                   result |-> Pending]]
  BY Zenon DEF Init
<1>2. \A r \in Request : req[r].mode # "coalesced"
  BY <1>1
<1>3. \A x \in Row : ~ Coalesced(x)
  BY Zenon, <1>2, RowFacts DEF Coalesced
<1>4. \A b \in Batch : batch[b].rows = <<>> /\ batch[b].reason # "unbatched"
  BY <1>1 DEF EmptyBatch
<1>5. DOMAIN <<>> = {}
  OBVIOUS
<1>6. \A b \in Batch : CoalescedOnly(b)
  BY Zenon, <1>4, <1>5 DEF CoalescedOnly, Contains
<1> QED
  BY Zenon, <1>3, <1>6 DEF OrderInv, AloneInv

\* What the two invariants say of the rows handed to COPY.
LEMMA Discipline ==
  ASSUME TypeOK, AccountInv, OrderInv, AloneInv
  PROVE  QueueDiscipline
<1>1. StartOrder
  <2> SUFFICES ASSUME NEW x \in Row, NEW y \in Row, x \in Started, Before(y, x),
                      req[x[1]].mode = "coalesced", Coalesced(y)
               PROVE  y \in Started
    BY Zenon DEF StartOrder, Before, Coalesced
  <2>1. PICK r \in Request, j \in 1 .. MaxRows : x = <<r, j>> /\ x[1] = r /\ x[2] = j
    BY RowFacts
  <2>2. j <= req[r].rowCount
    <3>1. CASE sent[x] > 0
      <4>1. sent[<<r, j>>] # 0 /\ req[r].rowCount \in 0 .. MaxRows
        BY <2>1, <3>1 DEF TypeOK, RequestType
      <4>2. ~ (j > req[r].rowCount)
        BY Zenon, <4>1 DEF AccountInv, RowsInv, RowFate
      <4> QED
        BY SMTT(30), <4>1, <4>2, ConfigAssumption
    <3>2. ASSUME NEW c \in Batch, Contains(c, x)
          PROVE  j <= req[r].rowCount
      BY Zenon, <2>1, <3>2 DEF AccountInv, RowsInv, RowState
    <3> QED
      BY Zenon, <3>1, <3>2, StartedFacts
  <2>3. Coalesced(x)
    BY Zenon, <2>1, <2>2 DEF Coalesced
  <2> QED
    BY Zenon, <2>3 DEF OrderInv, Ordered
<1>2. UnbatchedAlone
  <2> SUFFICES ASSUME NEW r \in Request, NEW b \in Batch, req[r].mode = "unbatched",
                      RowsOf(b) \cap ({r} \X (1 .. MaxRows)) # {}
               PROVE  RowsOf(b) = RowsOfRequest(r)
    BY Zenon DEF UnbatchedAlone
  <2>1. PICK j \in 1 .. MaxRows : <<r, j>> \in RowsOf(b)
    OBVIOUS
  <2>2. Contains(b, <<r, j>>)
    BY Zenon, <2>1 DEF RowsOf, Contains
  <2>3. "unbatched" # "coalesced"
    OBVIOUS
  <2>4. PICK q \in Request : RowsOf(b) = RowsOfRequest(q)
    BY Zenon, <2>2, <2>3 DEF AloneInv, CoalescedOnly, WholeCall
  <2>5. q = r
    BY <2>1, <2>4 DEF RowsOfRequest
  <2> QED
    BY Zenon, <2>4, <2>5
<1> QED
  BY Zenon, <1>1, <1>2 DEF QueueDiscipline
=============================================================================
