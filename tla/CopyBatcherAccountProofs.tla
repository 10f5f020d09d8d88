---------------------- MODULE CopyBatcherAccountProofs ----------------------
(***************************************************************************)
(* The accounting of rows, parts, errors and results (AccountInv) is kept  *)
(* by every step, and a step adds or ends at most one part of one call or  *)
(* moves the parts of one batch: what CopyBatcherProofs counts them by.    *)
(***************************************************************************)
EXTENDS CopyBatcherStructureProofs

-----------------------------------------------------------------------------
(* The accounting, one lemma per step.                                     *)

\* The batches and goroutines hold what they held, as far as the accounting
\* tells: a batch that was not full has at most another reason.
SameBatches ==
  \A b \in Batch :
    /\ batch'[b].rows = batch[b].rows /\ batch'[b].requests = batch[b].requests
    /\ (batch'[b].reason = "full") <=> (batch[b].reason = "full")
    /\ run'[b].next = run[b].next /\ run'[b].completed = run[b].completed
    /\ run'[b].err = run[b].err
    /\ (run'[b].phase = "finishing") <=> (run[b].phase = "finishing")

\* Then they list, contain and hold the same.
LEMMA SameHolds ==
  ASSUME SameBatches
  PROVE  /\ \A b \in Batch : \A x : /\ Lists(b, x)' <=> Lists(b, x)
                                    /\ Contains(b, x)' <=> Contains(b, x)
                                    /\ Holds(b, x)' <=> Holds(b, x)
         /\ \A r : Holders(r)' = Holders(r)
<1>1. \A b \in Batch : \A x : /\ Lists(b, x)' <=> Lists(b, x)
                              /\ Contains(b, x)' <=> Contains(b, x)
                              /\ Holds(b, x)' <=> Holds(b, x)
  BY Zenon DEF SameBatches, Lists, Contains, Holds
<1> QED
  BY Zenon, <1>1 DEF Holders

\* A step that moves no row, part or result keeps the books.
LEMMA Account_Frame ==
  ASSUME AccountInv, SameBatches, Copying',
         UNCHANGED <<submitted, pending, req, sent, confirmed>>,
         (crit.pc # "append" /\ crit'.pc # "append") \/ UNCHANGED <<crit, run>>
  PROVE  AccountInv' /\ (Counted => Counted')
<1>1. /\ \A b \in Batch : \A x : /\ Lists(b, x)' <=> Lists(b, x)
                                 /\ Contains(b, x)' <=> Contains(b, x)
      /\ \A r : Holders(r)' = Holders(r)
  BY Zenon, SameHolds
<1>2. \A r : Accepted(r)' <=> Accepted(r)
  BY Zenon DEF Accepted
<1>3. \A r : /\ Appending(r)' <=> Appending(r)
             /\ Appending(r) => UNCHANGED <<crit, run>>
  BY Zenon DEF Appending
<1>4. Calls' /\ NonNegative'
  BY Zenon, <1>2, <1>3 DEF AccountInv, Calls, NonNegative
<1>5. DistinctInv'
  BY Zenon DEF AccountInv, DistinctInv, SameBatches
<1>6. OneNonFull' /\ OneBatch'
  BY Zenon, <1>1 DEF AccountInv, OneNonFull, OneBatch, SameBatches
<1>7. Listed'
  <2> SUFFICES ASSUME NEW b \in Batch, NEW r \in Request, Lists(b, r)'
               PROVE  /\ Appending(r)' => batch'[b].reason = "full" /\ ~ InFlight(b)'
                      /\ \E j \in 1 .. MaxRows : Contains(b, <<r, j>>)'
    BY Zenon DEF Listed
  <2>1. Lists(b, r)
    BY Zenon, <1>1
  <2>2. ASSUME Appending(r) PROVE batch'[b].reason = "full" /\ ~ InFlight(b)'
    BY Zenon, <2>1, <2>2, <1>3 DEF AccountInv, Listed, SameBatches, InFlight
  <2>3. \E j \in 1 .. MaxRows : Contains(b, <<r, j>>)
    BY Zenon, <2>1 DEF AccountInv, Listed
  <2> QED
    BY Zenon, <2>2, <2>3, <1>1, <1>3
<1>8. RowsInv'
  BY <1>1, <1>2, <1>3 DEF AccountInv, RowsInv, RowState, SameBatches, RowFate
<1>9. Errors'
  BY Zenon, <1>1 DEF Holders, AccountInv, Errors, SameBatches
<1>10. Futures'
  BY Zenon, <1>2, <1>3 DEF AccountInv, Futures
<1>11. PendingCalls'
  BY Zenon, <1>2 DEF AccountInv, PendingCalls, PendingExact, SameBatches
<1>12. Counted => Counted'
  BY Zenon, <1>1 DEF Counted
<1> QED
  BY Zenon, <1>4, <1>5, <1>6, <1>7, <1>8, <1>9, <1>10, <1>11, <1>12 DEF AccountInv

\* A step that sends no row and finishes no part keeps a call's errors and what
\* is still to show in them; a call of which nothing was sent has no errors.
LEMMA ErrorsKept ==
  ASSUME Errors, UNCHANGED <<sent, confirmed, run>>,
         \A q \in Request : \/ req'[q].errs = req[q].errs /\ req'[q].rowCount = req[q].rowCount
                            \/ req'[q].errs = {} /\ \A j \in 1 .. MaxRows : sent[<<q, j>>] = 0,
         \A q \in Request : Holders(q) \subseteq Holders(q)'
  PROVE  Errors'
<1>1. ASSUME NEW q \in Request, NEW j \in 1 .. MaxRows,
             sent'[<<q, j>>] = 1, <<q, j>> \notin confirmed'
      PROVE  \/ req'[q].errs # {}
             \/ \E b \in Holders(q)' : run'[b].phase = "finishing" /\ run'[b].err # {}
  <2>1. sent[<<q, j>>] # 0 /\ req'[q].errs = req[q].errs
    BY <1>1
  <2> QED
    BY Zenon, <1>1, <2>1 DEF Errors
<1>2. ASSUME NEW q \in Request, req'[q].errs # {}
      PROVE  \E j \in 1 .. req'[q].rowCount : sent'[<<q, j>>] = 1 /\ <<q, j>> \notin confirmed'
  BY Zenon, <1>2 DEF Errors
<1> QED
  BY Zenon, <1>1, <1>2 DEF Errors

-----------------------------------------------------------------------------
(* Callers and the critical section.                                       *)

\* The next call has no rows, parts or results anywhere.
LEMMA NewCall ==
  ASSUME TypeOK, AccountInv, submitted < NumRequests, NEW r, r = submitted + 1
  PROVE  /\ r \in Request /\ req[r].mode = "none" /\ ~ Accepted(r)
         /\ ~ req[r].result.done /\ req[r].parts = 0 /\ req[r].errs = {}
         /\ ~ Appending(r) /\ r \notin pending
         /\ \A b \in Batch : /\ ~ Lists(b, r) /\ ~ Holds(b, r)
                             /\ r \notin run[b].completed
                             /\ \A j \in 1 .. MaxRows : ~ Contains(b, <<r, j>>)
         /\ \A j \in 1 .. MaxRows : sent[<<r, j>>] = 0
         /\ Holders(r) = {}
<1>1. r \in Request
  BY Zenon, NextRequest
<1>2. req[r].mode = "none"
  BY <1>1 DEF TypeOK, AccountInv, Calls
<1>3. ~ Accepted(r)
  BY Zenon, <1>2 DEF Accepted
<1>4. /\ ~ req[r].result.done /\ req[r].parts = 0 /\ req[r].errs = {} /\ ~ Appending(r)
  BY Zenon, <1>1, <1>2, <1>3 DEF AccountInv, Calls
<1>5. \A b \in Batch, j \in 1 .. MaxRows : ~ Contains(b, <<r, j>>)
  BY Zenon, <1>1, <1>3 DEF AccountInv, RowsInv, RowState
<1>6. \A b \in Batch : ~ Lists(b, r)
  BY Zenon, <1>1, <1>5 DEF AccountInv, Listed
<1>7. \A b \in Batch : ~ Holds(b, r)
  BY Zenon, <1>6 DEF Lists, Holds
<1>8. r \notin pending /\ \A b \in Batch : r \notin run[b].completed
  BY Zenon, <1>3 DEF AccountInv, PendingCalls
<1>9. \A j \in 1 .. MaxRows : sent[<<r, j>>] = 0
  BY Zenon, <1>1, <1>3 DEF AccountInv, RowsInv, RowFate
<1>10. Holders(r) = {}
  BY Zenon, <1>7 DEF Holders
<1> QED
  BY Zenon, <1>1, <1>2, <1>3, <1>4, <1>5, <1>6, <1>7, <1>8, <1>9, <1>10

\* A call that is refused, or accepted and about to be put into batches.
LEMMA Account_NewCall ==
  ASSUME TypeOK, AccountInv, submitted < NumRequests, NEW r, r = submitted + 1,
         UNCHANGED <<batch, run, sent, confirmed>>, submitted' = r,
         \A q \in Request \ {r} : req'[q] = req[q],
         req'[r].parts = 0, req'[r].errs = {},
         \/ req'[r].mode = "refused" /\ UNCHANGED <<pending, crit>>
         \/ /\ req'[r].mode = "coalesced" /\ req'[r].rowCount > 0
            /\ req'[r].result = req[r].result
            /\ pending' = pending \cup {r}
            /\ crit.pc # "append" /\ crit'.pc = "append" /\ crit'.cursor = <<r, 1>>
  PROVE  AccountInv' /\ (Counted => Counted')
<1>1. /\ r \in Request /\ req[r].mode = "none" /\ ~ Accepted(r)
      /\ ~ req[r].result.done /\ req[r].parts = 0 /\ req[r].errs = {}
      /\ ~ Appending(r) /\ r \notin pending
      /\ \A b \in Batch : /\ ~ Lists(b, r) /\ ~ Holds(b, r)
                          /\ r \notin run[b].completed
                          /\ \A j \in 1 .. MaxRows : ~ Contains(b, <<r, j>>)
      /\ \A j \in 1 .. MaxRows : sent[<<r, j>>] = 0
      /\ Holders(r) = {}
  BY Zenon, NewCall
<1>2. /\ \A b, x : /\ Lists(b, x)' <=> Lists(b, x)
                   /\ Contains(b, x)' <=> Contains(b, x)
      /\ \A q : Holders(q)' = Holders(q)
  BY Zenon DEF Lists, Contains, Holders, Holds
<1>3. \A q \in Request \ {r} : /\ Accepted(q)' <=> Accepted(q)
                               /\ Appending(q)' <=> Appending(q)
                               /\ Appending(q) => crit' = crit
  BY DEF Accepted, Appending
<1>4. /\ Accepted(r)' => /\ req'[r].mode = "coalesced" /\ req'[r].rowCount > 0
                         /\ r \in pending' /\ ~ req'[r].result.done
                         /\ Appending(r)' /\ crit'.cursor[2] = 1
      /\ req'[r].mode # "none"
      /\ Appending(r)' => Accepted(r)'
  BY SMTT(30), <1>1 DEF Accepted, Appending
<1>5. Calls'
  BY SMTT(30), <1>1, <1>4, <1>3 DEF Calls, TypeOK, Request, AccountInv
<1>6. DistinctInv' /\ Copying' /\ NonNegative'
  BY DEF AccountInv, DistinctInv, Copying, NonNegative
<1>7. OneNonFull' /\ OneBatch'
  BY Zenon, <1>2 DEF AccountInv, OneNonFull, OneBatch
<1>8. Listed'
  BY ZenonT(30), <1>1, <1>2, <1>3 DEF Listed, InFlight, AccountInv
<1>9. RowsInv'
  BY SMTT(30), <1>1, <1>2, <1>3, <1>4 DEF AccountInv, RowsInv, RowState, RowFate
<1>10. Errors'
  <2>1. Errors /\ UNCHANGED <<sent, confirmed, run>>
    BY Zenon DEF AccountInv
  <2>2. \A q \in Request : Holders(q) \subseteq Holders(q)'
    BY ZenonT(30), <1>2
  <2> QED
    BY Zenon, <1>1, <2>1, <2>2, ErrorsKept
<1>11. Futures'
  BY <1>1, <1>3, <1>4 DEF AccountInv, Futures
<1>12. PendingCalls'
  <2>1. \A q \in pending' : q \in pending \/ (q = r /\ Accepted(r)')
    BY <1>1 DEF Accepted
  <2>2. pending \subseteq pending' /\ pending \subseteq Request
    BY Zenon DEF TypeOK
  <2>3. PendingExact'
    BY Zenon, <2>1, <2>2, <1>1, <1>3, <1>4 DEF AccountInv, PendingCalls, PendingExact
  <2>4. \A q \in pending' : Accepted(q)'
    BY Zenon, <2>1, <2>2, <1>1, <1>3 DEF AccountInv, PendingCalls
  <2>5. \A b \in Batch : run[b].completed \subseteq Request
    BY ZenonT(30) DEF TypeOK, RunType
  <2>6. \A b \in Batch : \A q \in run'[b].completed : Accepted(q)' /\ req'[q].result.done
    BY ZenonT(30), <2>5, <1>1, <1>3 DEF AccountInv, PendingCalls
  <2> QED
    BY ZenonT(30), <2>3, <2>4, <2>6 DEF PendingCalls
<1>13. Counted => Counted'
  BY Zenon, <1>1, <1>2 DEF Counted
<1> QED
  BY Zenon, <1>5, <1>6, <1>7, <1>8, <1>9, <1>10, <1>11, <1>12, <1>13 DEF AccountInv

\* A refused call leaves nothing behind but its Future.
LEMMA Account_SubmitRefused ==
  ASSUME TypeOK, AccountInv, NEW n \in RefusedSizes, SubmitRefused(n)
  PROVE  AccountInv' /\ (Counted => Counted')
<1> DEFINE r == submitted + 1
<1>1. r \in Request /\ submitted < NumRequests
  BY Zenon, NextRequest DEF SubmitRefused
<1>2. req[r].parts = 0 /\ req[r].errs = {}
  BY Zenon, <1>1, NewCall
<1>3. req'[r].mode = "refused" /\ req'[r].parts = req[r].parts /\ req'[r].errs = req[r].errs
  BY Zenon, <1>1 DEF SubmitRefused, TypeOK, RequestType
<1>4. \A q \in Request \ {r} : req'[q] = req[q]
  BY Zenon, <1>1 DEF SubmitRefused, TypeOK
<1>5. UNCHANGED <<batch, run, sent, confirmed, pending, crit>> /\ submitted' = r
  BY Zenon DEF SubmitRefused
<1> QED
  BY Zenon, <1>1, <1>2, <1>3, <1>4, <1>5, Account_NewCall

\* An accepted call of Submit is pending, with all of its rows to come.
LEMMA Account_SubmitCoalesced ==
  ASSUME TypeOK, AccountInv, NEW n \in CoalescedSizes, SubmitCoalesced(n)
  PROVE  AccountInv' /\ (Counted => Counted')
<1> DEFINE r == submitted + 1
<1>1. r \in Request /\ submitted < NumRequests
  BY Zenon, NextRequest DEF SubmitCoalesced
<1>2. req[r].parts = 0 /\ req[r].errs = {}
  BY Zenon, <1>1, NewCall
<1>3. /\ req'[r].mode = "coalesced" /\ req'[r].parts = req[r].parts
      /\ req'[r].errs = req[r].errs /\ req'[r].rowCount = n /\ req'[r].result = req[r].result
  BY <1>1 DEF SubmitCoalesced, TypeOK, RequestType
<1>4. \A q \in Request \ {r} : req'[q] = req[q]
  BY Zenon, <1>1 DEF SubmitCoalesced, TypeOK
<1>5. /\ UNCHANGED <<batch, run, sent, confirmed>> /\ submitted' = r
      /\ pending' = pending \cup {r} /\ crit.pc # "append"
      /\ crit'.pc = "append" /\ crit'.cursor = <<r, 1>>
  BY Zenon DEF SubmitCoalesced, TypeOK, CritType
<1>6. n > 0
  BY ConfigAssumption
<1> QED
  BY Zenon, <1>1, <1>2, <1>3, <1>4, <1>5, <1>6, Account_NewCall

\* The rows that appendRequestLocked moves were in no batch, and are in one now.
LEMMA Account_AppendRows ==
  ASSUME Structure, AccountInv, NEW r \in Request, NEW i \in 1 .. MaxRows, NEW b \in Batch,
         NEW k \in Nat \ {0}, Appends(r, i, b, k)
  PROVE  /\ AccountInv' /\ req'[r].parts = req[r].parts + 1
         /\ \A q \in Request \ {r} : req'[q].parts = req[q].parts
         /\ \A q \in Request : Holders(q)' = IF q = r THEN Holders(q) \cup {b} ELSE Holders(q)
         /\ b \notin Holders(r)
<1> USE DEF Structure
<1>1. /\ Appending(r) /\ crit.cursor[2] = i /\ \A q \in Request \ {r} : ~ Appending(q)
      /\ req[r].mode = "coalesced" /\ Accepted(r) /\ req[r].rowCount > 0
      /\ req[r].rowCount \in 0 .. MaxRows
  BY SMTT(30) DEF Appends, Appending, AccountInv, Calls, Accepted, TypeOK, RequestType
<1>2. /\ \A c \in Batch : Lists(c, r) => batch[c].reason = "full" /\ ~ InFlight(c)
      /\ ~ Lists(b, r)
  BY Zenon, <1>1 DEF AccountInv, Listed, Appends
<1>3. \A c \in Batch, j \in 1 .. MaxRows : i <= j => ~ Contains(c, <<r, j>>)
  BY <1>1 DEF AccountInv, RowsInv, RowState
<1>4. /\ \A c \in Batch, q \in Request : Lists(c, q)' <=> Lists(c, q) \/ (c = b /\ q = r)
      /\ \A c \in Batch, q \in Request, j \in 1 .. MaxRows :
           Contains(c, <<q, j>>)' <=>
             Contains(c, <<q, j>>) \/ (c = b /\ q = r /\ i <= j /\ j < i + k)
      /\ \A q \in Request : Holders(q)' = IF q = r THEN Holders(q) \cup {b} ELSE Holders(q)
      /\ b \notin Holders(r)
      /\ DistinctInv'
  <2>1. run[b].next = 1
    BY DEF Appends, NoRun
  <2>2. Fills(r, i, b, k)
    BY Zenon, <2>1 DEF Appends, Fills
  <2>3. k \in Nat /\ \A j \in 1 .. MaxRows : i <= j /\ j < i + k => ~ Contains(b, <<r, j>>)
    BY Zenon, <1>3
  <2>4. DistinctInv
    BY Zenon DEF AccountInv
  <2> QED
    BY Zenon, <1>2, <2>2, <2>3, <2>4, FillEffects
<1>5. /\ req'[r].parts = req[r].parts + 1 /\ req'[r].mode = req[r].mode
      /\ req'[r].rowCount = req[r].rowCount /\ req'[r].errs = req[r].errs
      /\ req'[r].result = req[r].result
      /\ \A q \in Request \ {r} : req'[q] = req[q]
      /\ req[r].parts \in Int
  BY DEF Appends, TypeOK, RequestType
<1>6. \A q \in Request : /\ Accepted(q)' <=> Accepted(q)
                         /\ Appending(q)' => /\ q = r /\ crit'.cursor[2] = i + k
                                             /\ batch'[b].reason = "full"
                         /\ ~ Appending(r)' => i + k > req[r].rowCount
  <2>1. \A q \in Request : Accepted(q)' <=> Accepted(q)
    BY Zenon, <1>5 DEF Accepted
  <2>2. CASE i + k > req[r].rowCount /\ crit'.pc = "schedule"
    BY Zenon, <2>1, <2>2 DEF Appending
  <2>3. CASE /\ i + k <= req[r].rowCount /\ batch'[b].reason = "full"
             /\ crit'.pc = "append" /\ crit'.cursor = <<r, i + k>>
    BY <2>1, <2>3 DEF Appending
  <2> QED
    BY Zenon, <2>2, <2>3 DEF Appends
<1>7. /\ UNCHANGED <<submitted, pending, run, sent, confirmed>>
      /\ \A c \in Batch : InFlight(c)' <=> InFlight(c)
      /\ ~ InFlight(b) /\ run[b] = NoRun
  BY ZenonT(30) DEF Appends, InFlight
<1>8. Calls'
  BY SMTT(30), <1>1, <1>5, <1>6, <1>7 DEF AccountInv, Calls
<1>9. Copying' /\ NonNegative'
  BY <1>5, <1>7 DEF AccountInv, Copying, NonNegative
<1>10. OneNonFull'
  <2> SUFFICES ASSUME NEW c \in Batch, NEW d \in Batch, NEW q \in Request,
                      Lists(c, q)', Lists(d, q)',
                      batch'[c].reason # "full", batch'[d].reason # "full"
               PROVE  c = d
    BY Zenon DEF OneNonFull
  <2>1. CASE q = r
    BY Zenon, <1>2, <1>4, <2>1 DEF Appends
  <2>2. CASE q # r
    <3>1. Lists(c, q) /\ Lists(d, q)
      BY Zenon, <1>4, <2>2
    <3>2. batch[b].reason # "full" /\ \A e \in Batch \ {b} : batch'[e] = batch[e]
      BY Zenon DEF Appends
    <3> QED
      BY Zenon, <3>1, <3>2 DEF AccountInv, OneNonFull
  <2> QED
    BY Zenon, <2>1, <2>2
<1>11. Listed'
  <2> SUFFICES ASSUME NEW c \in Batch, NEW q \in Request, Lists(c, q)'
               PROVE  /\ Appending(q)' => batch'[c].reason = "full" /\ ~ InFlight(c)'
                      /\ \E j \in 1 .. MaxRows : Contains(c, <<q, j>>)'
    BY Zenon DEF Listed
  <2>1. ASSUME Appending(q)' PROVE batch'[c].reason = "full" /\ ~ InFlight(c)'
    BY SMTT(30), <1>6, <2>1, <1>7, <1>2, <1>4 DEF Appends
  <2>2. \E j \in 1 .. MaxRows : Contains(c, <<q, j>>)'
    BY <1>4 DEF AccountInv, Listed
  <2> QED
    BY Zenon, <2>1, <2>2
<1>12. OneBatch'
  BY RowFacts, <1>3, <1>4 DEF OneBatch, AccountInv
<1>13. ASSUME NEW c \in Batch, NEW q \in Request, NEW j \in 1 .. MaxRows,
              Contains(c, <<q, j>>)'
       PROVE  RowState(c, q, j)'
  <2>1. CASE Contains(c, <<q, j>>)
    BY SMTT(30), <2>1, <1>1, <1>6, <1>4, <1>5, <1>7 DEF AccountInv, RowsInv, RowState
  <2>2. CASE ~ Contains(c, <<q, j>>)
    <3>1. c = b /\ q = r /\ i <= j /\ j < i + k
      BY Zenon, <1>13, <2>2, <1>4
    <3>2. j <= req[r].rowCount
      BY SMTT(30), <3>1, <1>1 DEF Appends
    <3>3. sent[<<q, j>>] = 0 /\ run[c].phase # "finishing"
      BY SMTT(30), <3>1, <1>1, <1>7 DEF AccountInv, RowsInv, RowFate, NoRun
    <3>4. Lists(c, q)' /\ Accepted(q)' /\ (Appending(q)' => j < crit'.cursor[2])
      BY ZenonT(30), <3>1, <1>1, <1>4, <1>6
    <3> QED
      BY Zenon, <3>1, <3>2, <3>3, <3>4, <1>5, <1>7 DEF RowState
  <2> QED
    BY Zenon, <2>1, <2>2
<1>14. ASSUME NEW q \in Request, NEW j \in 1 .. MaxRows PROVE RowFate(q, j)'
  BY SMTT(30), <1>1, <1>5, <1>6, <1>4, <1>7 DEF AccountInv, RowsInv, RowFate
<1>15. Errors'
  <2>1. Errors
    BY Zenon DEF AccountInv
  <2>2. \A q \in Request : Holders(q) \subseteq Holders(q)'
    BY ZenonT(30), <1>4
  <2> QED
    BY Zenon, <1>5, <1>7, <2>1, <2>2, ErrorsKept
<1>16. Futures'
  BY SMTT(30), <1>1, <1>5, <1>6 DEF Futures, AccountInv, NonNegative
<1>17. PendingCalls'
  BY Zenon, <1>5, <1>6, <1>7 DEF TypeOK, RunType, AccountInv, PendingCalls, PendingExact
<1>18. RowsInv'
  BY Zenon, <1>13, <1>14 DEF RowsInv
<1> QED
  BY ZenonT(30), <1>4, <1>5, <1>8, <1>9, <1>10, <1>11, <1>12, <1>15, <1>16, <1>17, <1>18 DEF AccountInv

\* The rows of an unbatched call are in one batch from the start.
LEMMA Account_SubmitUnbatched ==
  ASSUME Structure, AccountInv, NEW n \in 1 .. MaxRows, NEW r \in Request, NEW b \in Batch,
         Queues(r, b, n)
  PROVE  /\ AccountInv' /\ req'[r].parts = req[r].parts + 1
         /\ \A q \in Request \ {r} : req'[q].parts = req[q].parts
         /\ \A q \in Request : Holders(q)' = IF q = r THEN Holders(q) \cup {b} ELSE Holders(q)
         /\ b \notin Holders(r)
<1> USE DEF Structure
<1>1. /\ req[r].mode = "none" /\ ~ Accepted(r)
      /\ ~ req[r].result.done /\ req[r].parts = 0 /\ req[r].errs = {}
      /\ ~ Appending(r) /\ r \notin pending
      /\ \A c \in Batch : /\ ~ Lists(c, r)
                          /\ r \notin run[c].completed
                          /\ \A j \in 1 .. MaxRows : ~ Contains(c, <<r, j>>)
      /\ \A j \in 1 .. MaxRows : sent[<<r, j>>] = 0
  BY Zenon, NewCall DEF Queues
<1>2. /\ \A q \in Request : ~ Appending(q) /\ ~ Appending(q)'
      /\ UNCHANGED <<run, sent, confirmed>> /\ submitted' = r /\ r = submitted + 1
      /\ pending' = pending \cup {r}
      /\ \A q \in Request \ {r} : req'[q] = req[q]
  BY Zenon DEF Queues, Appending
<1>3. /\ ~ InFlight(b) /\ run[b] = NoRun
      /\ \A x : ~ Lists(b, x) /\ ~ Contains(b, x)
  BY Zenon, EmptyFacts DEF Queues
<1>4. /\ \A c \in Batch, q \in Request : Lists(c, q)' <=> Lists(c, q) \/ (c = b /\ q = r)
      /\ \A c \in Batch, q \in Request, j \in 1 .. MaxRows :
           Contains(c, <<q, j>>)' <=>
             Contains(c, <<q, j>>) \/ (c = b /\ q = r /\ 1 <= j /\ j < 1 + n)
      /\ \A q \in Request : Holders(q)' = IF q = r THEN Holders(q) \cup {b} ELSE Holders(q)
      /\ b \notin Holders(r)
      /\ DistinctInv'
  <2>1. run[b].next = 1 /\ 1 \in 1 .. MaxRows /\ n \in Nat /\ 1 + n - 1 <= MaxRows
    BY SMTT(30), <1>3, ConfigAssumption DEF NoRun
  <2>2. batch[b].rows = <<>> /\ batch[b].requests = <<>>
    BY SMTT(30) DEF Queues, EmptyBatch
  <2>3. batch'[b].rows = batch[b].rows \o Slice(r, 1, n)
    BY SMTT(30), <2>1, SliceType, <2>2 DEF Queues
  <2>4. batch'[b].requests = Append(batch[b].requests, r)
    BY <2>2 DEF Queues
  <2>5. Fills(r, 1, b, n)
    BY Zenon, <1>2, <2>1, <2>3, <2>4 DEF Queues, Fills
  <2>6. DistinctInv
    BY ZenonT(30) DEF AccountInv
  <2> QED
    BY Zenon, <1>1, <2>1, <2>5, <2>6, FillEffects
<1>5. /\ req'[r].mode = "unbatched" /\ req'[r].rowCount = n /\ n > 0
      /\ req'[r].parts = 1 /\ req'[r].errs = {}
      /\ ~ req'[r].result.done /\ Accepted(r)'
  BY <1>1 DEF Queues, Accepted
<1>6. \A q \in Request \ {r} : Accepted(q)' <=> Accepted(q)
  BY ZenonT(30), <1>2 DEF Accepted
<1>7. Calls'
  BY SMTT(30), <1>2, <1>5, <1>6 DEF Calls, TypeOK, Request, AccountInv
<1>8. Copying' /\ NonNegative'
  BY SMTT(30), <1>2, <1>5 DEF AccountInv, Copying, NonNegative
<1>9. OneNonFull'
  BY SMTT(30), <1>1, <1>4, <1>3 DEF OneNonFull, AccountInv, Queues
<1>10. Listed'
  BY SMTT(30), <1>2, <1>4, ConfigAssumption DEF Listed, AccountInv
<1>11. OneBatch'
  BY RowFacts, <1>1, <1>4 DEF OneBatch, AccountInv
<1>12. ASSUME NEW c \in Batch, NEW q \in Request, NEW j \in 1 .. MaxRows,
              Contains(c, <<q, j>>)'
       PROVE  RowState(c, q, j)'
  <2>1. CASE Contains(c, <<q, j>>)
    <3>1. q # r /\ RowState(c, q, j)
      BY Zenon, <2>1, <1>1 DEF AccountInv, RowsInv
    <3> QED
      BY Zenon, <3>1, <1>2, <1>4, <1>6 DEF RowState
  <2>2. CASE ~ Contains(c, <<q, j>>)
    <3>1. c = b /\ q = r /\ j < 1 + n
      BY Zenon, <1>12, <2>2, <1>4
    <3>2. j <= n /\ run[c].phase # "finishing"
      BY SMTT(30), <3>1, <1>3 DEF NoRun
    <3> QED
      BY Zenon, <3>1, <3>2, <1>1, <1>2, <1>4, <1>5 DEF RowState
  <2> QED
    BY Zenon, <2>1, <2>2
<1>13. ASSUME NEW q \in Request, NEW j \in 1 .. MaxRows PROVE RowFate(q, j)'
  BY SMTT(30), <1>2, <1>4, <1>6, <1>1, <1>5 DEF AccountInv, RowsInv, RowFate
<1>14. Errors'
  <2>1. Errors
    BY Zenon DEF AccountInv
  <2>2. \A q \in Request : Holders(q) \subseteq Holders(q)'
    BY ZenonT(30), <1>4
  <2> QED
    BY Zenon, <1>1, <1>2, <1>5, <2>1, <2>2, ErrorsKept
<1>15. Futures'
  BY SMTT(30), <1>2, <1>5, <1>6 DEF AccountInv, Futures
<1>16. PendingCalls'
  BY ZenonT(30), <1>1, <1>2, <1>5, <1>6 DEF TypeOK, RunType, AccountInv, PendingCalls, PendingExact
<1>17. RowsInv'
  BY Zenon, <1>12, <1>13 DEF RowsInv
<1>18. req'[r].parts = req[r].parts + 1 /\ \A q \in Request \ {r} : req'[q].parts = req[q].parts
  BY <1>1, <1>2, <1>5
<1> QED
  BY ZenonT(30), <1>4, <1>7, <1>8, <1>9, <1>10, <1>11, <1>14, <1>15, <1>16, <1>17, <1>18 DEF AccountInv

\* Merging two batches keeps the books.
LEMMA Account_Merge ==
  ASSUME TypeOK, AccountInv, NEW b \in Batch, NEW n \in Batch, Merges(b, n)
  PROVE  AccountInv'
<1>1. /\ \A q \in Request : /\ Lists(b, q)' <=> Lists(b, q) \/ Lists(n, q)
                            /\ ~ (Lists(b, q) /\ Lists(n, q))
      /\ \A x \in Row : Contains(b, x)' <=> Contains(b, x) \/ Contains(n, x)
      /\ \A x : ~ Lists(n, x)' /\ ~ Contains(n, x)'
      /\ \A c \in Batch \ {b, n} : \A x : /\ Lists(c, x)' <=> Lists(c, x)
                                          /\ Contains(c, x)' <=> Contains(c, x)
  BY Zenon, MergeEffects
<1>2. /\ \A q \in Request :
           Holders(q)' = IF n \in Holders(q) THEN (Holders(q) \ {n}) \cup {b} ELSE Holders(q)
      /\ DistinctInv'
  BY Zenon, MergeEffects
<1>3. /\ crit.pc = "merge" /\ run[n] = NoRun /\ run[b] = NoRun
      /\ UNCHANGED <<crit, submitted, pending, run, req, sent, confirmed>>
  BY Zenon DEF Merges
<1>4. /\ b # n /\ batch[b].reason = "linger" /\ batch[n].reason = "linger"
      /\ batch'[b].reason = "linger"
      /\ \A c \in Batch \ {b, n} : batch'[c] = batch[c]
  BY Zenon DEF Merges
<1>5. \A q : /\ ~ Appending(q) /\ ~ Appending(q)'
             /\ Accepted(q)' <=> Accepted(q)
  BY <1>3 DEF Appending, Accepted
<1>6. Calls' /\ Copying' /\ NonNegative' /\ Futures'
  BY Zenon, <1>3, <1>5 DEF AccountInv, Calls, Copying, NonNegative, Futures
<1>7. PendingCalls'
  BY Zenon, <1>3, <1>5 DEF AccountInv, PendingCalls, PendingExact
<1>8. \A c \in Batch, q \in Request :
        Lists(c, q)' => c # n /\ \E d \in Batch : /\ Lists(d, q) /\ (d = c \/ (d = n /\ c = b))
                                                  /\ batch[d].reason = batch'[c].reason
  BY Zenon, <1>1, <1>4
<1>9. OneNonFull'
  <2>1. ASSUME NEW c \in Batch, NEW d \in Batch, NEW q \in Request,
               Lists(c, q)', batch'[c].reason # "full", Lists(d, q)', batch'[d].reason # "full"
        PROVE  c = d
    <3>1. PICK c1 \in Batch : /\ Lists(c1, q) /\ (c1 = c \/ (c1 = n /\ c = b))
                             /\ batch[c1].reason # "full" /\ c # n
      BY Zenon, <2>1, <1>8
    <3>2. PICK d1 \in Batch : /\ Lists(d1, q) /\ (d1 = d \/ (d1 = n /\ d = b))
                             /\ batch[d1].reason # "full" /\ d # n
      BY Zenon, <2>1, <1>8
    <3>3. c1 = d1
      BY Zenon, <3>1, <3>2 DEF AccountInv, OneNonFull
    <3> QED
      BY Zenon, <3>1, <3>2, <3>3
  <2> QED
    BY Zenon, <2>1 DEF OneNonFull
<1>10. \A q \in Request, j \in 1 .. MaxRows : <<q, j>> \in Row
  BY Zenon, RowFacts
<1>11. \A c \in Batch, x \in Row :
         Contains(c, x)' => c # n /\ \E d \in Batch : Contains(d, x) /\ (d = c \/ (d = n /\ c = b))
  BY Zenon, <1>1
<1>12. \A c \in Batch, x \in Row :
         Contains(c, x) => Contains(c, x)' \/ (c = n /\ Contains(b, x)')
  BY Zenon, <1>1
<1>13. Listed'
  <2> SUFFICES ASSUME NEW c \in Batch, NEW q \in Request, Lists(c, q)'
               PROVE  \E j \in 1 .. MaxRows : Contains(c, <<q, j>>)'
    BY Zenon, <1>5 DEF Listed
  <2>1. PICK d \in Batch : Lists(d, q) /\ (d = c \/ (d = n /\ c = b)) /\ c # n
    BY Zenon, <1>8
  <2>2. PICK j \in 1 .. MaxRows : Contains(d, <<q, j>>)
    BY Zenon, <2>1 DEF AccountInv, Listed
  <2>3. Contains(d, <<q, j>>)' \/ (d = n /\ Contains(b, <<q, j>>)')
    BY Zenon, <2>2, <1>10, <1>12
  <2>4. ~ Contains(n, <<q, j>>)'
    BY Zenon, <1>1
  <2> QED
    BY Zenon, <2>1, <2>3, <2>4
<1>14. OneBatch'
  <2>1. ASSUME NEW c \in Batch, NEW d \in Batch, NEW x \in Row, Contains(c, x)', Contains(d, x)'
        PROVE  c = d
    <3>1. PICK c1 \in Batch : Contains(c1, x) /\ (c1 = c \/ (c1 = n /\ c = b)) /\ c # n
      BY Zenon, <2>1, <1>11
    <3>2. PICK d1 \in Batch : Contains(d1, x) /\ (d1 = d \/ (d1 = n /\ d = b)) /\ d # n
      BY Zenon, <2>1, <1>11
    <3>3. c1 = d1
      BY Zenon, <3>1, <3>2 DEF AccountInv, OneBatch
    <3> QED
      BY Zenon, <3>1, <3>2, <3>3
  <2> QED
    BY Zenon, <2>1 DEF OneBatch
<1>15. ASSUME NEW c \in Batch, NEW q \in Request, NEW j \in 1 .. MaxRows,
              Contains(c, <<q, j>>)'
       PROVE  RowState(c, q, j)'
  <2>1. PICK d \in Batch : Contains(d, <<q, j>>) /\ (d = c \/ (d = n /\ c = b)) /\ c # n
    BY Zenon, <1>10, <1>11, <1>15
  <2>2. RowState(d, q, j)
    BY Zenon, <2>1 DEF AccountInv, RowsInv
  <2>3. Lists(c, q)'
    BY Zenon, <2>1, <2>2, <1>1 DEF RowState
  <2>4. run'[c] = run[d]
    BY Zenon, <2>1, <1>3
  <2> QED
    BY Zenon, <2>2, <2>3, <2>4, <1>3, <1>5 DEF RowState
<1>16. ASSUME NEW q \in Request, NEW j \in 1 .. MaxRows PROVE RowFate(q, j)'
  <2>1. RowFate(q, j)
    BY Zenon DEF AccountInv, RowsInv
  <2>2. (\E c \in Batch : Contains(c, <<q, j>>)) => \E c \in Batch : Contains(c, <<q, j>>)'
    BY Zenon, <1>10, <1>12
  <2> QED
    BY Zenon, <2>1, <2>2, <1>3, <1>5 DEF RowFate
<1>17. Errors'
  <2>1. \A q \in Request : \A c \in Holders(q) : run[c].phase = "finishing" => c \in Holders(q)'
    BY <1>2, <1>3 DEF NoRun
  <2> QED
    BY Zenon, <2>1, <1>3 DEF AccountInv, Errors
<1>18. RowsInv'
  BY Zenon, <1>15, <1>16 DEF RowsInv
<1> QED
  BY ZenonT(30), <1>2, <1>6, <1>7, <1>9, <1>13, <1>14, <1>17, <1>18 DEF AccountInv

-----------------------------------------------------------------------------
(* runBatch.                                                               *)

\* One COPY sends each row of the batch for the first time, and what it confirms
\* or fails with is known to every call with rows in it.
LEMMA Account_CopyOutcome ==
  ASSUME Structure, AccountInv,
         NEW b \in Batch, NEW err \in SUBSET ErrorKind, CopyOutcome(b, err)
  PROVE  AccountInv' /\ (Counted => Counted')
<1> USE DEF Structure
<1>1. /\ run[b].phase = "copying" /\ run[b] = NewRun
      /\ UNCHANGED <<crit, submitted, pending, batch, req>>
  BY Zenon DEF CopyOutcome, AccountInv, Copying
<1>2. /\ run'[b].phase = "finishing" /\ run'[b].err = err
      /\ run'[b].next = 1 /\ run'[b].completed = {}
      /\ \A c \in Batch \ {b} : run'[c] = run[c]
  BY SMTT(30), <1>1 DEF CopyOutcome, NewRun, TypeOK, RunType
<1>3. /\ \A c \in Batch : \A x : /\ Lists(c, x)' <=> Lists(c, x)
                                 /\ Contains(c, x)' <=> Contains(c, x)
                                 /\ Holds(c, x)' <=> Holds(c, x)
      /\ \A r : Holders(r)' = Holders(r)
  BY <1>1, <1>2 DEF NewRun, Lists, Contains, Holds, Holders
<1>4. \A x \in Row : /\ sent'[x] = IF Contains(b, x) THEN sent[x] + 1 ELSE sent[x]
                     /\ x \in confirmed' <=> x \in confirmed \/ (err = {} /\ Contains(b, x))
  BY Zenon DEF CopyOutcome, Contains
<1>5. \A r : /\ Accepted(r)' <=> Accepted(r)
             /\ Appending(r)' <=> Appending(r)
  BY Zenon, <1>1 DEF Accepted, Appending
<1>6. \A c \in Batch : InFlight(c)' <=> InFlight(c)
  BY Zenon, <1>1, <1>2 DEF InFlight
<1>7. \A r \in Request, j \in 1 .. MaxRows : <<r, j>> \in Row
  BY ZenonT(30), RowFacts
<1>8. ASSUME NEW r \in Request, NEW j \in 1 .. MaxRows, Contains(b, <<r, j>>)
      PROVE  /\ RowState(b, r, j)
             /\ sent[<<r, j>>] = 0 /\ sent'[<<r, j>>] = 1
             /\ <<r, j>> \in confirmed' <=> err = {}
  BY SMTT(30), <1>8, <1>1, <1>4, <1>7 DEF AccountInv, RowsInv, RowState, RowFate
<1>9. Calls' /\ NonNegative' /\ DistinctInv' /\ Futures'
  BY Zenon, <1>1, <1>5 DEF AccountInv, Calls, NonNegative, DistinctInv, Futures
<1>10. Copying'
  BY Zenon, <1>2 DEF AccountInv, Copying
<1>11. OneNonFull' /\ OneBatch'
  BY Zenon, <1>1, <1>3 DEF AccountInv, OneNonFull, OneBatch
<1>12. Listed'
  BY Zenon, <1>1, <1>3, <1>5, <1>6 DEF AccountInv, Listed
<1>13. ASSUME NEW c \in Batch, NEW r \in Request, NEW j \in 1 .. MaxRows,
              Contains(c, <<r, j>>)'
       PROVE  RowState(c, r, j)'
  <2>1. RowState(c, r, j) /\ Contains(c, <<r, j>>)
    BY Zenon, <1>3, <1>13 DEF AccountInv, RowsInv
  <2>2. CASE c = b
    BY Zenon, <2>1, <2>2, <1>1, <1>2, <1>3, <1>5, <1>8 DEF RowState
  <2>3. CASE c # b
    <3>1. ~ Contains(b, <<r, j>>)
      BY Zenon, <2>1, <2>3, <1>7 DEF AccountInv, OneBatch
    <3> QED
      BY ZenonT(30), <2>1, <2>3, <3>1, <1>1, <1>2, <1>3, <1>4, <1>5, <1>7 DEF RowState
  <2> QED
    BY Zenon, <2>2, <2>3
<1>14. ASSUME NEW r \in Request, NEW j \in 1 .. MaxRows PROVE RowFate(r, j)'
  <2>1. RowFate(r, j)
    BY ZenonT(30) DEF AccountInv, RowsInv
  <2>2. CASE Contains(b, <<r, j>>)
    BY SMTT(30), RowFacts, <2>2, <1>1, <1>5, <1>8 DEF CritInv, TypeOK, RequestType, RowFate, RowState,
       Appending
  <2>3. CASE ~ Contains(b, <<r, j>>)
    BY ZenonT(30), <2>1, <2>3, <1>1, <1>3, <1>4, <1>5, <1>7 DEF RowFate
  <2> QED
    BY Zenon, <2>2, <2>3
<1>15. Errors'
  <2>1. ASSUME NEW r \in Request, NEW j \in 1 .. MaxRows,
               sent'[<<r, j>>] = 1, <<r, j>> \notin confirmed'
        PROVE  \/ req'[r].errs # {}
               \/ \E c \in Holders(r)' : run'[c].phase = "finishing" /\ run'[c].err # {}
    <3>1. CASE Contains(b, <<r, j>>)
      <4>1. Lists(b, r) /\ err # {}
        BY Zenon, <2>1, <3>1, <1>8 DEF RowState
      <4>2. batch[b].requests \in Seq(Request) /\ run[b].next = 1
        BY SMTT(30), <1>1 DEF TypeOK, BatchType, NewRun
      <4>3. Holds(b, r)
        BY <4>1, <4>2 DEF Lists, Holds
      <4> QED
        BY Zenon, <4>1, <4>3, <1>2, <1>3 DEF Holders
    <3>2. CASE ~ Contains(b, <<r, j>>)
      <4>1. sent[<<r, j>>] = 1 /\ <<r, j>> \notin confirmed
        BY Zenon, <2>1, <3>2, <1>4, <1>7
      <4>2. CASE req[r].errs # {}
        BY Zenon, <4>2, <1>1
      <4>3. ASSUME NEW c \in Holders(r), run[c].phase = "finishing", run[c].err # {}
            PROVE  c \in Holders(r)' /\ run'[c].phase = "finishing" /\ run'[c].err # {}
        <5>1. c \in Batch /\ c # b
          BY <4>3, <1>1 DEF Holders
        <5> QED
          BY ZenonT(30), <4>3, <5>1, <1>2, <1>3
      <4> QED
        BY Zenon, <4>1, <4>2, <4>3 DEF AccountInv, Errors
    <3> QED
      BY Zenon, <3>1, <3>2
  <2>2. ASSUME NEW r \in Request, req'[r].errs # {}
        PROVE  \E j \in 1 .. req'[r].rowCount :
                 sent'[<<r, j>>] = 1 /\ <<r, j>> \notin confirmed'
    <3>1. PICK j \in 1 .. req[r].rowCount : sent[<<r, j>>] = 1 /\ <<r, j>> \notin confirmed
      BY Zenon, <2>2, <1>1 DEF AccountInv, Errors
    <3>2. j \in 1 .. MaxRows
      BY SMTT(30), ConfigAssumption DEF TypeOK, RequestType
    <3>3. ~ Contains(b, <<r, j>>)
      BY SMTT(30), <3>1, <3>2, <1>8
    <3> QED
      BY Zenon, <3>1, <3>2, <3>3, <1>1, <1>4, <1>7
  <2> QED
    BY Zenon, <2>1, <2>2 DEF Errors
<1>16. PendingCalls'
  <2>1. \A c \in Batch : run'[c].completed = run[c].completed
    BY SMTT(30), <1>1, <1>2 DEF NewRun
  <2> QED
    BY ZenonT(30), <1>1, <1>5, <2>1 DEF AccountInv, PendingCalls, PendingExact
<1>17. RowsInv'
  BY Zenon, <1>13, <1>14 DEF RowsInv
<1>18. Counted => Counted'
  BY Zenon, <1>1, <1>3 DEF Counted
<1> QED
  BY ZenonT(30), <1>9, <1>10, <1>11, <1>12, <1>15, <1>16, <1>17, <1>18 DEF AccountInv

\* When runBatch settles, every row of the batch has been sent and every part of
\* it finished, so that dropping the batch loses nothing.
LEMMA Account_Settle ==
  ASSUME Structure, AccountInv, NEW b \in Batch, Settle(b)
  PROVE  AccountInv' /\ (Counted => Counted')
<1> USE DEF Structure
<1>1. /\ crit.pc = "free" /\ crit'.pc = "schedule"
      /\ run[b].phase = "finishing"
      /\ pending' = pending \ run[b].completed
      /\ run'[b] = NoRun /\ batch'[b] = EmptyBatch
      /\ \A c \in Batch \ {b} : run'[c] = run[c] /\ batch'[c] = batch[c]
      /\ UNCHANGED <<submitted, req, sent, confirmed>>
  BY Zenon DEF Settle, Finished, TypeOK, CritType
<1>2. \A c \in Batch : \A x : /\ Lists(c, x)' <=> c # b /\ Lists(c, x)
                              /\ Contains(c, x)' <=> c # b /\ Contains(c, x)
  <2>1. DOMAIN batch'[b].requests = {} /\ DOMAIN batch'[b].rows = {}
    BY SMTT(30), <1>1 DEF EmptyBatch
  <2> QED
    BY ZenonT(30), <1>1, <2>1 DEF Lists, Contains
<1>3. \A r : Holders(r)' = Holders(r) /\ b \notin Holders(r)
  <2>1. /\ batch[b].requests \in Seq(Request)
        /\ run[b].next \in Nat /\ run[b].next > Len(batch[b].requests)
    BY ZenonT(30) DEF Settle, TypeOK, BatchType, RunType
  <2>2. \A r : ~ Holds(b, r)
    BY <2>1 DEF Holds
  <2>3. \A r : ~ Holds(b, r)'
    BY <1>1 DEF Holds, EmptyBatch
  <2>4. \A c \in Batch \ {b} : \A r : Holds(c, r)' <=> Holds(c, r)
    BY Zenon, <1>1 DEF Holds
  <2> QED
    BY Zenon, <2>2, <2>3, <2>4 DEF Holders
<1>4. \A r : /\ Accepted(r)' <=> Accepted(r)
             /\ ~ Appending(r) /\ ~ Appending(r)'
  BY Zenon, <1>1 DEF Accepted, Appending
<1>5. Calls' /\ NonNegative' /\ Futures'
  BY ZenonT(30), <1>1, <1>4 DEF AccountInv, Calls, NonNegative, Futures
<1>6. Copying' /\ DistinctInv'
  BY <1>1 DEF AccountInv, Copying, DistinctInv, Distinct, NoRun, EmptyBatch
<1>7. OneNonFull' /\ OneBatch'
  BY Zenon, <1>1, <1>2 DEF AccountInv, OneNonFull, OneBatch
<1>8. Listed'
  BY Zenon, <1>2, <1>4 DEF AccountInv, Listed
<1>9. ASSUME NEW c \in Batch, NEW r \in Request, NEW j \in 1 .. MaxRows,
             Contains(c, <<r, j>>)'
      PROVE  RowState(c, r, j)'
  BY SMTT(30), <1>2, <1>9, <1>1, <1>4 DEF AccountInv, RowsInv, RowState
<1>10. ASSUME NEW r \in Request, NEW j \in 1 .. MaxRows PROVE RowFate(r, j)'
  BY SMTT(30), <1>1, <1>2, <1>4 DEF AccountInv, RowsInv, RowState, RowFate
<1>11. Errors'
  BY ZenonT(30), <1>1, <1>3 DEF AccountInv, Errors, Holders
<1>12. PendingCalls'
  BY <1>1, <1>4 DEF AccountInv, PendingCalls, NoRun, PendingExact
<1>13. RowsInv'
  BY Zenon, <1>9, <1>10 DEF RowsInv
<1>14. Counted => Counted'
  BY Zenon, <1>1, <1>3 DEF Counted
<1> QED
  BY ZenonT(30), <1>5, <1>6, <1>7, <1>8, <1>11, <1>12, <1>13, <1>14 DEF AccountInv

\* The remaining steps move no row, part or result.
LEMMA Account_Quiet ==
  ASSUME Structure, AccountInv,
         \/ \E b \in Batch : TimerExpires(b) \/ StaleTimer(b) \/ FlushExpiredBatch(b)
         \/ \E f \in Flushes : FlushAsync(f) \/ FlushResolves(f)
         \/ Dequeue \/ MergeEnds \/ Unlock \/ UNCHANGED vars
  PROVE  AccountInv' /\ (Counted => Counted')
<1> USE DEF Structure
<1>1. UNCHANGED <<submitted, pending, req, sent, confirmed>>
  BY Zenon DEF TimerExpires, StaleTimer, FlushExpiredBatch, FlushAsync, FlushResolves, Dequeue,
         MergeEnds, Unlock, vars
<1>2. (crit.pc # "append" /\ crit'.pc # "append") \/ UNCHANGED <<crit, run>>
  <2>1. \A pc \in {"schedule", "merge"} : [crit EXCEPT !.pc = pc].pc # "append"
    BY Zenon DEF TypeOK, CritType
  <2>2. CASE \E b \in Batch : TimerExpires(b) \/ StaleTimer(b) \/ FlushExpiredBatch(b)
    BY Zenon, <2>1, <2>2 DEF TimerExpires, StaleTimer, FlushExpiredBatch
  <2>3. CASE \E f \in Flushes : FlushAsync(f) \/ FlushResolves(f)
    BY Zenon, <2>3 DEF FlushAsync, FlushResolves, TypeOK, CritType
  <2>4. CASE Dequeue
    BY Zenon, <2>4 DEF Dequeue, TypeOK, CritType
  <2>5. CASE MergeEnds
    BY Zenon, <2>1, <2>5 DEF MergeEnds
  <2>6. CASE Unlock
    BY Zenon, <2>6 DEF Unlock, Unlocked
  <2>7. CASE UNCHANGED vars
    BY Zenon, <2>7 DEF vars
  <2> QED
    BY Zenon, <2>2, <2>3, <2>4, <2>5, <2>6, <2>7
<1>3. \A b \in Batch : run'[b] = run[b] \/ (run[b] = NoRun /\ run'[b] = NewRun)
  BY Zenon DEF TimerExpires, StaleTimer, FlushExpiredBatch, FlushAsync, FlushResolves, Dequeue,
         MergeEnds, Unlock, vars, Ownership, TypeOK
<1>4. \/ batch' = batch
      \/ /\ active \in Batch /\ batch[active].reason = "none"
         /\ \E reason \in {"linger", "manual"} : batch' = [batch EXCEPT ![active].reason = reason]
  <2>1. CASE \E b \in Batch : FlushExpiredBatch(b)
    BY SMTT(30), <2>1, RowFacts DEF FlushExpiredBatch, Ownership, NoBatch
  <2>2. CASE \E f \in Flushes : FlushAsync(f)
    BY Zenon, <2>2 DEF FlushAsync, Ownership, TypeOK
  <2>3. CASE \/ \E b \in Batch : TimerExpires(b) \/ StaleTimer(b)
             \/ \E f \in Flushes : FlushResolves(f)
             \/ Dequeue \/ MergeEnds \/ Unlock \/ UNCHANGED vars
    BY Zenon, <2>3 DEF TimerExpires, StaleTimer, FlushResolves, Dequeue, MergeEnds, Unlock, vars
  <2> QED
    BY Zenon, <2>1, <2>2, <2>3
<1>5. \A b \in Batch : /\ batch'[b].rows = batch[b].rows
                       /\ batch'[b].requests = batch[b].requests
                       /\ (batch'[b].reason = "full") <=> (batch[b].reason = "full")
  <2>1. ASSUME NEW reason \in {"linger", "manual"}, NEW b \in Batch
        PROVE  LET B == [batch EXCEPT ![active].reason = reason]
               IN  /\ B[b].rows = batch[b].rows /\ B[b].requests = batch[b].requests
                   /\ B[b].reason = IF b = active THEN reason ELSE batch[b].reason
    BY Zenon DEF TypeOK, BatchType
  <2>2. CASE batch' = batch
    BY Zenon, <2>2
  <2>3. CASE \E reason \in {"linger", "manual"} : batch' = [batch EXCEPT ![active].reason = reason]
    <3>1. PICK reason \in {"linger", "manual"} : batch' = [batch EXCEPT ![active].reason = reason]
      BY Zenon, <2>3
    <3>2. \A b \in Batch : /\ batch'[b].rows = batch[b].rows
                           /\ batch'[b].requests = batch[b].requests
                           /\ batch'[b].reason = IF b = active THEN reason ELSE batch[b].reason
      BY ZenonT(30), <2>1, <3>1
    <3> QED
      BY Zenon, <1>4, <3>2, <2>3
  <2> QED
    BY Zenon, <1>4, <2>2, <2>3
<1>6. \A b \in Batch : /\ run'[b].next = run[b].next /\ run'[b].completed = run[b].completed
                       /\ run'[b].err = run[b].err
                       /\ (run'[b].phase = "finishing") <=> (run[b].phase = "finishing")
  BY <1>3 DEF NoRun, NewRun
<1>7. SameBatches
  BY Zenon, <1>5, <1>6 DEF SameBatches
<1>8. Copying'
  BY Zenon, <1>3 DEF AccountInv, Copying
<1> QED
  BY Zenon, <1>1, <1>2, <1>7, <1>8, Account_Frame

\* Finishing a part keeps the books: an error reaches the call, and the last part
\* resolves its Future.
LEMMA Account_FinishPart ==
  ASSUME Structure, AccountInv, NEW b \in Batch, NEW r \in Request,
         Finishes(r, b), req[r].parts >= 1
  PROVE  AccountInv'
<1> USE DEF Structure
<1>1. /\ r \in Request /\ Lists(b, r) /\ b \in Holders(r)
      /\ \A q \in Request : Holders(q)' = IF q = r THEN Holders(q) \ {b} ELSE Holders(q)
      /\ run[b].phase = "finishing"
      /\ \A c \in Batch : run'[c].phase = run[c].phase /\ run'[c].err = run[c].err
      /\ \A c \in Batch \ {b} : run'[c] = run[c]
      /\ run'[b].completed = IF req[r].parts = 1 THEN run[b].completed \cup {r}
                             ELSE run[b].completed
      /\ \A q \in Request \ {r} : req'[q] = req[q]
      /\ req'[r].mode = req[r].mode /\ req'[r].rowCount = req[r].rowCount
      /\ req'[r].parts = req[r].parts - 1
      /\ req'[r].errs = req[r].errs \cup run[b].err
      /\ req'[r].result =
           IF req[r].parts = 1
           THEN Resolve(req[r].result, IF req'[r].errs = {} THEN req[r].rowCount ELSE 0,
                        req'[r].errs)
           ELSE req[r].result
  BY Zenon DEF Finishes
<1>2. UNCHANGED <<crit, submitted, pending, batch, sent, confirmed>>
  BY Zenon DEF Finishes
<1>3. \A c \in Batch : \A x : /\ Lists(c, x)' <=> Lists(c, x)
                              /\ Contains(c, x)' <=> Contains(c, x)
                              /\ InFlight(c)' <=> InFlight(c)
  BY Zenon, <1>1, <1>2 DEF Lists, Contains, InFlight
<1>4. \A q \in Request : /\ req'[q].mode = req[q].mode /\ req'[q].rowCount = req[q].rowCount
                         /\ Accepted(q)' <=> Accepted(q)
                         /\ Appending(q)' <=> Appending(q)
  BY Zenon, <1>1, <1>2 DEF Accepted, Appending
<1>5. ~ Appending(r) /\ InFlight(b)
  BY Zenon, <1>1 DEF AccountInv, Listed, InFlight
<1>6. PICK j \in 1 .. MaxRows : Contains(b, <<r, j>>) /\ RowState(b, r, j)
  BY ZenonT(30), <1>1 DEF AccountInv, Listed, RowsInv
<1>7. Accepted(r) /\ req[r].rowCount \in Nat /\ req[r].parts \in Int
  BY SMTT(30), <1>1, <1>6 DEF RowState, TypeOK, RequestType
<1>8. ~ req[r].result.done
  <2>1. req[r].result.done => req[r].parts = 0
    BY Zenon, <1>7 DEF AccountInv, Futures
  <2> QED
    BY <2>1
<1>9. req[r].parts = 1 =>
        req'[r].result = [done |-> TRUE, err |-> req'[r].errs,
                          value |-> IF req'[r].errs = {} THEN req'[r].rowCount ELSE 0]
  BY Zenon, <1>1, <1>8 DEF Resolve
<1>10. Calls' /\ NonNegative'
  <2>1. req'[r].parts >= 0 /\ req'[r].mode # "none"
    BY <1>1, <1>7 DEF Accepted
  <2>2. NonNegative'
    BY Zenon, <2>1, <1>1 DEF AccountInv, NonNegative
  <2>3. \A q \in Request \ {r} : req'[q] = req[q]
    BY Zenon, <1>1
  <2> QED
    BY ZenonT(30), <2>1, <2>2, <2>3, <1>2, <1>4, <1>7 DEF AccountInv, Calls
<1>11. Copying' /\ DistinctInv'
  BY Zenon, <1>1, <1>2 DEF AccountInv, Copying, DistinctInv
<1>12. OneNonFull' /\ OneBatch' /\ Listed'
  BY ZenonT(30), <1>2, <1>3, <1>4 DEF AccountInv, OneNonFull, OneBatch, Listed
<1>13. RowsInv'
  BY SMTT(30), <1>1, <1>2, <1>3, <1>4 DEF AccountInv, RowsInv, RowState, RowFate
<1>14. Errors'
  <2>1. ASSUME NEW q \in Request, NEW i \in 1 .. MaxRows,
               sent'[<<q, i>>] = 1, <<q, i>> \notin confirmed'
        PROVE  \/ req'[q].errs # {}
               \/ \E c \in Holders(q)' : run'[c].phase = "finishing" /\ run'[c].err # {}
    <3>1. CASE req[q].errs # {}
      <4>1. req'[q].errs # {}
        BY SMTT(30), <3>1, <1>1
      <4> QED
        BY ZenonT(30), <4>1
    <3>2. ASSUME NEW c \in Holders(q), run[c].phase = "finishing", run[c].err # {}
          PROVE  \/ req'[q].errs # {}
                 \/ c \in Holders(q)' /\ run'[c].phase = "finishing" /\ run'[c].err # {}
      <4>1. CASE q = r /\ c = b
        <5>1. req'[q].errs # {}
          BY SMTT(30), <3>2, <4>1, <1>1
        <5> QED
          BY ZenonT(30), <5>1
      <4>2. CASE ~ (q = r /\ c = b)
        <5>1. c \in Holders(q)' /\ c \in Batch
          BY Zenon, <3>2, <4>2, <1>1 DEF Holders
        <5> QED
          BY Zenon, <3>2, <5>1, <1>1
      <4> QED
        BY Zenon, <4>1, <4>2
    <3> QED
      BY ZenonT(30), <2>1, <3>1, <3>2, <1>2 DEF AccountInv, Errors
  <2>2. ASSUME NEW q \in Request, req'[q].errs # {}
        PROVE  \E i \in 1 .. req'[q].rowCount :
                 sent'[<<q, i>>] = 1 /\ <<q, i>> \notin confirmed'
    <3>1. CASE req[q].errs # {}
      BY Zenon, <3>1, <1>2, <1>4 DEF AccountInv, Errors
    <3>2. CASE req[q].errs = {}
      <4>1. q = r /\ run[b].err # {}
        BY SMTT(30), <2>2, <3>2, <1>1
      <4>2. sent[<<r, j>>] = 1 /\ <<r, j>> \notin confirmed /\ j <= req[r].rowCount
        BY Zenon, <4>1, <1>1, <1>6 DEF RowState
      <4>3. j \in 1 .. req[r].rowCount
        BY <4>2, <1>7
      <4> QED
        BY ZenonT(30), <4>1, <4>2, <4>3, <1>2, <1>4
    <3> QED
      BY Zenon, <3>1, <3>2
  <2> QED
    BY Zenon, <2>1, <2>2 DEF Errors
<1>15. Futures'
  <2>1. ASSUME NEW q \in Request \ {r}, Accepted(q)'
        PROVE  IF req'[q].result.done
               THEN /\ req'[q].parts = 0 /\ ~ Appending(q)'
                    /\ req'[q].result =
                         [done |-> TRUE, err |-> req'[q].errs,
                          value |-> IF req'[q].errs = {} THEN req'[q].rowCount ELSE 0]
               ELSE req'[q].parts > 0 \/ Appending(q)'
    BY Zenon, <2>1, <1>1, <1>4 DEF AccountInv, Futures
  <2>2. CASE req[r].parts = 1
    <3>1. /\ req'[r].parts = 0 /\ ~ Appending(r)'
          /\ req'[r].result = [done |-> TRUE, err |-> req'[r].errs,
                               value |-> IF req'[r].errs = {} THEN req'[r].rowCount ELSE 0]
      BY SMTT(30), <2>2, <1>1, <1>4, <1>5, <1>9
    <3>2. req'[r].result.done
      BY SMTT(30), <3>1
    <3> QED
      BY ZenonT(30), <2>1, <3>1, <3>2 DEF Futures
  <2>3. CASE req[r].parts # 1
    BY SMTT(30), <2>1, <2>3, <1>1, <1>7, <1>8 DEF Futures
  <2> QED
    BY Zenon, <2>2, <2>3
<1>16. PendingCalls'
  <2>1. \A q \in Request : /\ req[q].result.done => req'[q].result.done
                           /\ q # r => req'[q].result.done = req[q].result.done
                           /\ req[r].parts = 1 => req'[r].result.done
                           /\ req[r].parts # 1 => ~ req'[r].result.done
    BY SMTT(30), <1>1, <1>8, <1>9
  <2>2. \A c \in Batch, q \in Request :
          q \in run'[c].completed <=>
            q \in run[c].completed \/ (c = b /\ q = r /\ req[r].parts = 1)
    BY Zenon, <1>1
  <2>3. \A c \in Batch : run[c].completed \subseteq Request /\ run'[c].completed \subseteq Request
    <3>1. \A c \in Batch : run[c].completed \subseteq Request
      BY Zenon DEF TypeOK, RunType
    <3> QED
      BY ZenonT(30), <3>1, <1>1
  <2>4. PendingExact'
    BY Zenon, <2>1, <2>2, <1>2, <1>4 DEF AccountInv, PendingCalls, PendingExact
  <2>5. \A q \in pending' : Accepted(q)'
    BY Zenon, <1>2, <1>4 DEF AccountInv, PendingCalls, TypeOK
  <2>6. \A c \in Batch : \A q \in run'[c].completed : Accepted(q)' /\ req'[q].result.done
    BY ZenonT(30), <2>1, <2>2, <2>3, <1>1, <1>4, <1>7 DEF AccountInv, PendingCalls
  <2> QED
    BY ZenonT(30), <2>4, <2>5, <2>6 DEF PendingCalls
<1> QED
  BY ZenonT(30), <1>10, <1>11, <1>12, <1>13, <1>14, <1>15, <1>16 DEF AccountInv

-----------------------------------------------------------------------------
(* All steps, and how many parts they leave.                               *)

\* What a step may do to the parts of the calls: nothing, add a part of call r
\* that batch b holds, take it away, or let batch b hold what batch n held.
PartsStay == Counted => Counted'

\* Batch b gets a part of call r.
AddsPart(r, b) ==
  /\ req'[r].parts = req[r].parts + 1
  /\ \A q \in Request \ {r} : req'[q].parts = req[q].parts
  /\ \A q \in Request : Holders(q)' = IF q = r THEN Holders(q) \cup {b} ELSE Holders(q)
  /\ b \notin Holders(r)

\* Batch b ends its part of call r.
EndsPart(r, b) ==
  /\ req'[r].parts = req[r].parts - 1
  /\ \A q \in Request \ {r} : req'[q].parts = req[q].parts
  /\ \A q \in Request : Holders(q)' = IF q = r THEN Holders(q) \ {b} ELSE Holders(q)
  /\ b \in Holders(r)

\* Batch b takes over the parts of batch n.
MovesParts(b, n) ==
  /\ \A q \in Request : req'[q].parts = req[q].parts
  /\ \A q \in Request :
       /\ Holders(q)' = IF n \in Holders(q) THEN (Holders(q) \ {n}) \cup {b} ELSE Holders(q)
       /\ n \in Holders(q) => b \notin Holders(q)

\* Every step keeps the books, as long as finishPart finds a part to take away.
LEMMA AccountStep ==
  ASSUME Structure, AccountInv, [Next]_vars,
         \A r \in Request : Holders(r) # {} => req[r].parts >= 1
  PROVE  /\ AccountInv'
         /\ \/ PartsStay
            \/ \E r \in Request, b \in Batch : AddsPart(r, b) \/ EndsPart(r, b)
            \/ \E b, n \in Batch : MovesParts(b, n)
<1>1. TypeOK
  BY Zenon DEF Structure
<1>2. CASE \/ \E n \in RefusedSizes : SubmitRefused(n)
           \/ \E n \in CoalescedSizes : SubmitCoalesced(n)
  BY Zenon, <1>1, <1>2, Account_SubmitRefused, Account_SubmitCoalesced DEF PartsStay
<1>3. CASE \E n \in UnbatchedSizes : SubmitUnbatched(n)
  <2>1. PICK n \in UnbatchedSizes : SubmitUnbatched(n)
    BY Zenon, <1>3
  <2>2. PICK r \in Request, b \in Batch : n \in 1 .. MaxRows /\ Queues(r, b, n)
    BY Zenon, <2>1, UnbatchedShape
  <2>3. AccountInv' /\ AddsPart(r, b)
    BY Zenon, <2>2, Account_SubmitUnbatched DEF AddsPart
  <2> QED
    BY Zenon, <2>3
<1>4. CASE AppendRows
  <2>1. PICK r \in Request, i \in 1 .. MaxRows, b \in Batch, k \in Nat \ {0} : Appends(r, i, b, k)
    BY Zenon, <1>4, AppendShape
  <2>2. AccountInv' /\ AddsPart(r, b)
    BY Zenon, <2>1, Account_AppendRows DEF AddsPart
  <2> QED
    BY Zenon, <2>2
<1>5. CASE Merge
  <2>1. PICK b \in Batch, n \in Batch : Merges(b, n)
    BY Zenon, <1>5, MergeShape
  <2>2. AccountInv'
    BY Zenon, <1>1, <2>1, Account_Merge
  <2>3. req' = req
    BY Zenon, <2>1 DEF Merges
  <2>4. MovesParts(b, n)
    BY Zenon, <1>1, <2>1, <2>3, MergeEffects DEF MovesParts
  <2> QED
    BY Zenon, <2>2, <2>4
<1>6. CASE \E b \in Batch, err \in {{}, {"copy"}} : CopyOutcome(b, err)
  <2>1. PICK b \in Batch, err \in {{}, {"copy"}} : CopyOutcome(b, err)
    BY Zenon, <1>6
  <2>2. err \in SUBSET ErrorKind
    BY DEF ErrorKind
  <2> QED
    BY Zenon, <2>1, <2>2, Account_CopyOutcome DEF PartsStay
<1>7. CASE \E b \in Batch : FinishPart(b)
  <2>1. PICK b \in Batch : FinishPart(b)
    BY Zenon, <1>7
  <2> DEFINE r == batch[b].requests[run[b].next]
  <2>2. Finishes(r, b)
    BY Zenon, <2>1, FinishEffects
  <2> HIDE DEF r
  <2>3. EndsPart(r, b) /\ r \in Request
    BY Zenon, <2>2 DEF Finishes, EndsPart
  <2>4. req[r].parts >= 1
    BY Zenon, <2>3 DEF EndsPart
  <2>5. AccountInv'
    BY Zenon, <2>2, <2>3, <2>4, Account_FinishPart
  <2> QED
    BY Zenon, <2>3, <2>5
<1>8. CASE \E b \in Batch : Settle(b)
  BY Zenon, <1>8, Account_Settle DEF PartsStay
<1>9. CASE \/ \E b \in Batch : TimerExpires(b) \/ StaleTimer(b) \/ FlushExpiredBatch(b)
           \/ \E f \in Flushes : FlushAsync(f) \/ FlushResolves(f)
           \/ Dequeue \/ MergeEnds \/ Unlock \/ UNCHANGED vars
  BY Zenon, <1>9, Account_Quiet DEF PartsStay
<1> QED
  BY ZenonT(30), <1>2, <1>3, <1>4, <1>5, <1>6, <1>7, <1>8, <1>9, Steps

\* Before the first call there is nothing to account for.
LEMMA AccountInit ==
  ASSUME Init
  PROVE  AccountInv /\ \A r \in Request : req[r].parts = 0 /\ Holders(r) = {}
<1>1. /\ \A b \in Batch : batch[b] = EmptyBatch /\ run[b] = NoRun
      /\ \A r \in Request : req[r] = [mode |-> "none", rowCount |-> 0, parts |-> 0, errs |-> {},
                                      result |-> Pending]
      /\ \A x \in Row : sent[x] = 0
      /\ confirmed = {} /\ pending = {} /\ crit.pc = "free" /\ submitted = 0
  BY Zenon DEF Init, Unlocked
<1>2. \A b \in Batch : \A x : ~ Lists(b, x) /\ ~ Contains(b, x) /\ ~ Holds(b, x)
  <2>1. \A b \in Batch : DOMAIN batch[b].requests = {} /\ DOMAIN batch[b].rows = {}
    BY <1>1 DEF EmptyBatch
  <2> QED
    BY ZenonT(30), <2>1 DEF Lists, Contains, Holds
<1>3. \A r \in Request : /\ req[r].mode = "none" /\ req[r].parts = 0 /\ req[r].errs = {}
                         /\ ~ req[r].result.done /\ r > submitted /\ req[r].parts >= 0
  <2>1. ASSUME NEW r \in Request
        PROVE  /\ req[r].mode = "none" /\ req[r].parts = 0 /\ req[r].errs = {}
               /\ ~ req[r].result.done
    <3>1. /\ req[r].mode = "none" /\ req[r].parts = 0 /\ req[r].errs = {}
          /\ req[r].result = Pending
      BY <1>1
    <3>2. ~ Pending.done
      BY Zenon DEF Pending
    <3> QED
      BY Zenon, <3>1, <3>2
  <2>2. \A r \in Request : r > submitted
    BY <1>1 DEF Request
  <2>3. \A r \in Request : req[r].parts >= 0
    BY <2>1
  <2> QED
    BY Zenon, <2>1, <2>2, <2>3
<1>4. \A r \in Request : ~ Accepted(r) /\ ~ Appending(r) /\ Holders(r) = {}
  BY Zenon, <1>1, <1>2, <1>3 DEF Accepted, Appending, Holders
<1>5. Calls /\ NonNegative
  BY Zenon, <1>3, <1>4 DEF Calls, NonNegative
<1>6. Copying /\ DistinctInv
  <2>1. \A b \in Batch : /\ run[b].phase # "copying"
                         /\ DOMAIN batch[b].requests = {} /\ DOMAIN batch[b].rows = {}
    BY <1>1 DEF NoRun, EmptyBatch
  <2> QED
    BY ZenonT(30), <2>1 DEF Copying, DistinctInv, Distinct
<1>7. OneNonFull /\ Listed /\ OneBatch
  BY Zenon, <1>2 DEF OneNonFull, Listed, OneBatch
<1>8. RowsInv
  <2>1. ASSUME NEW r \in Request, NEW j \in 1 .. MaxRows PROVE RowFate(r, j)
    <3>1. sent[<<r, j>>] = 0
      BY Zenon, <1>1, RowFacts
    <3>2. sent[<<r, j>>] <= 1
      BY <3>1
    <3> QED
      BY Zenon, <1>1, <1>4, <3>1, <3>2 DEF RowFate
  <2> QED
    BY Zenon, <1>2, <2>1 DEF RowsInv
<1>9. Errors
  <2>1. ASSUME NEW r \in Request, NEW j \in 1 .. MaxRows PROVE sent[<<r, j>>] # 1
    <3>1. sent[<<r, j>>] = 0
      BY Zenon, <1>1, RowFacts
    <3> QED
      BY SMTT(30), <3>1
  <2> QED
    BY Zenon, <1>3, <2>1 DEF Errors
<1>10. Futures
  BY Zenon, <1>4 DEF Futures
<1>11. PendingCalls
  <2>1. \A b \in Batch : run[b].completed = {}
    BY <1>1 DEF NoRun
  <2> QED
    BY ZenonT(30), <1>1, <1>4, <2>1 DEF PendingCalls, PendingExact
<1> QED
  BY ZenonT(30), <1>3, <1>4, <1>5, <1>6, <1>7, <1>8, <1>9, <1>10, <1>11 DEF AccountInv
=============================================================================
