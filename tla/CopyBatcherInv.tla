---------------------------- MODULE CopyBatcherInv ----------------------------
(***************************************************************************)
(* The inductive invariant of CopyBatcher: what holds of the data          *)
(* structures between any two steps, inside the critical section included. *)
(***************************************************************************)
EXTENDS CopyBatcher

\* Batch b is in the queue.
Queued(b) == \E i \in DOMAIN queue : queue[i] = b

\* Each place of the program that may hold the mutex leaves the locals of
\* the critical section as its next steps expect them.
CritInv ==
  /\ crit.pc \in {"free", "append"} => crit.picked = {}
  /\ crit.pc \in {"free", "append"} => crit.flush = NoFlush
  /\ crit.pc = "merge" => crit.into \in crit.picked
  /\ crit.pc = "merge" => batch[crit.into].reason = "linger"
  /\ crit.pc = "append" =>
       /\ crit.cursor \in Row
       /\ crit.cursor[1] <= submitted
       /\ crit.cursor[2] <= req[crit.cursor[1]].rowCount

\* Every batch with rows is in exactly one place: open, queued, or in flight,
\* and it is queued at most once.
Ownership ==
  /\ active # NoBatch =>
       /\ batch[active].rows # <<>>
       /\ batch[active].reason = "none"
       /\ ~ Queued(active)
       /\ ~ InFlight(active)
  /\ \A i \in DOMAIN queue :
       /\ batch[queue[i]].rows # <<>>
       /\ batch[queue[i]].reason # "none"
       /\ ~ InFlight(queue[i])
  /\ \A i, j \in DOMAIN queue : queue[i] = queue[j] => i = j
  /\ \A b \in Batch :
       /\ InFlight(b) => batch[b].rows # <<>> /\ batch[b].reason # "none"
       /\ b \in crit.picked => run[b].phase = "none"
       /\ run[b].phase = "none" => run[b] = NoRun
       /\ b # active /\ ~ Queued(b) /\ ~ InFlight(b) => batch[b] = EmptyBatch

\* A batch is named by a row that has already been put into a batch, so the
\* name of the next one is unused.
FreshNames ==
  \A b \in Batch :
    batch[b] # EmptyBatch =>
      /\ b[1] <= submitted
      /\ crit.pc = "append" /\ b[1] = crit.cursor[1] => b[2] < crit.cursor[2]

\* The open batch has room left; a closed one may be exactly full.
Sizes ==
  MaxRowsPerBatch > 0 =>
    /\ CoalescedWithinLimit
    /\ active # NoBatch => Len(batch[active].rows) < MaxRowsPerBatch

\* Between any two steps of submit, the timers, runBatch and FlushAsync, the
\* batches are typed, owned by one place, uniquely named and within their
\* limits: the inductive invariant behind the theorems.
Structure ==
  TypeOK /\ CritInv /\ Ownership /\ FreshNames /\ Sizes

-----------------------------------------------------------------------------
(* The accounting of rows, parts and results.                              *)

\* The loop of appendRequestLocked works on call r.
Appending(r) == crit.pc = "append" /\ r = crit.cursor[1]

\* Call r has a part in batch b, finished or not.
Lists(b, r) == \E i \in DOMAIN batch[b].requests : batch[b].requests[i] = r

\* Call r has a part in batch b that finishPart has not been called for.
Holds(b, r) ==
  \E i \in DOMAIN batch[b].requests :
    run[b].next <= i /\ batch[b].requests[i] = r

\* The batches that hold a part of call r.
Holders(r) == {b \in Batch : Holds(b, r)}

\* Row row is in batch b.
Contains(b, row) == \E i \in DOMAIN batch[b].rows : batch[b].rows[i] = row

\* What submitted and req say of a call agree.
Calls ==
  \A r \in Request :
    /\ req[r].mode = "none" <=> r > submitted
    /\ Accepted(r) => req[r].rowCount > 0
    /\ Appending(r) => req[r].mode = "coalesced"
    /\ req[r].mode = "none" => ~ req[r].result.done
    /\ ~ Accepted(r) => req[r].parts = 0 /\ req[r].errs = {}

\* A COPY that failed shows in the call's errors, or will when the batch
\* finishes its part of the call; and errors come from nowhere else.
Errors ==
  /\ \A r \in Request, j \in 1 .. MaxRows :
       sent[<<r, j>>] = 1 /\ <<r, j>> \notin confirmed =>
         \/ req[r].errs # {}
         \/ \E b \in Holders(r) : run[b].phase = "finishing" /\ run[b].err # {}
  /\ \A r \in Request :
       req[r].errs # {} =>
         \E j \in 1 .. req[r].rowCount :
           sent[<<r, j>>] = 1 /\ <<r, j>> \notin confirmed

\* The Future of an accepted call is unresolved exactly as long as it has
\* parts left.
Futures ==
  \A r \in Request :
    Accepted(r) =>
      IF req[r].result.done
      THEN /\ req[r].parts = 0
           /\ ~ Appending(r)
           /\ req[r].result =
                [done |-> TRUE, err |-> req[r].errs,
                 value |-> IF req[r].errs = {} THEN req[r].rowCount ELSE 0]
      ELSE req[r].parts > 0 \/ Appending(r)

\* pending lags behind the resolved Futures by the parts runBatch still has
\* to delete.
PendingCalls ==
  /\ PendingExact
  /\ \A r \in pending : Accepted(r)
  /\ \A b \in Batch : \A r \in run[b].completed :
       Accepted(r) /\ req[r].result.done

\* x occurs in s.
In(x, s) == \E i \in DOMAIN s : s[i] = x

\* No element occurs in s twice.
Distinct(s) == \A i, j \in DOMAIN s : s[i] = s[j] => i = j

\* A goroutine whose COPY has not returned has finished no part.
Copying == \A b \in Batch : run[b].phase = "copying" => run[b] = NewRun

\* A batch holds no row and no part twice.
DistinctInv ==
  \A b \in Batch : Distinct(batch[b].requests) /\ Distinct(batch[b].rows)

\* At most one of the batches that list a call was closed by something else
\* than being full: so merging two batches never joins two parts of one call.
OneNonFull ==
  \A b, c \in Batch, r \in Request :
    /\ Lists(b, r) /\ batch[b].reason # "full"
    /\ Lists(c, r) /\ batch[c].reason # "full"
    => b = c

\* A batch lists a call only if it contains rows of it; while the call is still
\* being appended such a batch is full and not started.
Listed ==
  \A b \in Batch, r \in Request :
    Lists(b, r) =>
      /\ Appending(r) => batch[b].reason = "full" /\ ~ InFlight(b)
      /\ \E j \in 1 .. MaxRows : Contains(b, <<r, j>>)

\* No row is in two batches.
OneBatch ==
  \A b, c \in Batch, x \in Row : Contains(b, x) /\ Contains(c, x) => b = c

\* What holds of a row in batch b: its call was accepted and lists it, and it was
\* sent exactly if the COPY of b has returned.
RowState(b, r, j) ==
  /\ Lists(b, r)
  /\ Accepted(r)
  /\ j <= req[r].rowCount
  /\ Appending(r) => j < crit.cursor[2]
  /\ IF run[b].phase = "finishing"
     THEN /\ sent[<<r, j>>] = 1
          /\ <<r, j>> \in confirmed <=> run[b].err = {}
     ELSE sent[<<r, j>>] = 0

\* What holds of any row: it is sent at most once, and until then it is with
\* appendRequestLocked or in a batch.
RowFate(r, j) ==
  /\ sent[<<r, j>>] <= 1
  /\ sent[<<r, j>>] = 0 => <<r, j>> \notin confirmed
  /\ ~ Accepted(r) \/ j > req[r].rowCount \/ (Appending(r) /\ j >= crit.cursor[2])
       => sent[<<r, j>>] = 0
  /\ Accepted(r) /\ j <= req[r].rowCount /\ sent[<<r, j>>] = 0
       => \/ Appending(r) /\ j >= crit.cursor[2]
          \/ \E b \in Batch : Contains(b, <<r, j>>)

\* Both, for all rows.
RowsInv ==
  /\ \A b \in Batch, r \in Request, j \in 1 .. MaxRows :
       Contains(b, <<r, j>>) => RowState(b, r, j)
  /\ \A r \in Request, j \in 1 .. MaxRows : RowFate(r, j)

\* No part is ended twice.
NonNegative == \A r \in Request : req[r].parts >= 0

\* All of it but the number of parts.
AccountInv ==
  /\ Calls /\ Copying /\ NonNegative
  /\ DistinctInv /\ OneNonFull /\ Listed /\ OneBatch
  /\ RowsInv /\ Errors /\ Futures /\ PendingCalls

\* A call has as many parts left as there are batches holding one.
Counted == \A r \in Request : req[r].parts = Cardinality(Holders(r))

\* Rows, parts, errors and results of all calls add up between any two steps
\* of appendRequestLocked, runBatch and finishPart: no row, part or error of a
\* split call is lost or counted twice.
Accounting == AccountInv /\ Counted

-----------------------------------------------------------------------------
(* The order of the rows of coalesced calls, and the unbatched calls.      *)

\* Row x was submitted before row y.
Before(x, y) == x[1] < y[1] \/ (x[1] = y[1] /\ x[2] < y[2])

\* Row x belongs to a call of Submit.
Coalesced(x) == req[x[1]].mode = "coalesced" /\ x[2] <= req[x[1]].rowCount

\* Row x is in the open batch.
Open(x) == active # NoBatch /\ Contains(active, x)

\* Row x is in the queue at or before position j.
Waiting(x, j) == \E i \in DOMAIN queue : i <= j /\ Contains(queue[i], x)

\* Row x is anywhere but in the hands of appendRequestLocked.
Located(x) == x \in Started \/ Open(x) \/ \E i \in DOMAIN queue : Contains(queue[i], x)

\* Row x is at least as far as row y.
Ordered(x, y) ==
  /\ y \in Started => x \in Started
  /\ \A j \in DOMAIN queue : Contains(queue[j], y) => x \in Started \/ Waiting(x, j)
  /\ Open(y) => Located(x)

\* Rows of coalesced calls are opened, queued and started in their order.
OrderInv ==
  \A x, y \in Row : Coalesced(x) /\ Coalesced(y) /\ Before(x, y) => Ordered(x, y)

\* Batch b holds rows of coalesced calls only.
CoalescedOnly(b) ==
  /\ batch[b].reason # "unbatched"
  /\ \A r \in Request, j \in 1 .. MaxRows : Contains(b, <<r, j>>) => req[r].mode = "coalesced"

\* Batch b is the one of a call of SubmitUnbatched.
WholeCall(b) ==
  /\ batch[b].reason = "unbatched"
  /\ \E r \in Request : req[r].mode = "unbatched" /\ RowsOf(b) = RowsOfRequest(r)

\* No batch mixes the two.
AloneInv == \A b \in Batch : CoalescedOnly(b) \/ WholeCall(b)
=============================================================================
