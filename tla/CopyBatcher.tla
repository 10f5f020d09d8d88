----------------------------- MODULE CopyBatcher -----------------------------
(***************************************************************************)
(* The asynchronous COPY batcher of copy_batch.go: submissions are         *)
(* coalesced into batches, batches queue for a bounded number of           *)
(* concurrent physical COPY operations, and each submission owns a Future  *)
(* that resolves when every batch holding one of its rows has finished.    *)
(*                                                                         *)
(* Everything done under CopyBatcher.mu belongs to one critical section.   *)
(* The loops inside it (appendRequestLocked, scheduleLocked,               *)
(* dequeueLocked) are steps of the caller that holds the mutex, named by   *)
(* crit.pc; no other caller enters before Unlock.  What the code does      *)
(* outside the mutex (the COPY itself, finishPart, timers, waiting for     *)
(* futures) interleaves freely with it.                                    *)
(***************************************************************************)
EXTENDS Integers, Sequences, FiniteSets

CONSTANTS
  NumRequests,            \* bound: calls of Submit and SubmitUnbatched
  MaxRows,                \* bound: rows of one call
  CoalescedSizes,         \* the row counts accepted calls of Submit pass
  UnbatchedSizes,         \* the same for SubmitUnbatched
  RefusedSizes,           \* the same for calls that are refused
  MaxRowsPerBatch,        \* CopyBatchConfig.MaxRowsPerBatch, 0 is unbounded
  MaxConcurrentBatches,   \* CopyBatchConfig.MaxConcurrentBatches, normalized
  Flushes,                \* bound: one element per call of FlushAsync
  NoFlush

\* What NewCopyBatcher leaves behind: Validate refuses negative limits and
\* normalized replaces a zero concurrency limit by its default.
ASSUME ConfigAssumption ==
  /\ NumRequests \in Nat
  /\ MaxRows \in Nat
  /\ CoalescedSizes \subseteq 1 .. MaxRows
  /\ UnbatchedSizes \subseteq 1 .. MaxRows
  /\ RefusedSizes \subseteq 0 .. MaxRows
  /\ MaxRowsPerBatch \in Nat
  /\ MaxConcurrentBatches \in Nat \ {0}
  /\ NoFlush \notin Flushes

\* Calls are numbered in the order in which they are accepted.
Request == 1 .. NumRequests

\* The i-th row of call r.
Row == Request \X (1 .. MaxRows)

\* A batch is known by the first row put into it: the code knows it by its
\* address.  Its context is the one of the call that first row belongs to.
Batch == Row
NoBatch == <<0, 0>>

ErrorKind == {"copy", "canceled"}
Mode == {"none", "refused", "coalesced", "unbatched"}
Reason == {"none", "full", "linger", "manual", "unbatched"}

VARIABLES
  crit,       \* the critical section of CopyBatcher.mu and its locals
  submitted,  \* number of calls of submit so far
  active,     \* CopyBatcher.active
  queue,      \* CopyBatcher.queue
  inFlight,   \* CopyBatcher.inFlight
  pending,    \* CopyBatcher.pending
  batch,      \* the copyBatch structs
  timer,      \* the linger timer of each batch
  run,        \* the runBatch goroutine of each batch
  req,        \* the copyRequest structs
  flush,      \* the callers of FlushAsync
  sent,       \* history: how many physical COPYs carried each row
  confirmed   \* history: rows of the COPYs that reported success

vars == <<crit, submitted, active, queue, inFlight, pending, batch, timer,
          run, req, flush, sent, confirmed>>

EmptyBatch == [rows |-> <<>>, requests |-> <<>>, reason |-> "none"]
NoRun == [phase |-> "none", err |-> {}, next |-> 1, completed |-> {}]
NewRun == [phase |-> "copying", err |-> {}, next |-> 1, completed |-> {}]
Unlocked == [pc |-> "free", cursor |-> NoBatch, into |-> NoBatch,
             picked |-> {}, flush |-> NoFlush]

Pending == [done |-> FALSE, value |-> 0, err |-> {}]

\* Future.resolve: sync.Once keeps the first result.
Resolve(future, value, err) ==
  IF future.done THEN future
  ELSE [done |-> TRUE, value |-> value, err |-> err]

Init ==
  /\ crit = Unlocked
  /\ submitted = 0
  /\ active = NoBatch
  /\ queue = <<>>
  /\ inFlight = 0
  /\ pending = {}
  /\ batch = [b \in Batch |-> EmptyBatch]
  /\ timer = [b \in Batch |-> "off"]
  /\ run = [b \in Batch |-> NoRun]
  /\ req = [r \in Request |->
              [mode |-> "none", rowCount |-> 0, parts |-> 0, errs |-> {},
               result |-> Pending]]
  /\ flush = [f \in Flushes |->
                [phase |-> "idle", awaited |-> {}, failed |-> {}]]
  /\ sent = [row \in Row |-> 0]
  /\ confirmed = {}

-----------------------------------------------------------------------------
(* Helpers of the critical section.                                        *)

\* Timer.Stop: a timer that has expired still runs its callback.
Stop(t) == IF t = "armed" THEN "off" ELSE t

\* The rows i .. i+k-1 of call r.
Slice(r, i, k) == [j \in 1 .. k |-> <<r, i + j - 1>>]

\* How many of the remaining rows the batch holding len rows still takes.
Take(remaining, len) ==
  IF MaxRowsPerBatch > 0 /\ MaxRowsPerBatch - len < remaining
  THEN MaxRowsPerBatch - len
  ELSE remaining

IsFull(len) == MaxRowsPerBatch > 0 /\ len = MaxRowsPerBatch

\* enqueueLocked for a batch of len rows: a batch without rows is dropped.
Enqueue(q, b, len) == IF len = 0 THEN q ELSE Append(q, b)

\* Deviation: the merge takes whatever fits.
CanMergeAny(b) ==
  /\ queue # <<>>
  /\ \/ MaxRowsPerBatch = 0
     \/ Len(batch[b].rows) + Len(batch[Head(queue)].rows) <= MaxRowsPerBatch

\* dequeueLocked merges the next batch into the one just popped only when
\* both were closed by their timer and the rows still fit.
CanMerge(b) ==
  /\ queue # <<>>
  /\ batch[Head(queue)].reason = "linger"
  /\ \/ MaxRowsPerBatch = 0
     \/ Len(batch[b].rows) + Len(batch[Head(queue)].rows) <= MaxRowsPerBatch

\* Deviation: off by one.
HasCapacityInclusive == inFlight <= MaxConcurrentBatches /\ queue # <<>>

HasCapacity == inFlight < MaxConcurrentBatches /\ queue # <<>>

-----------------------------------------------------------------------------
(* Callers of submit.                                                      *)

\* An empty call, and one whose context is already canceled at either check,
\* gets a resolved Future and never reaches the batcher.
SubmitRefused(n) ==
  /\ submitted < NumRequests
  /\ submitted' = submitted + 1
  /\ req' = [req EXCEPT ![submitted + 1].mode = "refused",
                        ![submitted + 1].rowCount = n,
                        ![submitted + 1].result =
                           Resolve(@, 0, IF n = 0 THEN {} ELSE {"canceled"})]
  /\ UNCHANGED <<crit, active, queue, inFlight, pending, batch, timer, run,
                 flush, sent, confirmed>>

\* Submit up to its call of appendRequestLocked.
SubmitCoalesced(n) ==
  /\ crit.pc = "free"
  /\ submitted < NumRequests
  /\ submitted' = submitted + 1
  /\ pending' = pending \cup {submitted + 1}
  /\ req' = [req EXCEPT ![submitted + 1].mode = "coalesced",
                        ![submitted + 1].rowCount = n]
  /\ crit' = [crit EXCEPT !.pc = "append", !.cursor = <<submitted + 1, 1>>]
  /\ UNCHANGED <<active, queue, inFlight, batch, timer, run, flush, sent,
                 confirmed>>

\* SubmitUnbatched up to its call of scheduleLocked: one batch of its own,
\* whatever its size, behind what is queued and not behind the open batch.
SubmitUnbatched(n) ==
  LET r == submitted + 1
      b == <<r, 1>>
  IN  /\ crit.pc = "free"
      /\ submitted < NumRequests
      /\ submitted' = r
      /\ pending' = pending \cup {r}
      /\ req' = [req EXCEPT ![r].mode = "unbatched",
                            ![r].rowCount = n, ![r].parts = @ + 1]
      /\ batch' = [batch EXCEPT ![b] = [rows |-> Slice(r, 1, n),
                                        requests |-> <<r>>,
                                        reason |-> "unbatched"]]
      /\ queue' = Enqueue(queue, b, n)
      /\ crit' = [crit EXCEPT !.pc = "schedule"]
      /\ UNCHANGED <<active, inFlight, timer, run, flush, sent, confirmed>>

\* One iteration of the loop of appendRequestLocked: open a batch if there is
\* none, move as many rows into it as fit, and close it if that fills it.
\* The timer of a batch opened here may expire before it is stopped.
AppendRows ==
  LET r == crit.cursor[1]
      i == crit.cursor[2]
      opened == active = NoBatch
      b == IF opened THEN crit.cursor ELSE active
      k == Take(req[r].rowCount - i + 1, Len(batch[b].rows))
      full == IsFull(Len(batch[b].rows) + k)
  IN  /\ crit.pc = "append"
      /\ batch' = [batch EXCEPT
                     ![b] = [rows |-> @.rows \o Slice(r, i, k),
                             requests |-> Append(@.requests, r),
                             reason |-> IF full THEN "full" ELSE "none"]]
      /\ req' = [req EXCEPT ![r].parts = @ + 1]
      /\ \E t \in (IF opened THEN {"armed", "fired"} ELSE {timer[b]}) :
            timer' = [timer EXCEPT ![b] = IF full THEN Stop(t) ELSE t]
      /\ active' = IF full THEN NoBatch ELSE b
      /\ queue' = IF full THEN Enqueue(queue, b, MaxRowsPerBatch) ELSE queue
      /\ crit' = IF i + k > req[r].rowCount
                 THEN [crit EXCEPT !.pc = "schedule", !.cursor = NoBatch]
                 ELSE [crit EXCEPT !.cursor = <<r, i + k>>]
      /\ UNCHANGED <<submitted, inFlight, pending, run, flush, sent,
                     confirmed>>

-----------------------------------------------------------------------------
(* The linger timer.                                                       *)

TimerExpires(b) ==
  /\ timer[b] = "armed"
  /\ timer' = [timer EXCEPT ![b] = "fired"]
  /\ UNCHANGED <<crit, submitted, active, queue, inFlight, pending, batch,
                 run, req, flush, sent, confirmed>>

\* flushExpiredBatch for a batch that is no longer the open one returns.
StaleTimer(b) ==
  /\ crit.pc = "free"
  /\ timer[b] = "fired"
  /\ active # b
  /\ timer' = [timer EXCEPT ![b] = "off"]
  /\ UNCHANGED <<crit, submitted, active, queue, inFlight, pending, batch,
                 run, req, flush, sent, confirmed>>

\* Deviation: the callback does not check that its batch is still open.
FlushExpiredUnchecked(b) ==
  /\ crit.pc = "free"
  /\ timer[b] = "fired"
  /\ timer' = [timer EXCEPT ![b] = "off"]
  /\ active' = NoBatch
  /\ batch' = [batch EXCEPT ![b].reason = "linger"]
  /\ queue' = Enqueue(queue, b, Len(batch[b].rows))
  /\ crit' = [crit EXCEPT !.pc = "schedule"]
  /\ UNCHANGED <<submitted, inFlight, pending, run, req, flush, sent,
                 confirmed>>

\* flushExpiredBatch for the open batch, up to its call of scheduleLocked.
FlushExpiredBatch(b) ==
  /\ crit.pc = "free"
  /\ timer[b] = "fired"
  /\ active = b
  /\ timer' = [timer EXCEPT ![b] = "off"]
  /\ active' = NoBatch
  /\ batch' = [batch EXCEPT ![b].reason = "linger"]
  /\ queue' = Enqueue(queue, b, Len(batch[b].rows))
  /\ crit' = [crit EXCEPT !.pc = "schedule"]
  /\ UNCHANGED <<submitted, inFlight, pending, run, req, flush, sent,
                 confirmed>>

-----------------------------------------------------------------------------
(* Flushing.                                                               *)

\* Deviation: the open batch is left to its timer.
FlushAsyncLeavesOpen(f) ==
  /\ crit.pc = "free"
  /\ flush[f].phase = "idle"
  /\ flush' = [flush EXCEPT ![f].phase = "locked"]
  /\ crit' = [crit EXCEPT !.pc = "schedule", !.flush = f]
  /\ UNCHANGED <<submitted, active, queue, inFlight, pending, batch, timer,
                 run, req, sent, confirmed>>

\* FlushAsync up to its call of scheduleLocked: the open batch, if there is
\* one, is closed and queued.
FlushAsync(f) ==
  /\ crit.pc = "free"
  /\ flush[f].phase = "idle"
  /\ flush' = [flush EXCEPT ![f].phase = "locked"]
  /\ crit' = [crit EXCEPT !.pc = "schedule", !.flush = f]
  /\ active' = NoBatch
  /\ IF active = NoBatch
     THEN UNCHANGED <<batch, timer, queue>>
     ELSE /\ batch' = [batch EXCEPT ![active].reason = "manual"]
          /\ timer' = [timer EXCEPT ![active] = Stop(@)]
          /\ queue' = Enqueue(queue, active, Len(batch[active].rows))
  /\ UNCHANGED <<submitted, inFlight, pending, run, req, sent, confirmed>>

\* The goroutine of FlushAsync has awaited every Future of its snapshot and
\* joins their errors.
FlushResolves(f) ==
  /\ flush[f].phase = "waiting"
  /\ \A r \in flush[f].awaited : req[r].result.done
  /\ flush' = [flush EXCEPT
                 ![f].phase = "done",
                 ![f].failed = {r \in flush[f].awaited :
                                  req[r].result.err # {}}]
  /\ UNCHANGED <<crit, submitted, active, queue, inFlight, pending, batch,
                 timer, run, req, sent, confirmed>>

-----------------------------------------------------------------------------
(* scheduleLocked and the end of every critical section.                   *)

\* One iteration of scheduleLocked: pop a batch; a batch closed by its timer
\* goes on to the merge loop of dequeueLocked.
Dequeue ==
  LET b == Head(queue)
  IN  /\ crit.pc = "schedule"
      /\ HasCapacity
      /\ queue' = Tail(queue)
      /\ inFlight' = inFlight + 1
      /\ crit' = [crit EXCEPT !.pc = IF batch[b].reason = "linger"
                                     THEN "merge" ELSE "schedule",
                              !.into = b,
                              !.picked = @ \cup {b}]
      /\ UNCHANGED <<submitted, active, pending, batch, timer, run, req,
                     flush, sent, confirmed>>

\* One iteration of the merge loop of dequeueLocked.
Merge ==
  LET b == crit.into
      n == Head(queue)
  IN  /\ crit.pc = "merge"
      /\ CanMerge(b)
      /\ queue' = Tail(queue)
      /\ batch' = [batch EXCEPT
                     ![b] = [rows |-> @.rows \o batch[n].rows,
                             requests |-> @.requests \o batch[n].requests,
                             reason |-> @.reason],
                     ![n] = EmptyBatch]
      /\ UNCHANGED <<crit, submitted, active, inFlight, pending, timer, run,
                     req, flush, sent, confirmed>>

\* dequeueLocked returns.
MergeEnds ==
  /\ crit.pc = "merge"
  /\ ~ CanMerge(crit.into)
  /\ crit' = [crit EXCEPT !.pc = "schedule"]
  /\ UNCHANGED <<submitted, active, queue, inFlight, pending, batch, timer,
                 run, req, flush, sent, confirmed>>

\* scheduleLocked returns; FlushAsync takes its snapshot of pending; the mutex
\* is released and dispatch starts a runBatch goroutine per picked batch.
Unlock ==
  /\ crit.pc = "schedule"
  /\ ~ HasCapacity
  /\ crit' = Unlocked
  /\ run' = [b \in Batch |-> IF b \in crit.picked THEN NewRun ELSE run[b]]
  /\ flush' = IF crit.flush = NoFlush THEN flush
              ELSE [flush EXCEPT ![crit.flush] =
                      [phase |-> "waiting", awaited |-> pending,
                       failed |-> {}]]
  /\ UNCHANGED <<submitted, active, queue, inFlight, pending, batch, timer,
                 req, sent, confirmed>>

-----------------------------------------------------------------------------
(* runBatch.                                                               *)

\* The physical COPY of batch b returns and its error, if any, is kept for
\* the parts of the batch.
CopyOutcome(b, err) ==
  LET carried == {batch[b].rows[i] : i \in DOMAIN batch[b].rows}
  IN  /\ run[b].phase = "copying"
      /\ run' = [run EXCEPT ![b].phase = "finishing", ![b].err = err]
      /\ sent' = [row \in Row |-> IF row \in carried THEN sent[row] + 1
                                  ELSE sent[row]]
      /\ confirmed' = IF err = {} THEN confirmed \cup carried ELSE confirmed
      /\ UNCHANGED <<crit, submitted, active, queue, inFlight, pending,
                     batch, timer, req, flush>>

\* It fails, or it reports a number of rows that is or is not the number of
\* rows it was given.
CopyReturns(b) ==
  \E failed, mismatch \in BOOLEAN :
    CopyOutcome(b, IF failed \/ mismatch THEN {"copy"} ELSE {})

\* Deviation: the error of a part replaces those of earlier parts.
JoinedLatest(r, err) == err

\* The errors of call r once a part of it has ended with err.
Joined(r, err) == req[r].errs \cup err

\* Deviation: the first part to finish resolves the Future.
IsLastAlways(r) == TRUE

\* No other part of call r is left.
IsLast(r) == req[r].parts = 1

\* copyRequest.finishPart for the next request of the batch, outside the
\* mutex of the batcher: the last part of a request resolves its Future.
FinishPart(b) ==
  LET r == batch[b].requests[run[b].next]
      errs == Joined(r, run[b].err)
      last == IsLast(r)
  IN  /\ run[b].phase = "finishing"
      /\ run[b].next <= Len(batch[b].requests)
      /\ req' = [req EXCEPT
                   ![r].errs = errs,
                   ![r].parts = @ - 1,
                   ![r].result =
                      IF last
                      THEN Resolve(@, IF errs = {} THEN req[r].rowCount ELSE 0,
                                   errs)
                      ELSE @]
      /\ run' = [run EXCEPT ![b].next = @ + 1,
                            ![b].completed = IF last THEN @ \cup {r} ELSE @]
      /\ UNCHANGED <<crit, submitted, active, queue, inFlight, pending, batch,
                     timer, flush, sent, confirmed>>

\* The calls runBatch deletes from pending.
Finished(b) == run[b].completed

\* Deviation: the freed capacity is not offered to the queue.
SettleUnscheduled(b) ==
  /\ crit.pc = "free"
  /\ run[b].phase = "finishing"
  /\ run[b].next > Len(batch[b].requests)
  /\ pending' = pending \ Finished(b)
  /\ inFlight' = inFlight - 1
  /\ run' = [run EXCEPT ![b] = NoRun]
  /\ batch' = [batch EXCEPT ![b] = EmptyBatch]
  /\ UNCHANGED <<crit, submitted, active, queue, timer, req, flush, sent,
                 confirmed>>

\* The last critical section of runBatch, up to its call of scheduleLocked.
\* The batch itself is garbage from here on.
Settle(b) ==
  /\ crit.pc = "free"
  /\ run[b].phase = "finishing"
  /\ run[b].next > Len(batch[b].requests)
  /\ pending' = pending \ Finished(b)
  /\ inFlight' = inFlight - 1
  /\ crit' = [crit EXCEPT !.pc = "schedule"]
  /\ run' = [run EXCEPT ![b] = NoRun]
  /\ batch' = [batch EXCEPT ![b] = EmptyBatch]
  /\ UNCHANGED <<submitted, active, queue, timer, req, flush, sent,
                 confirmed>>

-----------------------------------------------------------------------------
\* Nothing is left to do: every call was made and every goroutine has ended.
Quiescent ==
  /\ submitted = NumRequests
  /\ crit.pc = "free"
  /\ \A r \in Request : req[r].result.done
  /\ \A f \in Flushes : flush[f].phase = "done"
  /\ \A b \in Batch : timer[b] = "off" /\ run[b].phase = "none"
  /\ UNCHANGED vars

Submit ==
  \/ \E n \in RefusedSizes : SubmitRefused(n)
  \/ \E n \in CoalescedSizes : SubmitCoalesced(n)
  \/ \E n \in UnbatchedSizes : SubmitUnbatched(n)

\* The steps of the caller inside the critical section.
Locked == AppendRows \/ Dequeue \/ Merge \/ MergeEnds \/ Unlock

Expire(b) == StaleTimer(b) \/ FlushExpiredBatch(b)

RunBatch(b) == CopyReturns(b) \/ FinishPart(b) \/ Settle(b)

Next ==
  \/ Submit
  \/ Locked
  \/ \E b \in Batch : TimerExpires(b) \/ Expire(b) \/ RunBatch(b)
  \/ \E f \in Flushes : FlushAsync(f) \/ FlushResolves(f)
  \/ Quiescent

Spec == Init /\ [][Next]_vars

-----------------------------------------------------------------------------
(* Properties.                                                             *)

RowsOf(b) == {batch[b].rows[i] : i \in DOMAIN batch[b].rows}

\* The rows of an accepted call, all of them once it has been enqueued.
RowsOfRequest(r) == {r} \X (1 .. req[r].rowCount)

Accepted(r) == req[r].mode \in {"coalesced", "unbatched"}

\* Batches that hold execution capacity: picked by a scheduleLocked that has
\* not unlocked yet, or owned by a runBatch goroutine.
InFlight(b) == b \in crit.picked \/ run[b].phase # "none"

CritType == [pc : {"free", "append", "schedule", "merge"},
             cursor : Row \cup {NoBatch}, into : Batch \cup {NoBatch},
             picked : SUBSET Batch, flush : Flushes \cup {NoFlush}]
BatchType == [rows : Seq(Row), requests : Seq(Request), reason : Reason]
RunType == [phase : {"none", "copying", "finishing"},
            err : SUBSET ErrorKind, next : Nat \ {0},
            completed : SUBSET Request]
FutureType == [done : BOOLEAN, value : 0 .. MaxRows, err : SUBSET ErrorKind]
RequestType == [mode : Mode, rowCount : 0 .. MaxRows, parts : Int,
                errs : SUBSET ErrorKind, result : FutureType]
FlushType == [phase : {"idle", "locked", "waiting", "done"},
              awaited : SUBSET Request, failed : SUBSET Request]

\* Every variable has the type of the field it models.
TypeOK ==
  /\ crit \in CritType
  /\ submitted \in 0 .. NumRequests
  /\ active \in Batch \cup {NoBatch}
  /\ queue \in Seq(Batch)
  /\ inFlight \in Int
  /\ pending \in SUBSET Request
  /\ batch \in [Batch -> BatchType]
  /\ timer \in [Batch -> {"off", "armed", "fired"}]
  /\ run \in [Batch -> RunType]
  /\ req \in [Request -> RequestType]
  /\ flush \in [Flushes -> FlushType]
  /\ sent \in [Row -> Nat]
  /\ confirmed \in SUBSET Row

\* scheduleLocked and runBatch together never let more physical COPYs run
\* than MaxConcurrentBatches, and inFlight counts exactly the running ones.
ConcurrencyLimit ==
  /\ inFlight = Cardinality({b \in Batch : InFlight(b)})
  /\ inFlight <= MaxConcurrentBatches

\* No handler leaves the mutex with capacity to spare and a batch waiting:
\* otherwise nothing would be left to start it.
WorkConserving ==
  crit.pc = "free" /\ queue # <<>> => inFlight = MaxConcurrentBatches

\* A batch that coalesces submissions, merged backlog included, never holds
\* more rows than MaxRowsPerBatch.
CoalescedWithinLimit ==
  \A b \in Batch :
    MaxRowsPerBatch > 0 /\ batch[b].reason # "unbatched"
      => Len(batch[b].rows) <= MaxRowsPerBatch

\* pending holds every accepted call whose Future is unresolved (so a flush
\* awaits it), and a resolved one only while the runBatch that resolved it
\* is about to delete it (so the map does not grow).
PendingExact ==
  \A r \in Request :
    /\ Accepted(r) /\ ~ req[r].result.done => r \in pending
    /\ r \in pending /\ req[r].result.done
         => \E b \in Batch : r \in run[b].completed

Started == {row \in Row : sent[row] > 0}
             \cup UNION {RowsOf(b) : b \in {c \in Batch : InFlight(c)}}

\* Rows of coalesced calls are handed to COPY in the order in which the
\* calls were accepted, and in row order within a call.
StartOrder ==
  \A x, y \in Row :
    /\ x \in Started
    /\ y[1] < x[1] \/ (y[1] = x[1] /\ y[2] < x[2])
    /\ req[x[1]].mode = "coalesced"
    /\ req[y[1]].mode = "coalesced" /\ y[2] <= req[y[1]].rowCount
    => y \in Started

\* The rows of SubmitUnbatched travel in one COPY with no other rows.
UnbatchedAlone ==
  \A r \in Request, b \in Batch :
    req[r].mode = "unbatched" /\ RowsOf(b) \cap ({r} \X (1 .. MaxRows)) # {}
      => RowsOf(b) = RowsOfRequest(r)

\* The queue, its merging by dequeueLocked and SubmitUnbatched overtaking the open
\* batch disturb neither the order of coalesced rows nor the COPY of an unbatched
\* call.
QueueDiscipline == StartOrder /\ UnbatchedAlone

\* The doc comment of CopyBatchConfig.MaxRowsPerBatch, read for every
\* physical COPY.
PhysicalCopyWithinLimit ==
  \A b \in Batch :
    MaxRowsPerBatch > 0 /\ InFlight(b)
      => Len(batch[b].rows) <= MaxRowsPerBatch
=============================================================================
