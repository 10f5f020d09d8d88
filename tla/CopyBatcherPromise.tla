-------------------------- MODULE CopyBatcherPromise --------------------------
(***************************************************************************)
(* What a caller of CopyBatcher can see, as the state of AsyncCopy.        *)
(***************************************************************************)
EXTENDS CopyBatcherInv

\* The rows of each call.
CallSize == [r \in Request |-> req[r].rowCount]

\* A resolved Future is what the abstract call knows of its outcome.
StateOf(r) ==
  CASE req[r].mode = "none" -> "new"
    [] req[r].mode = "refused" -> "refused"
    [] OTHER -> IF ~ req[r].result.done THEN "accepted"
                ELSE IF req[r].result.err = {} THEN "stored" ELSE "failed"

\* The calls, as their callers see them.
CallState == [r \in Request |-> StateOf(r)]

\* A row's fate is read off the history of physical COPYs.
RowOutcome ==
  [row \in Row |-> IF row \in confirmed THEN "stored"
                   ELSE IF sent[row] > 0 THEN "lost"
                   ELSE "waiting"]

\* A flush that has not left its critical section has not begun.
BarrierOf(f) ==
  IF flush[f].phase = "locked" THEN [flush[f] EXCEPT !.phase = "idle"] ELSE flush[f]

\* The flushes, as their callers see them.
Barrier == [f \in Flushes |-> BarrierOf(f)]

\* The state of AsyncCopy that a state of CopyBatcher stands for.
Promise == INSTANCE AsyncCopy WITH
  calls <- submitted,
  size <- CallSize,
  state <- CallState,
  outcome <- RowOutcome,
  barrier <- Barrier

\* Whatever the batcher does is what AsyncCopy allows: results are honest,
\* rows are carried once, and a flush covers every outstanding call and
\* reports exactly the failures among the calls it awaited.
ImplementsAsyncCopy == Promise!Spec

-----------------------------------------------------------------------------
(* What the refinement needs beyond the accounting.                        *)

\* A resolved Future tells what became of the rows of its call: each was carried
\* by one COPY, and there is no error exactly when every one of those succeeded.
ResultsHonest ==
  \A r \in Request :
    Accepted(r) /\ req[r].result.done =>
      /\ \A j \in 1 .. req[r].rowCount : sent[<<r, j>>] = 1
      /\ req[r].result.err = {} <=> \A j \in 1 .. req[r].rowCount : <<r, j>> \in confirmed

\* Only the flush inside the critical section is locked, none has reported
\* before it resolves, and the calls it awaits were accepted.
FlushInv ==
  /\ crit.flush # NoFlush => flush[crit.flush].phase = "locked"
  /\ \A f \in Flushes :
       /\ flush[f].phase \in {"idle", "locked"} => flush[f].failed = {}
       /\ \A r \in flush[f].awaited : Accepted(r)
=============================================================================
