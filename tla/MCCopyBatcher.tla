---------------------------- MODULE MCCopyBatcher ----------------------------
(***************************************************************************)
(* The liveness of CopyBatcher.                                            *)
(***************************************************************************)
EXTENDS CopyBatcherPromise

\* The Go runtime runs every runnable goroutine, a mutex holder releases the
\* mutex, sync.Mutex does not starve a waiter, and every COPY returns.
RuntimeFairness ==
  /\ WF_vars(Locked)
  /\ \A b \in Batch : WF_vars(RunBatch(b)) /\ WF_vars(Expire(b))
  /\ \A f \in Flushes : WF_vars(FlushResolves(f))

\* Timers may be arbitrarily late.
FairSpec == Spec /\ RuntimeFairness

\* Every linger timer expires.
TimedSpec == FairSpec /\ \A b \in Batch : WF_vars(TimerExpires(b))

\* A flush completes without the help of any linger timer: it closes the open
\* batch itself and nothing it awaits is left behind an unscheduled batch.
FlushCompletes ==
  \A f \in Flushes : flush[f].phase = "locked" ~> flush[f].phase = "done"

\* The Future of every accepted call resolves.
EveryCallResolves ==
  \A r \in Request : Accepted(r) ~> req[r].result.done
=============================================================================
