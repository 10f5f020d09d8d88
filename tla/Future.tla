------------------------------- MODULE Future --------------------------------
(***************************************************************************)
(* A Future (future.go): one goroutine or several race to resolve it, any  *)
(* number of callers wait for it, each under a context of its own, and wait*)
(* again after a wait was cancelled.                                       *)
(*                                                                         *)
(* resolve runs its body under sync.Once: one resolver writes value, writes*)
(* err and closes done, in three steps; the others do nothing.  Await      *)
(* reads value and err only after it saw done closed.                      *)
(***************************************************************************)
EXTENDS Naturals

CONSTANTS
  Resolvers,   \* those that call resolve; resolver r calls it with (r, r)
  Waiters      \* those that call Await

ASSUME ResolverAssumption == "none" \notin Resolvers

Zero == "zero"

VARIABLES
  once,       \* which resolver sync.Once admitted, or "none"
  step,       \* how far its body is: "idle", "value", "err", "closed"
  value, err, \* the fields of the Future
  cancelled,  \* whether each waiter's context is cancelled
  wait,       \* where each waiter is in Await
  late,       \* ghost: whether its current Await began after done was closed
  got         \* what its last Await returned

futureVars == <<once, step, value, err, cancelled, wait, late, got>>
fields == <<once, step, value, err>>

done == step = "closed"

\* newFuture, or the Future ResolvedFuture returns.
newFuture ==
  /\ once = "none" /\ step = "idle" /\ value = Zero /\ err = Zero

resolvedFuture ==
  \E r \in Resolvers : once = r /\ step = "closed" /\ value = r /\ err = r

FutureInit ==
  /\ newFuture \/ resolvedFuture
  /\ cancelled = [w \in Waiters |-> FALSE]
  /\ wait = [w \in Waiters |-> "idle"]
  /\ late = [w \in Waiters |-> FALSE]
  /\ got = [w \in Waiters |-> <<Zero, Zero>>]

resolveDeviation(r) ==
  /\ \/ /\ once = "none" /\ once' = r
        /\ value' = r /\ step' = "value" /\ UNCHANGED err
     \/ /\ once = r /\ step = "value"
        /\ step' = "closed" /\ UNCHANGED <<once, value, err>>
     \/ /\ once = r /\ step = "closed"
        /\ err' = r /\ UNCHANGED <<once, value, step>>
  /\ UNCHANGED <<cancelled, wait, late, got>>

resolveUnclosed(r) ==
  /\ once = "none" /\ once' = r
  /\ value' = r /\ err' = r /\ step' = "err"
  /\ UNCHANGED <<cancelled, wait, late, got>>

\* The body of once.Do; RunFuture's goroutine calls resolve with what work
\* returned, at any later time.
resolve(r) ==
  /\ \/ /\ once = "none" /\ once' = r
        /\ value' = r /\ step' = "value" /\ UNCHANGED err
     \/ /\ once = r /\ step = "value"
        /\ err' = r /\ step' = "err" /\ UNCHANGED <<once, value>>
     \/ /\ once = r /\ step = "err"
        /\ step' = "closed" /\ UNCHANGED <<once, value, err>>
  /\ UNCHANGED <<cancelled, wait, late, got>>

-----------------------------------------------------------------------------
(* Await *)

\* A caller awaits, first or again, with a context that may already be done.
Await(w, dead) ==
  /\ wait[w] # "poll" /\ wait[w] # "select"
  /\ wait' = [wait EXCEPT ![w] = "poll"]
  /\ cancelled' = [cancelled EXCEPT ![w] = dead]
  /\ late' = [late EXCEPT ![w] = done]
  /\ UNCHANGED <<fields, got>>

Return(w, answer, result) ==
  /\ wait' = [wait EXCEPT ![w] = answer]
  /\ got' = [got EXCEPT ![w] = result]
  /\ UNCHANGED <<fields, cancelled, late>>

PollDeviation(w) ==
  /\ wait[w] = "poll"
  /\ wait' = [wait EXCEPT ![w] = "select"]
  /\ UNCHANGED <<fields, cancelled, late, got>>

\* The first select, with its default branch.
Poll(w) ==
  /\ wait[w] = "poll"
  /\ \/ done /\ Return(w, "result", <<value, err>>)
     \/ /\ ~done
        /\ wait' = [wait EXCEPT ![w] = "select"]
        /\ UNCHANGED <<fields, cancelled, late, got>>

\* The second select: with both channels ready, Go picks either.
SelectDone(w) ==
  /\ wait[w] = "select" /\ done
  /\ Return(w, "result", <<value, err>>)

SelectCancelled(w) ==
  /\ wait[w] = "select" /\ cancelled[w]
  /\ Return(w, "cancelled", <<Zero, "ctx.Err">>)

CancelWait(w) ==
  /\ ~cancelled[w]
  /\ cancelled' = [cancelled EXCEPT ![w] = TRUE]
  /\ UNCHANGED <<fields, wait, late, got>>

FutureNext ==
  \/ \E r \in Resolvers : resolve(r)
  \/ \E w \in Waiters :
       \/ \E dead \in BOOLEAN : Await(w, dead)
       \/ Poll(w) \/ SelectDone(w) \/ SelectCancelled(w) \/ CancelWait(w)

FutureSpec == FutureInit /\ [][FutureNext]_futureVars

\* A goroutine that can run does: a resolver inside once.Do, a waiter whose
\* select has a ready branch.  No caller has to await, and no context has to be
\* cancelled; a work function that returns is FairFutureSpec's one demand on callers.
FutureFairness ==
  /\ WF_futureVars(\E r \in Resolvers : resolve(r))
  /\ \A w \in Waiters : WF_futureVars(Poll(w)) /\ WF_futureVars(SelectDone(w) \/ SelectCancelled(w))

FairFutureSpec == FutureSpec /\ FutureFairness

-----------------------------------------------------------------------------
(* Properties *)

TypeOK ==
  /\ once \in Resolvers \cup {"none"}
  /\ step \in {"idle", "value", "err", "closed"}
  /\ value \in Resolvers \cup {Zero} /\ err \in Resolvers \cup {Zero}
  /\ cancelled \in [Waiters -> BOOLEAN] /\ late \in [Waiters -> BOOLEAN]
  /\ wait \in [Waiters -> {"idle", "poll", "select", "result", "cancelled"}]

\* Every Await that returns the result returns the value and the error of the
\* one resolve that took effect, whichever waits were cancelled before: all
\* waiters agree, and none sees half of it.
OneResult ==
  \A w \in Waiters : wait[w] = "result" => once # "none" /\ got[w] = <<once, once>>

\* "A later Await may still retrieve the completed operation after an earlier
\* wait was canceled": an Await begun after the Future completed returns the
\* result, even under a context that is already cancelled.
CompletedWins ==
  \A w \in Waiters : late[w] => wait[w] # "cancelled"

\* Every Await returns: the Future completes once a resolver runs, and nothing
\* a cancelled wait does keeps it, or another wait, from completing.
AwaitReturns ==
  \A w \in Waiters : wait[w] = "poll" ~> wait[w] \in {"result", "cancelled"}
=============================================================================
