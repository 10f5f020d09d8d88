--------------------------- MODULE StoreAsyncCopy ---------------------------
(***************************************************************************)
(* The asynchronous COPY of a generated store with several replica sets:   *)
(* the methods <Query>Async and Flush<Query> that emission.go writes.      *)
(*                                                                         *)
(* A store has a CopyBatcher for each replica set.  A call submits its rows*)
(* to the batcher of every set they route to, a flush puts a barrier into  *)
(* every batcher, and both hold the mutex of the query's batch state while *)
(* they do.  A batcher is abstracted to what AsyncCopy promises of one: it *)
(* accepts a submission, and resolves its Future once.  Callers and        *)
(* flushers have contexts that may be canceled at any moment.              *)
(***************************************************************************)
EXTENDS Integers, FiniteSets

CONSTANTS
  Callers, Flushers,   \* goroutines of the application, one call each
  Sets,                \* number of replica sets, numbered in mesh order
  Batchers,            \* the sets that have a batcher
  Calls                \* what each caller may pass: [bad |-> an item is not routed,
                       \*   rows |-> [1 .. Sets -> rows that route to each set],
                       \*   sole |-> the set of a query that is not sharded, else 0]

VARIABLES
  pc,         \* where each caller and flusher is
  arg,        \* what each caller passed
  todo,       \* the sets that the loop a goroutine is in still has to visit
  mu,         \* the goroutine that holds state.mu, or NoOne
  canceled,   \* the goroutines whose context has been canceled
  sub,        \* sub[s][c]: the Future of c's submission to the batcher of s
  acc,        \* the count and the errors gathered while awaiting
  future,     \* the Future a caller was given: "open", or its result
  covers,     \* covers[f][s]: the submissions the barrier of f in s waits for
  seen,       \* ghost: the calls submitted to s when f put its barrier there
  promised    \* ghost: the calls that had been accepted when f was called

vars == <<pc, arg, todo, mu, canceled, sub, acc, future, covers, seen, promised>>

NoOne == "nobody"

ASSUME GoroutineAssumption ==
  Sets \in Nat /\ Callers \cap Flushers = {} /\ NoOne \notin Callers \cup Flushers

ASSUME CallsAssumption ==
  \A c \in Callers : Calls[c] \subseteq [bad : BOOLEAN, rows : [1 .. Sets -> Nat], sole : 0 .. Sets]

Open == [count |-> 0, err |-> {"open"}]

\* The sets a call has a group for: those of its rows, or the only one, which a query
\* that is not sharded has also without rows.
groups(c) == {s \in 1 .. Sets : arg[c].rows[s] > 0 \/ s = arg[c].sole}

\* Set s is the next of a loop over sets in mesh order.
Turn(p, s) == s \in todo[p] /\ \A t \in todo[p] : s <= t

Resolved(s, c) == sub[s][c] \in {"stored", "failed", "refused"}
Accepted(c) == pc[c] \in {"await", "finish", "returned"} /\ \E s \in 1 .. Sets : sub[s][c] # "none"

Init ==
  /\ pc = [p \in Callers \cup Flushers |-> "idle"]
  /\ arg = [c \in Callers |-> [bad |-> FALSE, rows |-> [s \in 1 .. Sets |-> 0], sole |-> 0]]
  /\ todo = [p \in Callers \cup Flushers |-> {}]
  /\ mu = NoOne
  /\ canceled = {}
  /\ sub = [s \in 1 .. Sets |-> [c \in Callers |-> "none"]]
  /\ acc = [p \in Callers \cup Flushers |-> [count |-> 0, err |-> {}]]
  /\ future = [c \in Callers |-> Open]
  /\ covers = [f \in Flushers |-> [s \in 1 .. Sets |-> {}]]
  /\ seen = covers
  /\ promised = [f \in Flushers |-> {}]

-----------------------------------------------------------------------------
(* <Query>Async *)

\* Hand p the result r: the Future that ends the span and copies r is started.
resolveWith(p, r) ==
  /\ pc' = [pc EXCEPT ![p] = "finish"]
  /\ acc' = [acc EXCEPT ![p] = r]

\* Every row is routed before anything is submitted.
CopyAsync(c, a) ==
  /\ pc[c] = "idle"
  /\ arg' = [arg EXCEPT ![c] = a]
  /\ IF a.bad THEN resolveWith(c, [count |-> 0, err |-> {"route"}])
     ELSE IF \A s \in 1 .. Sets : a.rows[s] = 0 /\ s # a.sole THEN resolveWith(c, [count |-> 0, err |-> {}])
     ELSE pc' = [pc EXCEPT ![c] = "lock"] /\ UNCHANGED acc
  /\ UNCHANGED <<todo, mu, canceled, sub, future, covers, seen, promised>>

muFreeDeviation == TRUE

muFree == mu = NoOne

\* Take state.mu; the context is looked at, and the batchers are looked up, once.
Accept(c) ==
  /\ pc[c] = "lock" /\ muFree
  /\ IF c \in canceled
     THEN resolveWith(c, [count |-> 0, err |-> {"canceled"}]) /\ UNCHANGED <<mu, todo>>
     ELSE IF ~(groups(c) \subseteq Batchers)
     THEN resolveWith(c, [count |-> 0, err |-> {"no batcher"}]) /\ UNCHANGED <<mu, todo>>
     ELSE /\ mu' = c /\ pc' = [pc EXCEPT ![c] = "submit"]
          /\ todo' = [todo EXCEPT ![c] = groups(c)] /\ UNCHANGED acc
  /\ UNCHANGED <<arg, canceled, sub, future, covers, seen, promised>>

submittedDeviation(c, s) ==
  IF arg[c].rows[s] = 0 THEN "stored" ELSE IF c \in canceled THEN "refused" ELSE "accepted"

\* What Submit answers: no rows are stored at once; otherwise its context is
\* acceptedContext, which is never canceled.
submitted(c, s) == IF arg[c].rows[s] = 0 THEN "stored" ELSE "accepted"

unlockDeviation(last) == mu

\* What state.mu becomes after a turn of a loop that runs under it.
unlock(last) == IF last THEN NoOne ELSE mu

\* Submit or SubmitUnbatched to the batcher of the next group; unlock after the last.
Submit(c, s) ==
  LET last == todo[c] = {s}
  IN  /\ pc[c] = "submit" /\ Turn(c, s)
      /\ sub' = [sub EXCEPT ![s][c] = submitted(c, s)]
      /\ todo' = [todo EXCEPT ![c] = IF last THEN groups(c) ELSE @ \ {s}]
      /\ pc' = [pc EXCEPT ![c] = IF last THEN "await" ELSE @]
      /\ mu' = unlock(last)
      /\ UNCHANGED <<arg, canceled, acc, future, covers, seen, promised>>

awaitedAll(c, s) == todo[c] = {s}

\* The goroutine of the combined Future awaits the next group, with a context that
\* is never canceled; after the last one it returns the total, or 0 and the errors.
AwaitGroup(c, s) ==
  LET r == IF sub[s][c] # "stored" THEN [acc[c] EXCEPT !.err = @ \cup {"copy"}]
           ELSE [acc[c] EXCEPT !.count = @ + arg[c].rows[s]]
  IN  /\ pc[c] = "await" /\ Turn(c, s) /\ Resolved(s, c)
      /\ todo' = [todo EXCEPT ![c] = @ \ {s}]
      /\ IF awaitedAll(c, s)
         THEN resolveWith(c, IF r.err = {} THEN r ELSE [r EXCEPT !.count = 0])
         ELSE acc' = [acc EXCEPT ![c] = r] /\ UNCHANGED pc
      /\ UNCHANGED <<arg, mu, canceled, sub, future, covers, seen, promised>>

\* finish: the outer Future copies the result of the inner one.
Finish(c) ==
  /\ pc[c] = "finish"
  /\ pc' = [pc EXCEPT ![c] = "returned"]
  /\ future' = [future EXCEPT ![c] = acc[c]]
  /\ UNCHANGED <<arg, todo, mu, canceled, sub, acc, covers, seen, promised>>

-----------------------------------------------------------------------------
(* Flush<Query> *)

FlushLock(f) ==
  /\ pc[f] = "idle" /\ muFree
  /\ mu' = f
  /\ pc' = [pc EXCEPT ![f] = "barrier"]
  /\ todo' = [todo EXCEPT ![f] = 1 .. Sets]
  /\ promised' = [promised EXCEPT ![f] = {c \in Callers : Accepted(c)}]
  /\ UNCHANGED <<arg, canceled, sub, acc, future, covers, seen>>

\* The requests pending in the batcher of s.
covered(s) == {c \in Callers : sub[s][c] = "accepted"}

\* FlushAsync on the batcher of the next set; unlock after the last.
FlushAsync(f, s) ==
  LET last == todo[f] = {s}
  IN  /\ pc[f] = "barrier" /\ Turn(f, s)
      /\ covers' = [covers EXCEPT ![f][s] = IF s \in Batchers THEN covered(s) ELSE {}]
      /\ seen' = [seen EXCEPT ![f][s] = {c \in Callers : sub[s][c] # "none"}]
      /\ todo' = [todo EXCEPT ![f] = IF last THEN 1 .. Sets ELSE @ \ {s}]
      /\ pc' = [pc EXCEPT ![f] = IF last THEN "await" ELSE @]
      /\ mu' = unlock(last)
      /\ UNCHANGED <<arg, canceled, sub, acc, future, promised>>

stopDeviation(f, errs) == errs # {}

\* Whether the waiting loop breaks off after this answer.
stop(f, errs) == errs # {} /\ f \in canceled

\* Await the barrier of the next set with the flush's context.  A resolved barrier
\* wins over a canceled context (Future).
AwaitFlush(f, s) ==
  LET resolved == \A c \in covers[f][s] : Resolved(s, c)
      errs     == IF ~resolved THEN {"canceled"}
                  ELSE IF \E c \in covers[f][s] : sub[s][c] # "stored" THEN {"copy"} ELSE {}
  IN  /\ pc[f] = "await" /\ Turn(f, s) /\ (resolved \/ f \in canceled)
      /\ acc' = [acc EXCEPT ![f].err = @ \cup errs]
      /\ todo' = [todo EXCEPT ![f] = @ \ {s}]
      /\ pc' = [pc EXCEPT ![f] = IF todo[f] = {s} \/ stop(f, errs) THEN "returned" ELSE @]
      /\ UNCHANGED <<arg, mu, canceled, sub, future, covers, seen, promised>>

-----------------------------------------------------------------------------
(* The environment *)

\* A batcher resolves a submission (AsyncCopy).
Resolve(s, c, outcome) ==
  /\ sub[s][c] = "accepted"
  /\ sub' = [sub EXCEPT ![s][c] = outcome]
  /\ UNCHANGED <<pc, arg, todo, mu, canceled, acc, future, covers, seen, promised>>

Cancel(p) ==
  /\ p \notin canceled /\ pc[p] # "returned"
  /\ canceled' = canceled \cup {p}
  /\ UNCHANGED <<pc, arg, todo, mu, sub, acc, future, covers, seen, promised>>

Next ==
  \/ \E c \in Callers :
       \/ \E a \in Calls[c] : CopyAsync(c, a)
       \/ Accept(c) \/ Finish(c)
       \/ \E s \in 1 .. Sets :
            \/ Submit(c, s) \/ AwaitGroup(c, s)
            \/ \E outcome \in {"stored", "failed"} : Resolve(s, c, outcome)
  \/ \E f \in Flushers :
       FlushLock(f) \/ \E s \in 1 .. Sets : FlushAsync(f, s) \/ AwaitFlush(f, s)
  \/ \E p \in Callers \cup Flushers : Cancel(p)

Spec == Init /\ [][Next]_vars

\* Goroutines run, a mutex that keeps becoming free is obtained, and a batcher
\* resolves what it accepted (EveryCallResolves of CopyBatcher).
Fairness ==
  /\ \A c \in Callers :
       /\ SF_vars(Accept(c)) /\ WF_vars(Finish(c))
       /\ WF_vars(\E s \in 1 .. Sets : Submit(c, s) \/ AwaitGroup(c, s))
       /\ \A s \in 1 .. Sets : WF_vars(\E outcome \in {"stored", "failed"} : Resolve(s, c, outcome))
  /\ \A f \in Flushers : WF_vars(\E s \in 1 .. Sets : FlushAsync(f, s) \/ AwaitFlush(f, s))

FairSpec == Spec /\ Fairness

-----------------------------------------------------------------------------
(* Properties *)

\* A call is accepted by the batchers of all of its sets or by none, however its
\* context is canceled: <Query>Async checks the context once, under state.mu, and
\* submits with a context that cannot be canceled.
AcceptedWhole ==
  \A c \in Callers : pc[c] # "submit" =>
    LET taken == {s \in 1 .. Sets : sub[s][c] \notin {"none", "refused"}}
    IN  taken \in {{}, groups(c)} /\ (taken # {} => pc[c] \in {"await", "finish", "returned"})

\* The rows of a call that route to a set of V, a row of set s being <<s, i>>.
rowsIn(c, V) == UNION {{s} \X (1 .. arg[c].rows[s]) : s \in V}

\* Every row of a call was routed, and every set it has rows for stored them.
StoredWhole(c) == ~ arg[c].bad /\ \A s \in groups(c) : sub[s][c] = "stored"

\* The Future of a call resolves only after every set it was submitted to has, with
\* the number of all rows if all were stored and otherwise with an error and 0.
CombinedResult ==
  \A c \in Callers : future[c] # Open =>
    /\ \A s \in 1 .. Sets : sub[s][c] # "accepted"
    /\ IF future[c].err = {}
       THEN StoredWhole(c) /\ future[c].count = Cardinality(rowsIn(c, groups(c)))
       ELSE ~ StoredWhole(c) /\ future[c].count = 0

\* A flush finds all submissions of a call or none of them: it puts its barriers,
\* and a call makes its submissions, under state.mu.
BarrierNeverSplits ==
  \A f \in Flushers, c \in Callers : pc[f] \in {"await", "returned"} =>
    {s \in 1 .. Sets : c \in seen[f][s]} \in {{}, groups(c)}

\* When a flush returns without an error, or with its context not canceled, all
\* calls accepted before it began are resolved on every set; without an error, none
\* of the submissions it waited for failed.
FlushDrains ==
  \A f \in Flushers : pc[f] = "returned" =>
    /\ acc[f].err = {} \/ f \notin canceled =>
         \A c \in promised[f] : \A s \in groups(c) : Resolved(s, c)
    /\ acc[f].err = {} => \A s \in 1 .. Sets : \A c \in covers[f][s] : sub[s][c] = "stored"

\* What a call and a flush report is what became of the submissions they wait for:
\* neither returns early because one of several sets failed.
ReportsHonest == CombinedResult /\ FlushDrains

\* The Future of every call resolves, also when its context is canceled, and every
\* flush returns: no path of <Query>Async and Flush<Query> keeps state.mu.
EveryoneReturns ==
  /\ \A c \in Callers : pc[c] = "lock" ~> future[c] # Open
  /\ \A f \in Flushers : pc[f] = "barrier" ~> pc[f] = "returned"
=============================================================================
