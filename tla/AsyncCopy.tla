------------------------------ MODULE AsyncCopy ------------------------------
(***************************************************************************)
(* What the asynchronous COPY of one database target promises its callers, *)
(* with no batches, timers, queue or mutex: the abstract specification     *)
(* that CopyBatcher implements.                                            *)
(*                                                                         *)
(* A call is refused, or it is accepted and its Future resolves once, after*)
(* every row has been carried by a physical COPY, and reports success      *)
(* exactly when all of them succeeded.  A flush waits for at least the     *)
(* calls outstanding when it is made and for no call made later, and       *)
(* reports exactly the failures among the calls it waits for.              *)
(***************************************************************************)
EXTENDS Integers, Sequences

CONSTANTS NumRequests, MaxRows, Flushes

Request == 1 .. NumRequests
Row == Request \X (1 .. MaxRows)

VARIABLES
  calls,    \* number of calls so far
  size,     \* rows of each call
  state,    \* where the Future of each call is
  outcome,  \* what became of each row
  barrier   \* the flushes

vars == <<calls, size, state, outcome, barrier>>

Init ==
  /\ calls = 0
  /\ size = [r \in Request |-> 0]
  /\ state = [r \in Request |-> "new"]
  /\ outcome = [row \in Row |-> "waiting"]
  /\ barrier = [f \in Flushes |->
                  [phase |-> "idle", awaited |-> {}, failed |-> {}]]

RowsOf(r) == {r} \X (1 .. size[r])

Unresolved == {r \in Request : state[r] = "accepted"}
Made == {r \in Request : state[r] \in {"accepted", "stored", "failed"}}

Call(n, answer) ==
  /\ calls < NumRequests
  /\ calls' = calls + 1
  /\ size' = [size EXCEPT ![calls + 1] = n]
  /\ state' = [state EXCEPT ![calls + 1] = answer]
  /\ UNCHANGED <<outcome, barrier>>

\* One physical COPY of rows that no COPY carried before, all of them rows of
\* calls whose Future is unresolved.
Copy(rows, result) ==
  /\ \A row \in rows : /\ state[row[1]] = "accepted"
                       /\ row[2] <= size[row[1]]
                       /\ outcome[row] = "waiting"
  /\ outcome' = [row \in Row |-> IF row \in rows THEN result ELSE outcome[row]]
  /\ UNCHANGED <<calls, size, state, barrier>>

ResolveCall(r) ==
  /\ state[r] = "accepted"
  /\ \A row \in RowsOf(r) : outcome[row] # "waiting"
  /\ state' = [state EXCEPT ![r] =
                 IF \A row \in RowsOf(r) : outcome[row] = "stored"
                 THEN "stored" ELSE "failed"]
  /\ UNCHANGED <<calls, size, outcome, barrier>>

FlushBegins(f, awaited) ==
  /\ barrier[f].phase = "idle"
  /\ Unresolved \subseteq awaited
  /\ awaited \subseteq Made
  /\ barrier' = [barrier EXCEPT ![f].phase = "waiting",
                                ![f].awaited = awaited]
  /\ UNCHANGED <<calls, size, state, outcome>>

FlushEnds(f) ==
  /\ barrier[f].phase = "waiting"
  /\ \A r \in barrier[f].awaited : state[r] \in {"stored", "failed"}
  /\ barrier' = [barrier EXCEPT
                   ![f].phase = "done",
                   ![f].failed = {r \in barrier[f].awaited :
                                    state[r] = "failed"}]
  /\ UNCHANGED <<calls, size, state, outcome>>

Next ==
  \/ \E n \in 0 .. MaxRows, answer \in {"accepted", "refused"} :
       Call(n, answer)
  \/ \E rows \in SUBSET Row, result \in {"stored", "lost"} :
       Copy(rows, result)
  \/ \E r \in Request : ResolveCall(r)
  \/ \E f \in Flushes, awaited \in SUBSET Request : FlushBegins(f, awaited)
  \/ \E f \in Flushes : FlushEnds(f)

Spec == Init /\ [][Next]_vars
=============================================================================
