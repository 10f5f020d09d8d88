------------------------ MODULE StoreAsyncCopyProofs ------------------------
(***************************************************************************)
(* Proofs about StoreAsyncCopy, for any number of callers, flushers and    *)
(* replica sets: a call is accepted as a whole, no flush splits one, and   *)
(* calls and flushes report what happened.                                 *)
(*                                                                         *)
(* The argument is the mutex.  While a caller submits it is the only one in*)
(* a critical section, and what it has submitted is its groups without the *)
(* ones its loop still has to visit; outside of the loop it is everything  *)
(* or nothing.  While a flush puts its barriers no caller submits, so every*)
(* barrier so far has seen what is submitted now.                          *)
(***************************************************************************)
EXTENDS StoreAsyncCopy, Future, TLAPS, FiniteSetTheorems

\* The goroutines of the model.
Procs == Callers \cup Flushers

\* The sets a call has been submitted to.
Sent(c) == {s \in 1 .. Sets : sub[s][c] # "none"}

\* The types of the fields the mutex argument is about.
Types ==
  /\ pc \in [Procs -> {"idle", "lock", "submit", "barrier", "await", "finish", "returned"}]
  /\ arg \in [Callers -> [bad : BOOLEAN, rows : [1 .. Sets -> Nat], sole : 0 .. Sets]]
  /\ todo \in [Procs -> SUBSET (1 .. Sets)]
  /\ sub \in [1 .. Sets -> [Callers -> {"none", "accepted", "stored", "failed"}]]
  /\ seen \in [Flushers -> [1 .. Sets -> SUBSET Callers]]

\* Whoever submits or puts barriers holds state.mu, and nobody else does.
Mutex == \A p \in Procs : (pc[p] \in {"submit", "barrier"}) <=> (mu = p)

\* What a call has submitted, by where its goroutine is.
CallerInv(c) ==
  /\ pc[c] # "barrier"
  /\ pc[c] \in {"idle", "lock"} => Sent(c) = {}
  /\ pc[c] = "submit" => todo[c] \subseteq groups(c) /\ Sent(c) = groups(c) \ todo[c]
  /\ pc[c] \in {"await", "finish", "returned"} => Sent(c) \in {{}, groups(c)}

\* What the barriers of a flush have seen, by where its goroutine is.
FlushInv(f) ==
  /\ pc[f] \in {"idle", "barrier", "await", "returned"}
  /\ \A s \in 1 .. Sets, c \in Callers : c \in seen[f][s] => s \in Sent(c)
  /\ pc[f] = "barrier" =>
       \A s \in (1 .. Sets) \ todo[f], c \in Callers : s \in Sent(c) => c \in seen[f][s]
  /\ pc[f] \in {"await", "returned"} =>
       \A c \in Callers : {s \in 1 .. Sets : c \in seen[f][s]} \in {{}, groups(c)}

\* The inductive invariant of AcceptedWhole and BarrierNeverSplits.
IInv ==
  /\ Types /\ Mutex
  /\ \A c \in Callers : CallerInv(c)
  /\ \A f \in Flushers : FlushInv(f)

-----------------------------------------------------------------------------
\* In the initial state nothing is submitted and nobody holds the mutex.
LEMMA InitInv == Init => IInv
<1> SUFFICES ASSUME Init PROVE IInv
  BY Zenon
<1> USE GoroutineAssumption DEF Init
<1>0. 0 \in 0 .. Sets /\ 0 \in Nat
  BY GoroutineAssumption
<1>1. Types
  BY Zenon, <1>0 DEF Types, Procs
<1>2. Mutex
  BY Zenon DEF Mutex, Procs
<1>3. \A c \in Callers : CallerInv(c)
  BY Zenon DEF CallerInv, Sent
<1>4. \A f \in Flushers : FlushInv(f)
  BY Zenon DEF FlushInv
<1> QED
  BY Zenon, <1>1, <1>2, <1>3, <1>4 DEF IInv

\* Steps that leave submissions, arguments and barriers alone: if the goroutine p that
\* moves keeps its part of the invariant, all others keep theirs.
LEMMA OthersKeep ==
  ASSUME IInv, NEW p \in Procs, UNCHANGED <<arg, sub, seen>>,
         \A q \in Procs \ {p} : pc'[q] = pc[q] /\ todo'[q] = todo[q]
  PROVE  /\ \A c \in Callers \ {p} : CallerInv(c)'
         /\ \A f \in Flushers \ {p} : FlushInv(f)'
<1>1. \A c \in Callers : Sent(c)' = Sent(c) /\ groups(c)' = groups(c)
  BY Zenon DEF Sent, groups
<1>2. ASSUME NEW c \in Callers \ {p} PROVE CallerInv(c)'
  <2>1. pc'[c] = pc[c] /\ todo'[c] = todo[c]
    BY Zenon DEF Procs
  <2> QED
    BY Zenon, <1>1, <2>1 DEF IInv, CallerInv
<1>3. ASSUME NEW f \in Flushers \ {p} PROVE FlushInv(f)'
  <2>1. pc'[f] = pc[f] /\ todo'[f] = todo[f]
    BY Zenon DEF Procs
  <2> QED
    BY <1>1, <2>1 DEF IInv, FlushInv
<1> QED
  BY Zenon, <1>2, <1>3

\* Routing a call keeps the invariant: nothing of it is submitted yet.
LEMMA CopyAsyncInv ==
  ASSUME IInv, NEW c \in Callers, NEW a \in Calls[c], CopyAsync(c, a)
  PROVE  IInv'
<1> USE GoroutineAssumption
<1>0. /\ pc[c] = "idle" /\ pc' = [pc EXCEPT ![c] = pc'[c]] /\ pc'[c] \in {"lock", "finish"}
      /\ arg' = [arg EXCEPT ![c] = a]
      /\ UNCHANGED <<todo, mu, sub, seen>>
  BY Zenon, CallsAssumption DEF CopyAsync, resolveWith, IInv, Types, Procs
<1>1. Types'
  BY Zenon, <1>0, CallsAssumption DEF IInv, Types, Procs
<1>2. Mutex'
  BY Zenon, <1>0 DEF IInv, Mutex, Types, Procs
<1>3. Sent(c) = {} /\ \A d \in Callers : Sent(d)' = Sent(d)
  BY Zenon, <1>0 DEF IInv, CallerInv, Sent
<1>4. \A d \in Callers \ {c} : groups(d)' = groups(d)
  BY Zenon, <1>0 DEF IInv, Types, groups
<1>5. ASSUME NEW d \in Callers PROVE CallerInv(d)'
  <2>1. CASE d = c
    <3>1. pc'[c] \in {"lock", "finish"} /\ Sent(c)' = {}
      BY Zenon, <1>0, <1>3
    <3> QED
      BY Zenon, <2>1, <3>1 DEF CallerInv
  <2>2. CASE d # c
    <3>1. pc'[d] = pc[d] /\ todo'[d] = todo[d] /\ Sent(d)' = Sent(d) /\ groups(d)' = groups(d)
      BY Zenon, <1>0, <1>3, <1>4, <2>2 DEF IInv, Types, Procs
    <3> QED
      BY <3>1 DEF IInv, CallerInv
  <2> QED
    BY Zenon, <2>1, <2>2
<1>6. ASSUME NEW f \in Flushers PROVE FlushInv(f)'
  <2>1. pc'[f] = pc[f]
    BY Zenon, <1>0 DEF IInv, Types, Procs
  <2>2. {s \in 1 .. Sets : c \in seen[f][s]} = {}
    BY Zenon, <1>3 DEF IInv, FlushInv
  <2>3. pc[f] \in {"await", "returned"} =>
          \A d \in Callers : {s \in 1 .. Sets : d \in seen'[f][s]} \in {{}, groups(d)'}
    BY <1>0, <1>4, <2>2 DEF IInv, FlushInv
  <2> QED
    BY <1>0, <1>3, <2>1, <2>3 DEF IInv, FlushInv
<1> QED
  BY Zenon, <1>1, <1>2, <1>5, <1>6 DEF IInv

\* Taking the mutex for a call, or refusing it, keeps the invariant.
LEMMA AcceptInv ==
  ASSUME IInv, NEW c \in Callers, Accept(c)
  PROVE  IInv'
<1> USE GoroutineAssumption
<1>0. /\ pc[c] = "lock" /\ mu = NoOne /\ UNCHANGED <<arg, sub, seen>>
      /\ \/ pc' = [pc EXCEPT ![c] = "finish"] /\ UNCHANGED <<mu, todo>>
         \/ pc' = [pc EXCEPT ![c] = "submit"] /\ mu' = c /\ todo' = [todo EXCEPT ![c] = groups(c)]
  BY Zenon DEF Accept, resolveWith, muFree
<1>a. groups(c) \in SUBSET (1 .. Sets) /\ groups(c)' = groups(c) /\ Sent(c)' = Sent(c)
  BY Zenon, <1>0 DEF groups, Sent
<1>1. Types'
  <2>1. pc' \in [Procs -> {"idle", "lock", "submit", "barrier", "await", "finish", "returned"}]
    BY Zenon, <1>0 DEF IInv, Types
  <2>2. todo' \in [Procs -> SUBSET (1 .. Sets)]
    <3>1. CASE todo' = todo
      BY Zenon, <3>1 DEF IInv, Types
    <3>2. CASE todo' = [todo EXCEPT ![c] = groups(c)]
      BY Zenon, <3>2, <1>a DEF IInv, Types
    <3> QED
      BY Zenon, <1>0, <3>1, <3>2
  <2> QED
    BY Zenon, <1>0, <2>1, <2>2 DEF IInv, Types
<1>2. Mutex'
  BY <1>0 DEF IInv, Mutex, Types, Procs
<1>3. CallerInv(c)'
  <2>1. CASE pc' = [pc EXCEPT ![c] = "finish"]
    <3>1. pc'[c] = "finish" /\ Sent(c) = {}
      BY Zenon, <1>0, <2>1 DEF IInv, CallerInv, Types, Procs
    <3> QED
      BY Zenon, <1>a, <3>1 DEF CallerInv
  <2>2. CASE pc' = [pc EXCEPT ![c] = "submit"] /\ todo' = [todo EXCEPT ![c] = groups(c)]
    <3>1. pc'[c] = "submit" /\ todo'[c] = groups(c) /\ Sent(c) = {}
      BY Zenon, <1>0, <2>2 DEF IInv, CallerInv, Types, Procs
    <3> QED
      BY Zenon, <1>a, <3>1 DEF CallerInv
  <2> QED
    BY Zenon, <1>0, <2>1, <2>2
<1>4. c \in Procs /\ \A q \in Procs \ {c} : pc'[q] = pc[q] /\ todo'[q] = todo[q]
  BY Zenon, <1>0 DEF IInv, Types, Procs
<1>5. (\A d \in Callers \ {c} : CallerInv(d)') /\ (\A g \in Flushers \ {c} : FlushInv(g)')
  BY Zenon, <1>0, <1>4, OthersKeep
<1> QED
  BY Zenon, <1>1, <1>2, <1>3, <1>5 DEF IInv

\* A submission keeps the invariant: no flush is putting barriers meanwhile.
LEMMA SubmitInv ==
  ASSUME IInv, NEW c \in Callers, NEW s \in 1 .. Sets, Submit(c, s)
  PROVE  IInv'
<1> USE GoroutineAssumption
<1>0. /\ pc[c] = "submit" /\ s \in todo[c] /\ UNCHANGED <<arg, seen>>
      /\ sub' = [sub EXCEPT ![s][c] = submitted(c, s)]
      /\ \/ /\ todo[c] = {s} /\ mu' = NoOne
            /\ pc' = [pc EXCEPT ![c] = "await"] /\ todo' = [todo EXCEPT ![c] = groups(c)]
         \/ /\ todo[c] # {s} /\ mu' = mu
            /\ pc' = pc /\ todo' = [todo EXCEPT ![c] = @ \ {s}]
  BY Zenon DEF Submit, Turn, unlock, IInv, Types, Procs
<1>v. submitted(c, s) \in {"accepted", "stored"}
  BY Zenon DEF submitted
<1>a. groups(c) \in SUBSET (1 .. Sets)
  BY Zenon DEF groups
<1>1. Types'
  <2>1. pc' \in [Procs -> {"idle", "lock", "submit", "barrier", "await", "finish", "returned"}]
    BY Zenon, <1>0 DEF IInv, Types
  <2>2. todo' \in [Procs -> SUBSET (1 .. Sets)]
    <3>1. CASE todo' = [todo EXCEPT ![c] = @ \ {s}]
      BY Zenon, <3>1 DEF IInv, Types
    <3>2. CASE todo' = [todo EXCEPT ![c] = groups(c)]
      BY Zenon, <3>2, <1>a DEF IInv, Types
    <3> QED
      BY Zenon, <1>0, <3>1, <3>2
  <2>3. sub' \in [1 .. Sets -> [Callers -> {"none", "accepted", "stored", "failed"}]]
    BY Zenon, <1>0, <1>v DEF IInv, Types
  <2> QED
    BY Zenon, <1>0, <2>1, <2>2, <2>3 DEF IInv, Types
<1>2. Mutex'
  BY Zenon, <1>0 DEF IInv, Mutex, Types, Procs
<1>3. Sent(c)' = Sent(c) \cup {s} /\ \A d \in Callers \ {c} : Sent(d)' = Sent(d)
  BY <1>0, <1>v DEF IInv, Types, Sent
<1>4. \A d \in Callers : groups(d)' = groups(d)
  BY Zenon, <1>0 DEF groups
<1>5. CallerInv(c)'
  BY <1>0, <1>3, <1>4 DEF IInv, CallerInv, Types, Procs
<1>6. \A d \in Callers \ {c} : CallerInv(d)'
  BY <1>0, <1>3, <1>4 DEF IInv, CallerInv, Types, Procs
<1>7. ASSUME NEW f \in Flushers PROVE FlushInv(f)'
  <2>1. pc'[f] = pc[f] /\ pc[f] # "barrier"
    BY Zenon, <1>0 DEF IInv, Mutex, Types, Procs
  <2> QED
    BY <1>0, <1>3, <1>4, <2>1 DEF IInv, FlushInv
<1> QED
  BY Zenon, <1>1, <1>2, <1>5, <1>6, <1>7 DEF IInv

\* Awaiting the sets of a call keeps the invariant.
LEMMA AwaitGroupInv ==
  ASSUME IInv, NEW c \in Callers, NEW s \in 1 .. Sets, AwaitGroup(c, s)
  PROVE  IInv'
<1> USE GoroutineAssumption
<1>0. /\ pc[c] = "await" /\ UNCHANGED <<arg, mu, sub, seen>>
      /\ pc' = pc \/ pc' = [pc EXCEPT ![c] = "finish"]
      /\ todo' = [todo EXCEPT ![c] = @ \ {s}]
  BY Zenon DEF AwaitGroup, resolveWith
<1>1. Types'
  BY Zenon, <1>0 DEF IInv, Types, Procs
<1>2. Mutex'
  BY Zenon, <1>0 DEF IInv, Mutex, Types, Procs
<1>3. CallerInv(c)'
  <2>1. Sent(c)' = Sent(c) /\ groups(c)' = groups(c)
    BY Zenon, <1>0 DEF Sent, groups
  <2>2. pc'[c] \in {"await", "finish"}
    BY Zenon, <1>0 DEF IInv, Types, Procs
  <2> QED
    BY Zenon, <1>0, <2>1, <2>2 DEF IInv, CallerInv
<1>4. c \in Procs /\ \A q \in Procs \ {c} : pc'[q] = pc[q] /\ todo'[q] = todo[q]
  BY Zenon, <1>0 DEF IInv, Types, Procs
<1>5. (\A d \in Callers \ {c} : CallerInv(d)') /\ (\A g \in Flushers \ {c} : FlushInv(g)')
  BY Zenon, <1>0, <1>4, OthersKeep
<1> QED
  BY Zenon, <1>1, <1>2, <1>3, <1>5 DEF IInv

\* Resolving the outer Future keeps the invariant.
LEMMA FinishInv ==
  ASSUME IInv, NEW c \in Callers, Finish(c)
  PROVE  IInv'
<1> USE GoroutineAssumption DEF Finish
<1>1. Types'
  BY Zenon DEF IInv, Types, Procs
<1>2. Mutex'
  BY Zenon DEF IInv, Mutex, Types, Procs
<1>3. CallerInv(c)'
  <2>1. Sent(c)' = Sent(c) /\ groups(c)' = groups(c)
    BY Zenon DEF Sent, groups
  <2>2. pc'[c] = "returned"
    BY Zenon DEF IInv, Types, Procs
  <2> QED
    BY Zenon, <2>1, <2>2 DEF IInv, CallerInv
<1>4. c \in Procs /\ \A q \in Procs \ {c} : pc'[q] = pc[q] /\ todo'[q] = todo[q]
  BY Zenon DEF IInv, Types, Procs
<1>5. (\A d \in Callers \ {c} : CallerInv(d)') /\ (\A g \in Flushers \ {c} : FlushInv(g)')
  BY Zenon, <1>4, OthersKeep
<1> QED
  BY Zenon, <1>1, <1>2, <1>3, <1>5 DEF IInv

\* Taking the mutex for a flush keeps the invariant.
LEMMA FlushLockInv ==
  ASSUME IInv, NEW f \in Flushers, FlushLock(f)
  PROVE  IInv'
<1> USE GoroutineAssumption
<1>0. /\ pc[f] = "idle" /\ mu = NoOne /\ mu' = f /\ UNCHANGED <<arg, sub, seen>>
      /\ pc' = [pc EXCEPT ![f] = "barrier"] /\ todo' = [todo EXCEPT ![f] = 1 .. Sets]
  BY Zenon DEF FlushLock, muFree
<1>1. Types'
  <2>1. todo' \in [Procs -> SUBSET (1 .. Sets)]
    BY Zenon, <1>0 DEF IInv, Types
  <2> QED
    BY Zenon, <1>0, <2>1 DEF IInv, Types
<1>2. Mutex'
  BY Zenon, <1>0 DEF IInv, Mutex, Types, Procs
<1>3. FlushInv(f)'
  <2>1. pc'[f] = "barrier" /\ todo'[f] = 1 .. Sets
    BY Zenon, <1>0 DEF IInv, Types, Procs
  <2>2. \A c \in Callers : Sent(c)' = Sent(c)
    BY Zenon, <1>0 DEF Sent
  <2> QED
    BY <1>0, <2>1, <2>2 DEF IInv, FlushInv
<1>4. f \in Procs /\ \A q \in Procs \ {f} : pc'[q] = pc[q] /\ todo'[q] = todo[q]
  BY Zenon, <1>0 DEF IInv, Types, Procs
<1>5. (\A d \in Callers \ {f} : CallerInv(d)') /\ (\A g \in Flushers \ {f} : FlushInv(g)')
  BY Zenon, <1>0, <1>4, OthersKeep
<1> QED
  BY Zenon, <1>1, <1>2, <1>3, <1>5 DEF IInv

\* A barrier keeps the invariant: no call is submitting meanwhile.
LEMMA FlushAsyncInv ==
  ASSUME IInv, NEW f \in Flushers, NEW s \in 1 .. Sets, FlushAsync(f, s)
  PROVE  IInv'
<1> USE GoroutineAssumption
<1>0. /\ pc[f] = "barrier" /\ s \in todo[f] /\ UNCHANGED <<arg, sub>>
      /\ seen' = [seen EXCEPT ![f][s] = {c \in Callers : sub[s][c] # "none"}]
      /\ \/ /\ todo[f] = {s} /\ mu' = NoOne
            /\ pc' = [pc EXCEPT ![f] = "await"] /\ todo' = [todo EXCEPT ![f] = 1 .. Sets]
         \/ /\ todo[f] # {s} /\ mu' = mu
            /\ pc' = pc /\ todo' = [todo EXCEPT ![f] = @ \ {s}]
  BY Zenon DEF FlushAsync, Turn, unlock, IInv, Types, Procs
<1>1. Types'
  <2>1. pc' \in [Procs -> {"idle", "lock", "submit", "barrier", "await", "finish", "returned"}]
    BY Zenon, <1>0 DEF IInv, Types
  <2>2. todo' \in [Procs -> SUBSET (1 .. Sets)]
    <3>1. CASE todo' = [todo EXCEPT ![f] = @ \ {s}]
      BY Zenon, <3>1 DEF IInv, Types
    <3>2. CASE todo' = [todo EXCEPT ![f] = 1 .. Sets]
      BY Zenon, <3>2 DEF IInv, Types
    <3> QED
      BY Zenon, <1>0, <3>1, <3>2
  <2>3. seen' \in [Flushers -> [1 .. Sets -> SUBSET Callers]]
    BY Zenon, <1>0 DEF IInv, Types
  <2> QED
    BY Zenon, <1>0, <2>1, <2>2, <2>3 DEF IInv, Types
<1>2. Mutex'
  BY Zenon, <1>0 DEF IInv, Mutex, Types, Procs
<1>3. \A c \in Callers : Sent(c)' = Sent(c) /\ groups(c)' = groups(c)
  BY Zenon, <1>0 DEF Sent, groups
<1>4. ASSUME NEW c \in Callers PROVE CallerInv(c)'
  <2>1. pc'[c] = pc[c] /\ todo'[c] = todo[c]
    BY Zenon, <1>0 DEF IInv, Types, Procs
  <2> QED
    BY <1>3, <2>1 DEF IInv, CallerInv
<1>5. ASSUME NEW g \in Flushers \ {f} PROVE FlushInv(g)'
  <2>1. pc'[g] = pc[g] /\ todo'[g] = todo[g] /\ seen'[g] = seen[g]
    BY Zenon, <1>0 DEF IInv, Types, Procs
  <2> QED
    BY <1>3, <2>1 DEF IInv, FlushInv
<1>6. \A t \in 1 .. Sets, c \in Callers :
        c \in seen'[f][t] <=> IF t = s THEN t \in Sent(c) ELSE c \in seen[f][t]
  BY Zenon, <1>0 DEF IInv, Types, Sent
<1>7. \A t \in 1 .. Sets, c \in Callers : c \in seen'[f][t] => t \in Sent(c)'
  BY <1>3, <1>6 DEF IInv, FlushInv
<1>8. \A t \in ((1 .. Sets) \ todo[f]) \cup {s}, c \in Callers : t \in Sent(c)' => c \in seen'[f][t]
  BY <1>0, <1>3, <1>6 DEF IInv, FlushInv
<1>9. FlushInv(f)'
  <2>1. CASE todo[f] # {s}
    <3>1. pc'[f] = "barrier" /\ todo'[f] = todo[f] \ {s}
      BY Zenon, <1>0, <2>1 DEF IInv, Types, Procs
    <3> QED
      BY Zenon, <1>7, <1>8, <3>1 DEF FlushInv
  <2>2. CASE todo[f] = {s}
    <3>1. pc'[f] = "await"
      BY Zenon, <1>0, <2>2 DEF IInv, Types, Procs
    <3>2. ASSUME NEW c \in Callers
          PROVE  {t \in 1 .. Sets : c \in seen'[f][t]} \in {{}, groups(c)'}
      <4>1. {t \in 1 .. Sets : c \in seen'[f][t]} = Sent(c)
        <5>1. \A t \in 1 .. Sets : c \in seen'[f][t] <=> t \in Sent(c)
          BY Zenon, <1>3, <1>7, <1>8, <2>2
        <5>2. Sent(c) \subseteq 1 .. Sets
          BY Zenon DEF Sent
        <5> QED
          BY Zenon, <5>1, <5>2
      <4>2. pc[c] # "submit" /\ pc[c] # "barrier"
        BY <1>0 DEF IInv, Mutex, Procs
      <4>3. pc[c] \in {"idle", "lock", "await", "finish", "returned"}
        BY Zenon, <4>2 DEF IInv, Types, Procs
      <4>4. Sent(c) \in {{}, groups(c)}
        BY Zenon, <4>3 DEF IInv, CallerInv
      <4> QED
        BY Zenon, <1>3, <4>1, <4>4
    <3> QED
      BY Zenon, <1>7, <3>1, <3>2 DEF FlushInv
  <2> QED
    BY Zenon, <2>1, <2>2
<1> QED
  BY Zenon, <1>1, <1>2, <1>4, <1>5, <1>9 DEF IInv

\* Awaiting a barrier keeps the invariant.
LEMMA AwaitFlushInv ==
  ASSUME IInv, NEW f \in Flushers, NEW s \in 1 .. Sets, AwaitFlush(f, s)
  PROVE  IInv'
<1> USE GoroutineAssumption
<1>0. /\ pc[f] = "await" /\ UNCHANGED <<arg, mu, sub, seen>>
      /\ pc' = pc \/ pc' = [pc EXCEPT ![f] = "returned"]
      /\ todo' = [todo EXCEPT ![f] = @ \ {s}]
  BY Zenon DEF AwaitFlush, IInv, Types, Procs
<1>1. Types'
  BY Zenon, <1>0 DEF IInv, Types, Procs
<1>2. Mutex'
  BY Zenon, <1>0 DEF IInv, Mutex, Types, Procs
<1>3. FlushInv(f)'
  <2>1. pc'[f] \in {"await", "returned"}
    BY Zenon, <1>0 DEF IInv, Types, Procs
  <2>2. \A c \in Callers : Sent(c)' = Sent(c) /\ groups(c)' = groups(c)
    BY Zenon, <1>0 DEF Sent, groups
  <2> QED
    BY <1>0, <2>1, <2>2 DEF IInv, FlushInv
<1>4. f \in Procs /\ \A q \in Procs \ {f} : pc'[q] = pc[q] /\ todo'[q] = todo[q]
  BY Zenon, <1>0 DEF IInv, Types, Procs
<1>5. (\A d \in Callers \ {f} : CallerInv(d)') /\ (\A g \in Flushers \ {f} : FlushInv(g)')
  BY Zenon, <1>0, <1>4, OthersKeep
<1> QED
  BY Zenon, <1>1, <1>2, <1>3, <1>5 DEF IInv

\* A batcher that resolves a submission keeps the invariant.
LEMMA ResolveInv ==
  ASSUME IInv, NEW c \in Callers, NEW s \in 1 .. Sets,
         NEW outcome \in {"stored", "failed"}, Resolve(s, c, outcome)
  PROVE  IInv'
<1>0. /\ sub[s][c] = "accepted" /\ sub' = [sub EXCEPT ![s][c] = outcome]
      /\ UNCHANGED <<pc, arg, todo, mu, seen>>
  BY Zenon DEF Resolve
<1>1. Types'
  BY Zenon, <1>0 DEF IInv, Types
<1>2. Mutex'
  BY Zenon, <1>0 DEF IInv, Mutex
<1>3. \A d \in Callers : Sent(d)' = Sent(d) /\ groups(d)' = groups(d)
  BY Zenon, <1>0 DEF IInv, Types, Sent, groups
<1>4. \A d \in Callers : CallerInv(d)'
  BY <1>0, <1>3 DEF IInv, CallerInv
<1>5. \A f \in Flushers : FlushInv(f)'
  BY <1>0, <1>3 DEF IInv, FlushInv
<1> QED
  BY Zenon, <1>1, <1>2, <1>4, <1>5 DEF IInv

\* Steps that change nothing the invariant speaks of: canceling, stuttering.
LEMMA QuietInv ==
  ASSUME IInv, UNCHANGED <<pc, arg, todo, mu, sub, seen>>
  PROVE  IInv'
<1>1. Types' /\ Mutex'
  BY Zenon DEF IInv, Types, Mutex
<1>2. \A c \in Callers : Sent(c)' = Sent(c) /\ groups(c)' = groups(c)
  BY Zenon DEF Sent, groups
<1>3. \A c \in Callers : CallerInv(c)'
  BY Zenon, <1>2 DEF IInv, CallerInv
<1>4. \A f \in Flushers : FlushInv(f)'
  BY <1>2 DEF IInv, FlushInv
<1> QED
  BY Zenon, <1>1, <1>3, <1>4 DEF IInv

\* The mutex of a generated store's batch state protects what it should: in every
\* reachable state of StoreAsyncCopy, for any number of callers, flushers and sets.
THEOREM StoreInvariant == Spec => []IInv
<1>1. IInv /\ [Next]_vars => IInv'
  <2> SUFFICES ASSUME IInv, [Next]_vars PROVE IInv'
    BY Zenon
  <2>1. CASE Next
    BY Zenon, <2>1, CopyAsyncInv, AcceptInv, SubmitInv, AwaitGroupInv, FinishInv, FlushLockInv,
       FlushAsyncInv, AwaitFlushInv, ResolveInv, QuietInv DEF Next, Cancel
  <2>2. CASE UNCHANGED vars
    BY Zenon, <2>2, QuietInv DEF vars
  <2> QED
    BY Zenon, <2>1, <2>2
<1> QED
  BY <1>1, InitInv, PTL DEF Spec

\* <Query>Async is accepted by the batchers of all of its sets or by none.
THEOREM AcceptedWholeHolds == Spec => []AcceptedWhole
<1>1. IInv => AcceptedWhole
  <2> SUFFICES ASSUME IInv, NEW c \in Callers, pc[c] # "submit"
               PROVE  LET taken == {s \in 1 .. Sets : sub[s][c] \notin {"none", "refused"}}
                      IN  /\ taken \in {{}, groups(c)}
                          /\ taken # {} => pc[c] \in {"await", "finish", "returned"}
    BY Zenon DEF AcceptedWhole
  <2>1. {s \in 1 .. Sets : sub[s][c] \notin {"none", "refused"}} = Sent(c)
    BY Zenon DEF IInv, Types, Sent
  <2>2. pc[c] \in {"idle", "lock", "await", "finish", "returned"}
    BY Zenon DEF IInv, Types, CallerInv, Procs
  <2>3. Sent(c) \in {{}, groups(c)} /\ (Sent(c) # {} => pc[c] \in {"await", "finish", "returned"})
    BY Zenon, <2>2 DEF IInv, CallerInv
  <2> QED
    BY Zenon, <2>1, <2>3
<1> QED
  BY <1>1, StoreInvariant, PTL

\* Flush<Query> finds all submissions of a call or none of them.
THEOREM BarrierNeverSplitsHolds == Spec => []BarrierNeverSplits
<1>1. IInv => BarrierNeverSplits
  BY Zenon DEF IInv, FlushInv, BarrierNeverSplits
<1> QED
  BY <1>1, StoreInvariant, PTL

-----------------------------------------------------------------------------
(* What calls and flushes report.  A call that awaits its sets has counted  *)
(* the rows of those it has visited, and all of those are resolved; a flush *)
(* has, for every call promised to it, either seen the submission resolved  *)
(* or put it behind a barrier it still awaits, unless it was canceled and   *)
(* says so.                                                                 *)

\* The errors a call or a flush may report, and a result that says nothing yet.
Errs == {"open", "route", "canceled", "no batcher", "copy"}
Nothing == [count |-> 0, err |-> {}]

\* The types of what is counted and reported.
ReportTypes ==
  /\ acc \in [Procs -> [count : Int, err : SUBSET Errs]]
  /\ covers \in [Flushers -> [1 .. Sets -> SUBSET Callers]]
  /\ promised \in [Flushers -> SUBSET Callers]
  /\ future \in [Callers -> [count : Int, err : SUBSET Errs]]

\* The sets the waiting loop of a call has visited.
Visited(c) == groups(c) \ todo[c]

\* n is the number of rows that call c has for the sets of V.
Counts(n, c, V) == IsFiniteSet(rowsIn(c, V)) /\ n = Cardinality(rowsIn(c, V))

\* r is what the Future of c may say.
Reports(r, c) ==
  /\ \A s \in 1 .. Sets : sub[s][c] # "accepted"
  /\ IF r.err = {} THEN StoredWhole(c) /\ Counts(r.count, c, groups(c))
     ELSE ~ StoredWhole(c) /\ r.count = 0

\* What a call has counted so far, and what its Future says in the end.
ResultInv(c) ==
  /\ pc[c] # "returned" => future[c] = Open
  /\ pc[c] = "returned" => future[c] = acc[c]
  /\ pc[c] \in {"idle", "lock", "submit"} => acc[c] = Nothing
  /\ pc[c] \in {"lock", "submit", "await"} => ~ arg[c].bad /\ groups(c) # {}
  /\ pc[c] = "submit" => groups(c) \subseteq Batchers
  /\ Sent(c) \subseteq Batchers
  /\ pc[c] = "await" =>
       /\ Sent(c) = groups(c) /\ todo[c] \subseteq groups(c)
       /\ \A s \in Visited(c) : sub[s][c] \in {"stored", "failed"}
       /\ IF acc[c].err = {}
          THEN /\ \A s \in Visited(c) : sub[s][c] = "stored"
               /\ Counts(acc[c].count, c, Visited(c))
          ELSE \E s \in Visited(c) : sub[s][c] = "failed"
  /\ pc[c] \in {"finish", "returned"} => Reports(acc[c], c)

\* What a flush still owes to the calls promised to it.
DrainInv(f) ==
  /\ pc[f] \in {"idle", "barrier"} => acc[f] = Nothing
  /\ \A c \in promised[f] :
       pc[c] \in {"await", "finish", "returned"} /\ Sent(c) = groups(c)
  /\ pc[f] = "barrier" =>
       \A c \in promised[f] : \A s \in groups(c) \ todo[f] :
         Resolved(s, c) \/ c \in covers[f][s]
  /\ pc[f] \in {"await", "returned"} =>
       /\ \A c \in promised[f] : \A s \in groups(c) : Resolved(s, c) \/ c \in covers[f][s]
       /\ \A s \in (1 .. Sets) \ todo[f] : \A c \in covers[f][s] :
            Resolved(s, c) \/ (f \in canceled /\ acc[f].err # {})
       /\ acc[f].err = {} =>
            \A s \in (1 .. Sets) \ todo[f] : \A c \in covers[f][s] : sub[s][c] = "stored"
  /\ pc[f] = "returned" => todo[f] = {} \/ (f \in canceled /\ acc[f].err # {})

\* The inductive invariant of ReportsHonest, next to IInv.
ReportInv ==
  /\ ReportTypes
  /\ \A c \in Callers : ResultInv(c)
  /\ \A f \in Flushers : DrainInv(f)

\* A call that no step touches keeps its part of the invariant.
LEMMA ResultFrame ==
  ASSUME NEW d \in Callers, ResultInv(d),
         pc'[d] = pc[d], arg'[d] = arg[d], todo'[d] = todo[d],
         acc'[d] = acc[d], future'[d] = future[d],
         \A s \in 1 .. Sets : sub'[s][d] = sub[s][d]
  PROVE  ResultInv(d)'
<1>1. groups(d)' = groups(d) /\ Sent(d)' = Sent(d) /\ groups(d) \subseteq 1 .. Sets
  BY Zenon DEF groups, Sent
<1>2. Visited(d)' = Visited(d) /\ Visited(d) \subseteq 1 .. Sets
  BY Zenon, <1>1 DEF Visited
<1>3. \A V : rowsIn(d, V)' = rowsIn(d, V)
  BY Zenon DEF rowsIn
<1>4. \A n, V : Counts(n, d, V)' <=> Counts(n, d, V)
  BY Zenon, <1>3 DEF Counts
<1>5. StoredWhole(d)' <=> StoredWhole(d)
  BY Zenon, <1>1 DEF StoredWhole
<1>6. Reports(acc[d], d)' <=> Reports(acc[d], d)
  BY Zenon, <1>1, <1>4, <1>5 DEF Reports
<1> QED
  BY <1>1, <1>2, <1>4, <1>6 DEF ResultInv

\* What became of a submission stays, and a submission stays.
SubKept ==
  /\ \A c \in Callers, s \in 1 .. Sets :
       sub[s][c] \in {"stored", "failed"} => sub'[s][c] = sub[s][c]
  /\ \A c \in Callers : pc[c] \in {"await", "finish", "returned"} =>
       /\ pc'[c] \in {"await", "finish", "returned"}
       /\ groups(c)' = groups(c) /\ Sent(c)' = Sent(c)

\* A flush that does not move keeps its part of the invariant.
LEMMA DrainFrame ==
  ASSUME IInv, ReportTypes, NEW g \in Flushers, DrainInv(g), SubKept,
         pc'[g] = pc[g], todo'[g] = todo[g], acc'[g] = acc[g],
         covers'[g] = covers[g], promised'[g] = promised[g],
         g \in canceled => g \in canceled'
  PROVE  DrainInv(g)'
<1>1. promised[g] \subseteq Callers /\ \A s \in 1 .. Sets : covers[g][s] \subseteq Callers
  BY Zenon DEF ReportTypes
<1>2. \A c \in promised[g] : /\ pc'[c] \in {"await", "finish", "returned"}
                             /\ groups(c)' = groups(c) /\ Sent(c)' = Sent(c)
                             /\ Sent(c) = groups(c)
  BY Zenon, <1>1 DEF DrainInv, SubKept
<1>3. \A c \in Callers, s \in 1 .. Sets : Resolved(s, c) => Resolved(s, c)'
  BY Zenon DEF SubKept, Resolved, IInv, Types
<1>4. \A c : groups(c) \subseteq 1 .. Sets
  BY Zenon DEF groups
<1>5. pc[g] = "barrier" =>
        \A c \in promised[g] : \A s \in groups(c) \ todo[g] :
          Resolved(s, c)' \/ c \in covers[g][s]
  BY Zenon, <1>1, <1>3, <1>4 DEF DrainInv
<1>6. pc[g] \in {"await", "returned"} =>
        \A c \in promised[g] : \A s \in groups(c) : Resolved(s, c)' \/ c \in covers[g][s]
  BY Zenon, <1>1, <1>3, <1>4 DEF DrainInv
<1>7. pc[g] \in {"await", "returned"} =>
        \A s \in (1 .. Sets) \ todo[g] : \A c \in covers[g][s] :
          Resolved(s, c)' \/ (g \in canceled' /\ acc[g].err # {})
  BY Zenon, <1>1, <1>3 DEF DrainInv
<1>8. pc[g] \in {"await", "returned"} /\ acc[g].err = {} =>
        \A s \in (1 .. Sets) \ todo[g] : \A c \in covers[g][s] : sub'[s][c] = "stored"
  BY <1>1 DEF DrainInv, SubKept
<1>9. /\ pc[g] \in {"idle", "barrier"} => acc[g] = Nothing
      /\ pc[g] = "returned" => todo[g] = {} \/ (g \in canceled' /\ acc[g].err # {})
  BY Zenon DEF DrainInv
<1> QED
  BY Zenon, <1>2, <1>5, <1>6, <1>7, <1>8, <1>9 DEF DrainInv, Nothing

\* Steps of one goroutine p that change no submission and no argument of another.
LEMMA ReportFrame ==
  ASSUME IInv, ReportInv, NEW p \in Procs, SubKept,
         \A q \in Procs \ {p} : pc'[q] = pc[q] /\ todo'[q] = todo[q] /\ acc'[q] = acc[q],
         \A d \in Callers \ {p} : arg'[d] = arg[d] /\ future'[d] = future[d],
         \A d \in Callers \ {p}, s \in 1 .. Sets : sub'[s][d] = sub[s][d],
         \A g \in Flushers \ {p} : covers'[g] = covers[g] /\ promised'[g] = promised[g],
         canceled' = canceled
  PROVE  /\ \A d \in Callers \ {p} : ResultInv(d)'
         /\ \A g \in Flushers \ {p} : DrainInv(g)'
<1>1. ASSUME NEW d \in Callers \ {p} PROVE ResultInv(d)'
  <2>1. ResultInv(d) /\ d \in Procs \ {p} /\ d \in Callers
    BY Zenon DEF ReportInv, Procs
  <2>2. /\ pc'[d] = pc[d] /\ todo'[d] = todo[d] /\ acc'[d] = acc[d]
        /\ arg'[d] = arg[d] /\ future'[d] = future[d]
        /\ \A s \in 1 .. Sets : sub'[s][d] = sub[s][d]
    BY Zenon, <2>1
  <2> QED
    BY Zenon, <2>1, <2>2, ResultFrame
<1>2. ASSUME NEW g \in Flushers \ {p} PROVE DrainInv(g)'
  <2>1. DrainInv(g) /\ g \in Procs \ {p} /\ ReportTypes /\ g \in Flushers
    BY Zenon DEF ReportInv, Procs
  <2>2. /\ pc'[g] = pc[g] /\ todo'[g] = todo[g] /\ acc'[g] = acc[g]
        /\ covers'[g] = covers[g] /\ promised'[g] = promised[g]
        /\ g \in canceled => g \in canceled'
    BY Zenon, <2>1
  <2> QED
    BY Zenon, <2>1, <2>2, DrainFrame
<1> QED
  BY Zenon, <1>1, <1>2

\* Nothing is reported of a call that has not been made.
LEMMA ReportInit == Init => ReportInv
<1> SUFFICES ASSUME Init PROVE ReportInv
  BY Zenon
<1> USE GoroutineAssumption DEF Init
<1>1. ReportTypes
  BY DEF ReportTypes, Procs, Open, Errs
<1>2. \A c \in Callers : ResultInv(c)
  BY Zenon DEF ResultInv, Sent, Nothing
<1>3. \A f \in Flushers : DrainInv(f)
  BY Zenon DEF DrainInv, Nothing
<1> QED
  BY Zenon, <1>1, <1>2, <1>3 DEF ReportInv

\* A result is handed out once: resolveWith keeps the types.
LEMMA ReportTypesStep ==
  ASSUME ReportTypes, NEW p \in Procs, NEW r \in [count : Int, err : SUBSET Errs],
         acc' = [acc EXCEPT ![p] = r] \/ acc' = acc,
         UNCHANGED <<covers, promised, future>>
  PROVE  ReportTypes'
BY Zenon DEF ReportTypes

\* Accepting a call, or refusing it before anything is submitted.
LEMMA AcceptReport ==
  ASSUME IInv, IInv', ReportInv, NEW c \in Callers, Accept(c)
  PROVE  ReportInv'
<1> USE GoroutineAssumption
<1>b. pc[c] = "lock" /\ UNCHANGED <<arg, canceled, sub, future, covers, seen, promised>>
  BY Zenon DEF Accept
<1>c. \/ /\ pc' = [pc EXCEPT ![c] = "finish"] /\ todo' = todo
         /\ \E e \in {{"canceled"}, {"no batcher"}} :
              acc' = [acc EXCEPT ![c] = [count |-> 0, err |-> e]]
      \/ /\ pc' = [pc EXCEPT ![c] = "submit"] /\ acc' = acc
         /\ todo' = [todo EXCEPT ![c] = groups(c)] /\ groups(c) \subseteq Batchers
  BY Zenon DEF Accept, resolveWith
<1>1. ReportTypes'
  <2>1. \A e \in {{"canceled"}, {"no batcher"}} :
          [count |-> 0, err |-> e] \in [count : Int, err : SUBSET Errs]
    <3>1. {{"canceled"}, {"no batcher"}} \subseteq SUBSET Errs
      BY Zenon DEF Errs
    <3>2. \A e \in SUBSET Errs :
            [count |-> 0, err |-> e] \in [count : Int, err : SUBSET Errs]
      OBVIOUS
    <3> QED
      BY Zenon, <3>1, <3>2
  <2>2. c \in Procs /\ ReportTypes /\ Nothing \in [count : Int, err : SUBSET Errs]
    BY DEF Procs, ReportInv, Nothing
  <2> QED
    BY Zenon, <1>b, <1>c, <2>1, <2>2, ReportTypesStep
<1>2. SubKept
  BY Zenon, <1>b, <1>c DEF SubKept, IInv, Types, Procs, groups, Sent
<1>3. /\ \A d \in Callers \ {c} : ResultInv(d)'
      /\ \A g \in Flushers \ {c} : DrainInv(g)'
  <2>1. c \in Procs
    BY Zenon DEF Procs
  <2>2. \A q \in Procs \ {c} : pc'[q] = pc[q] /\ todo'[q] = todo[q] /\ acc'[q] = acc[q]
    BY Zenon, <1>c DEF IInv, Types, ReportInv, ReportTypes
  <2> QED
    BY Zenon, <1>b, <1>2, <2>1, <2>2, ReportFrame
<1>4. /\ groups(c)' = groups(c) /\ Sent(c)' = Sent(c) /\ Sent(c) = {}
      /\ \A s \in 1 .. Sets : sub'[s][c] = "none"
  BY Zenon, <1>b DEF IInv, CallerInv, groups, Sent
<1>5. /\ future'[c] = Open /\ acc[c] = Nothing /\ ~ arg'[c].bad /\ groups(c) # {}
      /\ groups(c) \subseteq 1 .. Sets
  BY Zenon, <1>b DEF ReportInv, ResultInv, groups
<1>6. ResultInv(c)'
  <2>1. ASSUME NEW e, e \in {{"canceled"}, {"no batcher"}}, pc' = [pc EXCEPT ![c] = "finish"],
               acc' = [acc EXCEPT ![c] = [count |-> 0, err |-> e]]
        PROVE  ResultInv(c)'
    <3>1. pc'[c] = "finish" /\ acc'[c] = [count |-> 0, err |-> e]
      BY Zenon, <2>1 DEF IInv, Types, ReportInv, ReportTypes, Procs
    <3>2. ~ StoredWhole(c)'
      BY Zenon, <1>4, <1>5 DEF StoredWhole
    <3>3. acc'[c].err # {} /\ acc'[c].count = 0
      <4>1. e # {}
        BY Zenon, <2>1
      <4> QED
        BY <3>1, <4>1
    <3>4. Reports(acc[c], c)'
      BY Zenon, <3>2, <3>3, <1>4 DEF Reports
    <3> QED
      BY Zenon, <3>1, <3>4, <1>4, <1>5 DEF ResultInv
  <2>2. CASE /\ pc' = [pc EXCEPT ![c] = "submit"] /\ acc' = acc /\ groups(c) \subseteq Batchers
    <3>1. pc'[c] = "submit"
      BY Zenon, <2>2 DEF IInv, Types, Procs
    <3> QED
      BY Zenon, <2>2, <3>1, <1>4, <1>5 DEF ResultInv
  <2> QED
    BY Zenon, <1>c, <2>1, <2>2
<1> QED
  BY Zenon, <1>1, <1>3, <1>6 DEF ReportInv

\* The outer Future copies the result of the inner one.
LEMMA FinishReport ==
  ASSUME IInv, IInv', ReportInv, NEW c \in Callers, Finish(c)
  PROVE  ReportInv'
<1> USE GoroutineAssumption
<1>b. /\ pc[c] = "finish" /\ pc' = [pc EXCEPT ![c] = "returned"]
      /\ future' = [future EXCEPT ![c] = acc[c]]
      /\ UNCHANGED <<arg, todo, mu, canceled, sub, acc, covers, seen, promised>>
  BY Zenon DEF Finish
<1>1. ReportTypes'
  BY Zenon, <1>b DEF ReportInv, ReportTypes, Procs
<1>2. SubKept
  BY Zenon, <1>b DEF SubKept, IInv, Types, Procs, groups, Sent
<1>3. /\ \A d \in Callers \ {c} : ResultInv(d)'
      /\ \A g \in Flushers \ {c} : DrainInv(g)'
  <2>1. c \in Procs
    BY Zenon DEF Procs
  <2>2. \A q \in Procs \ {c} : pc'[q] = pc[q] /\ todo'[q] = todo[q] /\ acc'[q] = acc[q]
    BY Zenon, <1>b DEF IInv, Types
  <2>3. \A d \in Callers \ {c} : arg'[d] = arg[d] /\ future'[d] = future[d]
    BY Zenon, <1>b DEF ReportInv, ReportTypes
  <2> QED
    BY Zenon, <1>b, <1>2, <2>1, <2>2, <2>3, ReportFrame
<1>4. Reports(acc[c], c) /\ Sent(c) \subseteq Batchers
  BY Zenon, <1>b DEF ReportInv, ResultInv
<1>5. Reports(acc[c], c)' /\ Sent(c)' = Sent(c)
  <2>1. /\ groups(c)' = groups(c) /\ Sent(c)' = Sent(c)
        /\ rowsIn(c, groups(c))' = rowsIn(c, groups(c))
    BY Zenon, <1>b DEF groups, Sent, rowsIn
  <2> QED
    BY Zenon, <1>b, <1>4, <2>1 DEF Reports, StoredWhole, Counts
<1>6. pc'[c] = "returned" /\ future'[c] = acc'[c]
  BY Zenon, <1>b DEF IInv, Types, ReportInv, ReportTypes, Procs
<1>7. ResultInv(c)'
  BY Zenon, <1>4, <1>5, <1>6 DEF ResultInv
<1> QED
  BY Zenon, <1>1, <1>3, <1>7 DEF ReportInv

\* A flush begins: the calls accepted so far have been submitted to all their sets.
LEMMA FlushLockReport ==
  ASSUME IInv, IInv', ReportInv, NEW f \in Flushers, FlushLock(f)
  PROVE  ReportInv'
<1> USE GoroutineAssumption
<1>b. /\ pc[f] = "idle" /\ pc' = [pc EXCEPT ![f] = "barrier"]
      /\ todo' = [todo EXCEPT ![f] = 1 .. Sets]
      /\ promised' = [promised EXCEPT ![f] = {c \in Callers : Accepted(c)}]
      /\ UNCHANGED <<arg, canceled, sub, acc, future, covers, seen>>
  BY Zenon DEF FlushLock
<1>1. ReportTypes'
  BY Zenon, <1>b DEF ReportInv, ReportTypes
<1>2. SubKept
  BY Zenon, <1>b DEF SubKept, IInv, Types, Procs, groups, Sent
<1>3. /\ \A d \in Callers \ {f} : ResultInv(d)'
      /\ \A g \in Flushers \ {f} : DrainInv(g)'
  <2>1. f \in Procs
    BY Zenon DEF Procs
  <2>2. \A q \in Procs \ {f} : pc'[q] = pc[q] /\ todo'[q] = todo[q] /\ acc'[q] = acc[q]
    BY Zenon, <1>b DEF IInv, Types
  <2>3. \A g \in Flushers \ {f} : covers'[g] = covers[g] /\ promised'[g] = promised[g]
    BY Zenon, <1>b DEF ReportInv, ReportTypes
  <2> QED
    BY Zenon, <1>b, <1>2, <2>1, <2>2, <2>3, ReportFrame
<1>4. pc'[f] = "barrier" /\ todo'[f] = 1 .. Sets /\ acc'[f] = Nothing
  BY Zenon, <1>b DEF IInv, Types, Procs, ReportInv, DrainInv
<1>5. ASSUME NEW c \in promised'[f]
      PROVE  /\ pc'[c] \in {"await", "finish", "returned"}
             /\ Sent(c)' = groups(c)' /\ groups(c)' \subseteq 1 .. Sets
  <2>1. c \in Callers /\ Accepted(c)
    BY Zenon, <1>b DEF ReportInv, ReportTypes
  <2>2. pc[c] \in {"await", "finish", "returned"} /\ Sent(c) # {}
    BY Zenon, <2>1 DEF Accepted, Sent
  <2>3. Sent(c) = groups(c)
    BY Zenon, <2>1, <2>2 DEF IInv, CallerInv
  <2>4. pc'[c] = pc[c] /\ Sent(c)' = Sent(c) /\ groups(c)' = groups(c)
    BY <1>b, <2>1 DEF IInv, Types, Procs, groups, Sent
  <2> QED
    BY Zenon, <2>2, <2>3, <2>4 DEF groups
<1>6. DrainInv(f)'
  BY Zenon, <1>4, <1>5 DEF DrainInv
<1>7. \A d \in Callers : d # f
  BY Zenon
<1> QED
  BY Zenon, <1>1, <1>3, <1>6, <1>7 DEF ReportInv

\* A barrier covers what is unresolved in its set, and the rest is resolved.
LEMMA FlushAsyncReport ==
  ASSUME IInv, IInv', ReportInv, NEW f \in Flushers, NEW s \in 1 .. Sets, FlushAsync(f, s)
  PROVE  ReportInv'
<1> USE GoroutineAssumption
<1>b. /\ pc[f] = "barrier" /\ s \in todo[f]
      /\ covers' = [covers EXCEPT ![f][s] = IF s \in Batchers THEN covered(s) ELSE {}]
      /\ UNCHANGED <<arg, canceled, sub, acc, future, promised>>
  BY Zenon DEF FlushAsync, Turn
<1>c. \/ /\ todo[f] = {s} /\ pc' = [pc EXCEPT ![f] = "await"]
         /\ todo' = [todo EXCEPT ![f] = 1 .. Sets]
      \/ /\ todo[f] # {s} /\ pc' = pc
         /\ todo' = [todo EXCEPT ![f] = @ \ {s}]
  BY Zenon DEF FlushAsync, IInv, Types, Procs
<1>d. /\ \A t \in 1 .. Sets : t # s => covers'[f][t] = covers[f][t]
      /\ covers'[f][s] = IF s \in Batchers THEN covered(s) ELSE {}
      /\ covers' \in [Flushers -> [1 .. Sets -> SUBSET Callers]]
      /\ \A g \in Flushers \ {f} : covers'[g] = covers[g]
  <2>1. (IF s \in Batchers THEN covered(s) ELSE {}) \in SUBSET Callers
    BY Zenon DEF covered
  <2> QED
    BY Zenon, <1>b, <2>1 DEF ReportInv, ReportTypes
<1>1. ReportTypes'
  BY Zenon, <1>b, <1>d DEF ReportInv, ReportTypes
<1>2. SubKept
  BY Zenon, <1>b, <1>c DEF SubKept, IInv, Types, Procs, groups, Sent
<1>3. /\ \A d \in Callers \ {f} : ResultInv(d)'
      /\ \A g \in Flushers \ {f} : DrainInv(g)'
  <2>1. f \in Procs
    BY Zenon DEF Procs
  <2>2. \A q \in Procs \ {f} : pc'[q] = pc[q] /\ todo'[q] = todo[q] /\ acc'[q] = acc[q]
    BY Zenon, <1>b, <1>c DEF IInv, Types
  <2> QED
    BY Zenon, <1>b, <1>d, <1>2, <2>1, <2>2, ReportFrame
<1>4. /\ acc'[f] = Nothing /\ promised'[f] = promised[f] /\ promised[f] \subseteq Callers
      /\ \A c \in promised[f] : /\ pc[c] \in {"await", "finish", "returned"}
                                /\ Sent(c) = groups(c)
      /\ \A c \in promised[f] : \A t \in groups(c) \ todo[f] :
           Resolved(t, c) \/ c \in covers[f][t]
  BY Zenon, <1>b DEF ReportInv, ReportTypes, DrainInv
<1>5. \A c \in promised[f] : /\ pc'[c] \in {"await", "finish", "returned"}
                             /\ Sent(c)' = groups(c)' /\ groups(c)' = groups(c)
                             /\ groups(c) \subseteq 1 .. Sets
  <2> TAKE c \in promised[f]
  <2>1. c \in Callers /\ c # f
    BY Zenon, <1>4
  <2>2. pc'[c] = pc[c] /\ Sent(c)' = Sent(c) /\ groups(c)' = groups(c)
    BY Zenon, <1>b, <1>c, <2>1 DEF IInv, Types, Procs, groups, Sent
  <2> QED
    BY Zenon, <1>4, <2>2 DEF groups
<1>6. ASSUME NEW c \in promised[f], NEW t \in groups(c), t \notin todo[f] \/ t = s
      PROVE  Resolved(t, c)' \/ c \in covers'[f][t]
  <2>1. c \in Callers /\ t \in 1 .. Sets /\ Resolved(t, c)' = Resolved(t, c)
    BY Zenon, <1>b, <1>4, <1>5 DEF Resolved
  <2>2. CASE t = s
    <3>1. t \in Sent(c) /\ t \in Batchers
      BY Zenon, <1>4, <2>1 DEF ReportInv, ResultInv
    <3>2. sub[t][c] \in {"accepted", "stored", "failed"}
      BY <2>1, <3>1 DEF Sent, IInv, Types
    <3> QED
      BY Zenon, <2>1, <2>2, <3>1, <3>2, <1>d DEF Resolved, covered
  <2>3. CASE t # s
    BY Zenon, <1>6, <2>1, <2>3, <1>4, <1>d
  <2> QED
    BY Zenon, <2>2, <2>3
<1>7. DrainInv(f)'
  <2>1. CASE /\ todo[f] = {s} /\ pc' = [pc EXCEPT ![f] = "await"]
             /\ todo' = [todo EXCEPT ![f] = 1 .. Sets]
    <3>1. pc'[f] = "await" /\ todo'[f] = 1 .. Sets
      BY Zenon, <2>1 DEF IInv, Types, Procs
    <3>2. \A c \in promised[f], t \in 1 .. Sets : t \in groups(c) =>
            Resolved(t, c)' \/ c \in covers'[f][t]
      BY Zenon, <2>1, <1>6
    <3> QED
      BY Zenon, <3>1, <3>2, <1>4, <1>5 DEF DrainInv
  <2>2. CASE todo[f] # {s} /\ pc' = pc /\ todo' = [todo EXCEPT ![f] = @ \ {s}]
    <3>1. pc'[f] = "barrier" /\ todo'[f] = todo[f] \ {s}
      BY Zenon, <2>2, <1>b DEF IInv, Types, Procs
    <3> QED
      BY Zenon, <3>1, <1>4, <1>5, <1>6 DEF DrainInv
  <2> QED
    BY Zenon, <1>c, <2>1, <2>2
<1>8. \A d \in Callers : d # f
  BY Zenon
<1> QED
  BY Zenon, <1>1, <1>3, <1>7, <1>8 DEF ReportInv

\* A flush awaits the next barrier: its outcome is kept, and only a canceled flush
\* goes on without it or breaks off.
LEMMA AwaitFlushReport ==
  ASSUME IInv, IInv', ReportInv, NEW f \in Flushers, NEW s \in 1 .. Sets, AwaitFlush(f, s)
  PROVE  ReportInv'
<1> USE GoroutineAssumption
<1> DEFINE resolved == \A c \in covers[f][s] : Resolved(s, c)
           errs == IF ~resolved THEN {"canceled"}
                  ELSE IF \E c \in covers[f][s] : sub[s][c] # "stored" THEN {"copy"} ELSE {}
           r == [acc[f] EXCEPT !.err = @ \cup errs]
<1>b. /\ pc[f] = "await" /\ s \in todo[f] /\ (resolved \/ f \in canceled)
      /\ acc' = [acc EXCEPT ![f].err = @ \cup errs]
      /\ todo' = [todo EXCEPT ![f] = @ \ {s}]
      /\ pc' = [pc EXCEPT ![f] = IF todo[f] = {s} \/ stop(f, errs) THEN "returned" ELSE @]
      /\ UNCHANGED <<arg, mu, canceled, sub, future, covers, seen, promised>>
  BY Zenon DEF AwaitFlush, Turn
<1>c. /\ ~ resolved => errs # {} /\ f \in canceled
      /\ errs = {} => \A c \in covers[f][s] : sub[s][c] = "stored"
      /\ errs \in SUBSET Errs
  BY Zenon, <1>b DEF Errs
<1> HIDE DEF errs
<1>d. /\ acc[f] \in [count : Int, err : SUBSET Errs]
      /\ acc'[f].err = acc[f].err \cup errs
      /\ \A q \in Procs \ {f} : acc'[q] = acc[q]
      /\ acc' \in [Procs -> [count : Int, err : SUBSET Errs]]
  <2>1. f \in Procs /\ acc \in [Procs -> [count : Int, err : SUBSET Errs]]
    BY Zenon DEF Procs, ReportInv, ReportTypes
  <2>2. acc[f].err \cup errs \in SUBSET Errs
    BY Zenon, <1>c, <2>1
  <2> QED
    BY Zenon, <1>b, <2>1, <2>2
<1>1. ReportTypes'
  BY Zenon, <1>b, <1>d DEF ReportInv, ReportTypes
<1>2. SubKept
  BY Zenon, <1>b DEF SubKept, IInv, Types, Procs, groups, Sent
<1>3. /\ \A d \in Callers \ {f} : ResultInv(d)'
      /\ \A g \in Flushers \ {f} : DrainInv(g)'
  <2>1. f \in Procs
    BY Zenon DEF Procs
  <2>2. \A q \in Procs \ {f} : pc'[q] = pc[q] /\ todo'[q] = todo[q] /\ acc'[q] = acc[q]
    BY Zenon, <1>b, <1>d DEF IInv, Types
  <2> QED
    BY Zenon, <1>b, <1>2, <2>1, <2>2, ReportFrame
<1>4. /\ \A c \in promised[f] : /\ pc[c] \in {"await", "finish", "returned"}
                                /\ Sent(c) = groups(c)
      /\ \A c \in promised[f] : \A t \in groups(c) : Resolved(t, c) \/ c \in covers[f][t]
      /\ \A t \in (1 .. Sets) \ todo[f] : \A c \in covers[f][t] :
            Resolved(t, c) \/ (f \in canceled /\ acc[f].err # {})
      /\ acc[f].err = {} =>
            \A t \in (1 .. Sets) \ todo[f] : \A c \in covers[f][t] : sub[t][c] = "stored"
  BY Zenon, <1>b DEF ReportInv, DrainInv
<1>5. /\ todo'[f] = todo[f] \ {s}
      /\ pc'[f] \in {"await", "returned"}
      /\ pc'[f] = "returned" => todo[f] = {s} \/ stop(f, errs)
  BY Zenon, <1>b DEF IInv, Types, Procs
<1>6. \A c \in promised[f] : /\ pc'[c] \in {"await", "finish", "returned"}
                             /\ Sent(c)' = groups(c)' /\ groups(c)' = groups(c)
  <2> TAKE c \in promised[f]
  <2>1. c \in Callers /\ c # f
    BY Zenon DEF ReportInv, ReportTypes
  <2>2. pc'[c] = pc[c] /\ Sent(c)' = Sent(c) /\ groups(c)' = groups(c)
    BY Zenon, <1>b, <2>1 DEF IInv, Types, Procs, groups, Sent
  <2> QED
    BY Zenon, <1>4, <2>2
<1>7. \A t, c : Resolved(t, c)' <=> Resolved(t, c)
  BY Zenon, <1>b DEF Resolved
<1>8. \A t \in (1 .. Sets) \ todo'[f] : \A c \in covers'[f][t] :
        Resolved(t, c)' \/ (f \in canceled' /\ acc'[f].err # {})
  <2> TAKE t \in (1 .. Sets) \ todo'[f]
  <2> TAKE c \in covers'[f][t]
  <2>1. CASE t = s
    BY Zenon, <2>1, <1>b, <1>c, <1>d, <1>7
  <2>2. CASE t # s
    BY Zenon, <2>2, <1>b, <1>d, <1>4, <1>5, <1>7
  <2> QED
    BY Zenon, <2>1, <2>2
<1>9. acc'[f].err = {} =>
        \A t \in (1 .. Sets) \ todo'[f] : \A c \in covers'[f][t] : sub'[t][c] = "stored"
  <2> SUFFICES ASSUME acc'[f].err = {}, NEW t \in (1 .. Sets) \ todo'[f], NEW c \in covers'[f][t]
               PROVE  sub'[t][c] = "stored"
    BY Zenon
  <2>1. acc[f].err = {} /\ errs = {}
    BY Zenon, <1>d
  <2>2. CASE t = s
    BY Zenon, <2>1, <2>2, <1>b, <1>c
  <2>3. CASE t # s
    BY Zenon, <2>1, <2>3, <1>b, <1>4, <1>5
  <2> QED
    BY Zenon, <2>2, <2>3
<1>10. pc'[f] = "returned" => todo'[f] = {} \/ (f \in canceled' /\ acc'[f].err # {})
  BY Zenon, <1>b, <1>d, <1>5 DEF stop
<1>11. promised'[f] = promised[f] /\ covers'[f] = covers[f]
  BY Zenon, <1>b
<1>12. DrainInv(f)'
  BY Zenon, <1>4, <1>5, <1>6, <1>7, <1>8, <1>9, <1>10, <1>11 DEF DrainInv
<1>13. \A d \in Callers : d # f
  BY Zenon
<1> QED
  BY Zenon, <1>1, <1>3, <1>12, <1>13 DEF ReportInv

\* A batcher resolves a submission that no result speaks of yet.
LEMMA ResolveReport ==
  ASSUME IInv, IInv', ReportInv, NEW c \in Callers, NEW s \in 1 .. Sets,
         NEW outcome \in {"stored", "failed"}, Resolve(s, c, outcome)
  PROVE  ReportInv'
<1>b. /\ sub[s][c] = "accepted" /\ sub' = [sub EXCEPT ![s][c] = outcome]
      /\ UNCHANGED <<pc, arg, todo, mu, canceled, acc, future, covers, seen, promised>>
  BY Zenon DEF Resolve
<1>c. /\ \A d \in Callers, t \in 1 .. Sets :
           sub'[t][d] = IF d = c /\ t = s THEN outcome ELSE sub[t][d]
  BY Zenon, <1>b DEF IInv, Types
<1>d. \A d \in Callers : groups(d)' = groups(d) /\ Sent(d)' = Sent(d)
  BY <1>b, <1>c DEF groups, Sent
<1>1. ReportTypes'
  BY Zenon, <1>b DEF ReportInv, ReportTypes
<1>2. SubKept
  BY <1>b, <1>c, <1>d DEF SubKept
<1>3. ASSUME NEW g \in Flushers PROVE DrainInv(g)'
  BY Zenon, <1>b, <1>2, DrainFrame DEF ReportInv
<1>4. ASSUME NEW d \in Callers \ {c} PROVE ResultInv(d)'
  <2>1. ResultInv(d) /\ d \in Callers /\ \A t \in 1 .. Sets : sub'[t][d] = sub[t][d]
    BY Zenon, <1>c DEF ReportInv
  <2> QED
    BY Zenon, <1>b, <2>1, ResultFrame
<1>5. ResultInv(c) /\ pc[c] \notin {"finish", "returned"}
  BY Zenon, <1>b DEF ReportInv, ResultInv, Reports
<1>6. ResultInv(c)'
  <2>1. Visited(c)' = Visited(c) /\ Visited(c) \subseteq 1 .. Sets
    BY Zenon, <1>b, <1>d DEF Visited, groups
  <2>2. pc[c] = "await" => s \notin Visited(c)
    BY Zenon, <1>b, <1>5 DEF ResultInv
  <2>3. Counts(acc[c].count, c, Visited(c))' <=> Counts(acc[c].count, c, Visited(c))
    <3>1. rowsIn(c, Visited(c))' = rowsIn(c, Visited(c))
      BY Zenon, <1>b, <2>1 DEF rowsIn
    <3> QED
      BY Zenon, <1>b, <3>1 DEF Counts
  <2>4. pc[c] = "await" => \A t \in Visited(c) : sub'[t][c] = sub[t][c]
    BY Zenon, <2>1, <2>2, <1>c
  <2> QED
    BY Zenon, <1>b, <1>d, <1>5, <2>1, <2>3, <2>4 DEF ResultInv
<1> QED
  BY Zenon, <1>1, <1>3, <1>4, <1>6 DEF ReportInv

\* Canceling a context, and stuttering, change no result.
LEMMA QuietReport ==
  ASSUME IInv, ReportInv,
         UNCHANGED <<pc, arg, todo, mu, sub, acc, future, covers, seen, promised>>,
         canceled \subseteq canceled'
  PROVE  ReportInv'
<1>1. ReportTypes'
  BY Zenon DEF ReportInv, ReportTypes
<1>2. SubKept
  BY Zenon DEF SubKept, groups, Sent
<1>3. ASSUME NEW g \in Flushers PROVE DrainInv(g)'
  BY Zenon, <1>2, DrainFrame DEF ReportInv
<1>4. ASSUME NEW d \in Callers PROVE ResultInv(d)'
  BY Zenon, ResultFrame DEF ReportInv
<1> QED
  BY Zenon, <1>1, <1>3, <1>4 DEF ReportInv

-----------------------------------------------------------------------------
(* What calls and flushes report: the steps that count rows.                *)

\* The rows of one more set are counted once.
LEMMA CountsAdd ==
  ASSUME NEW c \in Callers, arg[c].rows \in [1 .. Sets -> Nat],
         NEW V \in SUBSET (1 .. Sets), NEW s \in 1 .. Sets, s \notin V,
         NEW n \in Int, Counts(n, c, V)
  PROVE  Counts(n + arg[c].rows[s], c, V \cup {s})
<1> DEFINE A == rowsIn(c, V)
           k == arg[c].rows[s]
           B == {s} \X (1 .. k)
<1>1. k \in Nat
  BY Zenon
<1>2. rowsIn(c, V \cup {s}) = A \cup B
  BY Zenon DEF rowsIn
<1>3. A \cap B = {}
  BY DEF rowsIn
<1>4. IsFiniteSet(1 .. k) /\ Cardinality(1 .. k) = k
  <2>1. 1 \in Int /\ k \in Int
    BY <1>1
  <2>2. /\ IsFiniteSet(1 .. k)
        /\ Cardinality(1 .. k) = IF 1 > k THEN 0 ELSE k - 1 + 1
    BY Zenon, <2>1, FS_Interval
  <2> QED
    BY <1>1, <2>2
<1>5. IsFiniteSet({s}) /\ Cardinality({s}) = 1
  BY Zenon, FS_Singleton
<1>6. IsFiniteSet(B) /\ Cardinality(B) = k
  <2> HIDE DEF k
  <2>1. IsFiniteSet(B) /\ Cardinality(B) = Cardinality({s}) * Cardinality(1 .. k)
    BY Zenon, <1>4, <1>5, FS_Product
  <2> QED
    BY <2>1, <1>1, <1>4, <1>5
<1>7. IsFiniteSet(A) /\ Cardinality(A) = n
  BY Zenon DEF Counts
<1> HIDE DEF A, B, k
<1>8. /\ IsFiniteSet(A \cup B)
      /\ Cardinality(A \cup B) = Cardinality(A) + Cardinality(B) - Cardinality(A \cap B)
  BY Zenon, <1>6, <1>7, FS_Union
<1>9. Cardinality(A \cap B) = 0
  BY Zenon, <1>3, FS_EmptySet
<1>10. Cardinality(A \cup B) = n + k
  BY <1>1, <1>6, <1>7, <1>8, <1>9
<1> QED
  BY Zenon, <1>2, <1>8, <1>10 DEF Counts, A, k

\* A loop that has visited no set has counted no row.
LEMMA CountsNone == ASSUME NEW c PROVE Counts(0, c, {})
<1>1. rowsIn(c, {}) = {}
  BY Zenon DEF rowsIn
<1> QED
  BY Zenon, <1>1, FS_EmptySet DEF Counts

\* Routing a call: it is refused, has no rows, or goes on with nothing counted.
LEMMA CopyAsyncReport ==
  ASSUME IInv, IInv', ReportInv, NEW c \in Callers, NEW a \in Calls[c], CopyAsync(c, a)
  PROVE  ReportInv'
<1> USE GoroutineAssumption
<1>a. a \in [bad : BOOLEAN, rows : [1 .. Sets -> Nat], sole : 0 .. Sets]
  BY Zenon, CallsAssumption
<1>b. /\ pc[c] = "idle" /\ arg' = [arg EXCEPT ![c] = a]
      /\ UNCHANGED <<todo, mu, canceled, sub, future, covers, seen, promised>>
      /\ pc' = [pc EXCEPT ![c] = pc'[c]]
  BY Zenon DEF CopyAsync, resolveWith, IInv, Types, Procs
<1>c. \/ /\ a.bad /\ pc'[c] = "finish"
         /\ acc' = [acc EXCEPT ![c] = [count |-> 0, err |-> {"route"}]]
      \/ /\ ~ a.bad /\ (\A s \in 1 .. Sets : a.rows[s] = 0 /\ s # a.sole) /\ pc'[c] = "finish"
         /\ acc' = [acc EXCEPT ![c] = Nothing]
      \/ /\ ~ a.bad /\ ~ (\A s \in 1 .. Sets : a.rows[s] = 0 /\ s # a.sole) /\ pc'[c] = "lock"
         /\ acc' = acc
  BY DEF CopyAsync, resolveWith, IInv, Types, Procs, Nothing
<1>1. ReportTypes'
  <2>1. /\ [count |-> 0, err |-> {"route"}] \in [count : Int, err : SUBSET Errs]
        /\ Nothing \in [count : Int, err : SUBSET Errs]
    BY DEF Errs, Nothing
  <2>2. c \in Procs /\ ReportTypes
    BY Zenon DEF Procs, ReportInv
  <2> QED
    BY Zenon, <1>b, <1>c, <2>1, <2>2, ReportTypesStep
<1>2. SubKept
  BY Zenon, <1>b DEF SubKept, IInv, Types, Procs, groups, Sent
<1>3. /\ \A d \in Callers \ {c} : ResultInv(d)'
      /\ \A g \in Flushers \ {c} : DrainInv(g)'
  <2>1. c \in Procs
    BY Zenon DEF Procs
  <2>2. \A q \in Procs \ {c} : pc'[q] = pc[q] /\ todo'[q] = todo[q] /\ acc'[q] = acc[q]
    BY Zenon, <1>b, <1>c DEF IInv, Types, ReportInv, ReportTypes
  <2>3. \A d \in Callers \ {c} : arg'[d] = arg[d] /\ future'[d] = future[d]
    BY Zenon, <1>b DEF IInv, Types
  <2> QED
    BY Zenon, <1>b, <1>2, <2>1, <2>2, <2>3, ReportFrame
<1>4. /\ arg'[c] = a /\ groups(c)' = {s \in 1 .. Sets : a.rows[s] > 0 \/ s = a.sole}
      /\ Sent(c)' = {} /\ \A s \in 1 .. Sets : sub'[s][c] = "none"
  <2>1. arg'[c] = a
    BY Zenon, <1>b DEF IInv, Types
  <2>2. groups(c)' = {s \in 1 .. Sets : a.rows[s] > 0 \/ s = a.sole}
    BY Zenon, <2>1 DEF groups
  <2>3. Sent(c) = {} /\ sub' = sub
    BY Zenon, <1>b DEF IInv, CallerInv
  <2> QED
    BY Zenon, <2>1, <2>2, <2>3 DEF Sent
<1>5. future'[c] = Open /\ acc[c] = Nothing
  BY Zenon, <1>b DEF ReportInv, ResultInv
<1>6. ResultInv(c)'
  <2>1. CASE a.bad /\ pc'[c] = "finish" /\ acc' = [acc EXCEPT ![c] = [count |-> 0, err |-> {"route"}]]
    <3>1. acc'[c] = [count |-> 0, err |-> {"route"}]
      BY Zenon, <2>1 DEF ReportInv, ReportTypes, Procs
    <3>2. Reports(acc[c], c)'
      BY <2>1, <3>1, <1>4 DEF Reports, StoredWhole
    <3> QED
      BY Zenon, <2>1, <3>2, <1>4, <1>5 DEF ResultInv
  <2>2. CASE /\ ~ a.bad /\ (\A s \in 1 .. Sets : a.rows[s] = 0 /\ s # a.sole) /\ pc'[c] = "finish"
             /\ acc' = [acc EXCEPT ![c] = Nothing]
    <3>1. acc'[c] = Nothing /\ groups(c)' = {}
      BY <2>2, <1>4 DEF ReportInv, ReportTypes, Procs
    <3>2. StoredWhole(c)'
      BY Zenon, <2>2, <3>1, <1>4 DEF StoredWhole
    <3>3. Counts(0, c, groups(c))'
      <4>1. rowsIn(c, groups(c))' = {}
        BY Zenon, <3>1 DEF rowsIn
      <4> QED
        BY Zenon, <4>1, FS_EmptySet DEF Counts
    <3>4. Reports(acc[c], c)'
      BY <3>1, <3>2, <3>3, <1>4 DEF Reports, Nothing
    <3> QED
      BY Zenon, <2>2, <3>4, <1>4, <1>5 DEF ResultInv
  <2>3. CASE /\ ~ a.bad /\ ~ (\A s \in 1 .. Sets : a.rows[s] = 0 /\ s # a.sole) /\ pc'[c] = "lock"
             /\ acc' = acc
    <3>1. groups(c)' # {}
      BY <2>3, <1>a, <1>4
    <3> QED
      BY Zenon, <2>3, <3>1, <1>4, <1>5 DEF ResultInv
  <2> QED
    BY Zenon, <1>c, <2>1, <2>2, <2>3
<1> QED
  BY Zenon, <1>1, <1>3, <1>6 DEF ReportInv

\* A submission is new, and the last one starts the wait with nothing counted.
LEMMA SubmitReport ==
  ASSUME IInv, IInv', ReportInv, NEW c \in Callers, NEW s \in 1 .. Sets, Submit(c, s)
  PROVE  ReportInv'
<1> USE GoroutineAssumption
<1>b. /\ pc[c] = "submit" /\ s \in todo[c]
      /\ UNCHANGED <<arg, canceled, acc, future, covers, seen, promised>>
      /\ sub' = [sub EXCEPT ![s][c] = submitted(c, s)]
  BY Zenon DEF Submit, Turn
<1>v. submitted(c, s) \in {"accepted", "stored"}
  BY Zenon DEF submitted
<1>c. \/ pc' = [pc EXCEPT ![c] = "await"] /\ todo' = [todo EXCEPT ![c] = groups(c)]
      \/ pc' = pc /\ todo' = [todo EXCEPT ![c] = @ \ {s}]
  BY Zenon DEF Submit, IInv, Types, Procs
<1>1. ReportTypes'
  BY Zenon, <1>b DEF ReportInv, ReportTypes
<1>d. sub[s][c] = "none" /\ s \in groups(c)
  BY Zenon, <1>b DEF IInv, CallerInv, Sent
<1>e. \A d \in Callers \ {c}, t \in 1 .. Sets : sub'[t][d] = sub[t][d]
  BY Zenon, <1>b DEF IInv, Types
<1>f. \A t \in 1 .. Sets : sub'[t][c] = IF t = s THEN submitted(c, s) ELSE sub[t][c]
  BY Zenon, <1>b DEF IInv, Types
<1>2. SubKept
  <2>1. \A d \in Callers, t \in 1 .. Sets :
          sub[t][d] \in {"stored", "failed"} => sub'[t][d] = sub[t][d]
    BY Zenon, <1>d, <1>e, <1>f
  <2>2. ASSUME NEW d \in Callers, pc[d] \in {"await", "finish", "returned"}
        PROVE  pc'[d] = pc[d] /\ groups(d)' = groups(d) /\ Sent(d)' = Sent(d)
    <3>1. d # c
      BY Zenon, <2>2, <1>b
    <3>2. pc'[d] = pc[d]
      BY Zenon, <3>1, <1>c DEF IInv, Types, Procs
    <3> QED
      BY Zenon, <3>1, <3>2, <1>b, <1>e DEF groups, Sent
  <2> QED
    BY Zenon, <2>1, <2>2 DEF SubKept
<1>3. /\ \A d \in Callers \ {c} : ResultInv(d)'
      /\ \A g \in Flushers \ {c} : DrainInv(g)'
  <2>1. c \in Procs
    BY Zenon DEF Procs
  <2>2. \A q \in Procs \ {c} : pc'[q] = pc[q] /\ todo'[q] = todo[q] /\ acc'[q] = acc[q]
    BY Zenon, <1>b, <1>c DEF IInv, Types
  <2> QED
    BY Zenon, <1>b, <1>e, <1>2, <2>1, <2>2, ReportFrame
<1>4. /\ groups(c)' = groups(c) /\ Sent(c)' = Sent(c) \cup {s}
      /\ groups(c) \subseteq 1 .. Sets
  BY <1>b, <1>d, <1>f, <1>v DEF groups, Sent
<1>5. /\ future'[c] = Open /\ acc'[c] = Nothing /\ ~ arg'[c].bad
      /\ groups(c) \subseteq Batchers /\ Sent(c) \subseteq Batchers
  BY Zenon, <1>b DEF ReportInv, ResultInv
<1>6. Sent(c)' \subseteq Batchers
  BY Zenon, <1>d, <1>4, <1>5
<1>7. ResultInv(c)'
  <2>1. CASE pc' = [pc EXCEPT ![c] = "await"] /\ todo' = [todo EXCEPT ![c] = groups(c)]
    <3>1. pc'[c] = "await" /\ todo'[c] = groups(c)
      BY Zenon, <2>1 DEF IInv, Types, Procs
    <3>2. Sent(c)' = groups(c)'
      BY Zenon, <3>1, <1>4 DEF IInv, CallerInv
    <3>3. Visited(c)' = {}
      BY Zenon, <3>1, <1>4 DEF Visited
    <3>4. Counts(0, c, {})'
      <4>1. rowsIn(c, {})' = {}
        BY Zenon DEF rowsIn
      <4> QED
        BY Zenon, <4>1, FS_EmptySet DEF Counts
    <3>5. acc'[c].err = {} /\ acc'[c].count = 0
      BY <1>5 DEF Nothing
    <3>6. Counts(acc[c].count, c, Visited(c))'
      BY Zenon, <3>3, <3>4, <3>5 DEF Counts
    <3>7. groups(c)' # {}
      BY Zenon, <1>4, <1>d
    <3> QED
      BY Zenon, <3>1, <3>2, <3>3, <3>5, <3>6, <3>7, <1>4, <1>5, <1>6 DEF ResultInv
  <2>2. CASE pc' = pc
    BY ZenonT(30), <2>2, <1>b, <1>d, <1>4, <1>5, <1>6 DEF ResultInv
  <2> QED
    BY Zenon, <1>c, <2>1, <2>2
<1> QED
  BY Zenon, <1>1, <1>3, <1>7 DEF ReportInv

\* A call awaits the next of its sets: its rows are counted, or its failure is kept.
LEMMA AwaitGroupReport ==
  ASSUME IInv, IInv', ReportInv, NEW c \in Callers, NEW s \in 1 .. Sets, AwaitGroup(c, s)
  PROVE  ReportInv'
<1> USE GoroutineAssumption
<1> DEFINE k == arg[c].rows[s]
           r == IF sub[s][c] # "stored" THEN [acc[c] EXCEPT !.err = @ \cup {"copy"}]
                ELSE [acc[c] EXCEPT !.count = @ + k]
           final == IF r.err = {} THEN r ELSE [r EXCEPT !.count = 0]
<1>b. /\ pc[c] = "await" /\ s \in todo[c] /\ Resolved(s, c)
      /\ todo' = [todo EXCEPT ![c] = @ \ {s}]
      /\ UNCHANGED <<arg, mu, canceled, sub, future, covers, seen, promised>>
  BY Zenon DEF AwaitGroup, Turn
<1>c. \/ /\ todo[c] = {s} /\ pc' = [pc EXCEPT ![c] = "finish"]
         /\ acc' = [acc EXCEPT ![c] = final]
      \/ /\ todo[c] # {s} /\ pc' = pc
         /\ acc' = [acc EXCEPT ![c] = r]
  BY Zenon DEF AwaitGroup, resolveWith, awaitedAll
<1>d. /\ acc[c] \in [count : Int, err : SUBSET Errs] /\ k \in Nat
      /\ arg[c].rows \in [1 .. Sets -> Nat] /\ sub[s][c] \in {"stored", "failed"}
  <2>1. acc[c] \in [count : Int, err : SUBSET Errs]
    BY Zenon DEF ReportInv, ReportTypes, Procs
  <2>2. arg[c].rows \in [1 .. Sets -> Nat]
    BY Zenon DEF IInv, Types
  <2>3. sub[s][c] \in {"stored", "failed"}
    <3>1. sub[s][c] \in {"none", "accepted", "stored", "failed"}
      BY DEF IInv, Types
    <3> QED
      BY Zenon, <3>1, <1>b DEF Resolved
  <2> QED
    BY Zenon, <2>1, <2>2, <2>3
<1>e. /\ sub[s][c] = "stored" => r.err = acc[c].err /\ r.count = acc[c].count + k
      /\ sub[s][c] = "failed" => r.err # {}
      /\ r \in [count : Int, err : SUBSET Errs]
  <2>1. CASE sub[s][c] = "stored"
    <3>1. r = [acc[c] EXCEPT !.count = @ + k]
      BY Zenon, <2>1
    <3> HIDE DEF r, k
    <3> QED
      BY SMTT(30), <2>1, <3>1, <1>d
  <2>2. CASE sub[s][c] = "failed"
    <3>1. r = [acc[c] EXCEPT !.err = @ \cup {"copy"}]
      BY Zenon, <2>2
    <3> HIDE DEF r
    <3>2. acc[c].err \cup {"copy"} \in SUBSET Errs
      BY Zenon, <1>d DEF Errs
    <3>3. r.err = acc[c].err \cup {"copy"} /\ r.count = acc[c].count
      BY Zenon, <3>1, <1>d
    <3> QED
      BY Zenon, <2>2, <3>1, <3>2, <3>3, <1>d
  <2> QED
    BY Zenon, <1>d, <2>1, <2>2
<1> HIDE DEF r
<1>f. /\ final \in [count : Int, err : SUBSET Errs]
      /\ r.err = {} => final = r
      /\ r.err # {} => final.err # {} /\ final.count = 0
  BY <1>e
<1> HIDE DEF final, k
<1>1. ReportTypes'
  <2>1. c \in Procs /\ ReportTypes
    BY Zenon DEF Procs, ReportInv
  <2> QED
    BY Zenon, <1>b, <1>c, <1>e, <1>f, <2>1, ReportTypesStep
<1>2. SubKept
  BY Zenon, <1>b, <1>c DEF SubKept, IInv, Types, Procs, groups, Sent
<1>3. /\ \A d \in Callers \ {c} : ResultInv(d)'
      /\ \A g \in Flushers \ {c} : DrainInv(g)'
  <2>1. c \in Procs
    BY Zenon DEF Procs
  <2>2. \A q \in Procs \ {c} : pc'[q] = pc[q] /\ todo'[q] = todo[q] /\ acc'[q] = acc[q]
    BY Zenon, <1>b, <1>c DEF IInv, Types, ReportInv, ReportTypes
  <2> QED
    BY Zenon, <1>b, <1>2, <2>1, <2>2, ReportFrame
<1>4. /\ groups(c)' = groups(c) /\ Sent(c)' = Sent(c) /\ groups(c) \subseteq 1 .. Sets
      /\ todo'[c] = todo[c] \ {s} /\ arg'[c] = arg[c] /\ future'[c] = future[c]
      /\ \A t \in 1 .. Sets : sub'[t][c] = sub[t][c]
  BY Zenon, <1>b DEF groups, Sent, IInv, Types, Procs
<1>5. /\ future[c] = Open /\ ~ arg[c].bad /\ groups(c) # {} /\ Sent(c) \subseteq Batchers
      /\ Sent(c) = groups(c) /\ todo[c] \subseteq groups(c)
      /\ \A t \in Visited(c) : sub[t][c] \in {"stored", "failed"}
      /\ IF acc[c].err = {}
         THEN /\ \A t \in Visited(c) : sub[t][c] = "stored"
              /\ Counts(acc[c].count, c, Visited(c))
         ELSE \E t \in Visited(c) : sub[t][c] = "failed"
  BY Zenon, <1>b DEF ReportInv, ResultInv
<1>6. /\ Visited(c)' = Visited(c) \cup {s} /\ s \notin Visited(c)
      /\ Visited(c) \in SUBSET (1 .. Sets)
  BY Zenon, <1>b, <1>4, <1>5 DEF Visited
<1>7. /\ \A t \in Visited(c)' : sub'[t][c] \in {"stored", "failed"}
      /\ IF r.err = {}
         THEN /\ \A t \in Visited(c)' : sub'[t][c] = "stored"
              /\ IsFiniteSet(rowsIn(c, Visited(c))')
              /\ r.count = Cardinality(rowsIn(c, Visited(c))')
         ELSE \E t \in Visited(c)' : sub'[t][c] = "failed"
  <2>1. \A t \in Visited(c)' : sub'[t][c] \in {"stored", "failed"}
    BY Zenon, <1>4, <1>5, <1>6, <1>d
  <2>2. CASE r.err = {}
    <3>1. sub[s][c] = "stored" /\ acc[c].err = {} /\ r.count = acc[c].count + k
      BY Zenon, <2>2, <1>d, <1>e
    <3>2. \A t \in Visited(c)' : sub'[t][c] = "stored"
      BY Zenon, <3>1, <1>4, <1>5, <1>6
    <3>3. Counts(acc[c].count + arg[c].rows[s], c, Visited(c) \cup {s})
      BY Zenon, <3>1, <1>5, <1>6, <1>d, CountsAdd
    <3>4. rowsIn(c, Visited(c))' = rowsIn(c, Visited(c) \cup {s})
      BY Zenon, <1>4, <1>6 DEF rowsIn
    <3> QED
      BY Zenon, <2>2, <3>1, <3>2, <3>3, <3>4 DEF Counts, k
  <2>3. CASE r.err # {}
    <3>1. CASE sub[s][c] = "failed"
      BY Zenon, <2>3, <3>1, <1>4, <1>6, <2>1
    <3>2. CASE sub[s][c] = "stored"
      <4>1. acc[c].err # {}
        BY Zenon, <2>3, <3>2, <1>e
      <4> QED
        BY Zenon, <2>3, <4>1, <1>4, <1>5, <1>6, <2>1
    <3> QED
      BY Zenon, <3>1, <3>2, <1>d
  <2> QED
    BY Zenon, <2>1, <2>2, <2>3
<1>8. ResultInv(c)'
  <2>1. CASE todo[c] # {s} /\ pc' = pc /\ acc' = [acc EXCEPT ![c] = r]
    <3>1. acc'[c] = r /\ pc'[c] = "await"
      BY Zenon, <2>1, <1>b DEF ReportInv, ReportTypes, Procs
    <3>2. r.err = {} => Counts(acc[c].count, c, Visited(c))'
      BY Zenon, <3>1, <1>7 DEF Counts
    <3> QED
      BY Zenon, <3>1, <3>2, <1>4, <1>5, <1>7 DEF ResultInv
  <2>2. CASE /\ todo[c] = {s} /\ pc' = [pc EXCEPT ![c] = "finish"]
             /\ acc' = [acc EXCEPT ![c] = final]
    <3>1. acc'[c] = final /\ pc'[c] = "finish"
      BY Zenon, <2>2, <1>b DEF ReportInv, ReportTypes, IInv, Types, Procs
    <3>2. Visited(c)' = groups(c)'
      BY Zenon, <2>2, <1>4 DEF Visited
    <3>3. \A t \in 1 .. Sets : sub'[t][c] # "accepted"
      <4> TAKE t \in 1 .. Sets
      <4>1. CASE t \in groups(c)
        BY Zenon, <4>1, <3>2, <1>4, <1>7
      <4>2. CASE t \notin groups(c)
        BY Zenon, <4>2, <1>4, <1>5 DEF Sent
      <4> QED
        BY Zenon, <4>1, <4>2
    <3>4. CASE r.err = {}
      <4>1. StoredWhole(c)'
        BY Zenon, <3>2, <3>4, <1>4, <1>5, <1>7 DEF StoredWhole
      <4>2. acc'[c] = r
        BY Zenon, <3>1, <3>4, <1>f
      <4>3. rowsIn(c, groups(c))' = rowsIn(c, Visited(c))'
        BY Zenon, <3>2 DEF rowsIn
      <4>4. Counts(acc[c].count, c, groups(c))'
        BY Zenon, <3>4, <4>2, <4>3, <1>7 DEF Counts
      <4>5. Reports(acc[c], c)'
        BY Zenon, <3>3, <3>4, <4>1, <4>2, <4>4 DEF Reports
      <4> QED
        BY Zenon, <3>1, <4>5, <1>4, <1>5 DEF ResultInv
    <3>5. CASE r.err # {}
      <4>1. ~ StoredWhole(c)' /\ final.err # {} /\ final.count = 0
        BY Zenon, <3>2, <3>5, <1>4, <1>7, <1>f DEF StoredWhole
      <4>2. Reports(acc[c], c)'
        BY Zenon, <3>1, <3>3, <4>1 DEF Reports
      <4> QED
        BY Zenon, <3>1, <4>2, <1>4, <1>5 DEF ResultInv
    <3> QED
      BY Zenon, <3>4, <3>5
  <2> QED
    BY Zenon, <1>c, <2>1, <2>2
<1> QED
  BY Zenon, <1>1, <1>3, <1>8 DEF ReportInv

\* What a call's Future and a flush report is what became of the submissions they
\* wait for: in every reachable state, for any number of callers, flushers, replica
\* sets and rows, a call succeeds exactly when every row was routed and stored, with
\* the number of all rows, and a flush that reports no error has drained what it
\* promised.
THEOREM ReportsHonestHolds == Spec => []ReportsHonest
<1>1. ReportInv /\ IInv /\ IInv' /\ [Next]_vars => ReportInv'
  <2> SUFFICES ASSUME ReportInv, IInv, IInv', [Next]_vars PROVE ReportInv'
    BY Zenon
  <2>1. CASE Next
    <3>1. ASSUME NEW c \in Callers, NEW a \in Calls[c], CopyAsync(c, a) PROVE ReportInv'
      BY Zenon, <3>1, CopyAsyncReport
    <3>2. ASSUME NEW c \in Callers, Accept(c) \/ Finish(c) PROVE ReportInv'
      BY Zenon, <3>2, AcceptReport, FinishReport
    <3>3. ASSUME NEW c \in Callers, NEW s \in 1 .. Sets, Submit(c, s) \/ AwaitGroup(c, s)
          PROVE  ReportInv'
      BY Zenon, <3>3, SubmitReport, AwaitGroupReport
    <3>4. ASSUME NEW c \in Callers, NEW s \in 1 .. Sets, NEW outcome \in {"stored", "failed"},
                 Resolve(s, c, outcome)
          PROVE  ReportInv'
      BY Zenon, <3>4, ResolveReport
    <3>5. ASSUME NEW f \in Flushers, FlushLock(f) PROVE ReportInv'
      BY Zenon, <3>5, FlushLockReport
    <3>6. ASSUME NEW f \in Flushers, NEW s \in 1 .. Sets, FlushAsync(f, s) \/ AwaitFlush(f, s)
          PROVE  ReportInv'
      BY Zenon, <3>6, FlushAsyncReport, AwaitFlushReport
    <3>7. ASSUME NEW p \in Callers \cup Flushers, Cancel(p) PROVE ReportInv'
      BY Zenon, <3>7, QuietReport DEF Cancel
    <3> QED
      BY Zenon, <2>1, <3>1, <3>2, <3>3, <3>4, <3>5, <3>6, <3>7 DEF Next
  <2>2. CASE UNCHANGED vars
    BY Zenon, <2>2, QuietReport DEF vars
  <2> QED
    BY Zenon, <2>1, <2>2
<1>2. ReportInv => CombinedResult
  <2> SUFFICES ASSUME ReportInv, NEW c \in Callers, future[c] # Open
               PROVE  Reports(future[c], c)
    BY Zenon DEF CombinedResult, Reports, Counts
  <2> QED
    BY Zenon DEF ReportInv, ResultInv
<1>3. ReportInv => FlushDrains
  <2> SUFFICES ASSUME ReportInv, NEW f \in Flushers, pc[f] = "returned"
               PROVE  /\ acc[f].err = {} \/ f \notin canceled =>
                           \A c \in promised[f] : \A s \in groups(c) : Resolved(s, c)
                      /\ acc[f].err = {} =>
                           \A s \in 1 .. Sets : \A c \in covers[f][s] : sub[s][c] = "stored"
    BY Zenon DEF FlushDrains
  <2>1. DrainInv(f)
    BY Zenon DEF ReportInv
  <2>2. CASE f \in canceled /\ acc[f].err # {}
    BY Zenon, <2>2
  <2>3. CASE ~ (f \in canceled /\ acc[f].err # {})
    <3>1. todo[f] = {}
      BY Zenon, <2>1, <2>3 DEF DrainInv
    <3>2. \A s \in 1 .. Sets : \A c \in covers[f][s] : Resolved(s, c)
      BY Zenon, <2>1, <2>3, <3>1 DEF DrainInv
    <3>3. \A c \in promised[f] : \A s \in groups(c) : Resolved(s, c)
      BY Zenon, <2>1, <3>2 DEF DrainInv, groups
    <3> QED
      BY Zenon, <2>1, <3>1, <3>3 DEF DrainInv
  <2> QED
    BY Zenon, <2>2, <2>3
<1>4. ReportInv => ReportsHonest
  BY Zenon, <1>2, <1>3 DEF ReportsHonest
<1> QED
  BY <1>1, <1>4, ReportInit, StoreInvariant, PTL DEF Spec

-----------------------------------------------------------------------------
(* The Future that a call returns: its safety for any number of resolvers  *)
(* and waiters, from one inductive invariant: what the fields hold at each *)
(* step of resolve, and that a wait which returned the result, or began    *)
(* late, saw done closed.                                                  *)


\* value and err are those of the admitted resolver from the step that writes
\* them on; a returned result and a late wait imply that done is closed.
FutureInv ==
  /\ TypeOK
  /\ got \in [Waiters -> (Resolvers \cup {Zero, "none"}) \X (Resolvers \cup {Zero, "none", "ctx.Err"})]
  /\ step = "idle" <=> once = "none"
  /\ step \in {"value", "err", "closed"} => value = once
  /\ step \in {"err", "closed"} => err = once
  /\ \A w \in Waiters : wait[w] = "result" => done /\ got[w] = <<once, once>>
  /\ \A w \in Waiters : late[w] => done /\ wait[w] \in {"poll", "result"}

\* A new Future, or one that is born resolved, satisfies the invariant.
LEMMA FutureInvInit == FutureInit => FutureInv
  BY ResolverAssumption DEF FutureInit, FutureInv, TypeOK, newFuture, resolvedFuture, Zero, done

\* A step of resolve writes no field before its turn, and closes done last.
LEMMA ResolveKeeps ==
  ASSUME FutureInv, NEW r \in Resolvers, resolve(r)
  PROVE  FutureInv'
<1>1. TypeOK'
  BY Zenon DEF FutureInv, TypeOK, resolve
<1>2. got' = got /\ wait' = wait /\ late' = late
  BY Zenon DEF resolve
<1>3. ~done
  BY Zenon, ResolverAssumption DEF FutureInv, resolve, done
<1>4. /\ step' = "idle" <=> once' = "none"
      /\ step' \in {"value", "err", "closed"} => value' = once'
      /\ step' \in {"err", "closed"} => err' = once'
  BY Zenon, ResolverAssumption DEF FutureInv, TypeOK, resolve
<1>5. \A w \in Waiters : wait[w] # "result" /\ ~late[w]
  BY Zenon, <1>3 DEF FutureInv
<1> QED
  BY Zenon, <1>1, <1>2, <1>4, <1>5 DEF FutureInv

\* A step of a waiter changes only what that waiter holds.
LEMMA WaiterKeeps ==
  ASSUME FutureInv, NEW w \in Waiters,
         \/ \E dead \in BOOLEAN : Await(w, dead)
         \/ Poll(w) \/ SelectDone(w) \/ SelectCancelled(w) \/ CancelWait(w)
  PROVE  FutureInv'
<1> USE DEF FutureInv, TypeOK, fields, done
<1>1. ASSUME NEW dead \in BOOLEAN, Await(w, dead) PROVE FutureInv'
  BY Zenon, <1>1 DEF Await
<1>2. ASSUME NEW r, wait' = [wait EXCEPT ![w] = "result"], r = <<value, err>>,
             got' = [got EXCEPT ![w] = r], UNCHANGED <<fields, cancelled, late>>, done
      PROVE  FutureInv'
  BY Zenon, <1>2
<1>3. CASE Poll(w)
  <2>1. CASE done /\ Return(w, "result", <<value, err>>)
    BY Zenon, <2>1, <1>2 DEF Return
  <2>2. CASE ~done /\ wait' = [wait EXCEPT ![w] = "select"] /\ UNCHANGED <<fields, cancelled, late, got>>
    BY Zenon, <2>2
  <2> QED
    BY Zenon, <1>3, <2>1, <2>2 DEF Poll
<1>4. CASE SelectDone(w)
  BY Zenon, <1>4, <1>2 DEF SelectDone, Return
<1>5. CASE SelectCancelled(w)
  BY Zenon, <1>5 DEF SelectCancelled, Return, Zero
<1>6. CASE CancelWait(w)
  BY Zenon, <1>6 DEF CancelWait
<1> QED
  BY Zenon, <1>1, <1>3, <1>4, <1>5, <1>6

\* The invariant, for every set of resolvers and of waiters.
THEOREM FutureInvariant == FutureSpec => []FutureInv
<1>1. FutureInv /\ UNCHANGED futureVars => FutureInv'
  BY Zenon DEF FutureInv, TypeOK, futureVars, done
<1>2. FutureInv /\ [FutureNext]_futureVars => FutureInv'
  BY Zenon, <1>1, ResolveKeeps, WaiterKeeps DEF FutureNext
<1> QED
  BY <1>2, FutureInvInit, PTL DEF FutureSpec

\* All waiters that return the result return the one result, whole.
THEOREM OneResultHolds == FutureSpec => []OneResult
<1>1. FutureInv => OneResult
  BY Zenon DEF FutureInv, OneResult, done
<1> QED
  BY <1>1, FutureInvariant, PTL

\* An Await begun after completion is not answered by its context.
THEOREM CompletedWinsHolds == FutureSpec => []CompletedWins
<1>1. FutureInv => CompletedWins
  BY Zenon DEF FutureInv, CompletedWins
<1> QED
  BY <1>1, FutureInvariant, PTL
=============================================================================
