---------------------------- MODULE StoreQueries ----------------------------
(***************************************************************************)
(* The query methods of a generated store, as emission.go writes them: one *)
(* routed to a shard, one grouped by shard with its rows put back in input *)
(* order, one sent to all shards, and a grouped COPY.  A call is planned   *)
(* first (options, routing, grouping), then runs one goroutine for each    *)
(* group, which executes the statement on its target and, for a write      *)
(* outside a transaction, on every mirror in turn; when all goroutines have*)
(* finished the results are combined.                                      *)
(*                                                                         *)
(* Replica sets are numbered in the order of mesh.ReplicaSets().  Resolving*)
(* a shard key (MeshRouting) is abstracted to Home, 0 being an error.      *)
(***************************************************************************)
EXTENDS Integers, Sequences, FiniteSets, FiniteSetsExt

CONSTANTS
  Callers,            \* goroutines of the application
  Sets,               \* number of replica sets
  Mirrors,            \* Mirrors[s]: number of write mirrors of set s
  Home,               \* Home[operand]: the set its shard key resolves to, or 0
  Null,               \* a NULL lookup key of a result row
  Nil,                \* a nil item of the input, or a nil row of a result
  Incomparable,       \* a lookup key that is not a comparable Go value
  ResultKeys,         \* the lookup keys of rows a database may return, Nil for a nil row
  Stores              \* the stores and what is asked of them, each a record:
                      \*   ignoreMirrorError, the plugin option
                      \*   callers, the callers that use it
                      \*   methods, its methods: [mode, kind, command, nullable]
                      \*   inputs[mode], the item lists a caller may pass
                      \*   options, the lists of query options a caller may pass
                      \*   answers, how a database may answer: "ok", "norows", "error"
                      \*   maxRows, a bound on the rows of one result

\* Databases answer with a row, without one or with an error; every list of items can be
\* routed item by item, and a routed method takes one.
ASSUME StoreQueriesAssumption ==
  /\ Sets \in Nat /\ Mirrors \in [1 .. Sets -> Nat]
  /\ \A operand \in DOMAIN Home : Home[operand] \in 0 .. Sets
  /\ \A st \in DOMAIN Stores :
       /\ Stores[st].callers \subseteq Callers
       /\ Stores[st].answers \subseteq {"ok", "norows", "error"}
       /\ \A m \in Stores[st].methods :
            /\ m.mode \in {"routed", "all", "groupedMany", "groupedCopy"}
            /\ m.kind \in {"read", "write"}
            /\ \A items \in Stores[st].inputs[m.mode] :
                 /\ items \in Seq(Range(items))
                 /\ m.mode = "routed" => Len(items) = 1
                 /\ \A item \in Range(items) :
                      \/ item = Nil /\ m.mode = "groupedMany"
                      \/ item # Nil /\ item.operand \in DOMAIN Home

VARIABLES
  store,    \* which of the stores is used
  call,     \* what each caller asked for
  pc,       \* "idle", "running" or "returned"
  plan,     \* what planning its call gave: an error, or the arguments of each group, by set
  tasks,    \* for each group, the answers of its statements so far and its value
  result,   \* what the call returned
  log,      \* the statements each node was sent, in order
  before    \* ghost: the callers that had returned when the call began

vars == <<store, call, pc, plan, tasks, result, log, before>>

IgnoreMirrorError == Stores[store].ignoreMirrorError

Nodes == {"replica", "primary", "tx"} \X {0}
           \cup {"mirror"} \X UNION {1 .. Mirrors[s] : s \in 1 .. Sets}

-----------------------------------------------------------------------------
(* Planning a call *)

\* applyQueryOptions: nil options are skipped, the last WithTx counts.
applyQueryOptions(options) ==
  LET txs == {i \in DOMAIN options : options[i] \in {"WithTx", "WithTx(nil)"}}
  IN  [primary |-> \E i \in DOMAIN options : options[i] = "ReadFromPrimary",
       tx      |-> txs # {} /\ options[Max(txs)] = "WithTx"]

NoGroups == [err |-> "", args |-> [s \in 1 .. Sets |-> <<>>], ordered |-> <<>>]

\* One turn of the input loop of a grouped query: the lookup key of an item joins
\* the group of its shard unless the group has it.
routeMany(acc, item) ==
  LET s == Home[item.operand]
  IN  IF acc.err # "" THEN acc
      ELSE IF item = Nil THEN [acc EXCEPT !.err = "nil item"]
      ELSE IF item.lookup = Incomparable THEN [acc EXCEPT !.err = "incomparable"]
      ELSE IF s = 0 THEN [acc EXCEPT !.err = "route"]
      ELSE IF item.lookup \in Range(acc.args[s]) THEN acc
      ELSE [acc EXCEPT !.args[s] = Append(@, item.lookup),
                       !.ordered = Append(@, [set |-> s, key |-> item.lookup])]

\* One turn of the input loop of a grouped COPY: every row joins its group.
routeCopy(acc, item) ==
  IF acc.err # "" THEN acc
  ELSE IF Home[item.operand] = 0 THEN [acc EXCEPT !.err = "route"]
  ELSE [acc EXCEPT !.args[Home[item.operand]] = Append(@, item)]

\* The input loop of a grouped method, after each number of items.
routeAll(mode, items) ==
  LET acc[n \in 0 .. Len(items)] ==
        IF n = 0 THEN NoGroups
        ELSE IF mode = "groupedMany" THEN routeMany(acc[n - 1], items[n])
        ELSE routeCopy(acc[n - 1], items[n])
  IN  acc

\* The groups that have arguments.
populated(args) == [s \in {t \in 1 .. Sets : args[t] # <<>>} |-> args[s]]

crossShard(options, n) == options.tx /\ n > 1

groupedPlanDeviation(routed, options) ==
  [err |-> routed.err, groups |-> populated(routed.args), ordered |-> routed.ordered]

\* A grouped call: nothing is queried unless every item is routed.
groupedPlan(routed, options) ==
  LET groups == populated(routed.args)
      err    == IF routed.err # "" THEN routed.err
                ELSE IF crossShard(options, Cardinality(DOMAIN groups))
                THEN "cross-shard transaction" ELSE ""
  IN  [err |-> err, groups |-> IF err = "" THEN groups ELSE <<>>, ordered |-> routed.ordered]

allShardsPlan(options) ==
  [err     |-> IF options.tx THEN "cross-shard transaction" ELSE "",
   groups  |-> IF options.tx THEN <<>> ELSE [s \in 1 .. Sets |-> <<>>],
   ordered |-> <<>>]

\* Exactly one shard; the item of a query without a route has the zero shard key.  A
\* :batch method drops the routing error and dereferences a nil replica set.
routedPlan(item, command) ==
  LET s == Home[item.operand]
  IN  [err     |-> IF s # 0 THEN "" ELSE IF command = ":batch" THEN "panic" ELSE "route",
       groups  |-> [t \in {s} \ {0} |-> <<item>>],
       ordered |-> <<>>]

Plan(c) ==
  CASE c.method.mode = "routed" -> routedPlan(c.items[1], c.method.command)
    [] c.method.mode = "all"    -> allShardsPlan(c.options)
    [] OTHER ->
         groupedPlan(routeAll(c.method.mode, c.items)[Len(c.items)], c.options)

-----------------------------------------------------------------------------
(* Running a group *)

\* Where the statement goes first: a transaction wins over ReadFromPrimary, and a
\* write ignores ReadFromPrimary.
target(c) ==
  IF c.options.tx THEN <<"tx", 0>>
  ELSE IF c.method.kind = "read" /\ ~c.options.primary THEN <<"replica", 0>>
  ELSE <<"primary", 0>>

\* How many mirrors the target of c on set s has.  WithTx drops them, a read and a
\* :batch query, whose results do not end in an error, ignore them.
mirrors(c, s) ==
  IF c.method.kind = "write" /\ ~c.options.tx /\ c.method.command # ":batch"
  THEN Mirrors[s] ELSE 0

\* The error of mirror(): the first answer of a mirror that is an error other than
\* ErrNoRows.
mirrorError(answers) ==
  IF IgnoreMirrorError THEN "" ELSE
  IF \E i \in 2 .. Len(answers) : answers[i] = "error" THEN "mirror" ELSE ""

taskErr(answers) ==
  IF answers[1] # "ok" THEN answers[1] ELSE mirrorError(answers)

\* The goroutine of set s has nothing left to do: its target failed, a mirror
\* stopped the loop, or all mirrors were visited.
done(c, s, answers) ==
  /\ answers # <<>>
  /\ taskErr(answers) # "" \/ Len(answers) = 1 + mirrors(c, s)

Zero == [rows |-> <<>>, count |-> 0]

rowsOf(s, keys) == [i \in DOMAIN keys |-> [key |-> keys[i], set |-> s, pos |-> i]]

\* What a database may answer to method m on set s.
Values(m, s, args) ==
  CASE m.command = ":many" ->
         LET keys == ResultKeys \ (IF m.nullable THEN {} ELSE {Null})
         IN  {[Zero EXCEPT !.rows = rowsOf(s, ks)] : ks \in UNION {[1 .. n -> keys] : n \in 0 .. Stores[store].maxRows}}
    [] m.command = ":copyfrom" -> {[Zero EXCEPT !.count = Len(args)]}
    [] m.command = ":exec"     -> {Zero}
    [] OTHER                   -> {[Zero EXCEPT !.count = n] : n \in {0, 1}}

Send(c, s, node, args, answer) ==
  log' = [log EXCEPT ![s][node] = Append(@, [by |-> c, args |-> args, answer |-> answer])]

-----------------------------------------------------------------------------
(* Combining the results *)

failedSets(c) == {s \in DOMAIN tasks[c] : taskErr(tasks[c][s].answers) # ""}

\* The rows of a grouped query that are refused: a nil row, a key that cannot be
\* compared, a key that was not requested of that set.
refusedSets(c) ==
  {s \in DOMAIN tasks[c] : \E row \in Range(tasks[c][s].value.rows) :
     row.key \notin Range(plan[c].groups[s]) \cup {Null}}

\* The results of the groups in the order of the mesh.
values(c) == [s \in 1 .. Sets |-> IF s \in DOMAIN tasks[c] THEN tasks[c][s].value ELSE Zero]

Concat(seqs) ==
  MapThenFoldSet(LAMBDA v, acc : acc \o v, <<>>, LAMBDA i : seqs[i], Max, DOMAIN seqs)

\* The results of all shards in order: :many concatenates, :execrows and COPY add up.
accumulate(vs) ==
  [rows  |-> Concat([s \in DOMAIN vs |-> vs[s].rows]),
   count |-> MapThenSumSet(LAMBDA s : vs[s].count, DOMAIN vs)]

\* The rows of each set that have a key, or that have none.
Keyed(c, keys) ==
  [s \in 1 .. Sets |-> SelectSeq(values(c)[s].rows, LAMBDA row : row.key \in keys)]

regroupDeviation(c) ==
  Concat(Keyed(c, ResultKeys \ {Null})) \o Concat(Keyed(c, {Null}))

\* The rows of each ordered item, then the rows without a key.
regroup(c) ==
  LET rowsFor(item) == Keyed(c, {item.key})[item.set]
  IN  Concat([i \in DOMAIN plan[c].ordered |-> rowsFor(plan[c].ordered[i])])
        \o Concat(Keyed(c, {Null}))

combineDeviation(c) ==
  LET only   == CHOOSE s \in DOMAIN tasks[c] : TRUE
      failed == failedSets(c)
  IN  IF call[c].method.mode = "routed"
      THEN [value |-> tasks[c][only].value, err |-> taskErr(tasks[c][only].answers), failed |-> {}]
      ELSE [value |-> accumulate(values(c)), err |-> "",
            failed |-> IF failed = DOMAIN tasks[c] THEN failed ELSE {}]

\* A routed call returns what its target returned, the value of the primary also
\* when a mirror failed.  A fan-out returns values only if every group succeeded.
combine(c) ==
  LET m == call[c].method
      only   == CHOOSE s \in DOMAIN tasks[c] : TRUE
      failed == IF failedSets(c) = {} /\ m.mode = "groupedMany" THEN refusedSets(c) ELSE failedSets(c)
  IN  IF m.mode = "routed"
      THEN [value |-> tasks[c][only].value, err |-> taskErr(tasks[c][only].answers), failed |-> {}]
      ELSE [value |-> IF failed # {} THEN Zero
                      ELSE IF m.mode = "groupedMany" THEN [Zero EXCEPT !.rows = regroup(c)]
                      ELSE accumulate(values(c)),
            err |-> "", failed |-> failed]

-----------------------------------------------------------------------------
(* The state machine *)

NoCall == [err |-> "", groups |-> <<>>, ordered |-> <<>>]

Init ==
  /\ store \in DOMAIN Stores
  /\ pc = [c \in Callers |-> "idle"]
  /\ call \in [Callers -> {NoCall}] /\ plan = call
  /\ tasks = [c \in Callers |-> <<>>]
  /\ result \in [Callers -> {[value |-> Zero, err |-> "", failed |-> {}]}]
  /\ log = [s \in 1 .. Sets |-> [node \in Nodes |-> <<>>]]
  /\ before = [c \in Callers |-> {}]

\* A caller calls a method: the part before the goroutines start.
Call(c, m, items, options) ==
  LET new == [method |-> m, items |-> items, options |-> applyQueryOptions(options)]
      p   == Plan(new)
  IN  /\ pc[c] = "idle"
      /\ call' = [call EXCEPT ![c] = new]
      /\ plan' = [plan EXCEPT ![c] = p]
      /\ before' = [before EXCEPT ![c] = {d \in Callers : pc[d] = "returned"}]
      /\ tasks' = [tasks EXCEPT ![c] = [s \in DOMAIN p.groups |-> [answers |-> <<>>, value |-> Zero]]]
      /\ pc' = [pc EXCEPT ![c] = IF DOMAIN p.groups = {} THEN "returned" ELSE "running"]
      /\ result' = [result EXCEPT ![c] = [value |-> Zero, err |-> p.err, failed |-> {}]]
      /\ UNCHANGED <<store, log>>

\* The goroutine of set s executes the statement on its target; a failure leaves
\* the zero value.
Execute(c, s, answer, value) ==
  /\ answer = "ok" \/ call[c].method.command # ":batch"
  /\ tasks' = [tasks EXCEPT ![c][s] = [answers |-> <<answer>>, value |-> value]]
  /\ Send(c, s, target(call[c]), plan[c].groups[s], answer)
  /\ UNCHANGED <<store, call, pc, plan, result, before>>

\* The next turn of the mirror loop; the value a mirror returns is discarded.
Mirror(c, s, answer) ==
  LET sofar == tasks[c][s].answers
  IN  /\ sofar # <<>> /\ ~done(call[c], s, sofar)
      /\ tasks' = [tasks EXCEPT ![c][s].answers = Append(@, answer)]
      /\ Send(c, s, <<"mirror", Len(sofar)>>, plan[c].groups[s], answer)
      /\ UNCHANGED <<store, call, pc, plan, result, before>>

waitedForTargets(c) == \A s \in DOMAIN tasks[c] : tasks[c][s].answers # <<>>

waitedForSuccess(c) ==
  \A s \in DOMAIN tasks[c] : /\ done(call[c], s, tasks[c][s].answers)
                            /\ taskErr(tasks[c][s].answers) = ""

\* The wait group is down to zero.
waited(c) == \A s \in DOMAIN tasks[c] : done(call[c], s, tasks[c][s].answers)

Return(c) ==
  /\ pc[c] = "running" /\ waited(c)
  /\ result' = [result EXCEPT ![c] = combine(c)]
  /\ pc' = [pc EXCEPT ![c] = "returned"]
  /\ UNCHANGED <<store, call, plan, tasks, log, before>>

\* A step of the goroutine of set s.
Run(c, s) ==
  \E answer \in Stores[store].answers :
    \/ /\ tasks[c][s].answers = <<>>
       /\ \E value \in IF answer # "ok" THEN {Zero}
                       ELSE Values(call[c].method, s, plan[c].groups[s]) :
            Execute(c, s, answer, value)
    \/ Mirror(c, s, answer)

Next ==
  \E c \in Stores[store].callers :
    \/ \E m \in Stores[store].methods, options \in Stores[store].options :
         \E items \in Stores[store].inputs[m.mode] : Call(c, m, items, options)
    \/ \E s \in DOMAIN tasks[c] : Run(c, s)
    \/ Return(c)

Spec == Init /\ [][Next]_vars

\* Every goroutine runs, a database answers each statement, and Wait returns.
Fairness ==
  \A c \in Callers : WF_vars(Return(c)) /\ \A s \in 1 .. Sets : WF_vars(s \in DOMAIN tasks[c] /\ Run(c, s))

FairSpec == Spec /\ Fairness

-----------------------------------------------------------------------------
(* Properties *)

Returned(c) == pc[c] = "returned"
Entries(s, node, c) == {e \in Range(log[s][node]) : e.by = c}
Fans(m) == m.mode # "routed"

\* The place in the input that decides where a row belongs in the result.
Rank(items, row) ==
  CHOOSE i \in DOMAIN items \cup {Len(items) + 1} :
    /\ i = Len(items) + 1 \/ (Home[items[i].operand] = row.set /\ items[i].lookup = row.key)
    /\ \A j \in 1 .. i - 1 : ~(Home[items[j].operand] = row.set /\ items[j].lookup = row.key)

\* A grouped :many that succeeds returns every row its databases answered exactly
\* once: in the order of the first item that asked for it, rows with a NULL key
\* last, rows of one item in the order of the database (the regrouping at the end
\* of a grouped query method).
ManyInInputOrder ==
  \A c \in Callers :
    Returned(c) /\ call[c].method.mode = "groupedMany" /\ result[c].err = "" /\ result[c].failed = {} =>
      LET v == result[c].value.rows
          rank(i) == Rank(call[c].items, v[i])
      IN  /\ Range(v) = UNION {Range(tasks[c][s].value.rows) : s \in DOMAIN tasks[c]}
          /\ \A i, j \in DOMAIN v : i < j =>
               \/ rank(i) < rank(j)
               \/ rank(i) = rank(j) /\ (v[i].set < v[j].set \/ (v[i].set = v[j].set /\ v[i].pos < v[j].pos))

\* The items of call q that belong to set s: those whose operand routes to it, and
\* of those with the same lookup key only the first.
Due(q, s) ==
  LET here == {i \in DOMAIN q.items : Home[q.items[i].operand] = s}
  IN  IF q.method.mode = "groupedMany"
      THEN {i \in here : \A j \in here : j < i => q.items[j].lookup # q.items[i].lookup}
      ELSE here

\* What a statement carries for an item: its lookup key, or all of it.
Part(q, i) == IF q.method.mode = "groupedMany" THEN q.items[i].lookup ELSE q.items[i]

\* The arguments are what belongs to set s, in input order: as many as there are such
\* items, and each at its rank among them.
Carries(q, s, args) ==
  /\ Len(args) = Cardinality(Due(q, s))
  /\ \A i \in Due(q, s) : args[Cardinality({j \in Due(q, s) : j <= i})] = Part(q, i)

\* Every statement of a call carries exactly what belongs to its set, goes to each
\* node at most once, and a call refused while it was planned has sent nothing.  A
\* statement in a transaction is sent through it, on one set, and to no mirror; a
\* read outside of one goes to a replica unless the primary was asked for, a write
\* never does (WithTx, ReadFromPrimary).
SentWhereItBelongs ==
  /\ \A s \in 1 .. Sets : \A node \in Nodes : \A i, j \in DOMAIN log[s][node] :
       log[s][node][i].by = log[s][node][j].by => i = j
  /\ \A c \in Callers : pc[c] # "idle" =>
       LET sent == {x \in (1 .. Sets) \X Nodes : Entries(x[1], x[2], c) # {}}
           m == call[c].method
           o == call[c].options
           Node(x) == x[2][1]
       IN  /\ \A x \in sent : \A e \in Entries(x[1], x[2], c) :
                /\ plan[c].err = ""
                /\ m.mode # "all" => Carries(call[c], x[1], e.args) /\ e.args # <<>>
           /\ o.tx => \A x, y \in sent : x = y /\ Node(x) = "tx"
           /\ ~o.tx => \A x \in sent :
                \/ Node(x) = "primary" /\ (m.kind = "write" \/ o.primary)
                \/ Node(x) = "replica" /\ m.kind = "read" /\ ~o.primary
                \/ Node(x) = "mirror" /\ m.kind = "write"

\* A write that reports success was executed by the primary of every set it belongs
\* to and by all of their mirrors, except for rows a mirror does not have, and for
\* mirror errors that the plugin option ignores.
SuccessMeansWritten ==
  \A c \in Callers :
    Returned(c) /\ result[c].err = "" /\ result[c].failed = {}
        /\ call[c].method.kind = "write" /\ ~call[c].options.tx =>
      \A s \in 1 .. Sets : call[c].method.mode = "all" \/ Due(call[c], s) # {} =>
        /\ \E e \in Entries(s, <<"primary", 0>>, c) : e.answer = "ok"
        /\ call[c].method.command # ":batch" =>
             \A k \in 1 .. Mirrors[s] : \E e \in Entries(s, <<"mirror", k>>, c) :
               e.answer # "error" \/ IgnoreMirrorError

\* A call that fans out returns values only if no statement failed; otherwise it
\* returns none and names exactly the sets that failed, though the other sets may
\* have been written.
AllOrNothing ==
  \A c \in Callers : Returned(c) /\ Fans(call[c].method) =>
    LET broken == {s \in 1 .. Sets : \E node \in Nodes : \E e \in Entries(s, node, c) :
                     \/ e.answer = "error" /\ (node[1] # "mirror" \/ ~IgnoreMirrorError)
                     \/ e.answer = "norows" /\ node[1] # "mirror"}
    IN  /\ broken # {} => result[c].failed = broken
        /\ result[c].failed # {} \/ result[c].err # "" => result[c].value = Zero

\* Mirrors are synchronous and visited in order: when one write returned before
\* another began, no node is sent the second before the first; and no mirror sees a
\* write before its primary and the mirrors configured before it did, nor after one
\* of them failed (the mirror loop).
MirrorsInOrder ==
  /\ \A s \in 1 .. Sets : \A node \in Nodes : \A i, j \in DOMAIN log[s][node] :
       i < j => log[s][node][j].by \notin before[log[s][node][i].by]
  /\ \A c \in Callers, s \in 1 .. Sets : \A k \in 1 .. Mirrors[s] :
       Entries(s, <<"mirror", k>>, c) # {} =>
         /\ \E e \in Entries(s, <<"primary", 0>>, c) : e.answer = "ok"
         /\ \A j \in 1 .. k - 1 : \E e \in Entries(s, <<"mirror", j>>, c) :
              e.answer # "error" \/ IgnoreMirrorError

\* Every call returns, whatever fails.
CallReturns == \A c \in Callers : pc[c] = "running" ~> Returned(c)
=============================================================================
