# A verification of pgmesh in TLA+

pgmesh is a Go runtime that routes queries to sharded, replicated PostgreSQL
databases, and a sqlc plugin that generates the stores which use it. This
directory models both, checks the models with TLC on small instances and proves
part of the results with TLAPS for every value of the constants. Paths below are
relative to `src/`.

## The system

| part | source | what it does | module |
| --- | --- | --- | --- |
| CopyBatcher | `copy_batch.go`, `copy_batch_config.go` | gathers rows of concurrent calls into physical COPYs | `CopyBatcher`, `AsyncCopy` |
| Future | `future.go` | result of an asynchronous call | `Future` |
| MeshBuilder | `builder.go` | fluent construction of a mesh | `MeshBuilder` |
| OpenMesh | `topology.go`, `replica_set.go` | validates options, opens nodes, builds a mesh | `OpenMesh` |
| Mesh, routes, hashers, round robin | `mesh.go`, `resolved_shard.go`, `route.go`, `hasher.go`, `replica_set.go`, `load_balancer.go` | from a key to a replica set, from a set to a node | `MeshRouting` |
| Telemetry | `telemetry.go`, `copy_batch_observer.go` | spans, gauges, batch metrics | `Telemetry` |
| Generated construction | `sqlcplugin/emission.go` | `NewTopology`, `NewStore` and their options | `StoreBuild` |
| Generated queries | `sqlcplugin/emission.go` | routed, grouped, all-shards and mirrored methods | `StoreQueries` |
| Generated asynchronous COPY | `sqlcplugin/emission.go` | `<Query>Async`, `Flush<Query>` | `StoreAsyncCopy` |
| Annotations | `sqlcplugin/query.go` | comments of a query to its kind, route and store | `Annotations` |
| Query plans | `sqlcplugin/query.go` | parameters, operands and keys of a query | `QueryPlan` |
| Names | `sqlcplugin/query.go`, `declarations.go`, `aliases.go`, `naming.go` | declarations, methods and files of a package | `StoreNames` |
| Imports | `sqlcplugin/options.go`, `imports.go`, `postgresql_type.go` | qualifiers of the generated files | `PluginImports` |
| SQL relations | `sqlcplugin/sql_relations.go` | tables a statement reads | `SQLRelations` |
| Cache-aside example | `examples/06-cache-aside/main.go` | a store wrapped in a cache | `CacheAside` |

A generated store is built by `NewStore`, which drives OpenMesh, which drives a
MeshBuilder: `StoreBuild` EXTENDS `OpenMesh` EXTENDS `MeshBuilder`, and the outer
module uses the inner one's actions. The mesh leads a key to a replica set. A query
method runs statements on the set's nodes. For each asynchronous COPY query the
store keeps one CopyBatcher per replica set: `StoreAsyncCopy` uses a batcher only
through what `AsyncCopy` promises, and `CopyBatcher` is shown to implement
`AsyncCopy`.

## The modules

**CopyBatcher.** `active`, `queue`, `inFlight` and `pending` are the fields of the
same names; `batch`, `timer` and `run` describe the `copyBatch` objects, their
linger timers and the `runBatch` goroutines, `req` the `copyRequest`s with their
Futures, `flush` the calls of `FlushAsync`. A batch is named by its first row.
`crit` is the holder of the mutex with its locals: a loop inside the critical
section is a series of steps of the holder, and every other action that needs the
mutex waits for `crit.pc = "free"`. There is one action per piece of code between
two points where others may interfere: a submission (refused, coalesced,
unbatched), each round of `appendRequestLocked`, `scheduleLocked` and
`dequeueLocked`, the expiry of a timer and its callback as two steps (a callback
that has started cannot be stopped), the return of a COPY, each `finishPart`, the
last critical section of `runBatch`, a flush and its completion. The COPY belongs
to the caller and may succeed, fail or report a wrong count. `sent` and `confirmed`
are history. `CopyBatcherInv` holds the invariants the proofs rest on. Times are
dropped: an armed timer may expire at any moment.

**AsyncCopy** is the promise to callers, without batches, timers or a mutex.
`CopyBatcherPromise` gives the refinement mapping: a call is stored or failed when its
Future is resolved, the fate of a row is read off the history, and a flush has not
begun before it leaves its critical section.

**Future.** `resolve` is three steps (value, error, close of `done`) admitted by
`sync.Once`; `Await` is a poll of `done` followed by a `select` in which both cases
may be ready. Contexts are canceled at any moment.

**MeshBuilder, OpenMesh, StoreBuild.** One action per call of the builder, with a
log of the calls that may fail. OpenMesh runs through `options`, `open`, `mirrors`,
`builder`, `map`, `returned`; validation is one step because it only reads the
configuration, and `openNode` may fail at every call. The code compares mirror
lists by joining names with a NUL character; the model compares the lists, which is
the same for names without NUL. `StoreBuild` models the emitted `NewTopology` and
`NewStore`: nil and repeated options, the made-up DSNs that carry databases through
OpenMesh, batchers, groups and the caller's factories.

**MeshRouting.** Keys are signed integers of a width given by `KeyHalf`, the
counter of the round robin is a number modulo `Modulus`, and the hash is computed as
in the code, with conversions to the unsigned type. `sets` gives each replica set
its rotation, which sets derived by `WithWriteMirrors` share; mirror lists are Go
slices with backing arrays that may have room to spare, so that an append could
overwrite what another slice shows.

**StoreQueries.** A call is planned, its tasks run as goroutines that each walk the
target and its mirrors one statement at a time, and the call combines what they
return. Groups and tasks are named by the replica set they are for. Every statement may answer with rows, no rows or an error. `Stores` selects
the methods and options of a store; `log` records what every node executed.

**StoreAsyncCopy.** `state.mu`, the loops over the groups of a call and over the
batchers of a flush, and the awaiting of all results. A batcher accepts and later
resolves a submission, as in `AsyncCopy`. A call has its rows for each set; one of a
query that is not sharded goes to its one set (`sole`) even without rows, where
the batcher answers at once. Contexts may be canceled at any step.

**Telemetry.** Instruments created one by one by providers that may fail, logical,
physical and store spans of concurrent goroutines, the in-flight counter for each
set of attributes, the delegation mark in a context, and observers of batches that
append to one base slice. `program` selects the part an application exercises.

**Annotations, QueryPlan, StoreNames, PluginImports, SQLRelations** are the plugin's
algorithms as operators. Their actions only build an input and run the algorithm.
A line of a query is a record of its form, head and value; names are sequences of
words, so that `Flush` before `Copy` and `Copy` before `Async` can meet; an override
of a type is its form (a map, a string, a string without a type), path and package;
SQL is a sequence of characters, because the scanner's properties are about them.

**CacheAside.** A cached get and an upsert are several steps each; callers may open
transactions that commit or roll back. An upsert may return an error before or after
its row is committed, and a write that was given up may still be applied (`late`). A
call remembers the upserts of its key that it overlaps (`met`).

## Runs

Every property has a mutant: an operator of the same module, marked as a deviation,
which replaces a definition by a plausible mistake and makes the property fail.

| run | distinct states | properties |
| --- | --- | --- |
| `copy_split` | 196,912 | `ConcurrencyLimit`, `Accounting`, `ImplementsAsyncCopy`, `FlushCompletes` |
| `copy_backlog` | 54,769 | `Structure`, `WorkConserving`, `QueueDiscipline`, `EveryCallResolves` |
| `mesh_construction` | 3,451,828 | `MeshWellFormed`, `FirstFailureReported`, `ValidatedBuilds`, `RoutesAsConfigured`, `DatabasesInPlace`, `FactoriesSeeWholeStore` |
| `mesh_routing` | 126,030 | `RoutedByResidue`, `ReadsBalanced`, `MirrorsAsConfigured` |
| `future` | 1,487 | `OneResult`, `CompletedWins`, `AwaitReturns` |
| `store_queries` | 140,503 | `ManyInInputOrder`, `SentWhereItBelongs`, `AllOrNothing`, `SuccessMeansWritten`, `MirrorsInOrder`, `CallReturns` |
| `store_async_copy` | 277,712 | `AcceptedWhole`, `BarrierNeverSplits`, `ReportsHonest`, `EveryoneReturns` |
| `telemetry` | 890,555 | `GaugeExact`, `SpansReportWhatRan`, `BatchesRecorded` |
| `generator` | 1,455,262 | `AnnotationsInForce`, `DeliveriesAgree`, `ParametersBound`, `PackageConsistent`, `QualifiersResolve`, `RelationsRead` |
| `cache_aside` | 3,824,446 | `OverlapExplainsStale` |
| `copy_unbatched_limit` | violation | `PhysicalCopyWithinLimit` |
| `query_plan_fields` | violation | `RemainingFieldsKept` |

What they show:

* `copy_split`: calls of three rows under a limit of two are split over two batches
  that run at once and finish in either order, beside refused and unbatched calls
  and a flush. No row, part or error is lost or counted twice; capacity is never
  exceeded; what callers see is what `AsyncCopy` allows; a flush completes though no
  timer need expire.
* `copy_backlog`: four calls behind one unit of capacity. Batches closed by timers
  pile up and are merged under a limit of two, with unbatched ones between them, in
  order and never across an unbatched one; no handler leaves a batch waiting beside
  free capacity; every call is resolved.
* `mesh_construction`: three ways to a mesh in one run (`stage` says which). Builder
  calls in any order, also after a failure and after `Build`; every validation error
  of OpenMesh, mirror chains and cycles, nodes failing anywhere; `NewStore` with up
  to three databases, two COPY queries and two groups. A mesh that is returned is
  the one configured; a configuration that passes validation is not refused later;
  no factory sees a store that is incomplete or not returned.
* `mesh_routing`: every key of a narrow signed type over three virtual shards, and a
  counter that wraps in the middle of a rotation whose length does not divide it.
* `future`: two resolvers race, two waiters wait again after being canceled.
* `store_queries`: `reads` and `writes` try every method, input and option with every
  combination of answers; in `races` two callers write to the same sets and mirror
  errors are ignored. Rows come back in input order, a failure on one set suppresses
  the values of the others and is named, success means that primaries and mirrors
  have the write, and mirrors see sequential writes in order.
* `store_async_copy`: two calls over two of three sets, one without a batcher, or of
  an unsharded query without rows, and a flush, with contexts canceled at any step.
* `telemetry`: the gauge agrees with what is running in every state; a span that ends
  reports what ran under it; batches are recorded under their own reason.
* `generator`: every input within the bounds, for one algorithm at a time. Accepted
  queries carry the annotations that were written; every SQL parameter has one
  source; an accepted package has no colliding declarations, methods, keys or files;
  qualifiers mean the packages they were written for, unless a package shares its name
  or path with one that the validations do not know (below); the scanner finds exactly
  the tokens outside of literals and comments, and so the relations it reads do not
  depend on them. Which words introduce a relation is the code's own rule.
* `cache_aside`: an entry that is not the committed row was put by a call that
  overlapped the upsert of that row, or comes from a transaction that has not
  committed, or the upsert of the row returned no row to its caller. All three
  occur; there is no fourth, so the next upsert that returns and overlaps nothing
  makes the entry right again.

**Bounds.** `NumRequests` and `MaxRows` bound calls and their rows; `MaxCalls` the
builder's log (three shards and one call to spare); `MaxSpecs` and `MaxMappings` the
options of OpenMesh (three sets allow two ordered mirrors, two mappings a cycle);
`KeyHalf` and `Modulus` the integer widths, `MaxReads` the reads, past one wrap, and
`MaxSets` the derived sets; `maxRows` of a store the rows a statement returns; `maxSpans`, `maxFanout`, `maxStoreSpans` and `maxProviders` of a
program what it starts; `MaxLines`, `MaxParams`, `MaxColumns`, `MaxOperands`,
`MaxQueries`, `MaxOverrides`, `MaxLexemes` the inputs of the generator (imports are
compared in pairs, so two overrides suffice); `MaxUpserts` and `MaxGets` the calls of
the cache. The values of the options in the MC modules
include one that leads to each refusal.

**Deadlock** is checked in the CopyBatcher, construction and Future runs: a batcher
with nothing left to do, a finished construction and an idle waiter have a step, so
anything stuck half-way shows. The other runs switch it off because they stop when
their bounds are used up (each caller calls once, each span ends); there the liveness
properties of `store_queries` and `store_async_copy` show that nobody is stuck.

**Fairness.**

* `RuntimeFairness` of `MCCopyBatcher`: weak fairness of the mutex holder, of each
  started timer callback, each `runBatch` and each waiting flush. The Go scheduler
  runs runnable goroutines and `sync.Mutex` hands over to starved waiters. It also
  assumes that the caller's COPY returns, which the code cannot enforce. `TimedSpec`,
  used by `copy_backlog`, adds that armed timers expire.
* `Future`: the work of some resolver returns, and a waiter that can proceed does.
  Contexts need not be canceled.
* `StoreQueries`: each goroutine's next statement and the final combination; databases
  answer, if only with an error.
* `StoreAsyncCopy`: strong fairness for obtaining `state.mu`, which other goroutines
  take again and again and which does not starve a waiter; weak fairness of the rest,
  and of batchers resolving what they accepted, which is `EveryCallResolves`.

## Findings

* `query_plan_fields`: `docs/how-to/add-a-query.md:66-67` says that the parameters of
  a routed query embed the shared key and contain "only the remaining SQL fields".
  `wrapShardParameters` (`sqlcplugin/query.go:1615`) binds every field whose column
  name is that of an operand to the one key field. sqlc names two positional
  parameters compared with one column `TenantID` and `TenantID_2`, both with the
  column name `tenant_id`; the second is neither in the key nor a remaining field and
  is sent with the value of the first. `ParametersBound` holds nevertheless: it asks
  that each value the query is routed by is sent, not that a second parameter of the
  same column has a value of its own.
* `copy_unbatched_limit`: `copy_batch_config.go:18` says "MaxRowsPerBatch is the
  maximum number of rows in one physical COPY." `SubmitUnbatched` does not apply the
  limit. `copy_batch_test.go:477` submits such a call, so the code is deliberate and
  the comment too broad.

Observations made while translating, which no run states:

* `docs/how-to/add-a-query.md:231` calls the order of annotations strict and `:255`
  says that generation fails when metadata is out of order.
  `validateRawAnnotationOrder` (`sqlcplugin/query.go:1022`) looks only at lines from
  the name line on, so annotations above it are accepted from raw text.
  `DeliveriesAgree` excludes such queries.
* `docs/how-to/configure-generation.md:74` says that `internal_import_alias` must not
  conflict with imports of generated code; the list in `sqlcplugin/options.go:236`
  lacks `reflect` and `sync`. `docs/how-to/configure-generation.md:53` gives the
  alias the default `internal`, but `importAlias` (`sqlcplugin/emission.go:2447`)
  drops the default, so a sqlc package of another name is imported without the alias
  the code uses. `QualifiersResolve` leaves both out.
* No validation knows the packages of `knownSelectorImports`
  (`sqlcplugin/imports.go:54`). `addForType` adds the known package for a qualifier in
  any type, so an override of a package named `uuid` is imported beside
  `github.com/google/uuid`, and one that gives the path of a known package another
  name replaces its import or is replaced, whichever type comes last.
  `QualifiersResolve` states this exception.
* A `go_type` string such as `example.com/domain/v5.ID` writes the qualifier `v5`
  (`sqlcplugin/postgresql_type.go:644`), while `usedImports` looks for `domain` and
  drops the import. The map form uses `domain` for both.
* Two COPY queries named `Flush<X>` and `<X>Async` derive one method from each other's
  names and are accepted. `PackageConsistent` states the exception.

## Proofs

Eight modules hold theorems and their lemmas; every obligation is checked. The
theorems hold for every value of the constants that satisfies the assumptions of the
component's module.

**CopyBatcher**, for all numbers and sizes of calls, limits and flushes that satisfy
`ConfigAssumption`, the unlimited `MaxRowsPerBatch = 0` included. The invariants are
in `CopyBatcherInv` and `CopyBatcherPromise`; the proofs are split by invariant, with
one lemma per action and conjunct it can disturb. `CopyBatcherStructureProofs`
also says once what each step that writes several fields does (`Appends`, `Queues`, ...),
for the others to cite.

* `StructureInvariant`, `TypeCorrect`, `CoalescedLimit` (`CopyBatcherStructureProofs`).
  The row limit is not inductive: merging and appending respect it only if the open
  batch has room (`Sizes`), if a batch is in one place (`Ownership`) and if a new
  batch gets an unused name (`FreshNames`), and a handler may rely on its locals only
  by `CritInv`. `Structure` is the conjunction.
* `Concurrency`, `NoIdleCapacity` (`CopyBatcherProofs`) add their own statement to
  `Structure` and count the set of batches in flight.
* `AccountingHolds` (`CopyBatcherAccountProofs`, `CopyBatcherProofs`). `Accounting` is
  inductive beside `Structure`. That a call's parts are counted right (`Counted`) needs
  that a merge never joins two parts of one call, which would then be finished once but
  counted twice. The reason is `OneNonFull`: only the last part of a split call is in a
  batch that is not full, and only batches that are not full are merged. `OneBatch`
  and `RowsInv` follow each row from `appendRequestLocked` to its COPY, `Errors` a
  failure from the COPY to the call, `Futures` and `PendingCalls` the end of the last
  part to the Future and to `pending`. All but the count is first-order and is proved in
  `CopyBatcherAccountProofs`; the count adds or removes one element of `Holders`.
* `ResultsHonestHolds`, `RefinesAsyncCopy` (`CopyBatcherPromiseProofs`,
  `CopyBatcherProofs`). Submissions are steps of the same name of `AsyncCopy`, the
  return of a COPY decides its rows, the last `finishPart` of a call resolves it, the
  last step of `FlushAsync` begins a flush, and the rest stutters. That a call is
  resolved as `AsyncCopy` demands is `ResultsHonest`, which follows from `Accounting`;
  flushes need `FlushInv` as well.
* `QueueDisciplineHolds` (the same modules). The order in which rows are handed to COPY
  is not inductive: `OrderInv` says of any two rows of coalesced calls that the earlier
  is at least as far, started, or waiting in the same or an earlier batch of the queue,
  or in the open batch. That a batch of `SubmitUnbatched`, which enters the queue
  before the open batch does, holds no rows of coalesced calls is `AloneInv`.

**MeshRouting** (`MeshRoutingProofs`), for all widths, shard counts, replicas, mirrors
and derived sets.

* `HashIsEuclidean`, `RoutedByResidueHolds`.
* `ReadsBalancedHolds`: the balance of reads is not inductive; `BalanceInv` says how many
  reads each target has in terms of the counter and of the wraps so far.
* `MirrorsAsConfiguredHolds`: a set keeps the mirrors it was given, however much room
  the arrays of Go's `append` have to spare. By `MirrorsInv` every slice lies within its
  array and still holds there what its set was given; a derivation disturbs none,
  because it first copies the old mirrors by an append to the nil slice, whose array is
  empty, and so writes to a new array only.

**Future** (in `StoreAsyncCopyProofs`, whose callers await Futures), for any number of
resolvers and waiters:
`FutureInvariant`, `OneResultHolds`, `CompletedWinsHolds`. `FutureInv` ties the fields to
the resolver that `sync.Once` admitted and to how far it is.

**StoreAsyncCopy** (`StoreAsyncCopyProofs`), for any number of sets, callers and
flushes.

* `AcceptedWholeHolds`, `BarrierNeverSplitsHolds`. The argument is the mutex: inside its
  loop a caller has submitted its groups without those still to visit, outside everything
  or nothing; while a flush puts its barriers nobody submits, so every barrier so far has
  seen what is submitted now.
* `ReportsHonestHolds`, by `ReportInv`: while a call awaits its sets it has counted the
  rows of exactly those it has visited, all of which are resolved; a flush has, for every
  call promised to it, seen the submission resolved or put it behind a barrier it still
  awaits, unless it was canceled and says so.

**StoreQueries** (`StoreQueriesProofs`), for all inputs, sets, mirrors and concurrent
callers that satisfy `StoreQueriesAssumption`: every item routes to a set or to none, a
routed method takes one item, and a nil item can only be passed to a grouped query.

* `QueryInvariant`: the inductive invariant `IInv`, of three parts. `CallerInv` says that
  a call has the plan its input asks for (`PlanFits`), that each of its goroutines has
  passed its nodes in order and went on only where the code goes on (`Passing`), and that
  a returned call reports what its goroutines answered (`Reported`). `LogInv` says that
  the log is exactly what was sent: every logged statement is the l-th one of a goroutine
  of its caller (`Owned`), every answer of a goroutine is in the log, no node was sent two
  statements by one call, and no statement is followed on its node by one of a call that
  had returned when its own call began. `Shape` gives the types.
* `PlanFits` rests on the input loop. After n items the arguments of a set are the parts
  of those of the first n items that route to it, in input order, and lookup keys are in
  it once (`LoopInv`). The loop is a recursive function on `0 .. Len(items)`, and
  `LoopInv` is proved by its least counterexample (`LeastNat`).
* `SentWhereItBelongsHolds`, `AllOrNothingHolds`, `SuccessMeansWrittenHolds`,
  `MirrorsInOrderHolds` follow from `IInv` without further steps of the system: `EntryOf`
  and `AnswerLogged` lead from the log to the goroutines and back, `FailureShows` says that
  a goroutine reports an error exactly if one of its statements failed in a way that is
  not ignored, `TaskWrote` that one which reports none has passed all its nodes.

**Telemetry** (`TelemetryProofs`), for any number of instruments, spans, meshes and
batches that satisfy `TelemetryAssumption`.

* `BatchesRecordedHolds`, by `SetupInv` and `ObserverInv`: as long as the builder has no
  error its instruments come from the provider configured last, although they are
  replaced one by one, and between its two steps an observer finds its own reason in its
  slot.
* `GaugeExactHolds`: a start or an end changes the set of running queries of one
  combination of attributes by one element, which needs that the attributes of a span
  do not change while it is open (`SpanType`, `Grown`, `Changed`).
* `SpansReportWhatRanHolds`, by `StoreInv` and `LogicalInv`: contexts come from spans
  started earlier, so the mark of a store span is set by queries directly under it and by
  no others; the executions of a logical query never exceed its route, and fill it when
  it ends.

**Only model-checked:**

* All liveness properties (`FlushCompletes`, `EveryCallResolves`, `AwaitReturns`,
  `CallReturns`, `EveryoneReturns`), since fairness is beyond the prover.
* `ManyInInputOrder` of StoreQueries: it relates rows picked from several results by
  filters and folds over sequences, whose values for an arbitrary input are out of the
  prover's reach. The input loop could be treated because it is a recursive function, of
  which the prover unfolds one step at a time.
* The generator, for the same reason: its algorithms are recursive over queries, lines
  and characters, most of them as recursive operators, which the prover does not accept.
* Construction (`MeshBuilder`, `OpenMesh`, `StoreBuild`) and the cache. The runs try all
  combinations of options, failures and orders within the bounds.

## Not modelled

* `node.go` and most of `errors.go`: interfaces and values without behaviour.
* A cancellation after a COPY was accepted: the batcher derives a context that is never
  canceled before it stores it, so contexts are not state of `CopyBatcher`.
* `VirtualShardRange`, accessors, and nil checks of routes.
* Names, units, durations and log records of telemetry, and the forwarding methods of
  the generated facades: output that no decision depends on.
* The text of the emitted Go: what the emitted code does is modelled, not how it is
  spelled. The same holds for the spelling of Go names from SQL names and for the
  table of PostgreSQL types.
* Comparison of result columns with models, and single-value checks of options. Model
  names that sqlc itself puts into the same package are not compared by the code, and
  `StoreNames` does not compare them either.
* `cmd/sqlc-gen-store` and the examples other than 06: I/O, or fixed sequences of
  calls to the modelled API.
* Backslash escapes in `E'...'` strings: the scanner takes a backslash as any other
  character, and the alphabet of the run has none. Tables after a comma in a FROM
  clause are not relations to the code, nor to the model.
* Qualifiers of which one ends with another: `typeUsesQualifier` looks for a qualifier
  and a dot anywhere in a type and would take `mytime.` for `time.`.
* More than one process in front of the database of the cache.
