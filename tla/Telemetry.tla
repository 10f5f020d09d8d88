------------------------------- MODULE Telemetry -------------------------------
(***************************************************************************)
(* The telemetry of a mesh (telemetry.go): its metric instruments, and the *)
(* store, logical and physical spans that generated methods start and end  *)
(* from many goroutines.  A context is the span it was last derived from   *)
(* (0: none) and carries the execution state of the nearest store span.    *)
(* The spans are used as the generated methods use them; the wrappers that *)
(* run inside a store span are the caller's code, and may keep its context *)
(* after it has ended.                                                     *)
(***************************************************************************)
EXTENDS Integers, Sequences, FiniteSets

CONSTANTS
  Modes,            \* route modes: "read", "primary", "transaction"
  Routes,           \* RouteMetadata of the physical executions
  Reasons,          \* flush reasons of copy batches
  Batches,          \* copy batches observed by one observer
  NumInstruments,   \* instruments that setMeterProvider creates
  Programs          \* what applications do, by name:
                    \*   meshes, that spans are started on
                    \*   providers, meter providers passed to WithMeterProvider
                    \*   modes, subset of Modes
                    \*   batches, subset of Batches
                    \*   maxProviders, a bound on the calls of WithMeterProvider
                    \*   maxFanout, a bound on the replica sets of a logical query
                    \*   maxStoreSpans, a bound on the store spans started
                    \*   maxSpans, a bound on the spans started

ASSUME TelemetryAssumption ==
  /\ "unresolved" \notin Modes
  /\ NumInstruments \in Nat
  /\ \A p \in DOMAIN Programs :
       /\ Programs[p].modes \subseteq Modes
       /\ Programs[p].batches \subseteq Batches
       /\ Programs[p].maxFanout \in Nat

VARIABLES
  program,          \* what this application does
  instruments,      \* the provider of each instrument, "nil" for none
  setup,            \* the builder's error, and the providers passed so far
  spans,            \* every span started
  gauge,            \* physicalInFlight, by attributes
  executed,         \* the execution states that are set, by store span
  reasons,          \* the attribute slots that observers append a reason to
  observed          \* what the observer has done for each batch

vars == <<program, instruments, setup, spans, gauge, executed, reasons, observed>>

NoRoute == [set |-> "none", node |-> "none", shard |-> "none"]

\* The attributes of a physical query: in a transaction the node is unknown.
attributes(route, mode) ==
  [set |-> route.set, shard |-> route.shard, mode |-> mode, error |-> FALSE,
   node |-> IF mode = "transaction" THEN "transaction" ELSE route.node]

Attributes ==
  {[attributes(r, mode) EXCEPT !.error = e] : r \in Routes, mode \in Modes, e \in BOOLEAN}

-----------------------------------------------------------------------------
(* Instruments.                                                            *)

\* setMeterProvider creates and assigns the instruments in order; created says
\* how many it gets before one fails.
setMeterProvider(p, created) ==
  [i \in 1 .. NumInstruments |-> IF i <= created THEN p ELSE instruments[i]]

\* The first error stays.
builderErr(e, created) ==
  IF e = "none" /\ created < NumInstruments THEN "metrics" ELSE e

\* newMeshTelemetry with the global provider: nothing is kept when it fails.
Init ==
  /\ program \in DOMAIN Programs
  /\ \E ok \in BOOLEAN :
       /\ instruments = [i \in 1 .. NumInstruments |-> IF ok THEN "global" ELSE "nil"]
       /\ setup = [err |-> IF ok THEN "none" ELSE "metrics", providers |-> <<"global">>,
                   built |-> FALSE]
  /\ spans = <<>> /\ executed = {}
  /\ gauge = [a \in Attributes |-> 0]
  /\ reasons = [b \in Batches \cup {"shared"} |-> "none"]
  /\ observed = [b \in Batches |-> [stage |-> "running", reason |-> "none", point |-> "none"]]

WithMeterProvider(p, created) ==
  /\ ~ setup.built /\ Len(setup.providers) <= Programs[program].maxProviders
  /\ instruments' = setMeterProvider(p, created)
  /\ setup' = [setup EXCEPT !.err = builderErr(@, created),
                            !.providers = Append(@, p)]
  /\ UNCHANGED <<program, spans, gauge, executed, reasons, observed>>

\* Build hands the telemetry to the mesh.
Build ==
  /\ ~ setup.built /\ setup.err = "none"
  /\ setup' = [setup EXCEPT !.built = TRUE]
  /\ UNCHANGED <<program, instruments, spans, gauge, executed, reasons, observed>>

-----------------------------------------------------------------------------
(* Spans.                                                                  *)

StoreSpans == {s \in DOMAIN spans : spans[s].kind = "store"}
Logical    == {s \in DOMAIN spans : spans[s].kind = "logical"}
Physical   == {s \in DOMAIN spans : spans[s].kind = "physical"}
Children(l) == {s \in Physical : spans[s].parent = l}

\* The execution state that a context carries.
execution(ctx) == IF ctx = 0 THEN 0 ELSE spans[ctx].exec

NewSpan(kind, m, ctx) ==
  [kind |-> kind, mesh |-> m, parent |-> ctx, exec |-> execution(ctx), open |-> TRUE,
   mode |-> "unresolved", scope |-> "unresolved", count |-> 0, async |-> FALSE,
   route |-> NoRoute, delegated |-> FALSE, seen |-> 0]

Start(span) ==
  setup.built /\ Len(spans) < Programs[program].maxSpans /\ spans' = Append(spans, span)

\* Contexts that a caller may pass to a store method.
CallerContexts == {0} \cup StoreSpans

StartStoreQuerySpan(m, ctx) ==
  /\ Cardinality(StoreSpans) < Programs[program].maxStoreSpans
  /\ Start([NewSpan("store", m, ctx) EXCEPT !.exec = Len(spans) + 1])
  /\ UNCHANGED <<program, instruments, setup, gauge, executed, reasons, observed>>

\* Deviation: the state of any mesh's wrapper is marked.
marksDeviation(m, ctx) == {execution(ctx)} \ {0}

\* A logical query marks the nearest wrapper's state if it is of its own mesh.
marks(m, ctx) == {e \in {execution(ctx)} \ {0} : spans[e].mesh = m}

StartLogicalQuerySpan(m, ctx, async) ==
  /\ Start([NewSpan("logical", m, ctx) EXCEPT !.async = async])
  /\ executed' = executed \cup marks(m, ctx)
  /\ UNCHANGED <<program, instruments, setup, gauge, reasons, observed>>

routeScope(n) == IF n > 1 THEN "fanout" ELSE "single"

\* SetRoute, once per logical query; asynchronous copies go to the primary.
SetRoute(l, mode, n) ==
  /\ spans[l].open /\ spans[l].mode = "unresolved"
  /\ spans[l].async => mode = "primary"
  /\ spans' = [spans EXCEPT ![l].mode = mode, ![l].scope = routeScope(n),
                            ![l].count = n]
  /\ UNCHANGED <<program, instruments, setup, gauge, executed, reasons, observed>>

\* A transaction over several replica sets is refused once its route is known.
Refused(l) == spans[l].mode = "transaction" /\ spans[l].count > 1

\* startPhysicalQuerySpan: for one of the executions of a logical query, or
\* for a copy batch, in the context of the submission that opened the batch.
StartPhysicalQuerySpan(l, route) ==
  LET mode == spans[l].mode
  IN  /\ mode # "unresolved" /\ ~ Refused(l)
      /\ spans[l].open
      /\ ~ spans[l].async => Cardinality(Children(l)) < spans[l].count
      /\ Start([NewSpan("physical", spans[l].mesh, l) EXCEPT
                  !.mode = mode, !.route = route])
      /\ gauge' = [gauge EXCEPT ![attributes(route, mode)] = @ + 1]
      /\ UNCHANGED <<program, instruments, setup, executed, reasons, observed>>

\* Deviation: the error type is already among the attributes.
endAttributesDeviation(s, failed) ==
  [attributes(spans[s].route, spans[s].mode) EXCEPT !.error = failed]

\* The attributes of the decrement: those the span was started with.
endAttributes(s, failed) == attributes(spans[s].route, spans[s].mode)

\* PhysicalQuerySpan.End
EndPhysical(s, failed) ==
  /\ spans[s].open
  /\ gauge' = [gauge EXCEPT ![endAttributes(s, failed)] = @ - 1]
  /\ spans' = [spans EXCEPT ![s].open = FALSE]
  /\ UNCHANGED <<program, instruments, setup, executed, reasons, observed>>

\* LogicalQuerySpan.End, deferred first in the generated method: the routing
\* failed, or every execution has ended.
EndLogical(l) ==
  /\ spans[l].open
  /\ \/ spans[l].mode = "unresolved" \/ Refused(l)
     \/ /\ \A s \in Children(l) : ~ spans[s].open
        /\ spans[l].async \/ Cardinality(Children(l)) = spans[l].count
  /\ spans' = [spans EXCEPT ![l].open = FALSE]
  /\ UNCHANGED <<program, instruments, setup, gauge, executed, reasons, observed>>

\* StoreQuerySpan.End: the caller's wrapper has returned.
EndStore(s) ==
  /\ spans[s].open
  /\ spans' = [spans EXCEPT ![s].open = FALSE, ![s].delegated = s \in executed,
                            ![s].seen = Len(spans)]
  /\ UNCHANGED <<program, instruments, setup, gauge, executed, reasons, observed>>

-----------------------------------------------------------------------------
(* The observer of the copy batches of one query and replica set, called   *)
(* by the goroutines of several batches at a time.                         *)

\* Deviation: a reason is appended to the base attributes themselves, into
\* their spare capacity.
slotDeviation(b) == "shared"

\* The observer appends to a copy of the base attributes.
slot(b) == b

ObserveAppend(b, reason) ==
  /\ setup.built /\ observed[b].stage = "running"
  /\ reasons' = [reasons EXCEPT ![slot(b)] = reason]
  /\ observed' = [observed EXCEPT ![b].stage = "appended", ![b].reason = reason]
  /\ UNCHANGED <<program, instruments, setup, spans, gauge, executed>>

ObserveRecord(b) ==
  /\ observed[b].stage = "appended"
  /\ observed' = [observed EXCEPT ![b].stage = "recorded", ![b].point = reasons[slot(b)]]
  /\ UNCHANGED <<program, instruments, setup, spans, gauge, executed, reasons>>

-----------------------------------------------------------------------------
Next ==
  LET do == Programs[program]
  IN  \/ \E p \in do.providers, k \in 0 .. NumInstruments : WithMeterProvider(p, k)
      \/ Build
      \/ \E m \in do.meshes, ctx \in CallerContexts :
           \/ StartStoreQuerySpan(m, ctx)
           \/ \E async \in BOOLEAN : StartLogicalQuerySpan(m, ctx, async)
      \/ \E l \in Logical, mode \in do.modes, n \in 0 .. do.maxFanout : SetRoute(l, mode, n)
      \/ \E l \in Logical, route \in Routes : StartPhysicalQuerySpan(l, route)
      \/ \E s \in Physical, failed \in BOOLEAN : EndPhysical(s, failed)
      \/ \E l \in Logical : EndLogical(l)
      \/ \E s \in StoreSpans : EndStore(s)
      \/ \E b \in do.batches, reason \in Reasons : ObserveAppend(b, reason)
      \/ \E b \in do.batches : ObserveRecord(b)

Spec == Init /\ [][Next]_vars

-----------------------------------------------------------------------------
\* The in-flight counter agrees with the physical queries that are running,
\* for each combination of attributes: whatever fails, and in whatever order
\* goroutines start and end, it never drifts and it returns to zero.
GaugeExact ==
  \A a \in Attributes :
    gauge[a] = Cardinality({s \in Physical : /\ spans[s].open
                                             /\ attributes(spans[s].route, spans[s].mode) = a})

\* A store span is reported as delegated exactly if a logical query of the
\* span's own mesh was started under it, directly and not through another
\* wrapper, by the time it ended: a query of another mesh, a query of a nested
\* wrapper, and one that a leftover goroutine starts later do not count.
DelegatedExact ==
  \A s \in StoreSpans : ~ spans[s].open =>
    (spans[s].delegated <=>
      \E l \in Logical : /\ l <= spans[s].seen
                         /\ spans[l].mesh = spans[s].mesh
                         /\ spans[l].parent = s)

\* The route scope of a completed logical query says how many database
\* executions it made: none or one under "single", several under "fanout"
\* (unless a transaction over them was refused), none if it was not routed.
ScopeMatchesExecutions ==
  \A l \in Logical : ~ spans[l].open /\ ~ spans[l].async =>
    LET n == Cardinality(Children(l))
    IN  /\ spans[l].scope = "single" => n <= 1
        /\ spans[l].scope = "fanout" => n > 1 \/ Refused(l)
        /\ spans[l].scope = "unresolved" => n = 0

\* What a store or logical span says of itself when it ends is what ran under it.
SpansReportWhatRan == DelegatedExact /\ ScopeMatchesExecutions

\* A mesh that was built has all of its instruments, and all from the provider
\* configured last, although setMeterProvider replaces them one by one and may
\* stop half way.
InstrumentsComplete ==
  setup.built =>
    \A i \in 1 .. NumInstruments : instruments[i] = setup.providers[Len(setup.providers)]

\* Each batch is recorded under its own flush reason, although the goroutines
\* of several batches call the same observer at the same time.
ObservedUnderOwnReason ==
  \A b \in Batches : observed[b].stage = "recorded" => observed[b].point = observed[b].reason

\* Copy batches are recorded under their own reason and with all instruments of the
\* provider configured last.
BatchesRecorded == InstrumentsComplete /\ ObservedUnderOwnReason
=============================================================================
