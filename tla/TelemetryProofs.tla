--------------------------- MODULE TelemetryProofs ---------------------------
(***************************************************************************)
(* Proofs about Telemetry, for any number of spans, meshes, routes,        *)
(* batches and instruments: the in-flight gauge is exact, a span reports   *)
(* what ran under it, and batches are recorded under their own reason.     *)
(***************************************************************************)
EXTENDS Telemetry, TLAPS, FiniteSetTheorems

\* The meshes that some application starts spans on.
Meshes == UNION {Programs[p].meshes : p \in DOMAIN Programs}

\* What a span may be.
Span ==
  [kind : {"store", "logical", "physical"}, mesh : Meshes, parent : Nat, exec : Nat,
   open : BOOLEAN, mode : Modes \cup {"unresolved"},
   scope : {"unresolved", "single", "fanout"}, count : Nat, async : BOOLEAN,
   route : Routes \cup {NoRoute}, delegated : BOOLEAN, seen : Nat]

\* Spans are records, a physical one of a known route.
SpanType ==
  /\ program \in DOMAIN Programs
  /\ spans \in Seq(Span)
  /\ \A s \in Physical : spans[s].route \in Routes /\ spans[s].mode \in Modes

\* The physical queries that run with attributes a.
Running(a) == {s \in Physical : spans[s].open /\ attributes(spans[s].route, spans[s].mode) = a}

\* The counter is a number for each combination, and agrees.
GaugeInv == gauge \in [Attributes -> Int] /\ GaugeExact

\* Query l is a logical query of the mesh of store span s, started under it.
Under(l, s) == l \in Logical /\ spans[l].mesh = spans[s].mesh /\ spans[l].parent = s

\* Contexts come from spans started before, a store span carries its own state, and
\* that is set exactly if a logical query of its mesh was started under it.
StoreInv ==
  /\ \A s \in DOMAIN spans : spans[s].parent < s
  /\ \A s \in StoreSpans : spans[s].exec = s
  /\ executed \subseteq StoreSpans
  /\ \A s \in StoreSpans : s \in executed <=> \E l \in Logical : Under(l, s)
  /\ \A s \in StoreSpans : ~ spans[s].open =>
       /\ spans[s].seen <= Len(spans)
       /\ spans[s].delegated <=> \E l \in Logical : l <= spans[s].seen /\ Under(l, s)

\* A logical query x has executions c only once it is routed and not refused, no more
\* than its route allows, and when it ends no less.
Fits(x, c) ==
  LET refused == x.mode = "transaction" /\ x.count > 1
  IN  /\ x.mode = "unresolved" => x.scope = "unresolved"
      /\ x.mode # "unresolved" => x.scope = routeScope(x.count)
      /\ x.mode = "unresolved" \/ refused => c = {}
      /\ ~ x.async => Cardinality(c) <= x.count
      /\ ~ x.open /\ ~ x.async => x.mode = "unresolved" \/ refused \/ Cardinality(c) = x.count

\* So do all of them.
LogicalInv == \A l \in Logical : Fits(spans[l], Children(l))

\* The providers that instruments may come from.
Providers == {"global"} \cup UNION {Programs[p].providers : p \in DOMAIN Programs}

\* As long as the builder has no error, the instruments are those of the provider
\* configured last.
SetupInv ==
  /\ program \in DOMAIN Programs
  /\ setup \in [err : {"none", "metrics"}, providers : Seq(Providers), built : BOOLEAN]
  /\ setup.providers # <<>>
  /\ setup.built => setup.err = "none"
  /\ setup.err = "none" =>
       \A i \in 1 .. NumInstruments : instruments[i] = setup.providers[Len(setup.providers)]

\* Between the two steps of the observer a batch finds its own reason in its slot.
ObserverInv ==
  /\ program \in DOMAIN Programs
  /\ DOMAIN reasons = Batches \cup {"shared"}
  /\ observed \in [Batches -> [stage : {"running", "appended", "recorded"},
                               reason : Reasons \cup {"none"}, point : Reasons \cup {"none"}]]
  /\ \A b \in Batches : observed[b].stage = "appended" => reasons[b] = observed[b].reason
  /\ \A b \in Batches : observed[b].stage = "recorded" => observed[b].point = observed[b].reason

-----------------------------------------------------------------------------
(* Setup and observers.                                                    *)

\* newMeshTelemetry has created all instruments of the global provider or none.
LEMMA SetupInit == Init => SetupInv
<1> SUFFICES ASSUME Init PROVE SetupInv
  BY Zenon
<1>1. PICK ok \in BOOLEAN :
        /\ instruments = [i \in 1 .. NumInstruments |-> IF ok THEN "global" ELSE "nil"]
        /\ setup = [err |-> IF ok THEN "none" ELSE "metrics", providers |-> <<"global">>,
                    built |-> FALSE]
  BY Zenon DEF Init
<1>2. program \in DOMAIN Programs
  BY Zenon DEF Init
<1>3. "global" \in Providers
  BY Zenon DEF Providers
<1>4. <<"global">> \in Seq(Providers) /\ <<"global">> # <<>> /\ Len(<<"global">>) = 1
  BY <1>3
<1>5. <<"global">>[1] = "global"
  OBVIOUS
<1> QED
  BY <1>1, <1>2, <1>4, <1>5 DEF SetupInv

\* WithMeterProvider replaces all instruments, or leaves an error that stays; Build
\* refuses a builder with an error and is the end of it.
LEMMA SetupStep ==
  ASSUME SetupInv, [Next]_vars
  PROVE  SetupInv'
<1>1. CASE UNCHANGED <<program, setup, instruments>>
  BY Zenon, <1>1 DEF SetupInv
<1>2. ASSUME NEW p \in Programs[program].providers, NEW k \in 0 .. NumInstruments,
             WithMeterProvider(p, k)
      PROVE  SetupInv'
  <2>1. p \in Providers /\ program' = program
    BY Zenon, <1>2 DEF Providers, SetupInv, WithMeterProvider
  <2>2. setup' = [setup EXCEPT !.err = builderErr(setup.err, k),
                               !.providers = Append(setup.providers, p)]
    BY Zenon, <1>2 DEF WithMeterProvider
  <2>3. ~ setup.built
    BY Zenon, <1>2 DEF WithMeterProvider
  <2>4. builderErr(setup.err, k) \in {"none", "metrics"}
    BY Zenon DEF builderErr, SetupInv
  <2>5. /\ setup'.err = builderErr(setup.err, k) /\ setup'.built = setup.built
        /\ setup'.providers = Append(setup.providers, p)
        /\ setup' \in [err : {"none", "metrics"}, providers : Seq(Providers), built : BOOLEAN]
    <3>1. Append(setup.providers, p) \in Seq(Providers)
      BY <2>1 DEF SetupInv
    <3>2. setup \in [err : {"none", "metrics"}, providers : Seq(Providers), built : BOOLEAN]
      BY Zenon DEF SetupInv
    <3> QED
      BY Zenon, <2>2, <2>4, <3>1, <3>2
  <2>6. /\ Len(setup'.providers) = Len(setup.providers) + 1
        /\ setup'.providers[Len(setup'.providers)] = p
        /\ setup'.providers # <<>>
    BY <2>1, <2>5 DEF SetupInv
  <2>7. ASSUME setup'.err = "none", NEW i \in 1 .. NumInstruments
        PROVE  instruments'[i] = p
    <3>1. k >= NumInstruments
      BY <2>5, <2>7, TelemetryAssumption DEF builderErr
    <3> QED
      BY <3>1, <1>2, TelemetryAssumption DEF WithMeterProvider, setMeterProvider
  <2> QED
    BY Zenon, <2>1, <2>3, <2>5, <2>6, <2>7 DEF SetupInv
<1>3. CASE Build
  <2>1. setup' = [setup EXCEPT !.built = TRUE] /\ setup.err = "none"
    BY Zenon, <1>3 DEF Build
  <2>2. /\ setup' \in [err : {"none", "metrics"}, providers : Seq(Providers), built : BOOLEAN]
        /\ setup'.err = "none" /\ setup'.providers = setup.providers
    BY ZenonT(30), <2>1 DEF SetupInv
  <2> QED
    BY Zenon, <1>3, <2>2 DEF SetupInv, Build
<1> QED
  BY Zenon, <1>1, <1>2, <1>3 DEF Next, vars, StartStoreQuerySpan, StartLogicalQuerySpan, SetRoute,
     StartPhysicalQuerySpan, EndPhysical, EndLogical, EndStore, ObserveAppend, ObserveRecord

\* No batch has been observed.
LEMMA ObserverInit == Init => ObserverInv
<1> SUFFICES ASSUME Init PROVE ObserverInv
  BY Zenon
<1>1. /\ program \in DOMAIN Programs
      /\ reasons = [b \in Batches \cup {"shared"} |-> "none"]
      /\ observed = [b \in Batches |-> [stage |-> "running", reason |-> "none", point |-> "none"]]
  BY Zenon DEF Init
<1> QED
  BY <1>1 DEF ObserverInv

\* The observer writes and reads the slot of its own batch only.
LEMMA ObserverStep ==
  ASSUME ObserverInv, [Next]_vars
  PROVE  ObserverInv'
<1>1. CASE UNCHANGED <<program, reasons, observed>>
  BY Zenon, <1>1 DEF ObserverInv
<1>2. ASSUME NEW b \in Programs[program].batches, NEW reason \in Reasons, ObserveAppend(b, reason)
      PROVE  ObserverInv'
  <2>1. b \in Batches
    BY Zenon, <1>2, TelemetryAssumption DEF ObserverInv
  <2>2. /\ reasons' = [reasons EXCEPT ![b] = reason]
        /\ observed' = [observed EXCEPT ![b].stage = "appended", ![b].reason = reason]
        /\ program' = program
    BY Zenon, <1>2 DEF ObserveAppend, slot
  <2>3. /\ observed' \in [Batches -> [stage : {"running", "appended", "recorded"},
                               reason : Reasons \cup {"none"}, point : Reasons \cup {"none"}]]
        /\ observed'[b].stage = "appended" /\ observed'[b].reason = reason
        /\ \A c \in Batches : c # b => observed'[c] = observed[c]
    <3> DEFINE T == [stage : {"running", "appended", "recorded"},
                     reason : Reasons \cup {"none"}, point : Reasons \cup {"none"}]
               old == observed[b]
               new == [old EXCEPT !.stage = "appended", !.reason = reason]
    <3>1. observed \in [Batches -> T]
      BY Zenon DEF ObserverInv
    <3>2. old \in T
      BY Zenon, <2>1, <3>1
    <3>3. new \in T /\ new.stage = "appended" /\ new.reason = reason
      BY ZenonT(30), <3>2
    <3>4. observed' = [observed EXCEPT ![b] = new]
      BY ZenonT(30), <2>1, <2>2, <3>1
    <3> HIDE DEF T, new, old
    <3>5. observed' \in [Batches -> T] /\ observed'[b] = new
      BY Zenon, <2>1, <3>1, <3>3, <3>4
    <3>6. \A c \in Batches : c # b => observed'[c] = observed[c]
      BY Zenon, <3>1, <3>4
    <3> QED
      BY Zenon, <3>3, <3>5, <3>6 DEF T
  <2>4. /\ DOMAIN reasons' = Batches \cup {"shared"} /\ reasons'[b] = reason
        /\ \A c \in Batches : c # b => reasons'[c] = reasons[c]
    BY Zenon, <2>1, <2>2 DEF ObserverInv
  <2>5. ASSUME NEW c \in Batches
        PROVE  /\ observed'[c].stage = "appended" => reasons'[c] = observed'[c].reason
               /\ observed'[c].stage = "recorded" => observed'[c].point = observed'[c].reason
    BY <2>1, <2>3, <2>4 DEF ObserverInv
  <2> QED
    BY Zenon, <2>2, <2>3, <2>4, <2>5 DEF ObserverInv
<1>3. ASSUME NEW b \in Programs[program].batches, ObserveRecord(b)
      PROVE  ObserverInv'
  <2>1. b \in Batches
    BY Zenon, <1>3, TelemetryAssumption DEF ObserverInv
  <2>2. /\ reasons' = reasons /\ observed[b].stage = "appended"
        /\ observed' = [observed EXCEPT ![b].stage = "recorded", ![b].point = reasons[b]]
        /\ program' = program
    BY Zenon, <1>3 DEF ObserveRecord, slot
  <2>3. reasons[b] = observed[b].reason
    BY Zenon, <2>1, <2>2 DEF ObserverInv
  <2>4. /\ observed' \in [Batches -> [stage : {"running", "appended", "recorded"},
                               reason : Reasons \cup {"none"}, point : Reasons \cup {"none"}]]
        /\ observed'[b].stage = "recorded" /\ observed'[b].point = observed'[b].reason
        /\ \A c \in Batches : c # b => observed'[c] = observed[c]
    <3> DEFINE T == [stage : {"running", "appended", "recorded"},
                     reason : Reasons \cup {"none"}, point : Reasons \cup {"none"}]
               old == observed[b]
               new == [old EXCEPT !.stage = "recorded", !.point = reasons[b]]
    <3>1. observed \in [Batches -> T]
      BY Zenon DEF ObserverInv
    <3>2. old \in T /\ reasons[b] = old.reason
      BY Zenon, <2>1, <2>3, <3>1
    <3>3. new \in T /\ new.stage = "recorded" /\ new.point = new.reason
      BY ZenonT(30), <3>2
    <3>4. observed' = [observed EXCEPT ![b] = new]
      BY ZenonT(30), <2>1, <2>2, <3>1
    <3> HIDE DEF T, new, old
    <3>5. observed' \in [Batches -> T] /\ observed'[b] = new
      BY Zenon, <2>1, <3>1, <3>3, <3>4
    <3>6. \A c \in Batches : c # b => observed'[c] = observed[c]
      BY Zenon, <3>1, <3>4
    <3> QED
      BY Zenon, <3>3, <3>5, <3>6 DEF T
  <2>5. ASSUME NEW c \in Batches
        PROVE  /\ observed'[c].stage = "appended" => reasons'[c] = observed'[c].reason
               /\ observed'[c].stage = "recorded" => observed'[c].point = observed'[c].reason
    BY <2>1, <2>2, <2>4 DEF ObserverInv
  <2> QED
    BY Zenon, <2>2, <2>4, <2>5 DEF ObserverInv
<1> QED
  BY ZenonT(30), <1>1, <1>2, <1>3 DEF Next, vars, WithMeterProvider, Build, StartStoreQuerySpan,
     StartLogicalQuerySpan, SetRoute, StartPhysicalQuerySpan, EndPhysical, EndLogical, EndStore

\* Every batch that is recorded is recorded under its own reason, and by instruments
\* of the provider configured last, although setMeterProvider replaces them one by
\* one and the goroutines of several batches call one observer.
THEOREM BatchesRecordedHolds == Spec => []BatchesRecorded
<1>1. SetupInv /\ ObserverInv => BatchesRecorded
  BY Zenon DEF SetupInv, ObserverInv, BatchesRecorded, InstrumentsComplete, ObservedUnderOwnReason
<1> QED
  BY <1>1, SetupInit, SetupStep, ObserverInit, ObserverStep, PTL DEF Spec

-----------------------------------------------------------------------------
(* What the steps do to the spans.                                         *)

\* Span x is started.
Grown(x) ==
  /\ Len(spans) \in Nat
  /\ Len(spans') = Len(spans) + 1
  /\ DOMAIN spans = 1 .. Len(spans)
  /\ DOMAIN spans' = 1 .. Len(spans) + 1
  /\ \A s \in DOMAIN spans : spans'[s] = spans[s]
  /\ spans'[Len(spans) + 1] = x

\* Span s becomes y.
Changed(s, y) ==
  /\ Len(spans) \in Nat
  /\ Len(spans') = Len(spans)
  /\ DOMAIN spans = 1 .. Len(spans)
  /\ DOMAIN spans' = DOMAIN spans
  /\ \A t \in DOMAIN spans : t # s => spans'[t] = spans[t]
  /\ spans'[s] = y

\* Span y is span s, but for what is set when it is routed or ends.
Continues(y, s) ==
  /\ y \in Span
  /\ y.kind = spans[s].kind /\ y.mesh = spans[s].mesh /\ y.parent = spans[s].parent
  /\ y.exec = spans[s].exec /\ y.route = spans[s].route /\ y.async = spans[s].async

\* Start appends a span.
LEMMA StartGrows ==
  ASSUME SpanType, NEW x \in Span, Start(x)
  PROVE  Grown(x) /\ spans' \in Seq(Span)
BY DEF SpanType, Start, Grown

\* The span a method starts.
LEMMA NewSpanFacts ==
  ASSUME NEW kind \in {"store", "logical", "physical"}, NEW m \in Meshes, NEW ctx \in Nat,
         execution(ctx) \in Nat,
         NEW x, x = NewSpan(kind, m, ctx)
  PROVE  /\ x \in Span
         /\ x.kind = kind /\ x.mesh = m /\ x.parent = ctx /\ x.open /\ ~ x.async
         /\ x.mode = "unresolved" /\ x.scope = "unresolved" /\ x.count = 0
<1>1. NoRoute \in Routes \cup {NoRoute}
  BY Zenon
<1> QED
  BY <1>1 DEF NewSpan, Span

\* A context is that of a span, or none.
LEMMA ContextFacts ==
  ASSUME SpanType, NEW ctx \in {0} \cup DOMAIN spans
  PROVE  /\ ctx \in Nat /\ ctx < Len(spans) + 1 /\ execution(ctx) \in Nat
         /\ ctx # 0 => execution(ctx) = spans[ctx].exec
         /\ ctx = 0 => execution(ctx) = 0
<1>1. spans \in Seq(Span) /\ DOMAIN spans = 1 .. Len(spans) /\ Len(spans) \in Nat
  BY DEF SpanType
<1>2. \A s \in DOMAIN spans : spans[s] \in Span /\ spans[s].exec \in Nat
  <2>1. \A s \in DOMAIN spans : spans[s] \in Span
    BY <1>1
  <2> QED BY Zenon, <2>1 DEF Span
<1> QED
  BY <1>1, <1>2 DEF execution

\* A store span is a new span that carries its own number.
LEMMA StoreStarts ==
  ASSUME SpanType, NEW m \in Programs[program].meshes, NEW ctx \in CallerContexts,
         StartStoreQuerySpan(m, ctx)
  PROVE  \E x \in Span :
           /\ Grown(x) /\ spans' \in Seq(Span)
           /\ x.kind = "store" /\ x.mesh = m /\ x.parent = ctx /\ x.open
           /\ x.exec = Len(spans) + 1 /\ ctx \in Nat /\ ctx < Len(spans) + 1
<1> DEFINE old == NewSpan("store", m, ctx)
           x == [old EXCEPT !.exec = Len(spans) + 1]
<1>1. Len(spans) + 1 \in Nat
  BY DEF SpanType
<1>2. m \in Meshes /\ ctx \in {0} \cup DOMAIN spans
  BY Zenon DEF Meshes, SpanType, CallerContexts, StoreSpans
<1>3. old \in Span /\ old.kind = "store" /\ old.mesh = m /\ old.parent = ctx /\ old.open
      /\ ctx \in Nat /\ ctx < Len(spans) + 1
  <2>1. ctx \in Nat /\ ctx < Len(spans) + 1 /\ execution(ctx) \in Nat
    BY Zenon, <1>2, ContextFacts
  <2> QED BY <1>2, <2>1, NewSpanFacts
<1>4. Start(x)
  BY Zenon DEF StartStoreQuerySpan
<1> HIDE DEF old
<1>5. x \in Span /\ x.kind = "store" /\ x.mesh = m /\ x.parent = ctx /\ x.open
      /\ x.exec = Len(spans) + 1
  BY <1>1, <1>3 DEF Span
<1> QED
  BY Zenon, <1>3, <1>4, <1>5, StartGrows

\* The step starts x, a logical query of mesh m in context ctx that is not resolved yet.
LogicalBegins(x, m, ctx) ==
  /\ Grown(x) /\ spans' \in Seq(Span)
  /\ x.kind = "logical" /\ x.mesh = m /\ x.parent = ctx /\ x.open
  /\ x.mode = "unresolved" /\ x.scope = "unresolved" /\ x.count = 0
  /\ ctx \in Nat /\ ctx < Len(spans) + 1

\* A logical span is a new span that may be asynchronous.
LEMMA LogicalStarts ==
  ASSUME SpanType, NEW m \in Programs[program].meshes, NEW ctx \in CallerContexts,
         NEW async \in BOOLEAN, StartLogicalQuerySpan(m, ctx, async)
  PROVE  \E x \in Span : LogicalBegins(x, m, ctx)
<1> DEFINE old == NewSpan("logical", m, ctx)
           x == [old EXCEPT !.async = async]
<1>2. m \in Meshes /\ ctx \in {0} \cup DOMAIN spans
  BY Zenon DEF Meshes, SpanType, CallerContexts, StoreSpans
<1>3. old \in Span /\ old.kind = "logical" /\ old.mesh = m /\ old.parent = ctx /\ old.open
      /\ old.mode = "unresolved" /\ old.scope = "unresolved" /\ old.count = 0
      /\ ctx \in Nat /\ ctx < Len(spans) + 1
  <2>1. ctx \in Nat /\ ctx < Len(spans) + 1 /\ execution(ctx) \in Nat
    BY Zenon, <1>2, ContextFacts
  <2> QED BY <1>2, <2>1, NewSpanFacts
<1>4. Start(x)
  BY Zenon DEF StartLogicalQuerySpan
<1> HIDE DEF old
<1>5. x \in Span /\ x.kind = "logical" /\ x.mesh = m /\ x.parent = ctx /\ x.open
      /\ x.mode = "unresolved" /\ x.scope = "unresolved" /\ x.count = 0
  BY <1>3 DEF Span
<1> QED
  BY Zenon, <1>3, <1>4, <1>5, StartGrows DEF LogicalBegins

\* The step starts x, a physical query of the logical query l on a route.
PhysicalBegins(x, l, route) ==
  /\ Grown(x) /\ spans' \in Seq(Span)
  /\ x.kind = "physical" /\ x.parent = l /\ x.open
  /\ x.mode = spans[l].mode /\ x.mode \in Modes /\ x.route = route
  /\ l \in DOMAIN spans

\* A physical span is a new span under a routed logical query, with its mode.
LEMMA PhysicalStarts ==
  ASSUME SpanType, NEW l \in Logical, NEW route \in Routes, StartPhysicalQuerySpan(l, route)
  PROVE  \E x \in Span : PhysicalBegins(x, l, route)
<1> DEFINE old == NewSpan("physical", spans[l].mesh, l)
           x == [old EXCEPT !.mode = spans[l].mode, !.route = route]
<1>1. l \in DOMAIN spans /\ spans[l] \in Span /\ l \in Nat
  BY DEF SpanType, Logical
<1>2. spans[l].mesh \in Meshes /\ spans[l].mode \in Modes
  BY Zenon, <1>1 DEF Span, StartPhysicalQuerySpan
<1>3. old \in Span /\ old.kind = "physical" /\ old.parent = l /\ old.open
  <2>1. execution(l) \in Nat
    BY Zenon, <1>1, ContextFacts
  <2> QED BY <1>1, <1>2, <2>1, NewSpanFacts
<1>4. Start(x)
  BY Zenon DEF StartPhysicalQuerySpan
<1> HIDE DEF old
<1>5. x \in Span /\ x.kind = "physical" /\ x.parent = l /\ x.open
      /\ x.mode = spans[l].mode /\ x.route = route
  BY ZenonT(30), <1>2, <1>3 DEF Span
<1> QED
  BY Zenon, <1>1, <1>2, <1>4, <1>5, StartGrows DEF PhysicalBegins

\* Routing and ending change one span.
LEMMA ChangeFacts ==
  ASSUME SpanType, NEW s \in DOMAIN spans, NEW y \in Span, spans' = [spans EXCEPT ![s] = y]
  PROVE  Changed(s, y) /\ spans' \in Seq(Span)
BY DEF SpanType, Changed

\* SetRoute sets the route of a logical span.
LEMMA RouteChanges ==
  ASSUME SpanType, NEW l \in Logical, NEW mode \in Programs[program].modes,
         NEW n \in 0 .. Programs[program].maxFanout, SetRoute(l, mode, n)
  PROVE  \E y :
           /\ Changed(l, y) /\ Continues(y, l) /\ spans' \in Seq(Span)
           /\ y.open = spans[l].open /\ y.open /\ y.mode = mode /\ mode \in Modes /\ n \in Nat
           /\ y.scope = routeScope(n) /\ y.count = n /\ spans[l].mode = "unresolved"
           /\ l \in DOMAIN spans
<1> DEFINE old == spans[l]
           y == [old EXCEPT !.mode = mode, !.scope = routeScope(n), !.count = n]
<1>1. l \in DOMAIN spans /\ old \in Span
  BY DEF SpanType, Logical
<1>2. mode \in Modes /\ n \in Nat /\ routeScope(n) \in {"single", "fanout"}
  BY TelemetryAssumption DEF SpanType, routeScope
<1>3. /\ old.open /\ old.mode = "unresolved"
      /\ spans' = [spans EXCEPT ![l].mode = mode, ![l].scope = routeScope(n), ![l].count = n]
  BY Zenon DEF SetRoute
<1>4. spans' = [spans EXCEPT ![l] = y]
  BY ZenonT(30), <1>1, <1>3 DEF SpanType
<1>5. Continues(y, l) /\ y.open = old.open
      /\ y.mode = mode /\ y.scope = routeScope(n) /\ y.count = n
  BY ZenonT(30), <1>1, <1>2 DEF Span, Continues
<1> HIDE DEF y
<1>6. y \in Span
  BY Zenon, <1>5 DEF Continues
<1> QED
  BY ZenonT(30), <1>1, <1>2, <1>3, <1>4, <1>5, <1>6, ChangeFacts

\* End of a physical or logical span closes it.
LEMMA EndChanges ==
  ASSUME SpanType, NEW s \in DOMAIN spans, spans' = [spans EXCEPT ![s].open = FALSE]
  PROVE  \E y :
           /\ Changed(s, y) /\ Continues(y, s) /\ spans' \in Seq(Span)
           /\ ~ y.open /\ y.mode = spans[s].mode
           /\ y.scope = spans[s].scope /\ y.count = spans[s].count
<1> DEFINE old == spans[s]
           y == [old EXCEPT !.open = FALSE]
<1>1. old \in Span
  BY DEF SpanType
<1>4. spans' = [spans EXCEPT ![s] = y]
  BY <1>1 DEF SpanType
<1>5. Continues(y, s) /\ ~ y.open /\ y.mode = old.mode
      /\ y.scope = old.scope /\ y.count = old.count
  BY ZenonT(30), <1>1 DEF Span, Continues
<1> HIDE DEF y
<1>6. y \in Span
  BY Zenon, <1>5 DEF Continues
<1> QED
  BY Zenon, <1>4, <1>5, <1>6, ChangeFacts

\* End of a store span closes it and says whether its state is set.
LEMMA StoreEndChanges ==
  ASSUME SpanType, NEW s \in StoreSpans, EndStore(s)
  PROVE  \E y :
           /\ Changed(s, y) /\ Continues(y, s) /\ spans' \in Seq(Span)
           /\ ~ y.open /\ y.mode = spans[s].mode
           /\ y.delegated <=> s \in executed
           /\ y.seen = Len(spans)
           /\ s \in DOMAIN spans
<1> DEFINE old == spans[s]
           d == s \in executed
           y == [old EXCEPT !.open = FALSE, !.delegated = d, !.seen = Len(spans)]
<1>1. old \in Span /\ Len(spans) \in Nat /\ s \in DOMAIN spans
  BY DEF SpanType, StoreSpans
<1>3. spans' = [spans EXCEPT ![s].open = FALSE, ![s].delegated = s \in executed,
                             ![s].seen = Len(spans)]
  BY Zenon DEF EndStore
<1>4. spans' = [spans EXCEPT ![s] = y]
  BY ZenonT(30), <1>1, <1>3 DEF SpanType
<1>5. Continues(y, s) /\ ~ y.open /\ y.mode = old.mode
      /\ (y.delegated <=> s \in executed) /\ y.seen = Len(spans)
  <2>1. d \in BOOLEAN
    OBVIOUS
  <2>2. d <=> s \in executed
    BY Zenon
  <2> HIDE DEF d
  <2>3. Continues(y, s) /\ ~ y.open /\ y.mode = old.mode /\ y.delegated = d /\ y.seen = Len(spans)
    BY Zenon, <1>1, <2>1 DEF Span, Continues
  <2> QED BY Zenon, <2>2, <2>3
<1> HIDE DEF y
<1>6. y \in Span
  BY Zenon, <1>5 DEF Continues
<1> QED
  BY Zenon, <1>1, <1>4, <1>5, <1>6, ChangeFacts

\* The kinds of the spans once one is started.
LEMMA GrownKinds ==
  ASSUME NEW x, Grown(x)
  PROVE  /\ Len(spans) + 1 \notin DOMAIN spans
         /\ StoreSpans' = StoreSpans \cup {s \in {Len(spans) + 1} : x.kind = "store"}
         /\ Logical' = Logical \cup {s \in {Len(spans) + 1} : x.kind = "logical"}
         /\ Physical' = Physical \cup {s \in {Len(spans) + 1} : x.kind = "physical"}
<1> DEFINE n == Len(spans) + 1
<1>1. n \notin DOMAIN spans /\ DOMAIN spans' = DOMAIN spans \cup {n}
  BY DEF Grown
<1>2. spans'[n] = x /\ \A s \in DOMAIN spans : spans'[s] = spans[s]
  BY Zenon DEF Grown
<1> HIDE DEF n
<1>3. /\ StoreSpans' = StoreSpans \cup {s \in {n} : x.kind = "store"}
      /\ Logical' = Logical \cup {s \in {n} : x.kind = "logical"}
      /\ Physical' = Physical \cup {s \in {n} : x.kind = "physical"}
  BY <1>1, <1>2 DEF StoreSpans, Logical, Physical
<1> QED BY Zenon, <1>1, <1>3 DEF n

\* A span that is routed or ends keeps its kind.
LEMMA ChangedKinds ==
  ASSUME NEW s \in DOMAIN spans, NEW y, Changed(s, y), Continues(y, s)
  PROVE  /\ StoreSpans' = StoreSpans /\ Logical' = Logical /\ Physical' = Physical
         /\ \A l : Children(l)' = Children(l)
<1>1. \A t \in DOMAIN spans : spans'[t].kind = spans[t].kind /\ spans'[t].parent = spans[t].parent
  BY Zenon DEF Changed, Continues
<1>2. DOMAIN spans' = DOMAIN spans
  BY Zenon DEF Changed
<1>3. StoreSpans' = StoreSpans /\ Logical' = Logical /\ Physical' = Physical
  BY Zenon, <1>1, <1>2 DEF StoreSpans, Logical, Physical
<1> QED
  BY Zenon, <1>1, <1>3 DEF Children, Physical

\* The steps that have nothing to do with spans.
Quiet == UNCHANGED <<program, spans, gauge, executed>>

\* The steps of Next, for the proofs about spans.
LEMMA SpanCases ==
  ASSUME [Next]_vars
  PROVE  \/ Quiet
         \/ \E m \in Programs[program].meshes, ctx \in CallerContexts : StartStoreQuerySpan(m, ctx)
         \/ \E m \in Programs[program].meshes, ctx \in CallerContexts, async \in BOOLEAN :
              StartLogicalQuerySpan(m, ctx, async)
         \/ \E l \in Logical, mode \in Programs[program].modes,
               n \in 0 .. Programs[program].maxFanout : SetRoute(l, mode, n)
         \/ \E l \in Logical, route \in Routes : StartPhysicalQuerySpan(l, route)
         \/ \E s \in Physical, failed \in BOOLEAN : EndPhysical(s, failed)
         \/ \E l \in Logical : EndLogical(l)
         \/ \E s \in StoreSpans : EndStore(s)
BY Zenon DEF Quiet, Next, vars, WithMeterProvider, Build, ObserveAppend, ObserveRecord

-----------------------------------------------------------------------------
(* Types of spans.                                                         *)

\* There are no spans yet.
LEMMA SpanTypeInit == Init => SpanType
BY DEF Init, SpanType, Physical

\* A started span is typed if it is.
LEMMA GrownType ==
  ASSUME SpanType, NEW x \in Span, Grown(x), spans' \in Seq(Span), program' = program,
         x.kind = "physical" => x.route \in Routes /\ x.mode \in Modes
  PROVE  SpanType'
<1>1. \A s \in Physical' : s \in Physical \/ (s = Len(spans) + 1 /\ x.kind = "physical")
  <2>1. Physical' = Physical \cup {s \in {Len(spans) + 1} : x.kind = "physical"}
    BY Zenon, GrownKinds
  <2> QED BY Zenon, <2>1
<1>2. \A s \in Physical : spans'[s] = spans[s]
  BY Zenon DEF Grown, Physical
<1>3. spans'[Len(spans) + 1] = x
  BY Zenon DEF Grown
<1>4. ASSUME NEW s \in Physical'
      PROVE  spans'[s].route \in Routes /\ spans'[s].mode \in Modes
  BY Zenon, <1>1, <1>2, <1>3, <1>4 DEF SpanType
<1> QED BY Zenon, <1>4 DEF SpanType

\* A span that is routed or ends stays typed.
LEMMA ChangedType ==
  ASSUME SpanType, NEW s \in DOMAIN spans, NEW y, Changed(s, y), Continues(y, s),
         spans' \in Seq(Span), program' = program,
         y.mode = spans[s].mode \/ spans[s].kind # "physical"
  PROVE  SpanType'
<1>1. Physical' = Physical
  BY Zenon, ChangedKinds
<1>2. ASSUME NEW t \in Physical
      PROVE  spans'[t].route \in Routes /\ spans'[t].mode \in Modes
  <2>1. spans[t].route \in Routes /\ spans[t].mode \in Modes /\ t \in DOMAIN spans
        /\ spans[t].kind = "physical"
    BY Zenon DEF SpanType, Physical
  <2> QED BY Zenon, <2>1 DEF Changed, Continues
<1> QED BY Zenon, <1>1, <1>2 DEF SpanType

\* Every step keeps the types.
LEMMA SpanTypeStep ==
  ASSUME SpanType, [Next]_vars
  PROVE  SpanType'
<1>1. CASE Quiet
  BY Zenon, <1>1 DEF Quiet, SpanType, Physical
<1>2. ASSUME NEW m \in Programs[program].meshes, NEW ctx \in CallerContexts,
             StartStoreQuerySpan(m, ctx)
      PROVE  SpanType'
  <2>1. PICK x \in Span : Grown(x) /\ spans' \in Seq(Span) /\ x.kind = "store"
    BY Zenon, <1>2, StoreStarts
  <2>2. program' = program
    BY Zenon, <1>2 DEF StartStoreQuerySpan
  <2>3. x.kind # "physical"
    BY <2>1
  <2> QED BY Zenon, <2>1, <2>2, <2>3, GrownType
<1>3. ASSUME NEW m \in Programs[program].meshes, NEW ctx \in CallerContexts,
             NEW async \in BOOLEAN, StartLogicalQuerySpan(m, ctx, async)
      PROVE  SpanType'
  <2>1. PICK x \in Span : Grown(x) /\ spans' \in Seq(Span) /\ x.kind = "logical"
    <3>1. \E x \in Span : LogicalBegins(x, m, ctx)
      BY Zenon, <1>3, LogicalStarts
    <3> QED BY Zenon, <3>1 DEF LogicalBegins
  <2>2. program' = program
    BY Zenon, <1>3 DEF StartLogicalQuerySpan
  <2>3. x.kind # "physical"
    BY <2>1
  <2> QED BY Zenon, <2>1, <2>2, <2>3, GrownType
<1>4. ASSUME NEW l \in Logical, NEW mode \in Programs[program].modes,
             NEW n \in 0 .. Programs[program].maxFanout, SetRoute(l, mode, n)
      PROVE  SpanType'
  <2>1. PICK y : Changed(l, y) /\ Continues(y, l) /\ spans' \in Seq(Span)
    BY Zenon, <1>4, RouteChanges
  <2>2. program' = program
    BY Zenon, <1>4 DEF SetRoute
  <2>3. l \in DOMAIN spans /\ spans[l].kind # "physical"
    BY DEF Logical
  <2> QED BY Zenon, <2>1, <2>2, <2>3, ChangedType
<1>5. ASSUME NEW l \in Logical, NEW route \in Routes, StartPhysicalQuerySpan(l, route)
      PROVE  SpanType'
  <2>1. PICK x \in Span : Grown(x) /\ spans' \in Seq(Span) /\ x.mode \in Modes /\ x.route = route
    <3>1. \E x \in Span : PhysicalBegins(x, l, route)
      BY Zenon, <1>5, PhysicalStarts
    <3> QED BY Zenon, <3>1 DEF PhysicalBegins
  <2>2. program' = program
    BY Zenon, <1>5 DEF StartPhysicalQuerySpan
  <2> QED BY Zenon, <1>5, <2>1, <2>2, GrownType
<1>6. ASSUME NEW s \in DOMAIN spans, spans' = [spans EXCEPT ![s].open = FALSE],
             program' = program
      PROVE  SpanType'
  <2>1. PICK y : Changed(s, y) /\ Continues(y, s) /\ spans' \in Seq(Span)
                 /\ y.mode = spans[s].mode
    BY Zenon, <1>6, EndChanges
  <2> QED BY Zenon, <1>6, <2>1, ChangedType
<1>7. CASE \E s \in Physical, failed \in BOOLEAN : EndPhysical(s, failed)
  BY Zenon, <1>6, <1>7 DEF EndPhysical, Physical
<1>8. CASE \E l \in Logical : EndLogical(l)
  BY Zenon, <1>6, <1>8 DEF EndLogical, Logical
<1>9. ASSUME NEW s \in StoreSpans, EndStore(s)
      PROVE  SpanType'
  <2>1. PICK y : Changed(s, y) /\ Continues(y, s) /\ spans' \in Seq(Span)
                 /\ y.mode = spans[s].mode /\ s \in DOMAIN spans
    BY Zenon, <1>9, StoreEndChanges
  <2>2. program' = program
    BY Zenon, <1>9 DEF EndStore
  <2> QED BY Zenon, <2>1, <2>2, ChangedType
<1> QED
  BY Zenon, <1>1, <1>2, <1>3, <1>4, <1>5, <1>7, <1>8, <1>9, SpanCases

-----------------------------------------------------------------------------
(* The gauge.                                                              *)

\* The running physical queries are finitely many.
LEMMA RunningFinite ==
  ASSUME SpanType, NEW a
  PROVE  IsFiniteSet(Running(a)) /\ Running(a) \subseteq DOMAIN spans
<1>1. DOMAIN spans = 1 .. Len(spans) /\ Len(spans) \in Nat
  BY DEF SpanType
<1>2. IsFiniteSet(DOMAIN spans)
  BY <1>1, FS_Interval
<1>3. Running(a) \subseteq DOMAIN spans
  BY Zenon DEF Running, Physical
<1> QED BY Zenon, <1>2, <1>3, FS_Subset

\* GaugeExact in these terms.
LEMMA GaugeFacts ==
  GaugeInv <=> gauge \in [Attributes -> Int] /\ \A a \in Attributes : gauge[a] = Cardinality(Running(a))
BY Zenon DEF GaugeInv, GaugeExact, Running

\* Setting a field to what it is.
LEMMA SameField ==
  ASSUME NEW a, NEW b, NEW c, NEW e, NEW n, NEW k,
         k = [set |-> a, shard |-> b, mode |-> c, error |-> e, node |-> n]
  PROVE  [k EXCEPT !.error = e] = k
OBVIOUS

\* The attributes a physical query is counted under.
LEMMA AttributesType ==
  ASSUME NEW route \in Routes, NEW mode \in Modes
  PROVE  attributes(route, mode) \in Attributes
<1>1. [attributes(route, mode) EXCEPT !.error = FALSE] = attributes(route, mode)
  <2>1. PICK n : n = IF mode = "transaction" THEN "transaction" ELSE route.node
    BY Zenon
  <2>2. PICK k : k = attributes(route, mode)
    BY Zenon
  <2>3. k = [set |-> route.set, shard |-> route.shard, mode |-> mode, error |-> FALSE, node |-> n]
    BY Zenon, <2>1, <2>2 DEF attributes
  <2>4. [k EXCEPT !.error = FALSE] = k
    BY ZenonT(30), <2>3, SameField
  <2> QED BY Zenon, <2>2, <2>4
<1>2. PICK e \in BOOLEAN : e = FALSE
  BY Zenon
<1>3. [attributes(route, mode) EXCEPT !.error = e] = attributes(route, mode)
  BY Zenon, <1>1, <1>2
<1>4. [attributes(route, mode) EXCEPT !.error = e] \in Attributes
  BY DEF Attributes
<1> QED BY Zenon, <1>3, <1>4

\* A step that leaves the gauge and the running queries alone.
LEMMA GaugeFrame ==
  ASSUME GaugeInv, gauge' = gauge, \A a \in Attributes : Running(a)' = Running(a)
  PROVE  GaugeInv'
BY Zenon DEF GaugeInv, GaugeExact, Running

\* A step that starts or ends one physical query with attributes k.
LEMMA GaugeMove ==
  ASSUME SpanType, SpanType', GaugeInv, NEW k \in Attributes, NEW d \in {1, -1},
         gauge' = [gauge EXCEPT ![k] = gauge[k] + d],
         \A a \in Attributes \ {k} : Running(a)' = Running(a),
         Cardinality(Running(k)') = Cardinality(Running(k)) + d
  PROVE  GaugeInv'
<1>1. gauge \in [Attributes -> Int] /\ \A a \in Attributes : gauge[a] = Cardinality(Running(a))
  BY Zenon, GaugeFacts
<1>2. gauge' \in [Attributes -> Int]
  BY <1>1
<1>3. gauge'[k] = Cardinality(Running(k)')
  BY <1>1
<1>4. \A a \in Attributes \ {k} : gauge'[a] = Cardinality(Running(a)')
  BY Zenon, <1>1
<1> QED BY Zenon, <1>2, <1>3, <1>4 DEF GaugeInv, GaugeExact, Running

\* The running queries once a span is started.
LEMMA RunningGrown ==
  ASSUME NEW x, Grown(x), NEW a
  PROVE  Running(a)' = Running(a) \cup
           {s \in {Len(spans) + 1} :
              x.kind = "physical" /\ x.open /\ attributes(x.route, x.mode) = a}
<1>1. Physical' = Physical \cup {s \in {Len(spans) + 1} : x.kind = "physical"}
  BY Zenon, GrownKinds
<1>2. \A s \in Physical : spans'[s] = spans[s]
  BY Zenon DEF Grown, Physical
<1>3. spans'[Len(spans) + 1] = x
  BY Zenon DEF Grown
<1> QED BY Zenon, <1>1, <1>2, <1>3 DEF Running

\* The running queries once a span is routed or ends.
LEMMA RunningChanged ==
  ASSUME NEW s \in DOMAIN spans, NEW y, Changed(s, y), Continues(y, s), NEW a
  PROVE  /\ spans[s].kind # "physical" => Running(a)' = Running(a)
         /\ ~ y.open /\ y.mode = spans[s].mode => Running(a)' = Running(a) \ {s}
<1>1. Physical' = Physical
  BY Zenon, ChangedKinds
<1>2. spans'[s] = y /\ y.route = spans[s].route
  BY Zenon DEF Changed, Continues
<1>3. \A t \in Physical : t # s => spans'[t] = spans[t]
  BY Zenon DEF Changed, Physical
<1>4. ASSUME spans[s].kind # "physical" PROVE Running(a)' = Running(a)
  <2>1. \A t \in Physical : spans'[t] = spans[t]
    BY Zenon, <1>3, <1>4 DEF Physical
  <2> QED BY Zenon, <1>1, <2>1 DEF Running
<1>5. ASSUME ~ y.open, y.mode = spans[s].mode PROVE Running(a)' = Running(a) \ {s}
  BY Zenon, <1>1, <1>2, <1>3, <1>5 DEF Running
<1> QED BY Zenon, <1>4, <1>5

\* Nothing runs at first.
LEMMA GaugeInit == Init => GaugeInv
<1> SUFFICES ASSUME Init PROVE GaugeInv
  BY Zenon
<1>1. gauge = [a \in Attributes |-> 0] /\ spans = <<>>
  BY Zenon DEF Init
<1>2. \A a : Running(a) = {}
  BY <1>1 DEF Running, Physical
<1>3. Cardinality({}) = 0
  BY Zenon, FS_EmptySet
<1>4. gauge \in [Attributes -> Int]
  BY <1>1
<1>5. \A a \in Attributes : gauge[a] = 0
  BY Zenon, <1>1
<1>6. \A a \in Attributes : gauge[a] = Cardinality(Running(a))
  BY Zenon, <1>2, <1>3, <1>5
<1> QED BY Zenon, <1>4, <1>6, GaugeFacts

\* The counter moves with the physical queries.
LEMMA GaugeStep ==
  ASSUME SpanType, SpanType', GaugeInv, [Next]_vars
  PROVE  GaugeInv'
<1>1. CASE Quiet
  BY Zenon, <1>1 DEF Quiet, GaugeInv, GaugeExact, Physical
<1>2. ASSUME NEW m \in Programs[program].meshes, NEW ctx \in CallerContexts,
             StartStoreQuerySpan(m, ctx)
      PROVE  GaugeInv'
  <2>1. PICK x \in Span : Grown(x) /\ x.kind = "store"
    BY Zenon, <1>2, StoreStarts
  <2>2. gauge' = gauge
    BY Zenon, <1>2 DEF StartStoreQuerySpan
  <2>3. x.kind # "physical"
    BY <2>1
  <2>4. \A a \in Attributes : Running(a)' = Running(a)
    BY Zenon, <2>1, <2>3, RunningGrown
  <2> QED BY Zenon, <2>2, <2>4, GaugeFrame
<1>3. ASSUME NEW m \in Programs[program].meshes, NEW ctx \in CallerContexts,
             NEW async \in BOOLEAN, StartLogicalQuerySpan(m, ctx, async)
      PROVE  GaugeInv'
  <2>1. PICK x \in Span : Grown(x) /\ x.kind = "logical"
    <3>1. \E x \in Span : LogicalBegins(x, m, ctx)
      BY Zenon, <1>3, LogicalStarts
    <3> QED BY Zenon, <3>1 DEF LogicalBegins
  <2>2. gauge' = gauge
    BY Zenon, <1>3 DEF StartLogicalQuerySpan
  <2>3. x.kind # "physical"
    BY <2>1
  <2>4. \A a \in Attributes : Running(a)' = Running(a)
    BY Zenon, <2>1, <2>3, RunningGrown
  <2> QED BY Zenon, <2>2, <2>4, GaugeFrame
<1>4. ASSUME NEW l \in Logical, NEW mode \in Programs[program].modes,
             NEW n \in 0 .. Programs[program].maxFanout, SetRoute(l, mode, n)
      PROVE  GaugeInv'
  <2>1. PICK y : Changed(l, y) /\ Continues(y, l)
    BY Zenon, <1>4, RouteChanges
  <2>2. gauge' = gauge
    BY Zenon, <1>4 DEF SetRoute
  <2>3. l \in DOMAIN spans /\ spans[l].kind # "physical"
    BY DEF Logical
  <2>4. \A a \in Attributes : Running(a)' = Running(a)
    BY Zenon, <2>1, <2>3, RunningChanged
  <2> QED BY Zenon, <2>2, <2>4, GaugeFrame
<1>5. ASSUME NEW l \in Logical, NEW route \in Routes, StartPhysicalQuerySpan(l, route)
      PROVE  GaugeInv'
  <2>1. PICK x \in Span : /\ Grown(x) /\ x.kind = "physical" /\ x.open
                          /\ x.mode = spans[l].mode /\ x.mode \in Modes /\ x.route = route
    <3>1. \E x \in Span : PhysicalBegins(x, l, route)
      BY Zenon, <1>5, PhysicalStarts
    <3> QED BY Zenon, <3>1 DEF PhysicalBegins
  <2> DEFINE k == attributes(route, x.mode)
             n == Len(spans) + 1
  <2>2. gauge' = [gauge EXCEPT ![k] = gauge[k] + 1]
    BY Zenon, <1>5, <2>1 DEF StartPhysicalQuerySpan
  <2>3. k \in Attributes
    BY Zenon, <2>1, AttributesType
  <2>4. ASSUME NEW a \in Attributes \ {k} PROVE Running(a)' = Running(a)
    <3>1. attributes(x.route, x.mode) # a
      BY Zenon, <2>1
    <3>2. {s \in {n} : x.kind = "physical" /\ x.open /\ attributes(x.route, x.mode) = a} = {}
      BY Zenon, <3>1
    <3>3. Running(a)' = Running(a) \cup
            {s \in {n} : x.kind = "physical" /\ x.open /\ attributes(x.route, x.mode) = a}
      BY Zenon, <2>1, RunningGrown
    <3> HIDE DEF n
    <3> QED BY Zenon, <3>2, <3>3
  <2>5. Running(k)' = Running(k) \cup {n}
    <3>1. {s \in {n} : x.kind = "physical" /\ x.open /\ attributes(x.route, x.mode) = k} = {n}
      BY Zenon, <2>1
    <3>2. Running(k)' = Running(k) \cup
            {s \in {n} : x.kind = "physical" /\ x.open /\ attributes(x.route, x.mode) = k}
      BY Zenon, <2>1, RunningGrown
    <3> HIDE DEF n, k
    <3> QED BY Zenon, <3>1, <3>2
  <2>6. n \notin Running(k)
    BY Zenon, <2>1, GrownKinds DEF Running, Physical
  <2>7. Cardinality(Running(k)') = Cardinality(Running(k)) + 1
    BY Zenon, <2>5, <2>6, RunningFinite, FS_AddElement
  <2> HIDE DEF k, n
  <2>8. 1 \in {1, -1}
    BY Zenon
  <2> QED BY ZenonT(30), <2>2, <2>3, <2>4, <2>7, <2>8, GaugeMove
<1>6. ASSUME NEW s \in Physical, NEW failed \in BOOLEAN, EndPhysical(s, failed)
      PROVE  GaugeInv'
  <2>1. s \in DOMAIN spans /\ spans[s].route \in Routes /\ spans[s].mode \in Modes
    BY Zenon DEF SpanType, Physical
  <2>2. spans' = [spans EXCEPT ![s].open = FALSE] /\ spans[s].open
    BY Zenon, <1>6 DEF EndPhysical
  <2>3. PICK y : Changed(s, y) /\ Continues(y, s) /\ ~ y.open /\ y.mode = spans[s].mode
    BY Zenon, <2>1, <2>2, EndChanges
  <2>k. PICK k : k = attributes(spans[s].route, spans[s].mode)
    BY Zenon
  <2>4. gauge' = [gauge EXCEPT ![k] = gauge[k] - 1]
    BY Zenon, <1>6, <2>k DEF EndPhysical, endAttributes
  <2>5. k \in Attributes
    BY Zenon, <2>1, <2>k, AttributesType
  <2>6. s \in Running(k) /\ \A a : a # k => s \notin Running(a)
    BY Zenon, <2>2, <2>k DEF Running
  <2>7. \A a : Running(a)' = Running(a) \ {s}
    BY Zenon, <2>1, <2>3, RunningChanged
  <2>8. \A a \in Attributes \ {k} : Running(a)' = Running(a)
    BY Zenon, <2>6, <2>7
  <2>9. Cardinality(Running(k)') = Cardinality(Running(k)) - 1
    <3>1. IsFiniteSet(Running(k))
      BY Zenon, RunningFinite
    <3>2. PICK R : R = Running(k)
      BY Zenon
    <3>3. Cardinality(R \ {s}) = Cardinality(R) - 1
      BY ZenonT(30), <2>6, <3>1, <3>2, FS_RemoveElement
    <3> QED BY Zenon, <2>7, <3>2, <3>3
  <2>10. gauge[k] \in Int /\ gauge[k] = Cardinality(Running(k))
    BY Zenon, <2>5, GaugeFacts
  <2>11. PICK d \in {1, -1} : d = -1
    OBVIOUS
  <2>12. gauge[k] - 1 = gauge[k] + d /\ Cardinality(Running(k)) - 1 = Cardinality(Running(k)) + d
    BY <2>10, <2>11
  <2> QED BY Zenon, <2>4, <2>5, <2>8, <2>9, <2>11, <2>12, GaugeMove
<1>7. ASSUME NEW l \in Logical, EndLogical(l)
      PROVE  GaugeInv'
  <2>1. l \in DOMAIN spans /\ spans[l].kind # "physical"
    BY DEF Logical
  <2>2. spans' = [spans EXCEPT ![l].open = FALSE] /\ gauge' = gauge
    BY Zenon, <1>7 DEF EndLogical
  <2>3. PICK y : Changed(l, y) /\ Continues(y, l)
    BY Zenon, <2>1, <2>2, EndChanges
  <2>4. \A a \in Attributes : Running(a)' = Running(a)
    BY Zenon, <2>1, <2>3, RunningChanged
  <2> QED BY Zenon, <2>2, <2>4, GaugeFrame
<1>8. ASSUME NEW s \in StoreSpans, EndStore(s)
      PROVE  GaugeInv'
  <2>1. PICK y : Changed(s, y) /\ Continues(y, s)
    BY Zenon, <1>8, StoreEndChanges
  <2>2. s \in DOMAIN spans /\ spans[s].kind # "physical"
    BY DEF StoreSpans
  <2>3. gauge' = gauge
    BY Zenon, <1>8 DEF EndStore
  <2>4. \A a \in Attributes : Running(a)' = Running(a)
    BY Zenon, <2>1, <2>2, RunningChanged
  <2> QED BY Zenon, <2>3, <2>4, GaugeFrame
<1> QED
  BY ZenonT(30), <1>1, <1>2, <1>3, <1>4, <1>5, <1>6, <1>7, <1>8, SpanCases

\* The in-flight counter agrees with the physical queries that are running, for each
\* combination of attributes: PhysicalQuerySpan.End subtracts what its start added.
THEOREM GaugeExactHolds == Spec => []GaugeExact
<1>1. Init => SpanType /\ GaugeInv
  BY Zenon, SpanTypeInit, GaugeInit
<1>2. SpanType /\ GaugeInv /\ [Next]_vars => (SpanType /\ GaugeInv)'
  BY Zenon, SpanTypeStep, GaugeStep
<1>3. GaugeInv => GaugeExact
  BY Zenon DEF GaugeInv
<1> QED BY <1>1, <1>2, <1>3, PTL DEF Spec

-----------------------------------------------------------------------------
(* Store spans.                                                            *)

\* There are no spans yet.
LEMMA StoreInit == Init => StoreInv
<1> SUFFICES ASSUME Init PROVE StoreInv
  BY Zenon
<1>1. spans = <<>> /\ executed = {} /\ DOMAIN <<>> = {}
  BY DEF Init
<1> QED BY Zenon, <1>1 DEF StoreInv, StoreSpans

\* A span is started; M are the execution states that are marked.
LEMMA StoreGrown ==
  ASSUME SpanType, StoreInv, NEW x \in Span, Grown(x), x.parent < Len(spans) + 1,
         x.kind = "store" => x.exec = Len(spans) + 1 /\ x.open,
         NEW M, M \subseteq StoreSpans, executed' = executed \cup M,
         \A s \in StoreSpans :
           s \in M <=> x.kind = "logical" /\ x.mesh = spans[s].mesh /\ x.parent = s
  PROVE  StoreInv'
<1>n. PICK n : n = Len(spans) + 1
  BY Zenon
<1>0. n \in Nat /\ \A s \in DOMAIN spans : s \in Nat /\ s < n /\ s # n
  BY <1>n DEF Grown
<1>1. spans'[n] = x /\ \A s \in DOMAIN spans : spans'[s] = spans[s]
  BY Zenon, <1>n DEF Grown
<1>2. DOMAIN spans' = DOMAIN spans \cup {n} /\ Len(spans') = n
  BY <1>n DEF Grown
<1>3. /\ StoreSpans' = StoreSpans \cup {s \in {n} : x.kind = "store"}
      /\ Logical' = Logical \cup {s \in {n} : x.kind = "logical"}
  BY Zenon, <1>n, GrownKinds
<1>4. StoreSpans \subseteq DOMAIN spans /\ Logical \subseteq DOMAIN spans
  BY Zenon DEF StoreSpans, Logical
<1>5. \A s \in StoreSpans : \A l \in Logical : Under(l, s)' <=> Under(l, s)
  BY Zenon, <1>1, <1>3, <1>4 DEF Under
<1>6. \A s \in StoreSpans : Under(n, s)' <=> s \in M
  <2>1. n \in Logical' <=> x.kind = "logical"
    BY Zenon, <1>0, <1>3, <1>4
  <2> QED BY Zenon, <1>1, <1>4, <2>1 DEF Under
<1>7. \A l \in Logical' : l \in Logical \/ l = n
  BY Zenon, <1>3
<1>8. Logical \subseteq Logical' /\ \A s, l : Under(l, s)' => l \in Logical'
  BY Zenon, <1>3 DEF Under
<1>9. \A s \in DOMAIN spans' : spans'[s].parent < s
  BY Zenon, <1>1, <1>2, <1>n DEF StoreInv
<1>10. \A s \in StoreSpans' : spans'[s].exec = s
  BY ZenonT(30), <1>1, <1>3, <1>4, <1>n DEF StoreInv
<1>11. executed' \subseteq StoreSpans'
  BY Zenon, <1>3 DEF StoreInv
<1>12. ASSUME NEW s \in StoreSpans
       PROVE  s \in executed' <=> \E l \in Logical' : Under(l, s)'
  BY ZenonT(30), <1>5, <1>6, <1>7, <1>8 DEF StoreInv
<1>13. ASSUME NEW s \in StoreSpans, ~ spans'[s].open
       PROVE  /\ spans'[s].seen <= Len(spans')
              /\ spans'[s].delegated <=> \E l \in Logical' : l <= spans'[s].seen /\ Under(l, s)'
  <2>1. spans'[s] = spans[s]
    BY Zenon, <1>1, <1>4
  <2>2. /\ spans[s].seen <= Len(spans)
        /\ spans[s].delegated <=> \E l \in Logical : l <= spans[s].seen /\ Under(l, s)
    BY Zenon, <1>13, <2>1 DEF StoreInv
  <2>3. spans[s].seen \in Nat
    <3>1. spans[s] \in Span
      BY <1>4 DEF SpanType
    <3> QED BY Zenon, <3>1 DEF Span
  <2>4. Len(spans) \in Nat /\ spans[s].seen <= n /\ ~ n <= spans[s].seen
    BY <1>n, <2>2, <2>3 DEF SpanType
  <2> QED BY Zenon, <1>2, <1>5, <1>7, <1>8, <2>1, <2>2, <2>4
<1>14. ASSUME x.kind = "store"
       PROVE  /\ n \in executed' <=> \E l \in Logical' : Under(l, n)'
              /\ spans'[n].open
  <2>1. n \notin executed'
    BY Zenon, <1>0, <1>4 DEF StoreInv
  <2>2. x.kind # "logical"
    BY <1>14
  <2>3. ASSUME NEW l, Under(l, n)' PROVE FALSE
    <3>1. l \in Logical /\ spans'[l].parent = n
      BY Zenon, <1>3, <2>2, <2>3 DEF Under
    <3>2. spans[l].parent = n /\ l \in DOMAIN spans
      BY Zenon, <1>1, <1>4, <3>1
    <3>3. n < l
      BY Zenon, <3>2 DEF StoreInv
    <3> QED BY <1>0, <3>2, <3>3
  <2> QED BY Zenon, <1>1, <1>14, <2>1, <2>3
<1>15. \A s \in StoreSpans' : s \in StoreSpans \/ (s = n /\ x.kind = "store")
  BY Zenon, <1>3
<1> QED
  BY ZenonT(30), <1>9, <1>10, <1>11, <1>12, <1>13, <1>14, <1>15 DEF StoreInv

\* A span is routed or ends; if it is a store span, it says whether its state is set.
LEMMA StoreChanged ==
  ASSUME SpanType, StoreInv, NEW s \in DOMAIN spans, NEW y, Changed(s, y), Continues(y, s),
         executed' = executed,
         s \in StoreSpans => (y.delegated <=> s \in executed) /\ y.seen = Len(spans)
  PROVE  StoreInv'
<1>1. StoreSpans' = StoreSpans /\ Logical' = Logical
  BY Zenon, ChangedKinds
<1>2. DOMAIN spans' = DOMAIN spans /\ Len(spans') = Len(spans) /\ spans'[s] = y
  BY Zenon DEF Changed
<1>3. \A t \in DOMAIN spans : /\ spans'[t].parent = spans[t].parent
                              /\ spans'[t].mesh = spans[t].mesh /\ spans'[t].exec = spans[t].exec
  BY Zenon DEF Changed, Continues
<1>4. StoreSpans \subseteq DOMAIN spans /\ Logical \subseteq DOMAIN spans
  BY Zenon DEF StoreSpans, Logical
<1>5. \A t \in StoreSpans : \A l : Under(l, t)' <=> Under(l, t)
  BY Zenon, <1>1, <1>3, <1>4 DEF Under
<1>6. \A t \in DOMAIN spans' : spans'[t].parent < t
  BY Zenon, <1>2, <1>3 DEF StoreInv
<1>7. \A t \in StoreSpans' : spans'[t].exec = t
  BY Zenon, <1>1, <1>3, <1>4 DEF StoreInv
<1>8. executed' \subseteq StoreSpans' /\ \A t \in StoreSpans' : t \in executed' <=> \E l \in Logical' : Under(l, t)'
  BY Zenon, <1>1, <1>5 DEF StoreInv
<1>9. ASSUME NEW t \in StoreSpans, ~ spans'[t].open, t # s
      PROVE  /\ spans'[t].seen <= Len(spans')
             /\ spans'[t].delegated <=> \E l \in Logical' : l <= spans'[t].seen /\ Under(l, t)'
  <2>1. spans'[t] = spans[t]
    BY Zenon, <1>4, <1>9 DEF Changed
  <2> QED BY Zenon, <1>1, <1>2, <1>5, <1>9, <2>1 DEF StoreInv
<1>10. ASSUME s \in StoreSpans
       PROVE  /\ spans'[s].seen <= Len(spans')
              /\ spans'[s].delegated <=> \E l \in Logical' : l <= spans'[s].seen /\ Under(l, s)'
  <2>1. spans'[s].seen = Len(spans) /\ (spans'[s].delegated <=> s \in executed)
    BY Zenon, <1>2, <1>10
  <2>2. Len(spans) \in Nat /\ \A l \in DOMAIN spans : l <= Len(spans)
    BY DEF SpanType
  <2>3. \A l : Under(l, s) => l <= Len(spans)
    BY Zenon, <1>4, <2>2 DEF Under
  <2>4. Len(spans) <= Len(spans')
    BY <1>2, <2>2
  <2>5. s \in executed <=> \E l \in Logical : l <= Len(spans) /\ Under(l, s)
    BY Zenon, <1>10, <2>3 DEF StoreInv
  <2>6. spans'[s].delegated <=> \E l \in Logical' : l <= spans'[s].seen /\ Under(l, s)'
    BY Zenon, <1>1, <1>5, <1>10, <2>1, <2>5
  <2> QED BY Zenon, <2>1, <2>4, <2>6
<1> QED
  BY ZenonT(30), <1>1, <1>6, <1>7, <1>8, <1>9, <1>10 DEF StoreInv

\* A logical query marks its context's store span if that is of its mesh.
LEMMA MarksFacts ==
  ASSUME SpanType, StoreInv, NEW m, NEW ctx \in CallerContexts
  PROVE  /\ marks(m, ctx) \subseteq StoreSpans
         /\ \A s \in StoreSpans : s \in marks(m, ctx) <=> m = spans[s].mesh /\ ctx = s
<1>1. 0 \notin StoreSpans
  BY DEF StoreSpans, SpanType
<1>2. CASE ctx = 0
  <2>1. marks(m, ctx) = {}
    BY Zenon, <1>2 DEF marks, execution
  <2> QED BY Zenon, <1>1, <1>2, <2>1
<1>3. CASE ctx \in StoreSpans
  <2>1. execution(ctx) = ctx /\ ctx # 0
    BY Zenon, <1>1, <1>3 DEF execution, StoreInv
  <2>2. marks(m, ctx) = {e \in {ctx} : spans[e].mesh = m}
    BY Zenon, <2>1 DEF marks
  <2> QED BY Zenon, <1>3, <2>2
<1> QED BY Zenon, <1>2, <1>3 DEF CallerContexts

\* Every step keeps the invariant of store spans.
LEMMA StoreStep ==
  ASSUME SpanType, StoreInv, [Next]_vars
  PROVE  StoreInv'
<1>1. CASE Quiet
  <2>1. spans' = spans /\ executed' = executed
    BY Zenon, <1>1 DEF Quiet
  <2>2. StoreSpans' = StoreSpans /\ Logical' = Logical
    BY Zenon, <2>1 DEF StoreSpans, Logical
  <2>3. \A l, s : Under(l, s)' <=> Under(l, s)
    BY Zenon, <2>1, <2>2 DEF Under
  <2> QED BY Zenon, <2>1, <2>2, <2>3 DEF StoreInv
<1>2. ASSUME NEW m \in Programs[program].meshes, NEW ctx \in CallerContexts,
             StartStoreQuerySpan(m, ctx)
      PROVE  StoreInv'
  <2>1. PICK x \in Span : /\ Grown(x) /\ x.kind = "store" /\ x.open /\ x.parent = ctx
                          /\ x.exec = Len(spans) + 1 /\ ctx < Len(spans) + 1
    BY Zenon, <1>2, StoreStarts
  <2>2. executed' = executed \cup {}
    BY Zenon, <1>2 DEF StartStoreQuerySpan
  <2>3. x.kind # "logical"
    BY <2>1
  <2>4. PICK M : M = {}
    BY Zenon
  <2>5. /\ M \subseteq StoreSpans
        /\ \A s \in StoreSpans :
             s \in M <=> x.kind = "logical" /\ x.mesh = spans[s].mesh /\ x.parent = s
    BY Zenon, <2>3, <2>4
  <2> QED BY Zenon, <2>1, <2>2, <2>4, <2>5, StoreGrown
<1>3. ASSUME NEW m \in Programs[program].meshes, NEW ctx \in CallerContexts,
             NEW async \in BOOLEAN, StartLogicalQuerySpan(m, ctx, async)
      PROVE  StoreInv'
  <2>1. PICK x \in Span :
          /\ Grown(x) /\ spans' \in Seq(Span)
          /\ x.kind = "logical" /\ x.mesh = m /\ x.parent = ctx /\ x.open
          /\ x.mode = "unresolved" /\ x.scope = "unresolved" /\ x.count = 0
          /\ ctx \in Nat /\ ctx < Len(spans) + 1
    <3>1. \E x \in Span : LogicalBegins(x, m, ctx)
      BY Zenon, <1>3, LogicalStarts
    <3> QED BY Zenon, <3>1 DEF LogicalBegins
  <2>2. executed' = executed \cup marks(m, ctx)
    BY Zenon, <1>3 DEF StartLogicalQuerySpan
  <2>3. x.kind # "store"
    BY <2>1
  <2>4. PICK M : M = marks(m, ctx)
    BY Zenon
  <2>5. /\ M \subseteq StoreSpans
        /\ \A s \in StoreSpans :
             s \in M <=> x.kind = "logical" /\ x.mesh = spans[s].mesh /\ x.parent = s
    <3>1. /\ M \subseteq StoreSpans
          /\ \A s \in StoreSpans : s \in M <=> m = spans[s].mesh /\ ctx = s
      BY Zenon, <2>4, MarksFacts
    <3> QED BY Zenon, <2>1, <3>1
  <2> QED BY Zenon, <2>1, <2>2, <2>3, <2>4, <2>5, StoreGrown
<1>4. ASSUME NEW l \in Logical, NEW mode \in Programs[program].modes,
             NEW n \in 0 .. Programs[program].maxFanout, SetRoute(l, mode, n)
      PROVE  StoreInv'
  <2>1. PICK y : Changed(l, y) /\ Continues(y, l)
    BY Zenon, <1>4, RouteChanges
  <2>2. executed' = executed
    BY Zenon, <1>4 DEF SetRoute
  <2>3. l \in DOMAIN spans /\ l \notin StoreSpans
    BY DEF Logical, StoreSpans
  <2> QED BY Zenon, <2>1, <2>2, <2>3, StoreChanged
<1>5. ASSUME NEW l \in Logical, NEW route \in Routes, StartPhysicalQuerySpan(l, route)
      PROVE  StoreInv'
  <2>1. PICK x \in Span : Grown(x) /\ x.kind = "physical" /\ x.parent = l
    <3>1. \E x \in Span : PhysicalBegins(x, l, route)
      BY Zenon, <1>5, PhysicalStarts
    <3> QED BY Zenon, <3>1 DEF PhysicalBegins
  <2>2. executed' = executed \cup {}
    BY Zenon, <1>5 DEF StartPhysicalQuerySpan
  <2>3. x.kind # "store" /\ x.kind # "logical"
    BY <2>1
  <2>4. x.parent < Len(spans) + 1
    BY <2>1 DEF Grown, Logical
  <2>5. PICK M : M = {}
    BY Zenon
  <2>6. /\ M \subseteq StoreSpans
        /\ \A s \in StoreSpans :
             s \in M <=> x.kind = "logical" /\ x.mesh = spans[s].mesh /\ x.parent = s
    BY Zenon, <2>3, <2>5
  <2> QED BY Zenon, <2>1, <2>2, <2>3, <2>4, <2>5, <2>6, StoreGrown
<1>6. ASSUME NEW s \in DOMAIN spans, s \notin StoreSpans,
             spans' = [spans EXCEPT ![s].open = FALSE], executed' = executed
      PROVE  StoreInv'
  <2>1. PICK y : Changed(s, y) /\ Continues(y, s)
    BY Zenon, <1>6, EndChanges
  <2> QED BY Zenon, <1>6, <2>1, StoreChanged
<1>7. ASSUME NEW s \in Physical, NEW failed \in BOOLEAN, EndPhysical(s, failed)
      PROVE  StoreInv'
  <2>1. s \in DOMAIN spans /\ s \notin StoreSpans
    BY DEF Physical, StoreSpans
  <2> QED BY Zenon, <1>6, <1>7, <2>1 DEF EndPhysical
<1>8. ASSUME NEW l \in Logical, EndLogical(l)
      PROVE  StoreInv'
  <2>1. l \in DOMAIN spans /\ l \notin StoreSpans
    BY DEF Logical, StoreSpans
  <2> QED BY Zenon, <1>6, <1>8, <2>1 DEF EndLogical
<1>9. ASSUME NEW s \in StoreSpans, EndStore(s)
      PROVE  StoreInv'
  <2>1. PICK y : /\ Changed(s, y) /\ Continues(y, s) /\ s \in DOMAIN spans
                 /\ y.delegated <=> s \in executed
                 /\ y.seen = Len(spans)
    BY Zenon, <1>9, StoreEndChanges
  <2>2. executed' = executed
    BY Zenon, <1>9 DEF EndStore
  <2> QED BY Zenon, <2>1, <2>2, StoreChanged
<1> QED
  BY Zenon, <1>1, <1>2, <1>3, <1>4, <1>5, <1>7, <1>8, <1>9, SpanCases

-----------------------------------------------------------------------------
(* Logical spans.                                                          *)

\* There are no spans yet.
LEMMA LogicalInit == Init => LogicalInv
<1> SUFFICES ASSUME Init PROVE LogicalInv
  BY Zenon
<1>1. spans = <<>> /\ DOMAIN <<>> = {}
  BY DEF Init
<1> QED BY Zenon, <1>1 DEF LogicalInv, Logical

\* The executions of a logical query are finitely many.
LEMMA ChildrenFinite ==
  ASSUME SpanType, NEW l
  PROVE  IsFiniteSet(Children(l)) /\ Children(l) \subseteq DOMAIN spans
<1>1. DOMAIN spans = 1 .. Len(spans) /\ Len(spans) \in Nat
  BY DEF SpanType
<1>2. IsFiniteSet(DOMAIN spans)
  BY <1>1, FS_Interval
<1>3. Children(l) \subseteq DOMAIN spans
  BY Zenon DEF Children, Physical
<1> QED BY Zenon, <1>2, <1>3, FS_Subset

\* The executions once a span is started.
LEMMA ChildrenGrown ==
  ASSUME SpanType, StoreInv, NEW x, Grown(x), x.kind # "physical" \/ x.parent \in DOMAIN spans
  PROVE  /\ \A l : ~ (x.kind = "physical" /\ x.parent = l) => Children(l)' = Children(l)
         /\ \A l : x.kind = "physical" /\ x.parent = l =>
              Children(l)' = Children(l) \cup {Len(spans) + 1}
         /\ Children(Len(spans) + 1) = {}
<1>n. PICK n : n = Len(spans) + 1
  BY Zenon
<1>1. Physical' = Physical \cup {s \in {n} : x.kind = "physical"} /\ n \notin DOMAIN spans
  BY Zenon, <1>n, GrownKinds
<1>2. spans'[n] = x /\ \A s \in Physical : spans'[s] = spans[s]
  BY Zenon, <1>n DEF Grown, Physical
<1>3. \A l : ~ (x.kind = "physical" /\ x.parent = l) => Children(l)' = Children(l)
  BY Zenon, <1>1, <1>2 DEF Children
<1>4. \A l : x.kind = "physical" /\ x.parent = l => Children(l)' = Children(l) \cup {n}
  BY Zenon, <1>1, <1>2 DEF Children
<1>5. ASSUME NEW s \in Children(n) PROVE FALSE
  <2>1. s \in DOMAIN spans /\ n < s
    BY Zenon, <1>5 DEF Children, Physical, StoreInv
  <2> QED BY <1>n, <2>1 DEF Grown
<1> QED BY Zenon, <1>n, <1>3, <1>4, <1>5

\* A new logical query has no executions.
LEMMA FitsNew ==
  ASSUME NEW x, x.mode = "unresolved", x.scope = "unresolved", x.count = 0, x.open
  PROVE  Fits(x, {})
<1>1. Cardinality({}) = 0 /\ 0 <= 0
  BY FS_EmptySet
<1> QED BY Zenon, <1>1 DEF Fits

\* A query that is routed has no executions either.
LEMMA FitsRouted ==
  ASSUME NEW x, NEW y, NEW c, Fits(x, c), x.mode = "unresolved", y.mode # "unresolved",
         y.open, y.count \in Nat, y.scope = routeScope(y.count)
  PROVE  Fits(y, c)
<1>1. c = {}
  BY Zenon DEF Fits
<1>2. Cardinality(c) <= y.count
  BY <1>1, FS_EmptySet
<1> QED BY Zenon, <1>1, <1>2 DEF Fits

\* A query has one more execution.
LEMMA FitsMore ==
  ASSUME NEW x, NEW c, NEW n, IsFiniteSet(c), n \notin c, Fits(x, c), x.open, x.count \in Nat,
         x.mode # "unresolved", ~ (x.mode = "transaction" /\ x.count > 1),
         ~ x.async => Cardinality(c) < x.count
  PROVE  Fits(x, c \cup {n})
<1>1. Cardinality(c \cup {n}) = Cardinality(c) + 1 /\ Cardinality(c) \in Nat
  BY FS_AddElement, FS_CardinalityType
<1>2. ~ x.async => Cardinality(c \cup {n}) <= x.count
  BY <1>1
<1> QED BY Zenon, <1>2 DEF Fits

\* A query ends.
LEMMA FitsEnded ==
  ASSUME NEW x, NEW y, NEW c, Fits(x, c), y.mode = x.mode, y.scope = x.scope,
         y.count = x.count, y.async = x.async,
         x.mode = "unresolved" \/ (x.mode = "transaction" /\ x.count > 1)
           \/ x.async \/ Cardinality(c) = x.count
  PROVE  Fits(y, c)
BY Zenon DEF Fits

\* Every step keeps the invariant of logical queries.
LEMMA LogicalStep ==
  ASSUME SpanType, StoreInv, LogicalInv, [Next]_vars
  PROVE  LogicalInv'
<1>a. Logical \subseteq DOMAIN spans /\ \A l \in Logical : spans[l].kind = "logical"
  BY Zenon DEF Logical
<1>b. \A l \in Logical : spans[l] \in Span
  BY <1>a DEF SpanType
<1>1. CASE Quiet
  <2>1. spans' = spans
    BY Zenon, <1>1 DEF Quiet
  <2> QED BY ZenonT(30), <2>1 DEF LogicalInv, Logical, Children, Physical
<1>2. ASSUME NEW m \in Programs[program].meshes, NEW ctx \in CallerContexts,
             StartStoreQuerySpan(m, ctx)
      PROVE  LogicalInv'
  <2>1. PICK x \in Span : Grown(x) /\ x.kind = "store"
    BY Zenon, <1>2, StoreStarts
  <2>2. x.kind # "physical" /\ x.kind # "logical"
    BY <2>1
  <2>3. Logical' = Logical
    BY Zenon, <2>1, <2>2, GrownKinds
  <2>4. \A l \in Logical : spans'[l] = spans[l] /\ Children(l)' = Children(l)
    BY Zenon, <1>a, <2>1, <2>2, ChildrenGrown DEF Grown
  <2> QED BY Zenon, <2>3, <2>4 DEF LogicalInv
<1>3. ASSUME NEW m \in Programs[program].meshes, NEW ctx \in CallerContexts,
             NEW async \in BOOLEAN, StartLogicalQuerySpan(m, ctx, async)
      PROVE  LogicalInv'
  <2>1. PICK x \in Span :
          /\ Grown(x) /\ spans' \in Seq(Span)
          /\ x.kind = "logical" /\ x.mesh = m /\ x.parent = ctx /\ x.open
          /\ x.mode = "unresolved" /\ x.scope = "unresolved" /\ x.count = 0
          /\ ctx \in Nat /\ ctx < Len(spans) + 1
    <3>1. \E x \in Span : LogicalBegins(x, m, ctx)
      BY Zenon, <1>3, LogicalStarts
    <3> QED BY Zenon, <3>1 DEF LogicalBegins
  <2>2. x.kind # "physical"
    BY <2>1
  <2>n. PICK n : n = Len(spans) + 1
    BY Zenon
  <2>3. \A l \in Logical' : l \in Logical \/ l = n
    BY Zenon, <2>1, <2>n, GrownKinds
  <2>4. \A l \in Logical : spans'[l] = spans[l] /\ Children(l)' = Children(l)
    BY Zenon, <1>a, <2>1, <2>2, ChildrenGrown DEF Grown
  <2>5. spans'[n] = x /\ Children(n)' = {}
    BY Zenon, <2>1, <2>2, <2>n, ChildrenGrown DEF Grown
  <2>6. Fits(x, {})
    BY Zenon, <2>1, FitsNew
  <2> QED BY Zenon, <2>3, <2>4, <2>5, <2>6 DEF LogicalInv
<1>4. ASSUME NEW l \in Logical, NEW mode \in Programs[program].modes,
             NEW n \in 0 .. Programs[program].maxFanout, SetRoute(l, mode, n)
      PROVE  LogicalInv'
  <2>1. PICK y :
          /\ Changed(l, y) /\ Continues(y, l) /\ spans' \in Seq(Span)
          /\ y.open = spans[l].open /\ y.open /\ y.mode = mode /\ mode \in Modes /\ n \in Nat
          /\ y.scope = routeScope(n) /\ y.count = n /\ spans[l].mode = "unresolved"
          /\ l \in DOMAIN spans
    BY Zenon, <1>4, RouteChanges
  <2>2. Logical' = Logical /\ \A k : Children(k)' = Children(k)
    BY Zenon, <2>1, ChangedKinds
  <2>3. \A k \in Logical : k # l => spans'[k] = spans[k]
    BY Zenon, <1>a, <2>1 DEF Changed
  <2>4. y.mode # "unresolved"
    BY Zenon, <2>1, TelemetryAssumption
  <2>5. Fits(y, Children(l))
    BY Zenon, <2>1, <2>4, FitsRouted DEF LogicalInv
  <2>6. spans'[l] = y
    BY Zenon, <2>1 DEF Changed
  <2> QED BY Zenon, <2>2, <2>3, <2>5, <2>6 DEF LogicalInv
<1>5. ASSUME NEW l \in Logical, NEW route \in Routes, StartPhysicalQuerySpan(l, route)
      PROVE  LogicalInv'
  <2>1. PICK x \in Span : Grown(x) /\ x.kind = "physical" /\ x.parent = l
    <3>1. \E x \in Span : PhysicalBegins(x, l, route)
      BY Zenon, <1>5, PhysicalStarts
    <3> QED BY Zenon, <3>1 DEF PhysicalBegins
  <2>2. x.kind # "logical"
    BY <2>1
  <2>3. Logical' = Logical
    BY Zenon, <2>1, <2>2, GrownKinds
  <2>4. \A k \in Logical : spans'[k] = spans[k]
    BY Zenon, <1>a, <2>1 DEF Grown
  <2>n. PICK n : n = Len(spans) + 1
    BY Zenon
  <2>5. /\ \A k : k # l => Children(k)' = Children(k)
        /\ Children(l)' = Children(l) \cup {n}
    BY Zenon, <1>a, <2>1, <2>n, ChildrenGrown
  <2>6. /\ spans[l].mode # "unresolved" /\ ~ Refused(l) /\ spans[l].open
        /\ ~ spans[l].async => Cardinality(Children(l)) < spans[l].count
    BY Zenon, <1>5 DEF StartPhysicalQuerySpan
  <2>7. spans[l].count \in Nat
    BY Zenon, <1>b DEF Span
  <2>8. IsFiniteSet(Children(l)) /\ n \notin Children(l)
    BY Zenon, <2>1, <2>n, ChildrenFinite, GrownKinds
  <2>9. Fits(spans[l], Children(l))
    BY Zenon DEF LogicalInv
  <2>10. Fits(spans[l], Children(l) \cup {n})
    BY Zenon, <2>6, <2>7, <2>8, <2>9, FitsMore DEF Refused
  <2> QED BY Zenon, <2>3, <2>4, <2>5, <2>10 DEF LogicalInv
<1>6. ASSUME NEW s \in DOMAIN spans, NEW y, Changed(s, y), Continues(y, s),
             s \notin Logical
      PROVE  LogicalInv'
  <2>1. Logical' = Logical /\ \A k : Children(k)' = Children(k)
    BY Zenon, <1>6, ChangedKinds
  <2>2. \A k \in Logical : spans'[k] = spans[k]
    BY Zenon, <1>a, <1>6 DEF Changed
  <2> QED BY Zenon, <2>1, <2>2 DEF LogicalInv
<1>7. ASSUME NEW s \in Physical, NEW failed \in BOOLEAN, EndPhysical(s, failed)
      PROVE  LogicalInv'
  <2>1. s \in DOMAIN spans /\ s \notin Logical
    BY DEF Physical, Logical
  <2>2. spans' = [spans EXCEPT ![s].open = FALSE]
    BY Zenon, <1>7 DEF EndPhysical
  <2>3. PICK y : Changed(s, y) /\ Continues(y, s)
    BY Zenon, <2>1, <2>2, EndChanges
  <2> QED BY Zenon, <1>6, <2>1, <2>3
<1>8. ASSUME NEW l \in Logical, EndLogical(l)
      PROVE  LogicalInv'
  <2>1. spans' = [spans EXCEPT ![l].open = FALSE]
    BY Zenon, <1>8 DEF EndLogical
  <2>2. PICK y : /\ Changed(l, y) /\ Continues(y, l) /\ spans' \in Seq(Span)
                 /\ ~ y.open /\ y.mode = spans[l].mode
                 /\ y.scope = spans[l].scope /\ y.count = spans[l].count
    BY Zenon, <1>a, <2>1, EndChanges
  <2>3. Logical' = Logical /\ \A k : Children(k)' = Children(k)
    BY Zenon, <1>a, <2>2, ChangedKinds
  <2>4. \A k \in Logical : k # l => spans'[k] = spans[k]
    BY Zenon, <1>a, <2>2 DEF Changed
  <2>5. spans'[l] = y /\ y.async = spans[l].async
    BY Zenon, <2>2 DEF Changed, Continues
  <2>6. \/ spans[l].mode = "unresolved" \/ Refused(l)
        \/ spans[l].async \/ Cardinality(Children(l)) = spans[l].count
    BY Zenon, <1>8 DEF EndLogical
  <2>7. Fits(spans[l], Children(l))
    BY Zenon DEF LogicalInv
  <2>8. Fits(y, Children(l))
    BY Zenon, <2>2, <2>5, <2>6, <2>7, FitsEnded DEF Refused
  <2> QED BY Zenon, <2>3, <2>4, <2>5, <2>8 DEF LogicalInv
<1>9. ASSUME NEW s \in StoreSpans, EndStore(s)
      PROVE  LogicalInv'
  <2>1. s \in DOMAIN spans /\ s \notin Logical
    BY DEF StoreSpans, Logical
  <2>2. PICK y : Changed(s, y) /\ Continues(y, s)
    BY Zenon, <1>9, StoreEndChanges
  <2> QED BY Zenon, <1>6, <2>1, <2>2
<1> QED
  BY ZenonT(30), <1>1, <1>2, <1>3, <1>4, <1>5, <1>7, <1>8, <1>9, SpanCases

\* The scope of a query that has ended agrees with the number of its executions.
LEMMA ScopeFollows ==
  ASSUME SpanType, LogicalInv
  PROVE  ScopeMatchesExecutions
<1> SUFFICES ASSUME NEW l \in Logical, ~ spans[l].open, ~ spans[l].async
             PROVE  /\ spans[l].scope = "single" => Cardinality(Children(l)) <= 1
                    /\ spans[l].scope = "fanout" =>
                         Cardinality(Children(l)) > 1 \/ Refused(l)
                    /\ spans[l].scope = "unresolved" => Cardinality(Children(l)) = 0
  BY Zenon DEF ScopeMatchesExecutions
<1>1. spans[l] \in Span
  BY DEF SpanType, Logical
<1>2. spans[l].count \in Nat
  BY Zenon, <1>1 DEF Span
<1>3. IsFiniteSet(Children(l)) /\ Cardinality(Children(l)) \in Nat
  BY Zenon, ChildrenFinite, FS_CardinalityType
<1>4. /\ spans[l].mode = "unresolved" => spans[l].scope = "unresolved"
      /\ spans[l].mode # "unresolved" => spans[l].scope = routeScope(spans[l].count)
      /\ spans[l].mode = "unresolved" \/ Refused(l) => Children(l) = {}
      /\ Cardinality(Children(l)) <= spans[l].count
      /\ \/ spans[l].mode = "unresolved" \/ Refused(l)
         \/ Cardinality(Children(l)) = spans[l].count
  BY Zenon DEF LogicalInv, Fits, Refused
<1>5. Children(l) = {} => Cardinality(Children(l)) = 0
  BY Zenon, FS_EmptySet
<1> QED BY <1>2, <1>3, <1>4, <1>5 DEF routeScope

\* What a store or logical span says of itself when it ends is what ran under it: a
\* store span is delegated exactly if a query of its own mesh was started directly
\* under it by then, and a logical query's scope agrees with its executions.
THEOREM SpansReportWhatRanHolds == Spec => []SpansReportWhatRan
<1>1. Init => SpanType /\ StoreInv /\ LogicalInv
  BY Zenon, SpanTypeInit, StoreInit, LogicalInit
<1>2. SpanType /\ StoreInv /\ LogicalInv /\ [Next]_vars => (SpanType /\ StoreInv /\ LogicalInv)'
  BY Zenon, SpanTypeStep, StoreStep, LogicalStep
<1>3. StoreInv => DelegatedExact
  BY Zenon DEF StoreInv, DelegatedExact, Under
<1>4. SpanType /\ StoreInv /\ LogicalInv => SpansReportWhatRan
  BY Zenon, <1>3, ScopeFollows DEF SpansReportWhatRan
<1> QED BY <1>1, <1>2, <1>4, PTL DEF Spec
==============================================================================
