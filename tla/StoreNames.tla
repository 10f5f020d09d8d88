----------------------------- MODULE StoreNames -----------------------------
(***************************************************************************)
(* The names one generation writes (sqlcplugin: generateWrapper with        *)
(* collectShardRoutes, collectStoreGroups, storeGroupOutputFileNames and    *)
(* the sqlc type aliases).                                                  *)
(*                                                                          *)
(* Queries from many SQL files and hand-picked options end up in one Go     *)
(* package, so the generator claims every declaration it derives and        *)
(* refuses a second claim.  A Go name is a sequence of words; deriving a    *)
(* name prepends or appends words.                                          *)
(***************************************************************************)
EXTENDS Integers, Sequences, FiniteSets, SequencesExt, FiniteSetsExt

CONSTANTS Queries,      \* queries a project may hold: [name, copy, route, struct, store, types]
          MaxQueries,
          OptionSets,   \* option records: [constructor, store, resolver, sharded, internal, export]
          GroupOrder,   \* every group name, in the order sort.Slice gives
          Lower,        \* word -> its lower case form
          Enums         \* names of the catalog's enum types

ASSUME StoreNamesAssumption ==
  /\ MaxQueries \in Nat
  /\ \A q \in Queries : q.store \in Range(GroupOrder)
  /\ \A o \in OptionSets : o.export => o.internal

VARIABLES options,   \* the plugin options
          queries,   \* the annotated queries of the project
          wrapper    \* what the last generation returned

nameVars == <<options, queries, wrapper>>

NoRoute == [mode |-> "none", name |-> "", key |-> <<>>, signature |-> ""]
NoWrapper == [ok |-> FALSE, files |-> <<>>, aliases |-> {}, routes |-> <<>>]

(***************************************************************************)
(* Derived names.                                                           *)
(***************************************************************************)
StoreReaderInterfaceName(group) == Append(group, "Reader")
StoreWriterInterfaceName(group) == Append(group, "Writer")
StoreFactoryOptionName(group) == <<"With">> \o group \o <<"Factory">>
CopyBatchOptionName(q) == <<"With">> \o q \o <<"Batching">>
CopyAsyncMethodName(q) == Append(q, "Async")
CopyFlushMethodName(q) == <<"Flush">> \o q
ParamTypeName(q) == Append(q, "T")

FixedGeneratedDeclarations(internal) ==
  { <<"Query", "Option">>, <<"Read", "From", "Primary">>, <<"Sharded", "Option">>,
    <<"Singleton">>, <<"Singleton", "Option">>, <<"Store", "Option">>, <<"Topology">>,
    <<"With", "Database", "Name">>, <<"With", "Logger">>, <<"With", "Meter", "Provider">>,
    <<"With", "Read", "Replicas">>, <<"With", "Replica", "Set">>,
    <<"With", "Tracer", "Provider">>, <<"With", "Tx">>,
    <<"With", "Virtual", "Shard", "Mapping">>, <<"With", "Write", "Mirrors">> }
  \cup IF internal THEN {}
       ELSE {<<"DBTX">>, <<"New">>, <<"Queries">>, <<"Querier">>}

PublicNames(o) == <<o.constructor, o.store, o.resolver, o.sharded>>

\* validateOptions, the part on the four public names.
ValidatePublicNames(o) ==
  /\ Range(PublicNames(o)) \cap FixedGeneratedDeclarations(o.internal) = {}
  /\ Cardinality(Range(PublicNames(o))) = 4

GeneratedDeclarations(o) ==
  FixedGeneratedDeclarations(o.internal) \cup Range(PublicNames(o))

(***************************************************************************)
(* collectShardRoutes: queries that share a key type share its route name   *)
(* and its operand list.                                                    *)
(***************************************************************************)
Routed(qs) == {q \in qs : q.route.mode = "routed"}

RoutesConsistent(qs) ==
  \A p, q \in Routed(qs) :
    p.route.key = q.route.key => /\ p.route.name = q.route.name
                                 /\ p.route.signature = q.route.signature

\* One route, that of the first query to use it, per key type.
CollectShardRoutes(qs) ==
  [key \in {q.route.key : q \in Routed(qs)} |->
    (CHOOSE q \in Routed(qs) : q.route.key = key).route]

HasShardOperations(qs) == \E q \in qs : q.route.mode # "none"

(***************************************************************************)
(* collectStoreGroups: who claims which declaration.  A second claim by     *)
(* another owner is an error; only one route may claim its key type again.  *)
(***************************************************************************)
CollectGroups(qs) == SelectSeq(GroupOrder, LAMBDA group : \E q \in qs : q.store = group)

GroupDeclarations(group) ==
  {group, StoreReaderInterfaceName(group), StoreWriterInterfaceName(group),
   StoreFactoryOptionName(group)}

Claim(name, owner) == [name |-> name, owner |-> owner]

RouteClaims(qs) == {Claim(q.route.key, <<"route", q.route.name>>) : q \in Routed(qs)}

GroupClaims(qs) ==
  UNION { {Claim(name, <<"group", group>>) : name \in GroupDeclarations(group)} :
          group \in {q.store : q \in qs} }

\* A routed query has a wrapper struct, an unrouted one with a sqlc struct an alias.
HasParamType(q) == q.route.mode = "routed" \/ q.struct

QueryClaims(qs) ==
  {Claim(CopyBatchOptionName(q.name), <<"batching", q.name>>) : q \in {p \in qs : p.copy}}
  \cup {Claim(ParamTypeName(q.name), <<"params", q.name>>) : q \in {p \in qs : HasParamType(p)}}

DeclarationClaims(qs, o) ==
  {Claim(name, <<"generated">>) : name \in GeneratedDeclarations(o)}
  \cup RouteClaims(qs) \cup GroupClaims(qs) \cup QueryClaims(qs)

CopyMethodsFree(qs) ==
  \A p, q \in qs : p.copy => q.name \notin {CopyAsyncMethodName(p.name), CopyFlushMethodName(p.name)}

DeviationOnlyGroupsClaim(qs, o) ==
  /\ \A c \in GroupClaims(qs) : c.name \notin GeneratedDeclarations(o)
  /\ CopyMethodsFree(qs)

CollectStoreGroups(qs, o) ==
  /\ \A c, d \in DeclarationClaims(qs, o) : c.name = d.name => c.owner = d.owner
  /\ CopyMethodsFree(qs)

(***************************************************************************)
(* storeGroupOutputFileNames: the section of a group's file is its snake    *)
(* case name, prefixed until no file of this generation has it.             *)
(***************************************************************************)
FixedSections == {<<>>, <<"interfaces">>, <<"read">>, <<"write">>, <<"sharded">>}

SnakeCaseIdentifier(name) == [i \in 1..Len(name) |-> Lower[name[i]]]

FreeSection(used, section) ==
  LET prefixed(n) == [i \in 1..n |-> "group"] \o section
      free == {n \in 0..Cardinality(used) : prefixed(n) \notin used}
  IN  prefixed(Min(free))

StoreGroupOutputFileNames(groups) ==
  LET name(files, group) ==
        Append(files, FreeSection(FixedSections \cup Range(files), SnakeCaseIdentifier(group)))
  IN  FoldLeft(name, <<>>, groups)

(***************************************************************************)
(* collectSQLCTypeAliases and validateSQLCTypeAliases: re-exported sqlc     *)
(* types; the nullable form of an enum brings the enum along.               *)
(***************************************************************************)
CollectSQLCTypeAliases(qs, o) ==
  LET used == UNION {q.types : q \in qs}
  IN  IF o.export THEN used \cup {enum \in Enums : <<"Null">> \o enum \in used} ELSE {}

ValidateSQLCTypeAliases(qs, o, aliases) ==
  \A c \in DeclarationClaims(qs, o) : c.name \notin aliases

(***************************************************************************)
(* generateWrapper, after parseOptions has validated the options.           *)
(***************************************************************************)
GenerateWrapper(qs, o) ==
  LET aliases == CollectSQLCTypeAliases(qs, o)
  IN  IF /\ ValidatePublicNames(o)
         /\ RoutesConsistent(qs)
         /\ CollectStoreGroups(qs, o)
         /\ ValidateSQLCTypeAliases(qs, o, aliases)
         /\ HasShardOperations(qs) => \A q \in qs : q.route.mode # "none"
      THEN [ok |-> TRUE, aliases |-> aliases, routes |-> CollectShardRoutes(qs),
            files |-> StoreGroupOutputFileNames(CollectGroups(qs))]
      ELSE NoWrapper

(***************************************************************************)
(* The project gains a query; generation runs over the queries it holds.    *)
(* sqlc has refused two queries of one name.                                *)
(***************************************************************************)
NamesInit == options \in OptionSets /\ queries = {} /\ wrapper = NoWrapper

AddQuery(q) ==
  /\ Cardinality(queries) < MaxQueries
  /\ \A p \in queries : p.name # q.name
  /\ queries' = queries \cup {q} /\ wrapper' = NoWrapper /\ UNCHANGED options

GenerateStore ==
  /\ wrapper' = GenerateWrapper(queries, options)
  /\ UNCHANGED <<options, queries>>

NamesNext == (\E q \in Queries : AddQuery(q)) \/ GenerateStore

-----------------------------------------------------------------------------
(***************************************************************************)
(* Properties                                                               *)
(***************************************************************************)
\* The exported declarations the writers of emission.go emit, each with the
\* place that writes it: writeStoreConfiguration and writeQueryInterfaces,
\* writeShardedStore and writeShardResolverInterface, writeShardKeyTypes,
\* writeStoreGroup, and writeSQLCTypeAliases.
WrittenDeclarations(qs, o) ==
  {<<name, <<"main">> >> : name \in FixedGeneratedDeclarations(TRUE)}
  \cup {<<o.constructor, <<"constructor">> >>, <<o.store, <<"store">> >>}
  \cup (IF HasShardOperations(qs)
        THEN {<<o.resolver, <<"resolver">> >>, <<o.sharded, <<"sharded">> >>}
             \cup {<<key, <<"keys">> >> : key \in DOMAIN wrapper.routes}
        ELSE {})
  \cup {<<c.name, c.owner>> : c \in GroupClaims(qs) \cup QueryClaims(qs)}
  \cup {<<alias, <<"alias">> >> : alias \in wrapper.aliases}

\* The generated package compiles as far as its exported declarations go: no
\* two places of the writers declare one name, whatever queries, groups,
\* routes, options and re-exported sqlc types meet in it.
DeclarationsUnique ==
  wrapper.ok =>
    LET written == WrittenDeclarations(queries, options)
    IN  Cardinality({w[1] : w \in written}) = Cardinality(written)

\* The store methods of a query, all on one receiver type.
MethodsOf(q) ==
  {q.name} \cup IF q.copy THEN {CopyAsyncMethodName(q.name), CopyFlushMethodName(q.name)} ELSE {}

\* No two queries generate one store method, so an asynchronous COPY or its
\* flush never stands in for a query.  Two COPY queries named Flush<X> and
\* <X>Async would, and are not refused: collectStoreGroups compares derived
\* methods with queries only.
MethodsUnique ==
  wrapper.ok =>
    \A p, q \in queries : p # q =>
      \/ MethodsOf(p) \cap MethodsOf(q) = {}
      \/ p.copy /\ q.copy /\ \/ CopyFlushMethodName(p.name) = CopyAsyncMethodName(q.name)
                             \/ CopyFlushMethodName(q.name) = CopyAsyncMethodName(p.name)

\* One key type and one resolver method serve every query of a route: the
\* operands written for the key are those of each query that embeds it, in
\* its order and with its types, and no query of another route embeds it.
KeyServesItsQueries ==
  wrapper.ok => /\ DOMAIN wrapper.routes = {q.route.key : q \in Routed(queries)}
               /\ \A q \in Routed(queries) : wrapper.routes[q.route.key] = q.route

\* No generated file overwrites another, on a case-insensitive file system
\* included.
FilesDistinct ==
  /\ Range(wrapper.files) \cap FixedSections = {}
  /\ Cardinality(Range(wrapper.files)) = Len(wrapper.files)

\* What the generator accepts is one consistent package: declarations, methods, key
\* types and files do not collide.
PackageConsistent ==
  DeclarationsUnique /\ MethodsUnique /\ KeyServesItsQueries /\ FilesDistinct
=============================================================================
