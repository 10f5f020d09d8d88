---------------------------- MODULE MCGenerator ----------------------------
(***************************************************************************)
(* The parts of the generator together.  They hand results on but share no  *)
(* state, so a behaviour exercises one of them and the others stay as they  *)
(* begin.                                                                   *)
(***************************************************************************)
EXTENDS Annotations, QueryPlan, StoreNames, PluginImports, SQLRelations

VARIABLE part   \* the part that is exercised

vars == <<part, annotationVars, planVars, nameVars, importVars, lexemes>>

\* Options that the part does not read have one value.
Init ==
  /\ part \in {"annotations", "plan", "names", "imports", "relations"}
  /\ AnnotationsInit /\ PlanInit /\ NamesInit /\ ImportsInit /\ RelationsInit
  /\ part # "names" => options = CHOOSE o \in OptionSets : TRUE
  /\ part # "imports" =>
       settings = CHOOSE o \in [runtime : RuntimePaths, internal : InternalPaths, alias : Aliases] : TRUE

Next ==
  /\ UNCHANGED part
  /\ \/ part = "annotations" /\ AnnotationsNext /\ UNCHANGED <<planVars, nameVars, importVars, lexemes>>
     \/ part = "plan" /\ PlanNext /\ UNCHANGED <<annotationVars, nameVars, importVars, lexemes>>
     \/ part = "names" /\ NamesNext /\ UNCHANGED <<annotationVars, planVars, importVars, lexemes>>
     \/ part = "imports" /\ ImportsNext /\ UNCHANGED <<annotationVars, planVars, nameVars, lexemes>>
     \/ part = "relations" /\ RelationsNext /\ UNCHANGED <<annotationVars, planVars, nameVars, importVars>>

Spec == Init /\ [][Next]_vars

-----------------------------------------------------------------------------
(* Annotations: both kinds, a valid shard annotation and one that repeats   *)
(* an operand, one in a block comment, a valid and an unexported store,     *)
(* documentation, SQL and a blank line.                                     *)

Line(form, head, value, operands) ==
  [form |-> form, head |-> head, value |-> value, operands |-> operands]

MCLines ==
  { Line("dash", "name", "q", <<>>),
    Line("dash", "kind", "read", <<>>),
    Line("dash", "kind", "write", <<>>),
    Line("dash", "shard", "tenant", <<"tenant_id">>),
    Line("dash", "shard", "tenant", <<"tenant_id", "tenant_id">>),
    Line("block", "shard", "inbox", <<>>),
    Line("dash", "store", "Users", <<>>),
    Line("dash", "store", "users", <<>>),
    Line("dash", "note", "doc", <<>>),
    Line("plain", "sql", "select", <<>>),
    Line("plain", "blank", "", <<>>) }

MCIdentifiers == {"tenant", "inbox", "tenant_id", "Users", "users"}
MCExported == {"Users"}

-----------------------------------------------------------------------------
(* QueryPlan: a tenant-sharded table of accounts and a second table that    *)
(* gives tenant_id another type.  "tenant" becomes the Go name of the key   *)
(* type, "renamed" the Go name of tenant_id.                                *)

Param(db, typ, array, named) == [db |-> db, typ |-> typ, array |-> array, named |-> named]

MCParams == { Param("tenant_id", "int64", FALSE, FALSE),
              Param("tenant_id", "int64", FALSE, TRUE),
              Param("tenant", "string", FALSE, FALSE),
              Param("renamed", "int64", FALSE, TRUE),
              Param("ids", "[]int64", TRUE, FALSE),
              Param("", "string", FALSE, FALSE) }

Column(db, typ) == [db |-> db, typ |-> typ, named |-> FALSE]

MCColumns == {Column("id", "int64"), Column("ids", "pgtype.Int8"), Column("id", "string")}

MCOperandNames == {"tenant_id", "id", "ids"}

MCGoName == [name \in {"tenant_id", "renamed", "tenant", "id", "ids",
                       "column_1", "column_2", "column_3"} |->
              CASE name \in {"tenant_id", "renamed"} -> "TenantID"
                [] name = "tenant" -> "Tenant"
                [] name = "id" -> "ID"
                [] name = "ids" -> "Ids"
                [] OTHER -> name]

MCSingular == [name \in DOMAIN MCGoName \cup {""} |-> IF name = "ids" THEN "id" ELSE name]
MCElement == [typ \in {"[]int64", "int64", "string"} |-> IF typ = "[]int64" THEN "int64" ELSE typ]
MCConvertible == {<<"int64", "int64">>, <<"pgtype.Int8", "int64">>, <<"string", "string">>}
MCPlaceholder == <<"column_1", "column_2", "column_3">>

MCModels == { [table |-> "accounts", db |-> "tenant_id", typ |-> "int64"],
              [table |-> "accounts", db |-> "id", typ |-> "int64"],
              [table |-> "audit", db |-> "tenant_id", typ |-> "string"] }

\* Related to nothing, to one table, or to both in one tier.
MCRelated == {<<>>, <<{"accounts"}>>, <<{"accounts", "audit"}>>}

-----------------------------------------------------------------------------
(* StoreNames: every kind of derived name can meet another one.             *)

Route(name, key, signature) ==
  [mode |-> "routed", name |-> name, key |-> key, signature |-> signature]

MCRoutes == { NoRoute, [NoRoute EXCEPT !.mode = "all"],
              Route("tenant", <<"Tenant">>, "int64"),
              Route("tenant", <<"Tenant">>, "string"),
              Route("tenant_", <<"Tenant">>, "int64"),
              Route("list_t", <<"List", "T">>, "int64") }

MCGroupOrder == << <<"Group", "Read">>, <<"Read">>, <<"Singleton">>, <<"Users">>, <<"Users", "Reader">> >>

NamedQuery(name, copy, types) == [name |-> name, copy |-> copy, types |-> types]

MCQueryNames == { NamedQuery(<<"Copy">>, TRUE, {}),
             NamedQuery(<<"Flush", "Copy">>, TRUE, {<<"Null", "Mood">>}),
             NamedQuery(<<"Copy", "Async">>, FALSE, {}),
             NamedQuery(<<"List">>, FALSE, {<<"Tenant">>}) }

MCQueries ==
  {[name |-> n.name, copy |-> n.copy, types |-> n.types, route |-> r, store |-> g, struct |-> TRUE] :
     n \in MCQueryNames, r \in MCRoutes, g \in Range(MCGroupOrder)}

NameOptions(constructor, store, internal, export) ==
  [constructor |-> constructor, store |-> store, resolver |-> <<"Shard", "Resolver">>,
   sharded |-> <<"Sharded">>, internal |-> internal, export |-> export]

MCOptionSets == { NameOptions(<<"New", "Store">>, <<"Store">>, FALSE, FALSE),
                  NameOptions(<<"Mood">>, <<"Store">>, TRUE, TRUE),
                  NameOptions(<<"Store">>, <<"Store">>, TRUE, FALSE) }

MCLower == [word \in {"Group", "Read", "Singleton", "Users", "Reader"} |->
             CASE word = "Group" -> "group" [] word = "Read" -> "read"
               [] word = "Singleton" -> "singleton" [] word = "Users" -> "users"
               [] OTHER -> "reader"]

MCEnums == {<<"Mood">>}

-----------------------------------------------------------------------------
(* PluginImports: a fork of the runtime, sqlc packages named internal and   *)
(* db, and overrides that collide by path, by package name and by alias,    *)
(* with one another and with the packages known by name.                    *)

MCRuntimePaths == {"github.com/sundayfun/pgmesh", "fork/runtime"}
MCInternalPaths == {"", "app/internal", "app/internal/db", "fork/runtime"}
MCAliases == {"", "internal", "db", "pgx", "sync", "uuid"}

Override(form, path, pkg) == [form |-> form, path |-> path, pkg |-> pkg]

MCOverrides == { Override("spec", "", ""),
                 Override("spec", "app/domain", ""),
                 Override("map", "app/domain", "model"),
                 Override("map", "lib/domain", ""),
                 Override("map", "lib/domain", "db"),
                 Override("map", "app/internal/db", "db"),
                 Override("spec", "log/slog", ""),
                 Override("map", "log/slog", "logs"),
                 Override("map", "lib/domain", "sync"),
                 Override("map", "fork/runtime", "pgmesh"),
                 Override("spec", "github.com/google/uuid", ""),
                 Override("map", "lib/uuid", ""),
                 Override("map", "time", "clock"),
                 Override("spec", "new/domain/v5", ""),
                 Override("map", "new/domain/v5", "v5"),
                 Override("dotless", "github", "") }

MCCatalogQualifiers == {"time", "pgtype"}

MCLastSegment == [path \in {"app/domain", "log/slog", "github.com/google/uuid", "new/domain/v5"} |->
                   CASE path = "app/domain" -> "domain" [] path = "log/slog" -> "slog"
                     [] path = "github.com/google/uuid" -> "uuid" [] OTHER -> "v5"]

Packages == [internal |-> {"app/internal"}, db |-> {"app/internal/db"},
          domain |-> {"app/domain", "lib/domain", "new/domain/v5"}, runtime |-> {"fork/runtime"},
          pgmesh |-> {"github.com/sundayfun/pgmesh"}, context |-> {"context"},
          errors |-> {"errors"}, fmt |-> {"fmt"}, reflect |-> {"reflect"}, sync |-> {"sync"},
          metric |-> {"go.opentelemetry.io/otel/metric"}, slog |-> {"log/slog"},
          trace |-> {"go.opentelemetry.io/otel/trace"}, sql |-> {"database/sql"},
          pgx |-> {"github.com/jackc/pgx/v5"}, github |-> {"github"}, time |-> {"time"},
          uuid |-> {"github.com/google/uuid", "lib/uuid"}, pgtype |-> {"github.com/jackc/pgx/v5/pgtype"}]

MCPackageName == [path \in UNION {Packages[name] : name \in DOMAIN Packages} |->
                   CHOOSE name \in DOMAIN Packages : path \in Packages[name]]

-----------------------------------------------------------------------------
(* SQLRelations: keywords in both cases, names of up to four parts, and     *)
(* contents that hold a whole FROM clause, a quote, a comment marker or a   *)
(* dollar quote.                                                            *)

MCNames == {<<"k">>, <<"K">>, <<"l">>, <<"A", "1">>, <<"k", "$", "b">>, <<"a", ".", "b">>,
            <<"a", ".", "b", ".", "a", ".", "b">>}
MCContents == {<<>>, <<"k", " ", "a">>, <<"'">>, <<"\"", "k">>, <<"-", "-">>,
               <<"$", "$">>, <<"$", "a", " ">>, <<"A", "*">>}
MCTags == {<<>>, <<"a">>}
=============================================================================
