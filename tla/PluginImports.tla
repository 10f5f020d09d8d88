--------------------------- MODULE PluginImports ---------------------------
(***************************************************************************)
(* The imports of the generated files (sqlcplugin: the import checks of     *)
(* validateOptions and validateOverrideImports, the import set that         *)
(* querySpecs and generateWrapper fill, and usedImports).                   *)
(*                                                                          *)
(* Generated code names packages by qualifier.  The options choose paths    *)
(* and aliases freely, so two packages may come to share a qualifier.  The  *)
(* store is a sharded one whose queries use every override, with            *)
(* ignore_mirror_error unset, and its files are taken together.             *)
(*                                                                          *)
(* The code looks for a qualifier and a dot anywhere in a text; qualifiers  *)
(* here are chosen so that none ends with another.                          *)
(***************************************************************************)
EXTENDS Naturals, Sequences, FiniteSets

CONSTANTS RuntimePaths,   \* values of runtime_import_path
          InternalPaths,  \* values of internal_import_path, "" when unset
          Aliases,        \* values of internal_import_alias, "" when unset
          Overrides,      \* go_type overrides: [form, path, pkg], path "" for a builtin type
          MaxOverrides,
          CatalogQualifiers,  \* qualifiers in the types of columns without an override
          LastSegment,    \* import path -> its last segment up to a dot, without go-
          PackageName     \* import path -> packageNameForImport

ASSUME PluginImportsAssumption ==
  /\ MaxOverrides \in Nat
  /\ (RuntimePaths \cup InternalPaths \cup {o.path : o \in Overrides}) \ {""} \subseteq DOMAIN PackageName
  /\ \A o \in Overrides : o.form \in {"map", "spec", "dotless"}
  /\ {o.path : o \in {v \in Overrides : v.form = "spec"}} \ {""} \subseteq DOMAIN LastSegment

VARIABLES settings,   \* runtime path, internal path and alias
          overrides,  \* the configured overrides, in order
          imports     \* of the last generation: ok, and the set of specs [name, path]

importVars == <<settings, overrides, imports>>

NoImports == [ok |-> FALSE, specs |-> {}]

Ref(qualifier, path) == [qualifier |-> qualifier, path |-> path]

(***************************************************************************)
(* What the generated code refers to.                                       *)
(***************************************************************************)
InternalQualifier(o) == IF o.alias # "" THEN o.alias ELSE "internal"

ImportAlias(alias) == IF alias = "internal" THEN "" ELSE alias

\* The imports both validations know of.
CoreImports(o) ==
  {Ref(name, name) : name \in {"context", "errors", "fmt"}}
  \cup {Ref("metric", "go.opentelemetry.io/otel/metric"), Ref("pgmesh", o.runtime),
        Ref("pgx", "github.com/jackc/pgx/v5"), Ref("slog", "log/slog"),
        Ref("sql", "database/sql"), Ref("trace", "go.opentelemetry.io/otel/trace")}

InternalImports(o) == IF o.internal = "" THEN {} ELSE {Ref(InternalQualifier(o), o.internal)}

ReservedImports(o) == CoreImports(o) \cup InternalImports(o)

\* Two more packages that generateWrapper imports.
UnreservedImports == {Ref("reflect", "reflect"), Ref("sync", "sync")}

(***************************************************************************)
(* validateOptions, the part on imports.                                    *)
(***************************************************************************)
ValidateOptions(o) ==
  /\ o.alias # "" => /\ o.internal # ""
                     /\ o.alias \notin {ref.qualifier : ref \in CoreImports(o)}
  /\ \A a, b \in ReservedImports(o) : a.path = b.path => a.qualifier = b.qualifier

(***************************************************************************)
(* override.parse and validateOverrideImports.                              *)
(***************************************************************************)
\* The qualifier in the type an override writes.  A map names the package or
\* leaves it to the path; a spec "path.Type" writes the last segment of its path, also
\* when that is a version; a spec whose last dot is left of its last slash has none.
TypeQualifier(override) ==
  CASE override.form = "map" ->
         IF override.pkg # "" THEN override.pkg ELSE PackageName[override.path]
    [] override.form = "spec" -> LastSegment[override.path]
    [] OTHER -> ""

OverrideAlias(override) ==
  IF override.form = "map" /\ override.pkg \notin {"", PackageName[override.path]}
  THEN override.pkg ELSE ""

OverrideQualifier(override) ==
  CASE OverrideAlias(override) # "" -> OverrideAlias(override)
    [] OverrideAlias(override) = "" /\ TypeQualifier(override) # "" -> TypeQualifier(override)
    [] OTHER -> PackageName[override.path]

Imported(list) == {list[i] : i \in {j \in 1..Len(list) : list[j].path # ""}}

ValidatedRefs(list) == {Ref(OverrideQualifier(v), v.path) : v \in Imported(list)}

DeviationOverridesMayClash(o, list) ==
  \A ref \in ValidatedRefs(list), reserved \in ReservedImports(o) :
    ref.qualifier = reserved.qualifier <=> ref.path = reserved.path

ValidateOverrideImports(o, list) ==
  /\ \A ref \in ValidatedRefs(list), reserved \in ReservedImports(o) :
       ref.qualifier = reserved.qualifier <=> ref.path = reserved.path
  /\ \A a, b \in ValidatedRefs(list) : a.qualifier = b.qualifier <=> a.path = b.path

(***************************************************************************)
(* What the types of the queries refer to.                                  *)
(***************************************************************************)
OverrideRefs(list) ==
  {Ref(TypeQualifier(v), v.path) : v \in {w \in Imported(list) : TypeQualifier(w) # ""}}

KnownSelectorImports ==
  [driver |-> "database/sql/driver", context |-> "context", json |-> "encoding/json",
   net |-> "net", netip |-> "net/netip", sql |-> "database/sql", time |-> "time",
   uuid |-> "github.com/google/uuid", pgconn |-> "github.com/jackc/pgx/v5/pgconn",
   pgtype |-> "github.com/jackc/pgx/v5/pgtype", pgvector |-> "github.com/pgvector/pgvector-go",
   pqtype |-> "github.com/sqlc-dev/pqtype"]

CatalogRefs == {Ref(q, KnownSelectorImports[q]) : q \in CatalogQualifiers}

\* addForType: any type with a known qualifier, whoever wrote it, brings the
\* package known by that name.
SelectorRefs(o, list) ==
  LET written == {ref.qualifier : ref \in CatalogRefs \cup OverrideRefs(list) \cup InternalImports(o)}
  IN  {Ref(q, KnownSelectorImports[q]) : q \in written \cap DOMAIN KnownSelectorImports}

References(o, list) ==
  ReservedImports(o) \cup UnreservedImports \cup CatalogRefs \cup OverrideRefs(list)

(***************************************************************************)
(* The import set is keyed by path and later entries win.  querySpecs goes  *)
(* through the types; each type adds its known package and then, in order,  *)
(* the overrides with its qualifier.  generateWrapper adds its own after.   *)
(***************************************************************************)
ImportSpec(name, path) == [name |-> name, path |-> path]

WrapperSpecs(o) ==
  {ImportSpec(IF ref.qualifier = "pgmesh" THEN "pgmesh" ELSE "", ref.path) :
     ref \in CoreImports(o) \cup UnreservedImports}
  \cup IF o.internal = "" THEN {} ELSE {ImportSpec(ImportAlias(o.alias), o.internal)}

\* "latest" are the known packages whose last mention comes after the last one of
\* an override of the same path under another name.
OverrideSpecs(o, list, latest) ==
  LET later == {spec.path : spec \in WrapperSpecs(o)}
      final(i) == /\ list[i].path # "" /\ TypeQualifier(list[i]) # ""
                  /\ \A j \in i + 1..Len(list) :
                       list[j].path # list[i].path \/ TypeQualifier(list[j]) = ""
      named == {ImportSpec(OverrideAlias(list[i]), list[i].path) : i \in {j \in 1..Len(list) : final(j)}}
      known == {ImportSpec("", ref.path) : ref \in SelectorRefs(o, list)}
  IN  {spec \in named : spec.path \notin later \cup latest}
      \cup {spec \in known : spec.path \notin later
                            /\ (spec.path \in latest \/ \A n \in named : n.path # spec.path)}

\* The name Go gives the package of an import.
Qualifier(spec) == IF spec.name # "" THEN spec.name ELSE PackageName[spec.path]

\* An import whose qualifier the body never mentions is dropped.
UsedImports(o, list, latest) ==
  {spec \in WrapperSpecs(o) \cup OverrideSpecs(o, list, latest) :
     Qualifier(spec) \in {ref.qualifier : ref \in References(o, list)}}

(***************************************************************************)
(* Actions                                                                  *)
(***************************************************************************)
ImportsInit ==
  /\ settings \in [runtime : RuntimePaths, internal : InternalPaths, alias : Aliases]
  /\ overrides = <<>>
  /\ imports = NoImports

AddOverride(override) ==
  /\ Len(overrides) < MaxOverrides
  /\ overrides' = Append(overrides, override)
  /\ imports' = NoImports
  /\ UNCHANGED settings

GenerateImports(latest) ==
  /\ imports' = IF ValidateOptions(settings) /\ ValidateOverrideImports(settings, overrides)
                THEN [ok |-> TRUE, specs |-> UsedImports(settings, overrides, latest)]
                ELSE NoImports
  /\ UNCHANGED <<settings, overrides>>

ImportsNext ==
  \/ \E override \in Overrides : AddOverride(override)
  \/ \E latest \in SUBSET {ref.path : ref \in SelectorRefs(settings, overrides)} : GenerateImports(latest)

-----------------------------------------------------------------------------
(***************************************************************************)
(* Properties                                                               *)
(***************************************************************************)
\* The paths a qualifier of the generated files stands for.
Denotes(qualifier) == {spec.path : spec \in {s \in imports.specs : Qualifier(s) = qualifier}}

\* The import of the sqlc package and those of the overrides carry the names the
\* code uses: an alias is written out, or the package's own name is the one used.
NamesEffective(o, list) ==
  /\ o.internal # "" =>
       Qualifier(ImportSpec(ImportAlias(o.alias), o.internal)) = InternalQualifier(o)
  /\ \A v \in Imported(list) :
       TypeQualifier(v) \in {"", Qualifier(ImportSpec(OverrideAlias(v), v.path))}

\* Packages that no validation compares with aliases and overrides.
Unvalidated(o, list) == UnreservedImports \cup SelectorRefs(o, list)

Agree(a, b) == a.qualifier = b.qualifier <=> a.path = b.path

\* Every qualifier the generator, a column type or an override writes means the
\* package it was written for, however paths, aliases and overrides combine and
\* in whatever order the queries use them.  The exceptions are what the
\* validations do not look at: a package that shares its name or its path with
\* reflect, sync or a package of knownSelectorImports that is in use, and imports
\* that do not carry the name used (a dropped default alias, a spec that ends in a
\* version).
QualifiersResolve ==
  (imports.ok /\ NamesEffective(settings, overrides)) =>
    LET unvalidated == Unvalidated(settings, overrides)
        references == References(settings, overrides)
    IN  \A ref \in references :
          (\A other \in references \cup unvalidated :
             {ref, other} \cap unvalidated # {} => Agree(ref, other)) =>
            Denotes(ref.qualifier) = {ref.path}

=============================================================================
