----------------------------- MODULE QueryPlan -----------------------------
(***************************************************************************)
(* What the generator plans for one query (sqlcplugin/query.go,             *)
(* buildQueries): the shard mode, the operands of its shared key, the       *)
(* fields of its QueryNameT parameter struct, and where each SQL parameter  *)
(* takes its value from.                                                    *)
(*                                                                          *)
(* The author composes a query from a command, SQL parameters, result       *)
(* columns and shard operands; Build plans it.  A parameter is a record     *)
(* [db, typ, array, named], a result column [db, typ, named].  A Go field   *)
(* is a pair of a name and the suffix that tells repeated names apart.      *)
(***************************************************************************)
EXTENDS Integers, Sequences, FiniteSets, SequencesExt

CONSTANTS Commands,      \* sqlc commands in use
          Params,        \* SQL parameters a query may have
          Columns,       \* result columns a query may have
          OperandNames,  \* names a shard annotation may list
          GoName,        \* SQL name -> Go name, renames included
          Singular,      \* SQL name -> its singular form
          Element,       \* list type -> the type of its elements
          Convertible,   \* pairs <<result type, element type>> groupedManyKeyAccess accepts
          Placeholder,   \* names of unnamed columns, by position
          KeyType,       \* the Go type of the shared key of the route
          Limit,         \* query_parameter_limit
          Models,        \* records [table, db, typ]: the columns of the catalog
          Related,       \* the tiers of tables a query may be related to
          MaxParams, MaxColumns, MaxOperands

ASSUME QueryPlanAssumption ==
  /\ {Limit, MaxParams, MaxColumns, MaxOperands} \subseteq Nat
  /\ MaxParams <= Len(Placeholder)
  /\ \A p \in Params : p.db = "" \/ p.db \in DOMAIN GoName
  /\ Range(Placeholder) \cup OperandNames \subseteq DOMAIN GoName

VARIABLES query,   \* the query as written
          plan     \* the plan of the last generation

planVars == <<query, plan>>

NoQuery == [cmd |-> "none", params |-> <<>>, columns |-> <<>>, route |-> "none",
            operands |-> <<>>, related |-> <<>>]

NoPlan == [ok |-> FALSE, mode |-> "none", key |-> <<>>, fields |-> <<>>, bind |-> <<>>]

(***************************************************************************)
(* buildQueryArg and columnsToStruct: the Go fields of the SQL parameters.  *)
(***************************************************************************)
ColumnName(name, i) == IF name = "" THEN Placeholder[i] ELSE name

\* A repeated positional parameter gets a numbered field, a named one does not.
FieldOf(params, i) ==
  LET name(j) == GoName[ColumnName(params[j].db, j)]
      seen == {j \in 1..(i - 1) : name(j) = name(i)}
  IN  <<name(i), IF seen = {} \/ params[i].named THEN 0 ELSE Cardinality(seen) + 1>>

\* One parameter stays a scalar unless the limit is zero.
IsScalarArg(params) == Len(params) = 1 /\ Limit # 0

BuildQueryArg(params) ==
  [i \in 1..Len(params) |->
    [db |-> IF IsScalarArg(params) THEN params[i].db ELSE ColumnName(params[i].db, i),
     field |-> FieldOf(params, i),
     typ |-> params[i].typ]]

CheckIncompatibleFieldTypes(arg) ==
  \A i, j \in 1..Len(arg) : arg[i].field = arg[j].field => arg[i].typ = arg[j].typ

(***************************************************************************)
(* buildGroupedManySpec and groupedManyResultKey.                           *)
(***************************************************************************)
IsGroupedMany(q) == q.cmd = ":many" /\ Len(q.params) = 1 /\ q.params[1].array

ReturnNames(columns) == [i \in 1..Len(columns) |-> ColumnName(columns[i].db, i)]

\* The exact name of the list parameter wins over its singular form.
LookupName(q) ==
  LET returned == Range(ReturnNames(q.columns))
  IN  IF q.params[1].db \in returned THEN q.params[1].db ELSE Singular[q.params[1].db]

LookupColumns(q) ==
  {i \in 1..Len(q.columns) : ReturnNames(q.columns)[i] = LookupName(q)}

\* A single result column is a scalar, more are fields of a struct.
LookupField(q) ==
  IF Len(q.columns) = 1 THEN <<GoName[LookupName(q)], 0>>
  ELSE FieldOf(q.columns, CHOOSE i \in LookupColumns(q) : TRUE)

GroupedManyResultKey(q) ==
  /\ q.params[1].db # ""
  /\ Cardinality(LookupColumns(q)) = 1
  /\ \A i \in LookupColumns(q) :
       <<q.columns[i].typ, Element[q.params[1].typ]>> \in Convertible

(***************************************************************************)
(* resolveShardRoute: each operand is a SQL parameter, the lookup name of a *)
(* grouped list, or a column of a related model.                            *)
(***************************************************************************)
FieldsNamed(arg, db) == {i \in 1..Len(arg) : arg[i].db = db}

RouteOperandForArg(arg, db) ==
  LET first == CHOOSE i \in FieldsNamed(arg, db) : \A j \in FieldsNamed(arg, db) : i <= j
  IN  [db |-> db, field |-> arg[first].field, typ |-> arg[first].typ, external |-> FALSE]

\* insert, result, source and parameter tables in turn, then every model.
RelatedQueryModelGroups(q) == Append(q.related, {model.table : model \in Models})

ModelTypes(q, db) ==
  LET hits(group) == {model.typ : model \in {m \in Models : m.table \in group /\ m.db = db}}
      first == SelectInSeq(RelatedQueryModelGroups(q), LAMBDA group : hits(group) # {})
  IN  IF first = 0 THEN {} ELSE hits(RelatedQueryModelGroups(q)[first])

ResolveOperand(q, arg, db) ==
  IF FieldsNamed(arg, db) # {} THEN RouteOperandForArg(arg, db)
  ELSE IF IsGroupedMany(q) /\ db = LookupName(q)
       THEN [RouteOperandForArg(arg, q.params[1].db) EXCEPT !.field = LookupField(q)]
       ELSE [db |-> db, field |-> <<GoName[db], 0>>, external |-> TRUE,
             typ |-> CHOOSE typ \in ModelTypes(q, db) : TRUE]

\* An operand that is no parameter matches one type in the first tier that knows it.
Resolvable(q, arg, db) ==
  \/ FieldsNamed(arg, db) # {}
  \/ IsGroupedMany(q) /\ db = LookupName(q)
  \/ Cardinality(ModelTypes(q, db)) = 1

ResolveShardRoute(q, arg) ==
  [i \in 1..Len(q.operands) |-> ResolveOperand(q, arg, q.operands[i])]

DistinctFields(operands) ==
  \A i, j \in 1..Len(operands) : operands[i].field = operands[j].field => i = j

\* scalarizeGroupedManyRoute: a list operand routes each item by its element.
ScalarizeGroupedManyRoute(q, operands) ==
  [i \in 1..Len(operands) |->
    IF operands[i].db = q.params[1].db /\ ~operands[i].external
    THEN [operands[i] EXCEPT !.typ = Element[operands[i].typ]]
    ELSE operands[i]]

(***************************************************************************)
(* wrapShardParameters and wrapGroupedManyShardOperands: a SQL parameter    *)
(* named by an operand is read from the embedded key, every other one gets  *)
(* a field of its own.                                                      *)
(***************************************************************************)
OperandNamed(operands, db) == SelectInSeq(operands, LAMBDA operand : operand.db = db)

Bind(operands, db, field) ==
  LET operand == OperandNamed(operands, db)
  IN  IF operand # 0 THEN [from |-> "key", field |-> operands[operand].field]
      ELSE [from |-> "own", field |-> field]

DeviationParametersAlwaysOwn(operands, arg) ==
  [i \in 1..Len(arg) |-> [from |-> "own", field |-> arg[i].field]]

WrapShardParameters(operands, arg) ==
  [i \in 1..Len(arg) |-> Bind(operands, arg[i].db, arg[i].field)]

WrapGroupedManyShardOperands(q, operands) ==
  <<Bind(operands, q.params[1].db, LookupField(q))>>

OwnFields(bind) ==
  LET own == SelectSeq(bind, LAMBDA b : b.from = "own")
  IN  [i \in 1..Len(own) |-> own[i].field]

\* appendField refuses a name used twice, the embedded key's included.
FieldsDistinct(fields) ==
  /\ Cardinality(Range(fields)) = Len(fields)
  /\ <<KeyType, 0>> \notin Range(fields)

(***************************************************************************)
(* The cases of buildQueries.                                               *)
(***************************************************************************)
\* The results sqlc generates for a command, an error last or not.
ResultTypes(cmd) ==
  CASE cmd \in {":one", ":many"} -> <<"data", "error">>
    [] cmd \in {":execrows", ":copyfrom", ":execresult"} -> <<"count", "error">>
    [] cmd = ":exec" -> <<"error">>
    [] OTHER -> <<"batch">>

IsBatch(cmd) == cmd \in {":batchexec", ":batchone", ":batchmany"}

PlanAllShards(q) ==
  IF q.operands = <<>> /\ q.cmd \in {":many", ":exec", ":execrows"}
  THEN [NoPlan EXCEPT !.ok = TRUE, !.mode = "all"] ELSE NoPlan

RoutedMode(q) == CASE q.cmd = ":copyfrom" -> "groupedcopy"
                   [] IsGroupedMany(q) -> "groupedmany"
                   [] OTHER -> "routed"

PlanRouted(q) ==
  LET arg == BuildQueryArg(q.params)
      resolved == ResolveShardRoute(q, arg)
      grouped == IsGroupedMany(q)
      key == IF grouped THEN ScalarizeGroupedManyRoute(q, resolved) ELSE resolved
      bind == IF grouped THEN WrapGroupedManyShardOperands(q, key)
              ELSE WrapShardParameters(key, arg)
  IN  IF /\ ~IsBatch(q.cmd)
         /\ grouped => GroupedManyResultKey(q)
         /\ \A i \in 1..Len(q.operands) : Resolvable(q, arg, q.operands[i])
         /\ DistinctFields(resolved)
         /\ Last(ResultTypes(q.cmd)) = "error"
         /\ FieldsDistinct(OwnFields(bind))
      THEN [ok |-> TRUE, mode |-> RoutedMode(q), key |-> key, fields |-> OwnFields(bind),
            bind |-> bind]
      ELSE NoPlan

BuildQuery(q) ==
  IF ~CheckIncompatibleFieldTypes(BuildQueryArg(q.params)) THEN NoPlan
  ELSE CASE q.route = "none" -> [NoPlan EXCEPT !.ok = TRUE]
         [] q.route = "all" -> PlanAllShards(q)
         [] OTHER -> PlanRouted(q)

(***************************************************************************)
(* Actions                                                                  *)
(***************************************************************************)
PlanInit == query = NoQuery /\ plan = NoPlan

Write(q) == query' = q /\ plan' = NoPlan

ChooseCommand(cmd, route, related) ==
  /\ query.cmd = "none"
  /\ Write([query EXCEPT !.cmd = cmd, !.route = route, !.related = related])

AddParam(p) ==
  /\ query.cmd # "none" /\ Len(query.params) < MaxParams
  /\ Write([query EXCEPT !.params = Append(@, p)])

AddColumn(c) ==
  /\ query.cmd \in {":one", ":many"} /\ Len(query.columns) < MaxColumns
  /\ Write([query EXCEPT !.columns = Append(@, c)])

\* parseShardAnnotation has refused repeated operands.
AddOperand(db) ==
  /\ query.route # "none" /\ Len(query.operands) < MaxOperands
  /\ db \notin Range(query.operands)
  /\ Write([query EXCEPT !.operands = Append(@, db)])

Build == /\ query.cmd # "none"
         /\ plan' = BuildQuery(query)
         /\ UNCHANGED query

PlanNext ==
  \/ \E cmd \in Commands, route \in {"none", "all", "route"}, related \in Related :
       ChooseCommand(cmd, route, related)
  \/ \E p \in Params : AddParam(p)
  \/ \E c \in Columns : AddColumn(c)
  \/ \E db \in OperandNames : AddOperand(db)
  \/ Build

-----------------------------------------------------------------------------
(***************************************************************************)
(* Properties                                                               *)
(***************************************************************************)
\* The row goes where its SQL says: the value the resolver sees for an operand
\* that is a SQL parameter is the value that parameter is sent with, so a query
\* is never routed by one value and executed with another.  The item of a list
\* lookup is sent from the first operand that names it.
RoutedByWhatIsSent ==
  \A k \in 1..Len(plan.key) : ~plan.key[k].external =>
    \E i \in 1..Len(plan.bind) :
      /\ query.params[i].db = plan.key[k].db
      /\ plan.bind[i].from = "key"
      /\ \/ plan.bind[i].field = plan.key[k].field
         \/ /\ plan.mode = "groupedmany"
            /\ \E j \in 1..(k - 1) : plan.key[j].db = plan.key[k].db
                                    /\ plan.bind[i].field = plan.key[j].field

\* A shared key never carries a value that a SQL parameter of the same name
\* takes from elsewhere: routing-only operands name no SQL parameter.
RoutingOnlyOperandsAreNotSent ==
  \A k \in 1..Len(plan.key) : plan.key[k].external =>
    \A i \in 1..Len(plan.bind) : query.params[i].db # plan.key[k].db

\* No two SQL parameters share a field of the parameter struct, and no field of
\* it is shadowed by the embedded key.
OwnFieldsIndependent ==
  \A i, j \in 1..Len(plan.bind) :
    plan.bind[i].from = "own" =>
      /\ plan.bind[i].field # <<KeyType, 0>>
      /\ plan.bind[i] = plan.bind[j] => i = j

\* Every SQL parameter of a routed query has one source: the field of the shared key
\* that the query is routed by, or a field of its own.
ParametersBound ==
  RoutedByWhatIsSent /\ RoutingOnlyOperandsAreNotSent /\ OwnFieldsIndependent

\* docs/how-to/add-a-query.md: QueryNameT embeds the shared key "and contains
\* only the remaining SQL fields", so every SQL parameter that no field of the
\* key stands for is a field of it.
RemainingFieldsKept ==
  plan.mode \in {"routed", "groupedcopy"} =>
    LET arg == BuildQueryArg(query.params)
        keyFields == {plan.key[k].field : k \in 1..Len(plan.key)}
    IN  \A i \in 1..Len(arg) : arg[i].field \in keyFields \/ arg[i].field \in Range(plan.fields)
=============================================================================
