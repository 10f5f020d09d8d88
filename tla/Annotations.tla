---------------------------- MODULE Annotations ----------------------------
(***************************************************************************)
(* How the generator reads the annotations of one query                     *)
(* (sqlcplugin/query.go, classifyQuery and what it calls).                  *)
(*                                                                          *)
(* A query is a sequence of source lines that its author edits; generation  *)
(* classifies it.  A line is a record: its comment form ("dash" for --,     *)
(* "block" for a one-line comment, "plain" for anything else), the          *)
(* head normalizeComment and annotationPrefix recognise, and the value      *)
(* after the head.  sqlc hands the query over either as raw text without    *)
(* comments or with the comments stripped into a list of their own; the     *)
(* code handles both.                                                       *)
(***************************************************************************)
EXTENDS Naturals, Sequences, FiniteSets, SequencesExt

CONSTANTS Lines,        \* the lines an author may write
          MaxLines,     \* bound on the lines of a query
          Identifiers,  \* values validRouteIdentifier accepts
          Exported      \* the exported ones that are no Go keyword

ASSUME LinesAssumption ==
  /\ MaxLines \in Nat
  /\ Exported \subseteq Identifiers
  /\ \A line \in Lines : /\ line.form \in {"dash", "block", "plain"}
                         /\ line.head \in {"name", "kind", "shard", "store", "note", "sql", "blank"}
                         /\ line.form = "plain" <=> line.head \in {"sql", "blank"}
                         /\ line.operands \in Seq(STRING)

VARIABLES text,    \* the lines of the query, in file order
          result   \* what the last generation made of it

annotationVars == <<text, result>>

Absent == "absent"
Rejected == [ok |-> FALSE, kind |-> Absent, route |-> Absent, operands |-> <<>>, store |-> Absent]
NotRun == [Rejected EXCEPT !.kind = "notrun"]

(***************************************************************************)
(* The two ways sqlc delivers a query to the plugin.                        *)
(***************************************************************************)
IsName(line) == line.form = "dash" /\ line.head = "name"

Deliveries == {"raw", "stripped"}

\* sqlc strips every comment line from the text and lists all but the name line.
Delivered(how, lines) ==
  IF how = "raw"
  THEN [text |-> lines, comments |-> <<>>]
  ELSE [text |-> SelectSeq(lines, LAMBDA line : line.form = "plain"),
        comments |-> SelectSeq(lines, LAMBDA line : line.form # "plain" /\ ~IsName(line))]

(***************************************************************************)
(* The parsers of single annotations.                                       *)
(***************************************************************************)
\* The prefix is found through every comment form normalizeComment strips.
AnnotationPrefix(line) == IF line.head \in {"shard", "store"} THEN line.head ELSE "none"

IsShard(line) == AnnotationPrefix(line) = "shard"
IsStore(line) == AnnotationPrefix(line) = "store"

QueryKindFromComment(line) == line.head = "kind" /\ line.value \in {"read", "write"}

\* A malformed call has a value that is no identifier.
ParseShardAnnotation(line) ==
  /\ line.value \in Identifiers
  /\ Range(line.operands) \subseteq Identifiers
  /\ Cardinality(Range(line.operands)) = Len(line.operands)

ParseStoreAnnotation(line) == line.value \in Exported

(***************************************************************************)
(* validateRawAnnotationOrder: only text that still holds its name line is  *)
(* checked, and only with -- comments as annotations.                       *)
(***************************************************************************)
DeviationLaterLinesUnchecked(lines) ==
  LET name == SelectInSeq(lines, IsName)
  IN  name # 0 => /\ name < Len(lines)
                  /\ lines[name + 1].head = "kind" /\ lines[name + 1].form = "dash"

ValidateRawAnnotationOrder(lines) ==
  LET name == SelectInSeq(lines, IsName)
      DashAt(i, head) == i <= Len(lines) /\ lines[i].form = "dash" /\ lines[i].head = head
      shard == IF DashAt(name + 2, "shard") THEN name + 2 ELSE name + 1
      store == IF DashAt(shard + 1, "store") THEN shard + 1 ELSE shard
  IN  name # 0 => /\ DashAt(name + 1, "kind")
                  /\ \A i \in (store + 1)..Len(lines) : AnnotationPrefix(lines[i]) = "none"

\* Without a list of comments, the leading -- lines of the text stand in for it.
QueryComments(query) ==
  LET ends == SelectInSeq(query.text, LAMBDA line : line.form # "dash" /\ line.head # "blank")
      leading == IF ends = 0 THEN query.text ELSE SubSeq(query.text, 1, ends - 1)
  IN  IF query.comments # <<>> THEN query.comments
      ELSE SelectSeq(leading, LAMBDA line : line.head \notin {"blank", "name"})

(***************************************************************************)
(* classifyQuery.  Every early return is one conjunct; the store of an      *)
(* accepted query is never empty.                                           *)
(***************************************************************************)
ShardIndex(comments) == IF Len(comments) > 1 /\ IsShard(comments[2]) THEN 2 ELSE 1

StoreIndex(comments) ==
  LET shard == ShardIndex(comments)
  IN  IF Len(comments) > shard /\ IsStore(comments[shard + 1]) THEN shard + 1 ELSE shard

Classification(comments) ==
  LET shard == ShardIndex(comments)
      store == StoreIndex(comments)
  IN  [ok |-> TRUE,
       kind |-> comments[1].value,
       route |-> IF shard = 2 THEN comments[2].value ELSE Absent,
       operands |-> IF shard = 2 THEN comments[2].operands ELSE <<>>,
       store |-> comments[store].value]

DeviationLateAnnotationsIgnored(query) ==
  LET comments == QueryComments(query)
      shard == ShardIndex(comments)
      store == StoreIndex(comments)
  IN  IF /\ ValidateRawAnnotationOrder(query.text)
         /\ comments # <<>>
         /\ QueryKindFromComment(comments[1])
         /\ shard = 2 => ParseShardAnnotation(comments[2])
         /\ store > shard /\ ParseStoreAnnotation(comments[store])
      THEN Classification(comments) ELSE Rejected

ClassifyQuery(query) ==
  LET comments == QueryComments(query)
      shard == ShardIndex(comments)
      store == StoreIndex(comments)
  IN  IF /\ ValidateRawAnnotationOrder(query.text)
         /\ comments # <<>>
         /\ QueryKindFromComment(comments[1])
         /\ shard = 2 => ParseShardAnnotation(comments[2])
         /\ store > shard /\ ParseStoreAnnotation(comments[store])
         /\ \A i \in (store + 1)..Len(comments) : AnnotationPrefix(comments[i]) = "none"
      THEN Classification(comments)
      ELSE Rejected

(***************************************************************************)
(* The author adds a line; generation classifies the query as delivered.    *)
(* sqlc takes a query's name from its one name line.                        *)
(***************************************************************************)
AnnotationsInit == text = <<>> /\ result = NotRun

AddLine(line) ==
  /\ Len(text) < MaxLines
  /\ IsName(line) => \A i \in 1..Len(text) : ~IsName(text[i])
  /\ text' = Append(text, line)
  /\ result' = NotRun

Classify(how) ==
  /\ \E i \in 1..Len(text) : IsName(text[i])
  /\ result' = ClassifyQuery(Delivered(how, text))
  /\ UNCHANGED text

AnnotationsNext ==
  \/ \E line \in Lines : AddLine(line)
  \/ \E how \in Deliveries : Classify(how)

-----------------------------------------------------------------------------
(***************************************************************************)
(* Properties                                                               *)
(***************************************************************************)
Annotated(head) == {i \in 1..Len(text) : text[i].head = head}

\* No annotation stands above the name line.
NameLeads ==
  LET name == SelectInSeq(text, IsName)
  IN  name # 0 /\ \A i \in 1..(name - 1) : text[i].head \notin {"kind", "shard", "store"}

\* No shard or store annotation is silently dropped: when a query with no
\* annotation above its name is accepted, each one written anywhere in it, in
\* any comment form, is the one in force.  A dropped shard annotation would
\* send the query to the wrong databases.
NothingDropped ==
  (result.ok /\ NameLeads) =>
    /\ \A i \in Annotated("shard") : /\ text[i].value = result.route
                                     /\ text[i].operands = result.operands
    /\ Cardinality(Annotated("shard")) = IF result.route = Absent THEN 0 ELSE 1
    /\ \A i \in Annotated("store") : text[i].value = result.store
    /\ Cardinality(Annotated("store")) = 1

\* The lines are name, kind, an optional shard, store, and no annotation after.
StrictOrder(lines, name) ==
  LET store == IF name + 2 <= Len(lines) /\ lines[name + 2].head = "shard" THEN name + 3 ELSE name + 2
  IN  /\ store <= Len(lines)
      /\ \A i \in name..store : lines[i].form = "dash"
      /\ lines[name + 1].head = "kind" /\ lines[store].head = "store"
      /\ \A i \in 1..Len(lines) : lines[i].head \in {"shard", "store"} => i \in (name + 2)..store

WellFormed(line) ==
  /\ line.head = "kind" => line.value \in {"read", "write"}
  /\ line.head = "store" => line.value \in Exported
  /\ line.head = "shard" => /\ line.value \in Identifiers
                            /\ Range(line.operands) \subseteq Identifiers
                            /\ \A i, j \in DOMAIN line.operands :
                                 line.operands[i] = line.operands[j] => i = j

\* A query whose text starts with its name line is accepted from raw text
\* exactly when its annotations are well formed and in the documented order:
\* the two passes of classifyQuery, over raw lines and over comments, agree
\* with one grammar and neither lets through or refuses what the other would not.
RawTextFollowsTheGrammar ==
  (Len(text) > 0 /\ IsName(text[1])) =>
    (ClassifyQuery(Delivered("raw", text)).ok <=>
       /\ StrictOrder(text, 1)
       /\ LET store == CHOOSE i \in 3..4 : i <= Len(text) /\ text[i].head = "store"
          IN  \A i \in 2..store : WellFormed(text[i]))

\* The annotations in force are those the author wrote, and the author wrote them
\* as documented.
AnnotationsInForce == NothingDropped /\ RawTextFollowsTheGrammar

\* Both deliveries give an accepted query one meaning: a query with no
\* annotation above its name that is accepted from raw text is accepted, with
\* the same kind, route and store, once sqlc has stripped its comments.
DeliveriesAgree ==
  LET raw == ClassifyQuery(Delivered("raw", text))
  IN  (raw.ok /\ NameLeads) => raw = ClassifyQuery(Delivered("stripped", text))

=============================================================================
