---------------------------- MODULE SQLRelations ----------------------------
(***************************************************************************)
(* The relations a query names (sqlcplugin/sql_relations.go): a tokenizer   *)
(* that skips comments and literals, and a scan for the names after FROM,   *)
(* INTO, JOIN and UPDATE.                                                   *)
(*                                                                          *)
(* A query is a sequence of characters.  Keywords are spelled with one      *)
(* letter: "k" for the four above, "l" for LATERAL and ONLY.                *)
(***************************************************************************)
EXTENDS Naturals, FiniteSets, SequencesExt

CONSTANTS Names,      \* unquoted identifiers and keywords, with dots between parts
          Contents,   \* what quotes, comments and literals may hold
          Tags,       \* dollar-quote tags
          MaxLexemes

VARIABLE lexemes      \* the statement, as the author of the query means it

ToLower(c) == CASE c = "K" -> "k" [] c = "A" -> "a" [] OTHER -> c

(***************************************************************************)
(* tokenizeSQLRelations.  An operator that skips returns the next position. *)
(***************************************************************************)
IsSQLSpace(c) == c \in {" ", "\n"}
IsSQLIdentifierStart(c) == ToLower(c) \in {"k", "l", "a", "b"}
IsSQLDollarTagPart(c) == IsSQLIdentifierStart(c) \/ c = "1"
IsSQLIdentifierPart(c) == IsSQLDollarTagPart(c) \/ c = "$"

HasPrefix(sql, i, prefix) ==
  i + Len(prefix) - 1 <= Len(sql) /\ SubSeq(sql, i, i + Len(prefix) - 1) = prefix

\* The first position from i on where stop holds, the end of the text otherwise.
FirstWhere(sql, i, stop(_)) ==
  Min({j \in i..Len(sql) + 1 : j = Len(sql) + 1 \/ stop(j)})

SkipSQLLineComment(sql, i) == FirstWhere(sql, i, LAMBDA j : sql[j] = "\n")

DeviationCommentsDoNotNest(sql, i) ==
  LET close == FirstWhere(sql, i, LAMBDA j : HasPrefix(sql, j, <<"*", "/">>))
  IN  Min({close + 2, Len(sql) + 1})

SkipSQLBlockComment(sql, i) ==
  LET skip[j \in 1..Len(sql) + 1, depth \in 0..Len(sql)] ==
        CASE j > Len(sql) \/ depth = 0        -> j
          [] HasPrefix(sql, j, <<"/", "*">>)  -> skip[j + 2, depth + 1]
          [] HasPrefix(sql, j, <<"*", "/">>)  -> skip[j + 2, depth - 1]
          [] OTHER                            -> skip[j + 1, depth]
  IN  skip[i, 1]

SkipSQLSingleQuotedString(sql, i) ==
  LET skip[j \in 1..Len(sql) + 1] ==
        CASE j > Len(sql)                     -> j
          [] sql[j] # "'"                     -> skip[j + 1]
          [] HasPrefix(sql, j, <<"'", "'">>)  -> skip[j + 2]
          [] OTHER                            -> j + 1
  IN  skip[i]

ReadSQLQuotedIdentifier(sql, i) ==
  LET read[j \in 1..Len(sql) + 1] ==
        CASE j > Len(sql)                       -> [value |-> <<>>, next |-> j]
          [] HasPrefix(sql, j, <<"\"", "\"">>)  ->
               [read[j + 2] EXCEPT !.value = <<"\"">> \o @]
          [] sql[j] = "\""                      -> [value |-> <<>>, next |-> j + 1]
          [] OTHER                              -> [read[j + 1] EXCEPT !.value = <<sql[j]>> \o @]
  IN  read[i]

\* At a "$": past the literal, or past the sign when none begins here.
SkipSQLDollarQuotedString(sql, i) ==
  LET end == FirstWhere(sql, i + 1, LAMBDA j : ~IsSQLDollarTagPart(sql[j]))
      delimiter == SubSeq(sql, i, end)
      close == FirstWhere(sql, end + 1, LAMBDA j : HasPrefix(sql, j, delimiter))
  IN  IF end > Len(sql) \/ ~HasPrefix(sql, end, <<"$">>) THEN i + 1
      ELSE Min({close + Len(delimiter), Len(sql) + 1})

Token(value, identifier, quoted) ==
  [value |-> value, identifier |-> identifier, quoted |-> quoted]

TokenizeSQLRelations(sql) ==
  LET tokens[i \in 1..Len(sql) + 1] ==
        CASE i > Len(sql)                       -> <<>>
          [] IsSQLSpace(sql[i])                 -> tokens[i + 1]
          [] HasPrefix(sql, i, <<"-", "-">>)    -> tokens[SkipSQLLineComment(sql, i + 2)]
          [] HasPrefix(sql, i, <<"/", "*">>)    -> tokens[SkipSQLBlockComment(sql, i + 2)]
          [] sql[i] = "'"                       -> tokens[SkipSQLSingleQuotedString(sql, i + 1)]
          [] sql[i] = "\""                      ->
               LET read == ReadSQLQuotedIdentifier(sql, i + 1)
               IN  <<Token(read.value, TRUE, TRUE)>> \o tokens[read.next]
          [] sql[i] = "$"                       -> tokens[SkipSQLDollarQuotedString(sql, i)]
          [] IsSQLIdentifierStart(sql[i])       ->
               LET end == FirstWhere(sql, i, LAMBDA j : ~IsSQLIdentifierPart(sql[j]))
                   value == [j \in 1..end - i |-> ToLower(sql[i + j - 1])]
               IN  <<Token(value, TRUE, FALSE)>> \o tokens[end]
          [] sql[i] \in {".", "("}              -> <<Token(<<sql[i]>>, FALSE, FALSE)>> \o tokens[i + 1]
          [] OTHER                              -> tokens[i + 1]
  IN  tokens[1]

(***************************************************************************)
(* queryRelationIdentifiers: up to three dotted parts after a keyword.      *)
(***************************************************************************)
IsKeyword(token, value) == token.identifier /\ ~token.quoted /\ token.value = value

QualifiedName(tokens, i) ==
  LET parts[n \in 1..3] ==
        LET at == i + 2 * (n - 1)
        IN  <<tokens[at].value>> \o
              IF /\ n < 3 /\ at + 2 <= Len(tokens)
                 /\ tokens[at + 1].value = <<".">> /\ tokens[at + 2].identifier
              THEN parts[n + 1] ELSE <<>>
  IN  parts[1]

RelationAt(tokens, i) ==
  LET next == FirstWhere(tokens, i + 1, LAMBDA j : ~IsKeyword(tokens[j], <<"l">>))
  IN  IF /\ IsKeyword(tokens[i], <<"k">>) /\ next <= Len(tokens) /\ tokens[Min({next, Len(tokens)})].identifier
      THEN <<QualifiedName(tokens, next)>> ELSE <<>>

QueryRelationIdentifiers(sql) ==
  LET tokens == TokenizeSQLRelations(sql)
  IN  FlattenSeq([i \in 1..Len(tokens) |-> RelationAt(tokens, i)])

(***************************************************************************)
(* PostgreSQL's side: lexemes, the text that spells them and the tokens     *)
(* they are.                                                                *)
(***************************************************************************)
Delimiter(tag) == <<"$">> \o tag \o <<"$">>

Doubled(content, quote) ==
  FlattenSeq([i \in 1..Len(content) |-> IF content[i] = quote THEN <<quote, quote>> ELSE <<content[i]>>])

\* Where pattern first occurs in text, which contains it.
IndexOf(pattern, text) == Min({i \in 1..Len(text) : HasPrefix(text, i, pattern)})

Lexemes ==
  [kind : {"name"}, content : Names, tag : {<<>>}]
  \cup [kind : {"dot", "paren", "parameter"}, content : {<<>>}, tag : {<<>>}]
  \cup [kind : {"quoted", "string", "line", "block", "nested"}, content : Contents, tag : {<<>>}]
  \cup {lexeme \in [kind : {"dollar"}, content : Contents, tag : Tags] :
          IndexOf(Delimiter(lexeme.tag), lexeme.content \o Delimiter(lexeme.tag)) = Len(lexeme.content) + 1}

Spell(lexeme) ==
  CASE lexeme.kind = "name"      -> lexeme.content \o <<" ">>
    [] lexeme.kind = "dot"       -> <<".">>
    [] lexeme.kind = "paren"     -> <<"(">>
    [] lexeme.kind = "parameter" -> <<"$", "1", " ">>
    [] lexeme.kind = "quoted"    -> <<"\"">> \o Doubled(lexeme.content, "\"") \o <<"\"", " ">>
    [] lexeme.kind = "string"    -> <<"'">> \o Doubled(lexeme.content, "'") \o <<"'">>
    [] lexeme.kind = "line"      -> <<"-", "-">> \o lexeme.content \o <<"\n">>
    [] lexeme.kind = "block"     -> <<"/", "*">> \o lexeme.content \o <<"*", "/">>
    [] lexeme.kind = "nested"    ->
         <<"/", "*", "/", "*">> \o lexeme.content \o <<"*", "/", "k", " ", "a", "*", "/">>
    [] OTHER                     -> Delimiter(lexeme.tag) \o lexeme.content \o Delimiter(lexeme.tag)

PartTokens(name) ==
  LET starts(i) == i = 1 \/ name[i - 1] = "."
      part(i) == LET end == FirstWhere(name, i, LAMBDA j : name[j] = ".")
                 IN  [j \in 1..end - i |-> ToLower(name[i + j - 1])]
  IN  FlattenSeq([i \in 1..Len(name) |->
        CASE name[i] = "." -> <<Token(<<".">>, FALSE, FALSE)>>
          [] name[i] # "." /\ starts(i) -> <<Token(part(i), TRUE, FALSE)>>
          [] OTHER -> <<>>])

TokensOf(lexeme) ==
  CASE lexeme.kind = "name"   -> PartTokens(lexeme.content)
    [] lexeme.kind = "quoted" -> <<Token(lexeme.content, TRUE, TRUE)>>
    [] lexeme.kind = "dot"    -> <<Token(<<".">>, FALSE, FALSE)>>
    [] lexeme.kind = "paren"  -> <<Token(<<"(">>, FALSE, FALSE)>>
    [] OTHER                  -> <<>>

Text(list) == FlattenSeq([i \in 1..Len(list) |-> Spell(list[i])])

RelationsInit == lexemes = <<>>

AddLexeme(lexeme) == Len(lexemes) < MaxLexemes /\ lexemes' = Append(lexemes, lexeme)

RelationsNext == \E lexeme \in Lexemes : AddLexeme(lexeme)

-----------------------------------------------------------------------------
(***************************************************************************)
(* Properties                                                               *)
(***************************************************************************)
\* However quotes, comment markers and dollar tags occur inside one another, the
\* tokenizer reads the statement PostgreSQL reads: no literal or comment ends
\* early, none swallows what follows it, and quoted names keep their spelling.
TokensRecovered ==
  TokenizeSQLRelations(Text(lexemes)) =
    FlattenSeq([i \in 1..Len(lexemes) |-> TokensOf(lexemes[i])])

\* Literals, comments and parameters never add, hide or change a relation.  (This
\* compares the scan with itself.  Which words introduce a relation is the code's own
\* rule: it reads a relation "set" from DO UPDATE SET.)
LiteralsInvisible ==
  QueryRelationIdentifiers(Text(lexemes)) =
    QueryRelationIdentifiers(Text(SelectSeq(lexemes, LAMBDA lexeme :
      lexeme.kind \in {"name", "quoted", "dot", "paren"})))

\* queryRelationIdentifiers scans the tokens of the statement that PostgreSQL
\* executes, and finds in it what it would find without literals and comments.
RelationsRead == TokensRecovered /\ LiteralsInvisible
=============================================================================
