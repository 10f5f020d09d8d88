--------------------------- MODULE MCStoreQueries ---------------------------
(* The instances of StoreQueries that TLC checks. *)
EXTENDS StoreQueries

CONSTANTS c1, c2, k1, k2

Method(mode, kind, command, nullable) ==
  [mode |-> mode, kind |-> kind, command |-> command, nullable |-> nullable]

Item(operand, lookup) == [operand |-> operand, lookup |-> lookup]

SeqsUpTo(S, n) == UNION {[1 .. i -> S] : i \in 0 .. n}

\* Operands a, a2 and b are routed, "bad" is not.
TwoHomes == [a |-> 1, a2 |-> 1, b |-> 2, bad |-> 0]

\* Set 1 has two mirrors, set 2 one.
TwoAndOne == <<2, 1>>

ReadMethods ==
  {Method("groupedMany", "read", ":many", TRUE), Method("groupedMany", "read", ":many", FALSE),
   Method("routed", "read", ":one", FALSE), Method("all", "read", ":many", FALSE)}

ReadInputs ==
  [groupedMany |-> SeqsUpTo({Item("a", k1), Item("b", k1), Item("a", k2)}, 3)
                     \cup {<<Item("a", k1), Item("a2", k1), Item("b", k1)>>,
                           <<Item("a2", k1), Item("a", k2), Item("a", k1)>>, <<Item("a", k1), Nil>>, <<Item("a", k1), Item("bad", k1)>>,
                           <<Item("b", k1), Item("a", Incomparable)>>},
   routed      |-> {<<Item(o, k1)>> : o \in DOMAIN TwoHomes},
   all         |-> {<<>>}]

ReadOptions ==
  {<<>>, <<"ReadFromPrimary">>, <<"WithTx">>, <<"WithTx", "ReadFromPrimary", "nil">>,
   <<"WithTx", "WithTx(nil)">>}

ReadKeys == {k1, k2, Null, Nil}

WriteMethods ==
  {Method("groupedCopy", "write", ":copyfrom", FALSE), Method("all", "write", ":exec", FALSE),
   Method("all", "write", ":execrows", FALSE), Method("routed", "write", ":one", FALSE),
   Method("routed", "write", ":batch", FALSE), Method("groupedMany", "write", ":many", FALSE)}

WriteInputs ==
  [groupedCopy |-> {<<>>} \cup [1 .. 3 -> {Item("a", k1), Item("b", k1), Item("b", k2)}]
                     \cup {<<Item("a", k1), Item("bad", k1)>>},
   groupedMany |-> {<<Item("a", k1), Item("b", k1), Item("a", k1)>>},
   routed      |-> {<<Item(o, k1)>> : o \in DOMAIN TwoHomes},
   all         |-> {<<>>}]

WriteOptions == {<<>>, <<"ReadFromPrimary">>, <<"WithTx">>}

\* Two callers that write one row each, or copy rows, to the same sets.
RacingMethods ==
  {Method("groupedCopy", "write", ":copyfrom", FALSE), Method("routed", "write", ":one", FALSE)}

RacingInputs ==
  [groupedCopy |-> {<<Item("a", k1), Item("b", k2)>>},
   routed      |-> {<<Item("a", k1)>>}]

\* One caller reads, one writes, or two race.
ThreeStores ==
  [reads  |-> [ignoreMirrorError |-> FALSE, callers |-> {c1}, methods |-> ReadMethods,
               inputs |-> ReadInputs, options |-> ReadOptions, maxRows |-> 2,
               answers |-> {"ok", "norows", "error"}],
   writes |-> [ignoreMirrorError |-> FALSE, callers |-> {c1}, methods |-> WriteMethods,
               inputs |-> WriteInputs, options |-> WriteOptions, maxRows |-> 1,
               answers |-> {"ok", "norows", "error"}],
   races  |-> [ignoreMirrorError |-> TRUE, callers |-> {c1, c2}, methods |-> RacingMethods,
               inputs |-> RacingInputs, options |-> {<<>>}, maxRows |-> 1,
               answers |-> {"ok", "error"}]]
=============================================================================
