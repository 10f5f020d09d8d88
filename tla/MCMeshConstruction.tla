-------------------------- MODULE MCMeshConstruction --------------------------
(***************************************************************************)
(* The three ways to a mesh: an application calls MeshBuilder itself, calls *)
(* OpenMesh, or calls NewStore of a generated store.  stage says which.     *)
(*                                                                          *)
(* Of the builder's sets, "a" and "twin" share a name and "unnamed" has a   *)
(* blank one.  Every error of validateMeshConfig has a specification or a   *)
(* mapping that leads to it; mirrors may form chains and cycles.  NewStore  *)
(* has two copy queries, two groups and up to three databases.              *)
(***************************************************************************)
EXTENDS StoreBuild

BuilderSets == {"a", "twin", "b", "unnamed"}
Names == [s \in BuilderSets \cup {"c", "default"} |->
            CASE s = "twin" -> "a" [] s = "unnamed" -> Blank [] OTHER -> s]
Counts == {0, 3}
Callable == 0 .. 3
Copies == <<"CopyX", "CopyY">>
TwoGroups == <<"G", "H">>

Opt(field, value) == [field |-> field, value |-> value]

Set(name, primary, replicas) ==
  [name |-> name, primary |-> primary, replicas |-> replicas]

To(main, shards, mirrors) ==
  [main |-> main, shards |-> shards, mirrors |-> mirrors]

SomeSpecs ==
  {Set("a", "p", <<>>), Set("a", "p", <<"q", "r">>), Set("b", "s", <<"t">>),
   Set("b", "s", <<Blank>>), Set("c", "p", <<>>), Set(Blank, "s", <<>>)}

SomeMappings ==
  {To(main, shards, mirrors) :
     main \in {"a", "b"}, shards \in {<<0, 2>>, <<1>>}, mirrors \in {<<>>, <<"a">>, <<"b">>}}
  \cup {To("a", <<0, 1, 2, 0>>, <<>>), To("a", <<3>>, <<>>), To("a", <<>>, <<"b">>),
        To("a", <<0, 1, 2>>, <<"b", "b">>), To("d", <<0, 1>>, <<>>), To("a", <<0, 1>>, <<"d">>),
        To("a", <<0, 2>>, <<"c", "b">>), To("a", <<1>>, <<"c", "b">>)}

SomeSingletons ==
  {<<>>, <<NilOpt>>, <<Opt("name", Empty)>>, <<Opt("name", Blank)>>,
   <<Opt("name", "a"), Opt("replicas", <<"d1", "d2">>), Opt("replicas", <<"d3">>)>>,
   <<Opt("mirrors", <<"d2">>), Opt("replicas", <<"d3">>), Opt("mirrors", <<"d1">>)>>,
   <<Opt("mirrors", <<NilDB>>)>>, <<Opt("replicas", <<"d1", NilDB>>)>>,
   <<Opt("replicas", <<"d1">>), NilOpt, Opt("name", "b")>>}

SetOpt(name, primary, replicas) == Opt("sets", Set(name, primary, replicas))
ToOpt(main, shards, mirrors) == Opt("mappings", To(main, shards, mirrors))

SomeShardeds ==
  {<<SetOpt("a", "d1", <<"d2">>), SetOpt("b", "d3", <<>>), ToOpt("b", <<1>>, <<>>),
     ToOpt("a", <<0, 2>>, <<"b">>)>>,
   <<ToOpt("b", <<0, 1, 2>>, <<"a">>), SetOpt("b", "d1", <<"d2", "d3">>), SetOpt("a", "d2", <<"d1">>)>>,
   <<SetOpt("a", "d1", <<>>), ToOpt("a", <<0, 1, 2>>, <<>>)>>,
   <<SetOpt("a", "d1", <<>>), ToOpt("a", <<0>>, <<>>)>>,
   <<SetOpt("a", "d1", <<"d2", NilDB>>), SetOpt("b", "d3", <<>>), ToOpt("a", <<0, 1, 2>>, <<"b">>)>>,
   <<SetOpt("a", "d1", <<>>), SetOpt("a", "d2", <<>>), ToOpt("a", <<0, 1, 2>>, <<>>)>>,
   <<SetOpt("a", "d1", <<>>), NilOpt>>, <<>>}

SomeStores ==
  {<<>>, <<NilOpt>>, <<Opt("G", "wrap1")>>, <<Opt("G", "wrap1"), Opt("G", "nil")>>,
   <<Opt("H", "wrap1"), Opt("CopyX", "small"), Opt("G", "wrap1"), Opt("H", "wrap2")>>,
   <<Opt("CopyY", "small"), Opt("CopyY", "large"), Opt("meter", "bad"), Opt("meter", "good")>>,
   <<Opt("G", "wrap1"), Opt("CopyY", "negative")>>, <<Opt("meter", "bad")>>,
   <<Opt("G", "wrap1"), NilOpt, Opt("G", "wrap2")>>}

NoStore(way) ==
  /\ topology = NoTopology /\ given = <<>> /\ options = NoOptions /\ dbs = <<>>
  /\ batchers = <<>> /\ groups = <<>> /\ called = {} /\ stage = way /\ storeErr = "none"

NoOpenMesh ==
  /\ config = [replicaSets |-> <<>>, mappings |-> <<>>, count |-> 0,
               hasher |-> NilHasher, opener |-> TRUE]
  /\ opened = <<>> /\ replicaSets = <<>> /\ configured = <<>>
  /\ pc = "idle" /\ at = 1 /\ err = "none"

ConstructionInit ==
  \/ Init /\ NoOpenMesh /\ NoStore("MeshBuilder")
  \/ OpenInit /\ NoStore("OpenMesh")
  \/ StoreInit

ConstructionNext ==
  \/ /\ stage = "MeshBuilder" /\ Next
     /\ UNCHANGED <<storeVars, config, opened, replicaSets, configured, pc, at, err>>
  \/ stage = "OpenMesh" /\ OpenNext /\ UNCHANGED storeVars
  \/ StoreNext

ConstructionSpec == ConstructionInit /\ [][ConstructionNext]_<<storeVars, openVars>>
=============================================================================
