----------------------------- MODULE CacheAside -----------------------------
(***************************************************************************)
(* The cache-aside wrapper of examples/06-cache-aside: a group factory that *)
(* embeds the generated Settings store and keeps a settingCache beside it.  *)
(*                                                                          *)
(* Callers of one process run GetSetting and UpsertSetting concurrently,    *)
(* with or without query options.  The cache is locked per access, not per  *)
(* call, so other calls run between a call's database work and its put.  An *)
(* upsert in a caller's transaction holds the row until the transaction     *)
(* ends.  An error says nothing about the row: the write may have taken     *)
(* effect, or take effect later, when its answer was lost or its context    *)
(* canceled.                                                                *)
(***************************************************************************)
EXTENDS Naturals

CONSTANTS Callers, Keys,
          MaxUpserts,   \* bound on upserts: they write 2, 3, ..., all different
          MaxGets       \* bound on reads of each caller

ASSUME CacheAsideAssumption == {MaxUpserts, MaxGets} \subseteq Nat

VARIABLES db,         \* committed value of each row, 0 for no row
          open,       \* caller -> its open transaction's value of each key, 0 for none
          late,       \* <<key, value>> of upserts given up while the database had them
          cache,      \* settingCache.values, with the upserts its putter overlapped
          call,       \* caller -> the call it is in
          upserts,    \* the last upsert begun
          gets,       \* caller -> reads begun
          committed,  \* history: values that have been in db
          returned    \* history: upserts that returned a row

vars == <<db, open, late, cache, call, upserts, gets, committed, returned>>

database == <<db, open, late, committed>>

Idle == [pc |-> "idle", key |-> CHOOSE key \in Keys : TRUE, tx |-> FALSE, value |-> 0, met |-> {}]

NoEntry == [value |-> 0, met |-> {}]

\* The row a key may have had before is 1.
Init == /\ db \in [Keys -> {0, 1}]
        /\ open = [c \in Callers |-> [key \in Keys |-> 0]]
        /\ late = {}
        /\ cache = [key \in Keys |-> NoEntry]
        /\ call = [c \in Callers |-> Idle]
        /\ upserts = 1
        /\ gets = [c \in Callers |-> 0]
        /\ committed = {1}
        /\ returned = {1}

(***************************************************************************)
(* The database as one caller sees it.                                      *)
(***************************************************************************)
InTransaction(c) == \E key \in Keys : open[c][key] # 0

RowFree(c, key) == \A other \in Callers \ {c} : open[other][key] = 0

Commit(rows) ==
  /\ db' = [key \in Keys |-> IF rows[key] # 0 THEN rows[key] ELSE db[key]]
  /\ committed' = committed \cup ({rows[key] : key \in Keys} \ {0})

Row(key, value) == [k \in Keys |-> IF k = key THEN value ELSE 0]

(***************************************************************************)
(* Calls.  A call remembers the upserts of its key that it overlaps.        *)
(***************************************************************************)
On(key) == {c \in Callers : call[c].pc # "idle" /\ call[c].key = key}

Upserting(key) == {call[c].value : c \in {d \in On(key) : call[d].pc \in {"upsert", "written"}}}

Begin(c, pc, key, tx) ==
  [pc |-> pc, key |-> key, tx |-> tx, value |-> 0, met |-> Upserting(key)]

Return(c) == call' = [call EXCEPT ![c] = Idle]

Put(c) == cache' = [cache EXCEPT ![call[c].key] = [value |-> call[c].value, met |-> call[c].met]]

(***************************************************************************)
(* GetSetting.  With options the call goes straight to the store.           *)
(***************************************************************************)
GetSetting(c, key, options, tx) ==
  /\ call[c].pc = "idle" /\ gets[c] < MaxGets
  /\ tx => options
  /\ call' = [call EXCEPT ![c] = Begin(c, IF options THEN "bypass" ELSE "lookup", key, tx)]
  /\ gets' = [gets EXCEPT ![c] = @ + 1]
  /\ UNCHANGED <<database, cache, upserts, returned>>

Bypass(c) ==
  /\ call[c].pc = "bypass"
  /\ Return(c)
  /\ UNCHANGED <<database, cache, upserts, gets, returned>>

Hit(c) ==
  /\ call[c].pc = "lookup" /\ cache[call[c].key] # NoEntry
  /\ Return(c)
  /\ UNCHANGED <<database, cache, upserts, gets, returned>>

Miss(c) ==
  /\ call[c].pc = "lookup" /\ cache[call[c].key] = NoEntry
  /\ call' = [call EXCEPT ![c].pc = "missed"]
  /\ UNCHANGED <<database, cache, upserts, gets, returned>>

\* The delegated read; a missing row is an error and caches nothing.
ReadStore(c) ==
  /\ call[c].pc = "missed" /\ db[call[c].key] # 0
  /\ call' = [call EXCEPT ![c].pc = "read", ![c].value = db[call[c].key]]
  /\ UNCHANGED <<database, cache, upserts, gets, returned>>

ReadFails(c) ==
  /\ call[c].pc = "missed"
  /\ Return(c)
  /\ UNCHANGED <<database, cache, upserts, gets, returned>>

PutRead(c) ==
  /\ call[c].pc = "read"
  /\ Put(c)
  /\ Return(c)
  /\ UNCHANGED <<database, upserts, gets, returned>>

(***************************************************************************)
(* UpsertSetting: the row the store returns is put, options or not.         *)
(***************************************************************************)
\* (A caller with an open transaction does not write outside it: on the same row
\* it would wait for itself.)
UpsertSetting(c, key, tx) ==
  /\ call[c].pc = "idle" /\ upserts <= MaxUpserts
  /\ InTransaction(c) => tx
  /\ upserts' = upserts + 1
  /\ call' = [d \in Callers |->
       CASE d = c        -> [Begin(c, "upsert", key, tx) EXCEPT !.value = upserts + 1]
         [] d \in On(key) -> [call[d] EXCEPT !.met = @ \cup {upserts + 1}]
         [] OTHER        -> call[d]]
  /\ UNCHANGED <<database, cache, gets, returned>>

WriteStore(c) ==
  /\ call[c].pc = "upsert" /\ RowFree(c, call[c].key)
  /\ IF call[c].tx
     THEN /\ open' = [open EXCEPT ![c][call[c].key] = call[c].value]
          /\ UNCHANGED <<db, committed>>
     ELSE Commit(Row(call[c].key, call[c].value)) /\ UNCHANGED open
  /\ call' = [call EXCEPT ![c].pc = "written"]
  /\ UNCHANGED <<late, cache, upserts, gets, returned>>

\* The store returns an error and nothing is put, whatever became of the row.
WriteFails(c) ==
  /\ call[c].pc \in {"upsert", "written"}
  /\ late' \in {late} \cup
       IF call[c].pc = "upsert" /\ ~call[c].tx THEN {late \cup {<<call[c].key, call[c].value>>}} ELSE {}
  /\ Return(c)
  /\ UNCHANGED <<db, open, committed, cache, upserts, gets, returned>>

DeviationWriteAround(c) ==
  /\ call[c].pc = "written"
  /\ returned' = returned \cup {call[c].value}
  /\ Return(c)
  /\ UNCHANGED <<database, cache, upserts, gets>>

PutWritten(c) ==
  /\ call[c].pc = "written"
  /\ Put(c)
  /\ returned' = returned \cup {call[c].value}
  /\ Return(c)
  /\ UNCHANGED <<database, upserts, gets>>

(***************************************************************************)
(* The caller's transaction ends between calls; a write whose caller is     *)
(* gone is applied.                                                         *)
(***************************************************************************)
EndTransaction(c, commit) ==
  /\ call[c].pc = "idle" /\ InTransaction(c)
  /\ IF commit THEN Commit(open[c]) ELSE UNCHANGED <<db, committed>>
  /\ open' = [open EXCEPT ![c] = [key \in Keys |-> 0]]
  /\ UNCHANGED <<late, cache, call, upserts, gets, returned>>

ApplyLate(write) ==
  /\ \A c \in Callers : open[c][write[1]] = 0
  /\ Commit(Row(write[1], write[2]))
  /\ late' = late \ {write}
  /\ UNCHANGED <<open, cache, call, upserts, gets, returned>>

Next ==
  \/ \E c \in Callers :
       \/ \E key \in Keys, options, tx \in BOOLEAN : GetSetting(c, key, options, tx)
       \/ Bypass(c) \/ Hit(c) \/ Miss(c) \/ ReadStore(c) \/ ReadFails(c) \/ PutRead(c)
       \/ \E key \in Keys, tx \in BOOLEAN : UpsertSetting(c, key, tx)
       \/ WriteStore(c) \/ WriteFails(c) \/ PutWritten(c)
       \/ \E commit \in BOOLEAN : EndTransaction(c, commit)
  \/ \E write \in late : ApplyLate(write)

Spec == Init /\ [][Next]_vars

-----------------------------------------------------------------------------
(***************************************************************************)
(* Properties                                                               *)
(***************************************************************************)
\* The cache goes stale in three ways only, however calls, transactions and lost
\* answers interleave.  An entry that is not the committed row was put by a call
\* that overlapped the upsert of that row, or it comes from a transaction
\* that has not committed, or the upsert of the row returned no row to its caller.  So
\* a race is healed by the next upsert that returns and overlaps nothing.
OverlapExplainsStale ==
  \A key \in Keys :
    (cache[key] # NoEntry /\ cache[key].value # db[key]) =>
      \/ db[key] \in cache[key].met
      \/ cache[key].value \notin committed
      \/ db[key] \notin returned
=============================================================================
