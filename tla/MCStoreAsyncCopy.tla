-------------------------- MODULE MCStoreAsyncCopy --------------------------
(* The instance of StoreAsyncCopy that TLC checks. *)
EXTENDS StoreAsyncCopy, TLC

CONSTANTS c1, c2

Call(bad, rows) == [bad |-> bad, rows |-> rows, sole |-> 0]

\* A query that is not sharded, with n rows for the first set.
SoleCall(n) == [bad |-> FALSE, rows |-> <<n, 0, 0>>, sole |-> 1]

\* c1 passes rows for two sets, one of them without a batcher, no rows, or rows some
\* or all of which are not routed; c2 passes rows for one of the two sets, or calls a
\* query that is not sharded, without rows.
CallsOfTwo ==
  (c1 :> {Call(FALSE, <<1, 2, 0>>), Call(FALSE, <<1, 0, 1>>), Call(FALSE, <<0, 0, 0>>),
          Call(TRUE, <<1, 0, 0>>), Call(TRUE, <<0, 0, 0>>)})
    @@ (c2 :> {Call(FALSE, <<0, 1, 0>>), Call(FALSE, <<2, 0, 0>>), SoleCall(0)})
=============================================================================
