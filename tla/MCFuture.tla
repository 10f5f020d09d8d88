------------------------------ MODULE MCFuture -------------------------------
(* Two goroutines race to resolve the Future two callers wait for. *)
EXTENDS Future

CONSTANTS r1, r2, w1, w2
=============================================================================
