---------------------------- MODULE MCCacheAside ----------------------------
(***************************************************************************)
(* Two callers and two settings, interchangeable but for the idle call's    *)
(* key, so only callers are permuted.                                       *)
(***************************************************************************)
EXTENDS CacheAside, TLC

Permuted == Permutations(Callers)
=============================================================================
