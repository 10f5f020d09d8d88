---------------------------- MODULE MCMeshRouting ----------------------------
(***************************************************************************)
(* Routing over three virtual shards: every key of a 3-bit signed type, a  *)
(* counter that wraps after 16 reads, replica sets derived from each       *)
(* other with up to two mirrors.                                           *)
(***************************************************************************)
EXTENDS MeshRouting, TLC

CONSTANTS m1, m2

AllKeys == -KeyHalf .. KeyHalf - 1

\* The mirrors are interchangeable: nothing but equality tells them apart.
MirrorSymmetry == Permutations(Mirrors)
=============================================================================
