------------------------------- MODULE MCSockets -------------------------------
(***************************************************************************)
(* A round of three connections and as many descriptors as they need, or   *)
(* one less.                                                               *)
(***************************************************************************)
EXTENDS Sockets, TLC

CONSTANTS c1, c2, c3

ThreeConnections == {c1, c2, c3}
ConnectionSymmetry == Permutations(ThreeConnections)
=============================================================================
