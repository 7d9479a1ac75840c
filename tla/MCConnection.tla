---------------------------- MODULE MCConnection ----------------------------
(* Connection for TLC: calls are interchangeable. *)
EXTENDS Connection, TLC

CallSymmetry == Permutations(Calls)
=============================================================================
