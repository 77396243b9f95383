---------------------------- MODULE MCContainers ----------------------------
EXTENDS Containers, TLC

(* Sessions are interchangeable.                                           *)
Symmetry == Permutations(Session)
=============================================================================
