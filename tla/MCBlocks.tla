------------------------------ MODULE MCBlocks ------------------------------
(***************************************************************************)
(* Blocks of an app on two chains, which settle at their own pace.         *)
(***************************************************************************)
EXTENDS AppBlocks, TLC

Symmetry == Permutations(Chain)

Write(i, v) == [index |-> i, value |-> v]

(* An app in the manner of examples/add: element 0 is the sum.  The third  *)
(* action writes an element twice, which commit_action allows, and the     *)
(* fourth writes a zero.                                                   *)
Writes ==
  <<<<Write(0, 0)>>,
    <<Write(1, 4), Write(0, 4)>>,
    <<Write(1, 6), Write(1, 7), Write(0, 7)>>,
    <<Write(1, 0), Write(2, 9), Write(0, 9)>>>>
=============================================================================
