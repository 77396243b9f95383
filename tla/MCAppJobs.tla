----------------------------- MODULE MCAppJobs -----------------------------
(***************************************************************************)
(* A small instance of AppJobs, and with it of Jobs: intervals on both     *)
(* sides of the minimum and none, first slots absent and due, budgets of   *)
(* one and two attempts, batches that can name one job twice, jobs of two  *)
(* chains and of none.                                                     *)
(***************************************************************************)
EXTENDS AppJobs, TLC

MCIntervals == {None, 0, 1}
MCStartTimes == {None, 0}
MCMaxAttempts == {1, 2}
MCMemory == {1}

Symmetry == Permutations(Method) \cup Permutations(Chain)
=============================================================================
