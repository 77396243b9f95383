--------------------------- MODULE MCLockQueue ---------------------------
EXTENDS LockQueue

CONSTANTS r1, r2

(* Both bundles name every object.                                         *)
Everything == [r \in Request |-> Object]
==========================================================================
