---------------------------- MODULE Calculation ----------------------------
(***************************************************************************)
(* What the proof calculation of one block promises to the app instance    *)
(* that owns it: sequences join while the block is open; once it is closed *)
(* the calculation finishes with the first proof of the whole block, which *)
(* may be there at that moment; it never turns unfinished, and it is       *)
(* deleted only when it is finished.                                       *)
(***************************************************************************)
EXTENDS Naturals

VARIABLE calc

Phase == {"open", "closed", "deleted"}

(* length: sequences so far; full: a usable proof of all of them is there. *)
State == [phase: Phase, length: Nat, full: BOOLEAN, finished: BOOLEAN]

Deleted == [phase |-> "deleted", length |-> 0,
            full |-> FALSE, finished |-> FALSE]

NextSequence ==
  /\ calc.phase = "open"
  /\ calc' = [calc EXCEPT !.length = @ + 1, !.full = FALSE]

(* A full proof at hand is used up.                                        *)
Close ==
  /\ calc.phase = "open"
  /\ calc.length > 0
  /\ calc' = [calc EXCEPT !.phase = "closed", !.full = FALSE,
                          !.finished = calc.full]

(* The sequence that closes the block: its proof cannot be there yet.      *)
CloseWithSequence ==
  /\ calc.phase = "open"
  /\ calc' = [calc EXCEPT !.phase = "closed", !.length = @ + 1,
                          !.full = FALSE]

ProveAll ==
  /\ calc.phase # "deleted"
  /\ calc.length > 0
  /\ calc' = [calc EXCEPT !.full = TRUE,
                          !.finished = @ \/ calc.phase = "closed"]

(* The full proof is rejected, or started again.                           *)
Lose == calc.full /\ calc' = [calc EXCEPT !.full = FALSE]

Delete ==
  /\ calc.phase = "closed"
  /\ calc.finished
  /\ calc' = Deleted

Init == calc = [phase |-> "open", length |-> 0,
                full |-> FALSE, finished |-> FALSE]

Next ==
  \/ NextSequence \/ Close \/ CloseWithSequence
  \/ ProveAll \/ Lose \/ Delete

Spec == Init /\ [][Next]_calc
=============================================================================
