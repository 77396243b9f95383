---------------------------- MODULE JobLifecycle ----------------------------
(***************************************************************************)
(* What the job table promises to those who read it between calls: the     *)
(* life of every job sequence, one call at a time.  A job is born Pending, *)
(* in sequence order; it fails only out of a run that was visible before   *)
(* the call; a failed job runs again only by way of a restart; a sequence  *)
(* that is gone never comes back.                                          *)
(***************************************************************************)
EXTENDS Integers

CONSTANT Sequence    \* job sequences: an interval starting at 1

VARIABLE life

Life == {"Unborn", "Pending", "Running", "Failed", "Gone"}

(* One call may start, retry, reschedule, complete, fail or terminate any  *)
(* number of jobs.                                                         *)
CallMoves ==
  {<<"Pending", "Running">>, <<"Pending", "Gone">>,
   <<"Running", "Pending">>, <<"Running", "Failed">>, <<"Running", "Gone">>,
   <<"Failed", "Gone">>}

Moves(moves) ==
  /\ life' \in [Sequence -> Life]
  /\ \A s \in Sequence : life'[s] = life[s] \/ <<life[s], life'[s]>> \in moves

Create ==
  \E s \in Sequence :
    /\ life[s] = "Unborn"
    /\ \A t \in Sequence : t < s => life[t] # "Unborn"
    /\ life' = [life EXCEPT ![s] = "Pending"]

Call == Moves(CallMoves)

Restart == Moves({<<"Failed", "Pending">>})

Init == life = [s \in Sequence |-> "Unborn"]
Next == Create \/ Call \/ Restart
Spec == Init /\ [][Next]_life
=============================================================================
