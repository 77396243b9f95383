---------------------------- MODULE KeyValueMap ----------------------------
(***************************************************************************)
(* What an indexed Merkle map promises its callers: a map that starts with *)
(* the key zero, into which keys are inserted once, up to a capacity, and  *)
(* whose values change in place.                                           *)
(***************************************************************************)
EXTENDS Integers, FiniteSets

CONSTANTS Key, Value, Capacity

VARIABLE contents        \* a function from the keys that are present

Init == contents = [k \in {0} |-> 0]

Insert(k, v) ==
  /\ k \notin DOMAIN contents
  /\ Cardinality(DOMAIN contents) < Capacity
  /\ contents' = [j \in DOMAIN contents \cup {k} |->
                    IF j = k THEN v ELSE contents[j]]

Update(k, v) ==
  /\ k \in DOMAIN contents
  /\ contents' = [contents EXCEPT ![k] = v]

Next == \E k \in Key, v \in Value : Insert(k, v) \/ Update(k, v)

Spec == Init /\ [][Next]_contents
=============================================================================
