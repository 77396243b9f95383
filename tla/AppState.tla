------------------------------ MODULE AppState ------------------------------
(***************************************************************************)
(* The committed state of an app instance (move/commitment): a table of    *)
(* elements, a commitment that follows the table by increments, and the    *)
(* list of rollback records, one per action.  Nothing rolls back yet       *)
(* ("TODO: implement rollback calls"): the records are kept for it.        *)
(*                                                                         *)
(* The commitment is the sum of the digests of the elements, each times a  *)
(* power of r.  The powers are told apart, digests are not computed: a     *)
(* commitment is a function from indices to coefficients, and a value is   *)
(* its digest.  Of an action only what it writes is looked at.             *)
(***************************************************************************)
EXTENDS Integers, Sequences

CONSTANTS
  Index,           \* indices of elements
  MaxAction,       \* bound: actions 1..MaxAction
  Updates          \* what each action writes, in this order

None == -1         \* no element

ASSUME AppStateAssumption ==
  /\ MaxAction \in Nat
  /\ Updates \in [1..MaxAction -> Seq([index: Index, value: Nat])]

VARIABLES
  state,           \* AppState: its elements, commitment and sequence, and
                   \* the sequence of its actions_commitment
  rollback         \* Rollback: its bounds and records; the record itself
                   \* stands for the hash that is kept of it

Zero == [i \in Index |-> 0]

StateInit ==
  /\ state = [sequence |-> 0, actions |-> 0,
              elements |-> [i \in Index |-> None], commitment |-> Zero]
  /\ rollback = [start |-> 0, end |-> 0, records |-> [k \in {} |-> <<>>]]

Digest(value) == IF value = None THEN 0 ELSE value

(* update: the commitment after one element has changed.                   *)
Updated(commitment, index, old, new) ==
  [commitment EXCEPT ![index] = @ + Digest(new) - Digest(old)]

(* Slip: what was there before the action, not before the update.          *)
PreviousOfAction(s, index) == state.elements[index]

Previous(s, index) == s.elements[index]

Written(s, u) ==
  LET after == Updated(s.commitment, u.index, Previous(s, u.index), u.value)
  IN  [elements |-> [s.elements EXCEPT ![u.index] = u.value],
       commitment |-> after,
       record |-> Append(s.record,
                    [index |-> u.index, previous |-> Previous(s, u.index),
                     before |-> s.commitment, after |-> after])]

WrittenAll(s, updates) ==
  LET after[i \in 0..Len(updates)] ==
        IF i = 0 THEN s ELSE Written(after[i - 1], updates[i])
  IN  after[Len(updates)]

(* commit_action, with add_rollback_sequence.  Three counters have to      *)
(* agree, or the call aborts.                                              *)
CommitAction ==
  LET k == state.sequence + 1
      s == WrittenAll([elements |-> state.elements,
                       commitment |-> state.commitment, record |-> <<>>],
                      Updates[k])
  IN
  /\ k <= MaxAction
  /\ state.actions + 1 = k
  /\ k = rollback.end + 1
  /\ state' = [sequence |-> k, actions |-> k,
               elements |-> s.elements, commitment |-> s.commitment]
  /\ rollback' = [start |-> rollback.start, end |-> k,
                  records |-> [j \in DOMAIN rollback.records \cup {k} |->
                                 IF j = k THEN s.record ELSE rollback.records[j]]]

(* Slip: the record of the last purged sequence stays.                     *)
GoneBelow(p) == rollback.start..(p - 1)

Gone(p) == rollback.start..p

(* purge_records: past either end it aborts.                               *)
PurgeRecords(p) ==
  /\ p \in rollback.start..rollback.end
  /\ rollback' = [start |-> p + 1, end |-> rollback.end,
                  records |-> [j \in DOMAIN rollback.records \ Gone(p) |->
                                 rollback.records[j]]]

-----------------------------------------------------------------------------
(* What the table holds after k actions: what was written last.            *)
StateAfter ==
  [k \in 0..MaxAction |-> [i \in Index |->
     LET writes == UNION {{<<a, n>> : n \in {m \in DOMAIN Updates[a] :
                                              Updates[a][m].index = i}} : a \in 1..k}
         IsLast(w) == \A v \in writes :
                        v[1] < w[1] \/ (v[1] = w[1] /\ v[2] <= w[2])
         last == CHOOSE w \in writes : IsLast(w)
     IN  IF writes = {} THEN None ELSE Updates[last[1]][last[2]].value]]

(* commit: the commitment of a table, from scratch.                        *)
Commitment(elements) == [i \in Index |-> Digest(elements[i])]

(* The table before the action of this record, from the table after it.    *)
Undo(elements, record) ==
  LET n == Len(record)
      back[i \in 0..n] ==
        IF i = 0 THEN elements
        ELSE [back[i - 1] EXCEPT ![record[n + 1 - i].index] = record[n + 1 - i].previous]
  IN  back[n]

(* The table after k actions, by undoing the later ones, newest first.     *)
RolledBack(k) ==
  LET back[i \in 0..(state.sequence - k)] ==
        IF i = 0 THEN state.elements
        ELSE Undo(back[i - 1], rollback.records[state.sequence + 1 - i])
  IN  back[state.sequence - k]

(* The commitment follows the table through every update, also when one    *)
(* action writes an element twice or writes one for the first time.        *)
CommitmentIsOfTheState ==
  /\ state.elements = StateAfter[state.sequence]
  /\ state.commitment = Commitment(state.elements)
=============================================================================
