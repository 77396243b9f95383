------------------------------- MODULE Blocks -------------------------------
(***************************************************************************)
(* The block side of an app instance (app_instance.move, with settlement,  *)
(* block and sequence_state): sequences are collected into blocks, blocks  *)
(* are proved, settled on every chain of the instance and then deleted,    *)
(* and the states of settled sequences are purged.                         *)
(*                                                                         *)
(* The proof calculation of a block is the abstract one of Calculation.    *)
(* Each action is one transaction; an aborted one changes nothing.         *)
(***************************************************************************)
EXTENDS Integers, FiniteSets

CONSTANTS
  Chain,           \* settlement chains, fixed when the instance is created
  MinTime,         \* min_time_between_blocks
  MaxSequence,     \* bound on sequences: 0..MaxSequence
  MaxNow           \* bound on the clock

ASSUME BlocksAssumption ==
  /\ IsFiniteSet(Chain)
  /\ MinTime \in Nat /\ MaxSequence \in Nat /\ MaxNow \in Nat

VARIABLES
  sequence,        \* the next sequence
  current,         \* block_number: the block that is open
  previous,        \* previous_block_last_sequence and _timestamp
  blocks,          \* the object table of closed blocks, and block 0
  calcs,           \* the object table of proof calculations
  lastProved,      \* last_proved_block_number
  chains,          \* settlements: per chain, last settled and transactions
  settled,         \* last_settled_block_number and last_settled_sequence
  states,          \* sequence states, lowest_sequence
  purged,          \* last_purged_sequence
  now

vars == <<sequence, current, previous, blocks, calcs, lastProved, chains,
          settled, states, purged, now>>

BlockNumber == 0..MaxSequence
Sequence == 0..MaxSequence

Block == [first: Sequence, last: Sequence,
          stateData: BOOLEAN, proofData: BOOLEAN]

(* full: a usable proof of all sequences the calculation has so far.       *)
Calc == [first: Nat, closed: BOOLEAN, full: BOOLEAN, finished: BOOLEAN]

NewCalc(s) ==
  [first |-> s, closed |-> FALSE, full |-> FALSE, finished |-> FALSE]

(* Slip: a block starts with the last sequence of the one before.          *)
OverlappingBlock(first, last) ==
  [first |-> first - 1, last |-> last,
   stateData |-> FALSE, proofData |-> FALSE]

NewBlock(first, last) ==
  [first |-> first, last |-> last, stateData |-> FALSE, proofData |-> FALSE]

With(f, k, v) == [j \in DOMAIN f \cup {k} |-> IF j = k THEN v ELSE f[j]]
Without(f, S) == [j \in DOMAIN f \ S |-> f[j]]
Least(S) == CHOOSE x \in S : \A y \in S : x <= y

-----------------------------------------------------------------------------
Init ==
  /\ sequence = 0
  /\ current = 1
  /\ previous = [last |-> 0, time |-> 0]
  /\ blocks = [n \in {0} |-> NewBlock(0, 0)]
  /\ calcs = [n \in {1} |-> NewCalc(1)]
  /\ lastProved = 0
  /\ chains = [c \in Chain |-> [last |-> 0, included |-> [n \in {} |-> FALSE]]]
  /\ settled = [block |-> 0, sequence |-> 0]
  /\ states = [present |-> {}, lowest |-> 0]
  /\ purged = 0
  /\ now = 0

-----------------------------------------------------------------------------
(* Sequences and blocks.                                                   *)

(* try_create_block closes the current block over the sequences below      *)
(* `next`.  It waits for a sequence of its own and for the minimum time.   *)
BlockIsDue(next) ==
  /\ previous.last + 1 # next
  /\ now - previous.time > MinTime

(* set_end_sequence finishes the calculation, and uses the proof up, when  *)
(* the full proof is at hand; the next calculation is created with the     *)
(* block.                                                                  *)
CloseBlock(next, full) ==
  /\ blocks' = With(blocks, current, NewBlock(previous.last + 1, next - 1))
  /\ calcs' = With(With(calcs, current,
                        [first |-> previous.last + 1, closed |-> TRUE,
                         full |-> FALSE, finished |-> full]),
                   current + 1, NewCalc(next))
  /\ lastProved' = IF full /\ lastProved = current - 1 THEN current
                   ELSE lastProved
  /\ current' = current + 1
  /\ previous' = [last |-> next - 1, time |-> now]

(* A sequence that joins the open block leaves its proofs partial.         *)
IncreaseSequence ==
  /\ sequence <= MaxSequence
  /\ states' = [states EXCEPT !.present = @ \cup {sequence}]
  /\ sequence' = sequence + 1
  /\ IF BlockIsDue(sequence + 1)
     THEN CloseBlock(sequence + 1, FALSE)
     ELSE /\ calcs' = [calcs EXCEPT ![current].full = FALSE]
          /\ UNCHANGED <<current, previous, blocks, lastProved>>
  /\ UNCHANGED <<chains, settled, purged, now>>

(* Slip: the proof at hand is not looked for.                              *)
TryCreateUnfinished ==
  /\ sequence > 0
  /\ BlockIsDue(sequence)
  /\ CloseBlock(sequence, FALSE)
  /\ UNCHANGED <<sequence, chains, settled, states, purged, now>>

(* At sequence 0, end_sequence underflows and the call aborts.             *)
TryCreateBlock ==
  /\ sequence > 0
  /\ BlockIsDue(sequence)
  /\ CloseBlock(sequence, calcs[current].full)
  /\ UNCHANGED <<sequence, chains, settled, states, purged, now>>

-----------------------------------------------------------------------------
(* Proofs.  The length of the calculation of block n is not zero.          *)
HasSequences(n) ==
  calcs[n].closed \/ calcs[n].first < sequence

(* Slip: only the next block is looked at.                                 *)
FrontierByOne(C) ==
  IF C[lastProved + 1].finished THEN lastProved + 1 ELSE lastProved

(* The frontier of proved blocks after a submission: it moves over every   *)
(* block that is finished in a row, whatever order they finished in.       *)
Frontier(C) ==
  CHOOSE n \in lastProved..(current - 1) :
    /\ \A i \in (lastProved + 1)..n : C[i].finished
    /\ n = current - 1 \/ ~C[n + 1].finished

(* submit_proof of a proof of the whole block, the only kind that can      *)
(* finish it.                                                              *)
SubmitFull(n) ==
  LET C == [calcs EXCEPT ![n].full = TRUE,
                         ![n].finished = @ \/ calcs[n].closed]
  IN
  /\ n \in DOMAIN calcs
  /\ HasSequences(n)
  /\ calcs' = C
  /\ lastProved' = IF calcs[n].closed THEN Frontier(C) ELSE lastProved
  /\ UNCHANGED <<sequence, current, previous, blocks, chains, settled,
                 states, purged, now>>

(* reject_proof or start_proving take the full proof away.                 *)
LoseFull(n) ==
  /\ n \in DOMAIN calcs
  /\ calcs[n].full
  /\ calcs' = [calcs EXCEPT ![n].full = FALSE]
  /\ UNCHANGED <<sequence, current, previous, blocks, lastProved, chains,
                 settled, states, purged, now>>

(* An agent stores a block's state; the block's proof only once it has it. *)
UpdateStateData(n) ==
  /\ n \in DOMAIN blocks
  /\ blocks' = [blocks EXCEPT ![n].stateData = TRUE, ![n].proofData = FALSE]
  /\ UNCHANGED <<sequence, current, previous, calcs, lastProved, chains,
                 settled, states, purged, now>>

UpdateProofData(n) ==
  /\ n \in DOMAIN blocks \cap DOMAIN calcs
  /\ calcs[n].finished
  /\ blocks' = [blocks EXCEPT ![n].proofData = TRUE]
  /\ UNCHANGED <<sequence, current, previous, calcs, lastProved, chains,
                 settled, states, purged, now>>

-----------------------------------------------------------------------------
(* Settlement.                                                             *)
(* Slip: the proof is not asked for.                                       *)
CanSettleUnproved(n) == n \in DOMAIN blocks /\ blocks[n].stateData

CanSettle(n) ==
  /\ n \in DOMAIN blocks
  /\ blocks[n].stateData
  /\ blocks[n].proofData \/ n = 0

(* The hash of the settlement transaction is recorded as not included yet. *)
UpdateTxHash(c, n) ==
  /\ CanSettle(n)
  /\ chains' = [chains EXCEPT ![c].included = With(@, n, FALSE)]
  /\ UNCHANGED <<sequence, current, previous, blocks, calcs, lastProved,
                 settled, states, purged, now>>

(* update_app_last_settled_block_number: what every chain has settled      *)
(* goes.  The range starts at the block that was settled last, which is    *)
(* gone already, and includes its end.                                     *)
Somewhere(CH) == -Least({-CH[c].last : c \in Chain})    \* slip

Everywhere(CH) == Least({CH[c].last : c \in Chain})

Cleanup(least) ==
  LET start == IF settled.block = 0 THEN 1 ELSE settled.block
      gone == IF least > settled.block THEN start..least ELSE {}
      removed == gone \cap DOMAIN blocks
  IN
  /\ blocks' = Without(blocks, gone)
  /\ calcs' = Without(calcs, gone)
  /\ settled' = [block |-> least,
                 sequence |-> IF removed = {} THEN settled.sequence
                              ELSE blocks[CHOOSE n \in removed :
                                     \A m \in removed : m <= n].last]

IsNext(c, n) == n = chains[c].last + 1

(* The settlement itself moves its last block first, so the loop that      *)
(* would remove older entries finds nothing to do.                         *)
TxIncluded(c, n) ==
  LET CH == [chains EXCEPT ![c].last = n, ![c].included = With(@, n, TRUE)]
  IN
  /\ CanSettle(n)
  /\ IsNext(c, n)
  /\ chains' = CH
  /\ Cleanup(Everywhere(CH))
  /\ UNCHANGED <<sequence, current, previous, lastProved, states, purged, now>>

(* purge of k sequences, never past the last settled one; the states below *)
(* the threshold go.                                                       *)
PurgeToUnbounded(k) == purged + k    \* slip

PurgeTo(k) ==
  IF purged + k > settled.sequence THEN settled.sequence ELSE purged + k

Purge(k) ==
  /\ PurgeTo(k) > purged
  /\ purged' = PurgeTo(k)
  /\ states' = [present |-> {s \in states.present : s >= PurgeTo(k)},
                lowest |-> PurgeTo(k)]
  /\ UNCHANGED <<sequence, current, previous, blocks, calcs, lastProved,
                 chains, settled, now>>

Tick ==
  /\ now < MaxNow
  /\ now' = now + 1
  /\ UNCHANGED <<sequence, current, previous, blocks, calcs, lastProved,
                 chains, settled, states, purged>>

Next ==
  \/ IncreaseSequence \/ TryCreateBlock
  \/ \E n \in BlockNumber :
       SubmitFull(n) \/ LoseFull(n) \/ UpdateStateData(n) \/ UpdateProofData(n)
  \/ \E c \in Chain, n \in BlockNumber : UpdateTxHash(c, n) \/ TxIncluded(c, n)
  \/ \E k \in 1..MaxSequence : Purge(k)
  \/ Tick

Spec == Init /\ [][Next]_vars

-----------------------------------------------------------------------------
(* Properties.                                                             *)

(* The variables have their types.                                         *)
TypeOK ==
  /\ sequence \in 0..(MaxSequence + 1)
  /\ current \in 1..(MaxSequence + 1)
  /\ previous \in [last: Sequence, time: 0..MaxNow]
  /\ DOMAIN blocks \subseteq BlockNumber
  /\ blocks \in [DOMAIN blocks -> Block]
  /\ DOMAIN calcs \subseteq 1..(MaxSequence + 1)
  /\ calcs \in [DOMAIN calcs -> Calc]
  /\ lastProved \in BlockNumber
  /\ \A c \in Chain :
       /\ chains[c].last \in BlockNumber
       /\ DOMAIN chains[c].included \subseteq BlockNumber
  /\ settled \in [block: BlockNumber, sequence: Sequence]
  /\ states \in [present: SUBSET Sequence, lowest: Sequence]
  /\ purged \in Sequence
  /\ now \in 0..MaxNow

(* Blocks tile the sequences: each starts where the one before it ended,   *)
(* the open one where the last closed one ended, and a block and its proof *)
(* calculation start together, across closings by either call and          *)
(* deletions.                                                              *)
BlocksTile ==
  /\ calcs[current] = [NewCalc(previous.last + 1) EXCEPT !.full = calcs[current].full]
  /\ sequence > 0 => previous.last < sequence
  /\ \A n \in DOMAIN blocks \ {0} :
       /\ blocks[n].first <= blocks[n].last
       /\ calcs[n].first = blocks[n].first
       /\ blocks[n].first = 1 + IF n = settled.block + 1 THEN settled.sequence
                                ELSE blocks[n - 1].last
       /\ n = current - 1 => blocks[n].last = previous.last

(* A block and its calculation stay in their tables until every chain has  *)
(* settled the block, and no longer.                                       *)
TablesHoldTheUnsettled ==
  /\ \A c \in Chain : settled.block <= chains[c].last
  /\ Chain # {} => \E c \in Chain : settled.block = chains[c].last
  /\ DOMAIN blocks = {0} \cup (settled.block + 1)..(current - 1)
  /\ DOMAIN calcs = (settled.block + 1)..current

(* last_proved_block_number is the end of the unbroken run of finished     *)
(* blocks, although blocks finish in any order, some when they are closed. *)
ProvedFrontier ==
  /\ lastProved < current
  /\ \A n \in DOMAIN calcs : n <= lastProved => calcs[n].finished
  /\ lastProved + 1 \in DOMAIN calcs => ~calcs[lastProved + 1].finished

(* No chain settles past the proved blocks, so the loop of submit_proof,   *)
(* which borrows the calculations after last_proved, finds them all.       *)
SettledIsProved == \A c \in Chain : chains[c].last <= lastProved

(* The states of all sequences that some chain has yet to settle survive a *)
(* purge, and the purge leaves no hole.                                    *)
PurgeKeepsTheUnsettled ==
  /\ purged <= settled.sequence
  /\ states.present = purged..(sequence - 1)
  /\ states.lowest = purged

(* Progress is never taken back.                                           *)
NeverBack ==
  [][/\ current' >= current
     /\ lastProved' >= lastProved
     /\ settled'.block >= settled.block
     /\ settled'.sequence >= settled.sequence
     /\ purged' >= purged
     /\ \A c \in Chain : chains'[c].last >= chains[c].last]_vars

(* The calculation of every block keeps the promises of Calculation, whose *)
(* other implementation is Prover.                                         *)
Length(n) ==
  IF n < current THEN blocks[n].last - blocks[n].first + 1
  ELSE IF n = current /\ sequence > calcs[n].first THEN sequence - calcs[n].first
  ELSE 0

NewAbstract == [phase |-> "open", length |-> 0,
                full |-> FALSE, finished |-> FALSE]
DeletedAbstract == [NewAbstract EXCEPT !.phase = "deleted"]

CalcOf(n) ==
  IF n > current THEN NewAbstract
  ELSE IF n \notin DOMAIN calcs THEN DeletedAbstract
  ELSE [phase |-> IF calcs[n].closed THEN "closed" ELSE "open",
        length |-> Length(n), full |-> calcs[n].full,
        finished |-> calcs[n].finished]

Abstract(n) == INSTANCE Calculation WITH calc <- CalcOf(n)

ImplementsCalculations ==
  /\ \A n \in 1..MaxSequence : Abstract(n)!Init
  /\ [][\A n \in 1..MaxSequence :
          Abstract(n)!Next \/ UNCHANGED CalcOf(n)]_vars
=============================================================================
