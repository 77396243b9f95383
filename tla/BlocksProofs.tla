---------------------------- MODULE BlocksProofs ----------------------------
(***************************************************************************)
(* The invariants of Blocks for any chains and any number of sequences:    *)
(* an inductive invariant, the safety properties that follow from it, and  *)
(* that progress is never taken back.  An app's calls are calls of Blocks; *)
(* its rollback records and jobs follow the sequences and blocks, its      *)
(* commitment follows its state, undoing its records leads back to earlier *)
(* states, and its blocks commit to the states they end with.              *)
(***************************************************************************)
EXTENDS AppBlocks, WellFoundedInduction, TLAPS

(* A set of naturals has a least member.                                   *)
LEMMA LeastMember ==
  ASSUME NEW S \in SUBSET Nat, S # {}
  PROVE  \E m \in S : \A n \in S : m <= n
<1> DEFINE Less == OpToRel(<, Nat)
<1>1. IsWellFoundedOn(Less, Nat)
  BY NatLessThanWellFounded
<1>2. \A x, y \in Nat : <<y, x>> \in Less <=> y < x
  BY DEF OpToRel
<1> HIDE DEF Less
<1>3. PICK x \in S : \A y \in S : ~ (<<y, x>> \in Less)
  BY ONLY <1>1, WFMin, S \subseteq Nat, S # {}
<1>4. ASSUME NEW y \in S PROVE x <= y
  <2>1. ~ (<<y, x>> \in Less) /\ x \in Nat /\ y \in Nat
    BY <1>3
  <2>2. ~ (y < x)
    BY <1>2, <2>1
  <2> QED
    BY <2>1, <2>2
<1> QED
  BY <1>4

(* Induction up to a bound: a set with 0 and with every successor.         *)
LEMMA BoundedInduction ==
  ASSUME NEW N \in Nat, NEW S, 0 \in S, \A n \in 0..(N - 1) : n \in S => n + 1 \in S
  PROVE  \A n \in 0..N : n \in S
<1> DEFINE T == {n \in 0..N : n \notin S}
<1> SUFFICES ASSUME T # {} PROVE FALSE
  OBVIOUS
<1>1. PICK m \in T : \A n \in T : m <= n
  <2>1. T \in SUBSET Nat
    OBVIOUS
  <2> HIDE DEF T
  <2> QED
    BY <2>1, LeastMember
<1>2. m # 0 /\ m - 1 \in 0..(N - 1) /\ m - 1 + 1 = m
  OBVIOUS
<1>3. m - 1 \in S
  BY <1>1, <1>2
<1> QED
  BY <1>2, <1>3

(* A function on 0..N may be defined by its first value and by a step.     *)
Reaches(N, S, a, F) ==
  \E g \in [0..N -> S] : g[0] = a /\ \A i \in 1..N : g[i] = F[<<g[i - 1], i>>]

LEMMA Recursion ==
  ASSUME NEW N \in Nat, NEW S, NEW a \in S, NEW F \in [S \X (1..N) -> S]
  PROVE  Reaches(N, S, a, F)
<1> DEFINE Good(g, n) == /\ g \in [0..n -> S] /\ g[0] = a
                         /\ \A i \in 1..n : g[i] = F[<<g[i - 1], i>>]
           T == {n \in 0..N : \E g : Good(g, n)}
<1>1. 0 \in T
  <2> DEFINE h == [i \in 0..0 |-> a]
  <2>1. h \in [0..0 -> S] /\ h[0] = a /\ 1..0 = {}
    OBVIOUS
  <2>2. Good(h, 0)
    BY <2>1
  <2> HIDE DEF Good
  <2>3. \E g : Good(g, 0)
    BY <2>2
  <2> QED
    BY <2>3
<1>2. ASSUME NEW n \in 0..(N - 1), n \in T PROVE n + 1 \in T
  <2>1. PICK g : Good(g, n)
    BY <1>2
  <2> DEFINE next == F[<<g[n], n + 1>>]
             h == [i \in 0..(n + 1) |-> IF i = n + 1 THEN next ELSE g[i]]
  <2>2. <<g[n], n + 1>> \in S \X (1..N)
    BY <2>1
  <2>3. next \in S
    BY <2>2
  <2>4. h \in [0..(n + 1) -> S] /\ h[0] = a
    BY <2>1, <2>3
  <2>5. ASSUME NEW i \in 1..(n + 1) PROVE h[i] = F[<<h[i - 1], i>>]
    <3>1. CASE i = n + 1
      <4>1. h[i] = next /\ h[i - 1] = g[n]
        BY <3>1
      <4> QED
        BY <3>1, <4>1
    <3>2. CASE i \in 1..n
      <4>1. h[i] = g[i] /\ h[i - 1] = g[i - 1]
        BY <3>2
      <4> QED
        BY <2>1, <3>2, <4>1
    <3> QED
      BY <3>1, <3>2
  <2>6. Good(h, n + 1)
    BY <2>4, <2>5
  <2> HIDE DEF Good
  <2>7. \E f : Good(f, n + 1)
    BY <2>6
  <2> QED
    BY <2>7
<1> HIDE DEF T
<1>3. \A n \in 0..N : n \in T
  BY <1>1, <1>2, BoundedInduction
<1>4. N \in T
  BY <1>3
<1> QED
  BY <1>4 DEF T, Reaches

-----------------------------------------------------------------------------
Entries == UNION {[S -> BOOLEAN] : S \in SUBSET BlockNumber}

TypeInv ==
  /\ sequence \in 0..(MaxSequence + 1)
  /\ current \in Nat \ {0}
  /\ previous \in [last: Sequence, time: 0..MaxNow]
  /\ blocks \in [DOMAIN blocks -> Block]
  /\ calcs \in [DOMAIN calcs -> Calc]
  /\ lastProved \in Nat
  /\ chains \in [Chain -> [last: Nat, included: Entries]]
  /\ settled \in [block: Nat, sequence: Nat]
  /\ states \in [present: SUBSET Nat, lowest: Nat]
  /\ purged \in Nat
  /\ now \in 0..MaxNow

(* Every closed block has a sequence of its own.                           *)
PlaceInv ==
  /\ current <= previous.last + 1
  /\ previous.last <= sequence
  /\ sequence > 0 => previous.last < sequence

(* The blocks that are closed and in their table.                          *)
Closed == (settled.block + 1)..(current - 1)

TableInv ==
  /\ settled.block <= lastProved
  /\ lastProved < current
  /\ DOMAIN blocks = {0} \cup Closed
  /\ DOMAIN calcs = Closed \cup {current}

ChainInv ==
  /\ \A c \in Chain : settled.block <= chains[c].last /\ chains[c].last <= lastProved
  /\ Chain # {} => \E c \in Chain : settled.block = chains[c].last

(* Where a block lies, between what is settled and what is open.           *)
BlockInv ==
  /\ \A n \in Closed :
       /\ blocks[n].first <= blocks[n].last
       /\ blocks[n].first = 1 + IF n = settled.block + 1 THEN settled.sequence
                                ELSE blocks[n - 1].last
       /\ settled.sequence < blocks[n].first
       /\ blocks[n].last <= previous.last
       /\ n = current - 1 => blocks[n].last = previous.last
       /\ calcs[n].first = blocks[n].first
  /\ \A m, n \in Closed : m < n => blocks[m].last < blocks[n].first
  /\ settled.sequence <= previous.last
  /\ settled.block = current - 1 => settled.sequence = previous.last
  /\ calcs[current].first = previous.last + 1

(* A block has its proof only when it is finished, finishes only when it   *)
(* is closed, and the proved blocks end where the first unfinished one is. *)
ProofInv ==
  /\ \A n \in Closed : calcs[n].closed /\ (blocks[n].proofData => calcs[n].finished)
  /\ ~calcs[current].closed /\ ~calcs[current].finished
  /\ \A n \in DOMAIN calcs : n <= lastProved => calcs[n].finished
  /\ ~calcs[lastProved + 1].finished

PurgeInv ==
  /\ purged <= settled.sequence
  /\ states.present = purged..(sequence - 1)
  /\ states.lowest = purged

IInv ==
  /\ TypeInv /\ PlaceInv /\ TableInv /\ ChainInv
  /\ BlockInv /\ ProofInv /\ PurgeInv

-----------------------------------------------------------------------------
(* The invariant implies the properties.                                   *)

LEMMA ClosedAreNumbers ==
  ASSUME TypeInv
  PROVE  \A n \in Closed : /\ n \in Nat /\ n > 0 /\ n < current
                           /\ settled.block < n
BY DEF TypeInv, Closed

LEMMA IInvImpliesTypeOK == IInv => TypeOK
<1> SUFFICES ASSUME IInv PROVE TypeOK
  OBVIOUS
<1>1. /\ MaxSequence \in Nat
      /\ sequence \in 0..(MaxSequence + 1) /\ current \in Nat /\ current > 0
      /\ previous.last \in 0..MaxSequence /\ lastProved \in Nat
      /\ settled.block \in Nat /\ settled.sequence \in Nat
      /\ current <= previous.last + 1
      /\ settled.block <= lastProved /\ lastProved < current
      /\ settled.sequence <= previous.last
      /\ purged \in Nat /\ purged <= settled.sequence
  BY BlocksAssumption DEF IInv, TypeInv, PlaceInv, TableInv, BlockInv, PurgeInv, Sequence
<1>2. /\ current \in 1..(MaxSequence + 1) /\ lastProved \in BlockNumber
      /\ settled.block \in BlockNumber /\ settled.sequence \in Sequence
      /\ purged \in Sequence
  BY <1>1 DEF BlockNumber, Sequence
<1>3. Closed \subseteq BlockNumber /\ Closed \subseteq 1..(MaxSequence + 1)
  BY <1>1 DEF Closed, BlockNumber
<1>4. DOMAIN blocks \subseteq BlockNumber /\ DOMAIN calcs \subseteq 1..(MaxSequence + 1)
  BY <1>1, <1>2, <1>3 DEF IInv, TableInv, BlockNumber
<1>5. ASSUME NEW c \in Chain
      PROVE  chains[c].last \in BlockNumber /\ DOMAIN chains[c].included \subseteq BlockNumber
  <2>1. chains[c].last \in Nat /\ chains[c].last <= lastProved
    BY DEF IInv, TypeInv, ChainInv
  <2>2. chains[c].included \in Entries
    BY DEF IInv, TypeInv
  <2>3. DOMAIN chains[c].included \subseteq BlockNumber
    BY <2>2 DEF Entries
  <2> QED
    BY <1>1, <2>1, <2>3 DEF BlockNumber
<1>6. states \in [present: SUBSET Sequence, lowest: Sequence]
  <2>1. states \in [present: SUBSET Nat, lowest: Nat]
    BY DEF IInv, TypeInv
  <2>2. states.present \subseteq Sequence /\ states.lowest \in Sequence
    BY <1>1, <1>2 DEF IInv, PurgeInv, Sequence
  <2> QED
    BY <2>1, <2>2
<1>7. settled \in [block: BlockNumber, sequence: Sequence]
  <2>1. settled \in [block: Nat, sequence: Nat]
    BY DEF IInv, TypeInv
  <2> QED
    BY <1>2, <2>1
<1> QED
  BY <1>1, <1>2, <1>4, <1>5, <1>6, <1>7 DEF TypeOK, IInv, TypeInv

LEMMA IInvImpliesTiling == IInv => BlocksTile
<1> SUFFICES ASSUME IInv PROVE BlocksTile
  OBVIOUS
<1>1. calcs[current] = [NewCalc(previous.last + 1) EXCEPT !.full = calcs[current].full]
  <2>1. calcs[current] \in Calc
    BY DEF IInv, TypeInv, TableInv
  <2>2. /\ calcs[current].first = previous.last + 1
        /\ calcs[current].closed = FALSE /\ calcs[current].finished = FALSE
    BY <2>1 DEF IInv, BlockInv, ProofInv, Calc
  <2>3. previous.last \in Nat
    BY BlocksAssumption DEF IInv, TypeInv, Sequence
  <2> DEFINE c == NewCalc(previous.last + 1)
             d == [c EXCEPT !.full = calcs[current].full]
  <2>4. /\ c \in Calc /\ c.first = previous.last + 1
        /\ c.closed = FALSE /\ c.finished = FALSE
    BY <2>3 DEF NewCalc, Calc
  <2> HIDE DEF c
  <2>5. /\ d \in Calc /\ d.first = c.first /\ d.closed = c.closed
        /\ d.finished = c.finished /\ d.full = calcs[current].full
    BY <2>1, <2>4 DEF Calc
  <2> HIDE DEF d
  <2>6. calcs[current] = d
    BY <2>1, <2>2, <2>4, <2>5 DEF Calc
  <2> QED
    BY <2>6 DEF c, d
<1>2. DOMAIN blocks \ {0} = Closed
  BY ClosedAreNumbers DEF IInv, TableInv
<1> QED
  BY <1>1, <1>2 DEF BlocksTile, IInv, BlockInv, PlaceInv

LEMMA IInvImpliesTables == IInv => TablesHoldTheUnsettled
<1> SUFFICES ASSUME IInv PROVE TablesHoldTheUnsettled
  OBVIOUS
<1>1. settled.block \in Nat /\ current \in Nat /\ settled.block < current
  BY DEF IInv, TypeInv, TableInv
<1>2. Closed \cup {current} = (settled.block + 1)..current
  BY <1>1 DEF Closed
<1> QED
  BY <1>2 DEF IInv, TableInv, ChainInv, TablesHoldTheUnsettled, Closed

LEMMA IInvImpliesProofs == IInv => ProvedFrontier /\ SettledIsProved
BY DEF IInv, TableInv, ProofInv, ChainInv, ProvedFrontier, SettledIsProved

LEMMA IInvImpliesStates == IInv => PurgeKeepsTheUnsettled
BY DEF IInv, PurgeInv, PurgeKeepsTheUnsettled

-----------------------------------------------------------------------------
LEMMA InitIInv == Init => IInv
<1> SUFFICES ASSUME Init PROVE IInv
  OBVIOUS
<1>1. /\ MaxSequence \in Nat /\ MaxNow \in Nat
      /\ sequence = 0 /\ current = 1 /\ lastProved = 0 /\ purged = 0 /\ now = 0
      /\ previous = [last |-> 0, time |-> 0]
      /\ settled = [block |-> 0, sequence |-> 0]
      /\ states = [present |-> {}, lowest |-> 0]
  BY BlocksAssumption DEF Init
<1>2. Closed = {}
  BY <1>1 DEF Closed
<1>3. DOMAIN blocks = {0} /\ blocks[0] = NewBlock(0, 0)
  BY DEF Init
<1>4. DOMAIN calcs = {1} /\ calcs[1] = NewCalc(1)
  BY DEF Init
<1>5. NewBlock(0, 0) \in Block /\ NewCalc(1) \in Calc
  BY <1>1 DEF NewBlock, Block, NewCalc, Calc, Sequence
<1>6. blocks \in [DOMAIN blocks -> Block] /\ calcs \in [DOMAIN calcs -> Calc]
  BY <1>5 DEF Init
<1>7. ASSUME NEW c \in Chain PROVE chains[c].last = 0
  BY DEF Init
<1>8. chains \in [Chain -> [last: Nat, included: Entries]]
  <2>1. [n \in {} |-> FALSE] \in [{} -> BOOLEAN] /\ {} \in SUBSET BlockNumber
    OBVIOUS
  <2>2. [n \in {} |-> FALSE] \in Entries
    BY <2>1 DEF Entries
  <2> HIDE DEF Entries
  <2> QED
    BY <2>2 DEF Init
<1>9. TypeInv
  BY <1>1, <1>6, <1>8 DEF TypeInv, Sequence
<1>10. PlaceInv /\ TableInv /\ PurgeInv
  BY <1>1, <1>2, <1>3, <1>4 DEF PlaceInv, TableInv, PurgeInv
<1>11. ChainInv
  BY <1>1, <1>7 DEF ChainInv
<1>12. BlockInv /\ ProofInv
  BY <1>1, <1>2, <1>4 DEF BlockInv, ProofInv, NewCalc
<1> QED
  BY <1>9, <1>10, <1>11, <1>12 DEF IInv

-----------------------------------------------------------------------------
(* Closing a block.                                                        *)

LEMMA WithType ==
  ASSUME NEW S, NEW f, f \in [DOMAIN f -> S], NEW k, NEW v \in S
  PROVE  With(f, k, v) \in [DOMAIN With(f, k, v) -> S]
BY DEF With

(* try_create_block, whoever calls it.                                     *)
LEMMA ClosingKeeps ==
  ASSUME IInv, NEW next \in Nat, NEW full \in BOOLEAN, CloseBlock(next, full),
         previous.last + 1 < next, next <= MaxSequence + 1,
         UNCHANGED <<chains, settled, now>>
  PROVE  /\ current' = current + 1 /\ current' <= previous'.last + 1
         /\ previous' \in [last: Sequence, time: 0..MaxNow] /\ previous'.last = next - 1
         /\ blocks' \in [DOMAIN blocks' -> Block]
         /\ calcs' \in [DOMAIN calcs' -> Calc]
         /\ lastProved' \in Nat
         /\ TableInv' /\ ChainInv' /\ BlockInv' /\ ProofInv'
<1> DEFINE b == NewBlock(previous.last + 1, next - 1)
           d == [first |-> previous.last + 1, closed |-> TRUE,
                 full |-> FALSE, finished |-> full]
           e == NewCalc(next)
           C == With(calcs, current, d)
<1>1. /\ MaxSequence \in Nat
      /\ current \in Nat /\ current > 0
      /\ previous.last \in 0..MaxSequence /\ lastProved \in Nat
      /\ settled.block \in Nat /\ settled.sequence \in Nat
      /\ current <= previous.last + 1
      /\ settled.block <= lastProved /\ lastProved < current
      /\ settled.sequence <= previous.last
  BY BlocksAssumption DEF IInv, TypeInv, PlaceInv, TableInv, BlockInv, Sequence
<1>2. /\ blocks' = With(blocks, current, b)
      /\ calcs' = With(C, current + 1, e)
      /\ lastProved' = IF full /\ lastProved = current - 1 THEN current ELSE lastProved
      /\ current' = current + 1
      /\ previous' = [last |-> next - 1, time |-> now]
      /\ settled' = settled /\ chains' = chains
  BY DEF CloseBlock
<1>3. /\ b \in Block /\ b.first = previous.last + 1 /\ b.last = next - 1
      /\ b.proofData = FALSE
  BY <1>1 DEF NewBlock, Block, Sequence
<1>4. /\ d \in Calc /\ d.first = previous.last + 1 /\ d.closed = TRUE /\ d.finished = full
  BY <1>1 DEF Calc
<1>5. e \in Calc /\ e.first = next /\ e.closed = FALSE /\ e.finished = FALSE
  BY DEF NewCalc, Calc
<1> HIDE DEF b, d, e
<1>6. /\ TableInv /\ ChainInv /\ BlockInv /\ ProofInv
      /\ blocks \in [DOMAIN blocks -> Block] /\ calcs \in [DOMAIN calcs -> Calc]
      /\ chains \in [Chain -> [last: Nat, included: Entries]]
      /\ now \in 0..MaxNow
  BY DEF IInv, TypeInv
<1>7. blocks' \in [DOMAIN blocks' -> Block]
  BY <1>2, <1>3, <1>6, WithType
<1>8. calcs' \in [DOMAIN calcs' -> Calc]
  <2>1. C \in [DOMAIN C -> Calc]
    BY <1>4, <1>6, WithType
  <2> HIDE DEF C
  <2> QED
    BY <1>2, <1>5, <2>1, WithType
<1>9. Closed' = Closed \cup {current} /\ current \notin Closed /\ Closed \subseteq Nat
  BY <1>1, <1>2 DEF Closed
<1>10. DOMAIN blocks' = DOMAIN blocks \cup {current} /\ blocks'[current] = b
       /\ \A n \in DOMAIN blocks : n # current => blocks'[n] = blocks[n]
  BY <1>2 DEF With
<1>11. /\ DOMAIN calcs' = DOMAIN calcs \cup {current, current + 1}
       /\ calcs'[current] = d /\ calcs'[current + 1] = e
       /\ \A n \in DOMAIN calcs : n # current /\ n # current + 1 => calcs'[n] = calcs[n]
  <2>1. /\ DOMAIN C = DOMAIN calcs \cup {current} /\ C[current] = d
        /\ \A n \in DOMAIN calcs : n # current => C[n] = calcs[n]
    BY DEF With
  <2> HIDE DEF C
  <2>2. /\ DOMAIN calcs' = DOMAIN C \cup {current + 1} /\ calcs'[current + 1] = e
        /\ \A n \in DOMAIN C : n # current + 1 => calcs'[n] = C[n]
    BY <1>2 DEF With
  <2> QED
    BY <1>1, <2>1, <2>2
<1> HIDE DEF C
<1>12. \A n \in Closed : /\ blocks'[n] = blocks[n] /\ calcs'[n] = calcs[n]
                         /\ n \in Nat /\ n < current /\ settled.block < n
  <2>1. ASSUME NEW n \in Closed
        PROVE  n \in DOMAIN blocks /\ n \in DOMAIN calcs /\ n \in Nat
               /\ n < current /\ settled.block < n
    BY <1>1, <1>6 DEF TableInv, Closed
  <2> QED
    BY <1>1, <1>10, <1>11, <2>1
<1>13. /\ previous'.last = next - 1 /\ next - 1 \in Nat /\ previous.last < next - 1
       /\ previous' \in [last: Sequence, time: 0..MaxNow]
  BY <1>1, <1>2, <1>6 DEF Sequence
<1>14. lastProved' \in Nat /\ lastProved <= lastProved' /\ lastProved' < current'
  BY <1>1, <1>2
<1>15. TableInv'
  <2>1. DOMAIN blocks' = {0} \cup Closed'
    BY <1>6, <1>9, <1>10 DEF TableInv
  <2>2. DOMAIN calcs' = Closed' \cup {current'}
    BY <1>2, <1>6, <1>9, <1>11 DEF TableInv
  <2>3. settled'.block <= lastProved' /\ lastProved' < current'
    BY <1>1, <1>2, <1>14
  <2> QED
    BY <2>1, <2>2, <2>3 DEF TableInv
<1>16. ChainInv'
  <2>1. ASSUME NEW c \in Chain
        PROVE  /\ settled'.block <= chains'[c].last
               /\ chains'[c].last <= lastProved'
    BY <1>1, <1>2, <1>6, <1>14 DEF ChainInv
  <2>2. Chain # {} => \E c \in Chain : settled'.block = chains'[c].last
    BY <1>2, <1>6 DEF ChainInv
  <2> QED
    BY <2>1, <2>2 DEF ChainInv
<1>17. BlockInv'
  <2>1. ASSUME NEW n \in Closed'
        PROVE  /\ blocks'[n].first <= blocks'[n].last
               /\ blocks'[n].first = 1 + IF n = settled'.block + 1 THEN settled'.sequence
                                         ELSE blocks'[n - 1].last
               /\ settled'.sequence < blocks'[n].first
               /\ blocks'[n].last <= previous'.last
               /\ n = current' - 1 => blocks'[n].last = previous'.last
               /\ calcs'[n].first = blocks'[n].first
    <3>1. CASE n \in Closed
      <4>1. /\ n \in Nat /\ n < current /\ n # current' - 1
            /\ blocks'[n] = blocks[n] /\ calcs'[n] = calcs[n]
        BY <1>1, <1>2, <1>12, <3>1
      <4>2. /\ blocks[n].first \in Nat /\ blocks[n].last \in Nat
        BY <1>6, <3>1, BlocksAssumption DEF TableInv, Block, Sequence
      <4>3. n # settled.block + 1 => n - 1 \in Closed
        BY <1>1, <3>1 DEF Closed
      <4>4. n # settled.block + 1 => blocks'[n - 1] = blocks[n - 1]
        BY <1>12, <4>3
      <4> QED
        BY <1>1, <1>2, <1>6, <1>13, <3>1, <4>1, <4>2, <4>4 DEF BlockInv
    <3>2. CASE n = current
      <4>1. blocks'[n] = b /\ calcs'[n] = d /\ n = current' - 1
        BY <1>1, <1>2, <1>10, <1>11, <3>2
      <4>2. CASE n = settled.block + 1
        <5>1. settled.sequence = previous.last
          BY <1>1, <1>6, <3>2, <4>2 DEF BlockInv
        <5> QED
          BY <1>1, <1>2, <1>3, <1>4, <1>13, <4>1, <4>2, <5>1
      <4>3. CASE n # settled.block + 1
        <5>1. n - 1 \in Closed /\ n - 1 = current - 1
          BY <1>1, <3>2, <4>3 DEF Closed
        <5>2. blocks'[n - 1].last = previous.last
          BY <1>6, <1>12, <5>1 DEF BlockInv
        <5> QED
          BY <1>1, <1>2, <1>3, <1>4, <1>13, <4>1, <4>3, <5>2
      <4> QED
        BY <4>2, <4>3
    <3> QED
      BY <1>9, <3>1, <3>2
  <2>2. ASSUME NEW m \in Closed', NEW n \in Closed', m < n
        PROVE  blocks'[m].last < blocks'[n].first
    <3>1. m \in Closed
      BY <1>1, <1>9, <1>12, <2>2
    <3>2. CASE n \in Closed
      BY <1>6, <1>12, <2>2, <3>1, <3>2 DEF BlockInv
    <3>3. CASE n = current
      <4>1. blocks[m].last <= previous.last /\ blocks[m].last \in Nat
        BY <1>6, <3>1, BlocksAssumption DEF BlockInv, TableInv, Block, Sequence
      <4> QED
        BY <1>1, <1>3, <1>10, <1>12, <3>1, <3>3, <4>1
    <3> QED
      BY <1>9, <3>2, <3>3
  <2>3. /\ settled'.sequence <= previous'.last
        /\ settled'.block # current' - 1
        /\ calcs'[current'].first = previous'.last + 1
    BY <1>1, <1>2, <1>5, <1>11, <1>13
  <2> QED
    BY <2>1, <2>2, <2>3 DEF BlockInv
<1>18. ProofInv'
  <2>1. ASSUME NEW n \in Closed'
        PROVE  calcs'[n].closed /\ (blocks'[n].proofData => calcs'[n].finished)
    <3>1. CASE n \in Closed
      BY <1>6, <1>12, <3>1 DEF ProofInv
    <3>2. CASE n = current
      BY <1>3, <1>4, <1>10, <1>11, <3>2
    <3> QED
      BY <1>9, <3>1, <3>2
  <2>2. ~calcs'[current'].closed /\ ~calcs'[current'].finished
    BY <1>2, <1>5, <1>11
  <2>3. ASSUME NEW n \in DOMAIN calcs', n <= lastProved' PROVE calcs'[n].finished
    <3>1. \A k \in Closed' : k \in Nat /\ k < current'
      BY <1>1, <1>2, <1>9, <1>12
    <3>2. n \in Closed'
      BY <1>1, <1>2, <1>14, <1>15, <2>3 DEF TableInv
    <3>3. CASE n \in Closed
      <4>1. n <= lastProved
        BY <1>1, <1>2, <1>12, <2>3, <3>3
      <4>2. n \in DOMAIN calcs
        BY <1>6, <3>3 DEF TableInv
      <4> QED
        BY <1>6, <1>12, <3>3, <4>1, <4>2 DEF ProofInv
    <3>4. CASE n = current
      <4>1. full
        BY <1>1, <1>2, <2>3, <3>4
      <4> QED
        BY <1>4, <1>11, <3>4, <4>1
    <3> QED
      BY <1>9, <3>2, <3>3, <3>4
  <2>4. ~calcs'[lastProved' + 1].finished
    <3>1. CASE lastProved < current - 1
      <4>1. lastProved' = lastProved /\ lastProved + 1 \in Closed
        BY <1>1, <1>2, <3>1 DEF Closed
      <4> QED
        BY <1>6, <1>12, <4>1 DEF ProofInv
    <3>2. CASE lastProved = current - 1 /\ full
      BY <1>1, <1>2, <1>5, <1>11, <3>2
    <3>3. CASE lastProved = current - 1 /\ ~full
      BY <1>1, <1>2, <1>4, <1>11, <3>3
    <3> QED
      BY <1>1, <3>1, <3>2, <3>3
  <2> QED
    BY <2>1, <2>2, <2>3, <2>4 DEF ProofInv
<1>19. current' <= previous'.last + 1
  BY <1>1, <1>2, <1>13
<1> QED
  BY <1>2, <1>7, <1>8, <1>13, <1>14, <1>15, <1>16, <1>17, <1>18, <1>19

-----------------------------------------------------------------------------
(* The calls that move no block.                                           *)

LEMMA BlocksStay ==
  ASSUME IInv, UNCHANGED <<current, previous, settled>>,
         DOMAIN blocks' = DOMAIN blocks, DOMAIN calcs' = DOMAIN calcs,
         \A n \in DOMAIN blocks : /\ blocks'[n].first = blocks[n].first
                                  /\ blocks'[n].last = blocks[n].last,
         \A n \in DOMAIN calcs : calcs'[n].first = calcs[n].first
  PROVE  BlockInv' /\ Closed' = Closed
<1>1. Closed' = Closed
  BY DEF Closed
<1>2. /\ Closed \subseteq DOMAIN blocks /\ Closed \subseteq DOMAIN calcs
      /\ current \in DOMAIN calcs
  BY DEF IInv, TableInv
<1>3. \A n \in Closed : n # settled.block + 1 => n - 1 \in Closed
  <2>1. settled.block \in Nat /\ current \in Nat
    BY DEF IInv, TypeInv
  <2> QED
    BY <2>1 DEF Closed
<1>4. BlockInv
  BY DEF IInv
<1>5. ASSUME NEW n \in Closed
      PROVE  /\ blocks'[n].first <= blocks'[n].last
             /\ blocks'[n].first = 1 + IF n = settled'.block + 1 THEN settled'.sequence
                                       ELSE blocks'[n - 1].last
             /\ settled'.sequence < blocks'[n].first
             /\ blocks'[n].last <= previous'.last
             /\ n = current' - 1 => blocks'[n].last = previous'.last
             /\ calcs'[n].first = blocks'[n].first
  <2>1. /\ blocks'[n].first = blocks[n].first /\ blocks'[n].last = blocks[n].last
        /\ calcs'[n].first = calcs[n].first
    BY <1>2
  <2>2. n # settled.block + 1 => blocks'[n - 1].last = blocks[n - 1].last
    BY <1>2, <1>3
  <2>3. settled' = settled /\ previous' = previous /\ current' = current
    OBVIOUS
  <2> QED
    BY <1>4, <2>1, <2>2, <2>3 DEF BlockInv
<1>6. \A m, n \in Closed : m < n => blocks'[m].last < blocks'[n].first
  BY <1>2, <1>4 DEF BlockInv
<1>7. calcs'[current'].first = previous'.last + 1
  BY <1>2, <1>4 DEF BlockInv
<1>8. /\ settled'.sequence <= previous'.last
      /\ settled'.block = current' - 1 => settled'.sequence = previous'.last
  BY <1>4 DEF BlockInv
<1> QED
  BY <1>1, <1>5, <1>6, <1>7, <1>8 DEF BlockInv

LEMMA TablesStay ==
  ASSUME IInv, UNCHANGED <<current, previous, settled, lastProved>>,
         DOMAIN blocks' = DOMAIN blocks, DOMAIN calcs' = DOMAIN calcs,
         \A n \in DOMAIN blocks :
           /\ blocks'[n].first = blocks[n].first
           /\ blocks'[n].last = blocks[n].last
           /\ n \in DOMAIN calcs /\ blocks'[n].proofData =>
                blocks[n].proofData \/ calcs[n].finished,
         \A n \in DOMAIN calcs : /\ calcs'[n].first = calcs[n].first
                                 /\ calcs'[n].closed = calcs[n].closed
                                 /\ calcs'[n].finished = calcs[n].finished,
         \A c \in Chain : chains'[c].last = chains[c].last
  PROVE  TableInv' /\ ChainInv' /\ BlockInv' /\ ProofInv'
<1>1. BlockInv' /\ Closed' = Closed
  BY BlocksStay
<1>2. TableInv'
  BY <1>1 DEF IInv, TableInv
<1>3. ChainInv'
  BY DEF IInv, ChainInv
<1>4. /\ Closed \subseteq DOMAIN blocks /\ Closed \subseteq DOMAIN calcs
      /\ current \in DOMAIN calcs /\ lastProved + 1 \in DOMAIN calcs
  <2>1. /\ settled.block \in Nat /\ current \in Nat /\ lastProved \in Nat
        /\ settled.block <= lastProved /\ lastProved < current
    BY DEF IInv, TypeInv, TableInv
  <2>2. lastProved + 1 = current \/ lastProved + 1 \in Closed
    BY <2>1 DEF Closed
  <2> QED
    BY <2>2 DEF IInv, TableInv
<1>5. ProofInv
  BY DEF IInv
<1>6. \A n \in Closed : calcs'[n].closed /\ (blocks'[n].proofData => calcs'[n].finished)
  BY <1>4, <1>5 DEF ProofInv
<1>7. /\ ~calcs'[current'].closed /\ ~calcs'[current'].finished
      /\ ~calcs'[lastProved' + 1].finished
  BY <1>4, <1>5 DEF ProofInv
<1>8. \A n \in DOMAIN calcs' : n <= lastProved' => calcs'[n].finished
  BY <1>5 DEF ProofInv
<1>9. ProofInv'
  BY <1>1, <1>6, <1>7, <1>8 DEF ProofInv
<1> QED
  BY <1>1, <1>2, <1>3, <1>9

(* increase_sequence: the new sequence may close the block.                *)
LEMMA IncreaseKeeps == ASSUME IInv, IncreaseSequence PROVE IInv'
<1>1. /\ MaxSequence \in Nat /\ sequence \in Nat /\ sequence <= MaxSequence
      /\ previous.last \in Nat /\ previous.last <= sequence /\ purged \in Nat
      /\ purged <= settled.sequence /\ settled.sequence \in Nat
      /\ settled.sequence <= previous.last
      /\ states.present = purged..(sequence - 1)
  BY BlocksAssumption
     DEF IInv, TypeInv, PlaceInv, BlockInv, PurgeInv, Sequence, IncreaseSequence
<1>2. /\ states' = [states EXCEPT !.present = @ \cup {sequence}]
      /\ sequence' = sequence + 1
      /\ UNCHANGED <<chains, settled, purged, now>>
  BY DEF IncreaseSequence
<1>3. states' \in [present: SUBSET Nat, lowest: Nat] /\ states'.lowest = states.lowest
      /\ states'.present = states.present \cup {sequence}
  BY <1>1, <1>2 DEF IInv, TypeInv
<1>4. sequence' \in 0..(MaxSequence + 1)
  BY <1>1, <1>2
<1>5. PurgeInv'
  <2>1. purged..(sequence - 1) \cup {sequence} = purged..(sequence' - 1)
    BY <1>1, <1>2
  <2> QED
    BY <1>1, <1>2, <1>3, <2>1 DEF IInv, PurgeInv
<1>6. CASE BlockIsDue(sequence + 1)
  <2> DEFINE next == sequence + 1
             full == FALSE
  <2>1. CloseBlock(next, full)
    BY <1>6 DEF IncreaseSequence
  <2>2. next <= MaxSequence + 1 /\ next \in Nat /\ full \in BOOLEAN
        /\ previous.last + 1 < next /\ next = sequence + 1
    BY <1>1, <1>6 DEF BlockIsDue
  <2> HIDE DEF next, full
  <2>3. /\ current' = current + 1 /\ current' <= previous'.last + 1
        /\ previous' \in [last: Sequence, time: 0..MaxNow] /\ previous'.last = next - 1
        /\ blocks' \in [DOMAIN blocks' -> Block]
        /\ calcs' \in [DOMAIN calcs' -> Calc]
        /\ lastProved' \in Nat
        /\ TableInv' /\ ChainInv' /\ BlockInv' /\ ProofInv'
    BY <1>2, <2>1, <2>2, ClosingKeeps
  <2>4. PlaceInv'
    BY <1>1, <1>2, <2>2, <2>3 DEF PlaceInv
  <2>5. TypeInv'
    BY <1>2, <1>3, <1>4, <2>3 DEF IInv, TypeInv
  <2> QED
    BY <1>5, <2>3, <2>4, <2>5 DEF IInv
<1>7. CASE ~BlockIsDue(sequence + 1)
  <2>1. /\ calcs' = [calcs EXCEPT ![current].full = FALSE]
        /\ UNCHANGED <<current, previous, blocks, lastProved>>
    BY <1>7 DEF IncreaseSequence
  <2>2. calcs \in [DOMAIN calcs -> Calc]
    BY DEF IInv, TypeInv
  <2>3. /\ DOMAIN calcs' = DOMAIN calcs /\ calcs' \in [DOMAIN calcs' -> Calc]
        /\ \A n \in DOMAIN calcs : /\ calcs'[n].first = calcs[n].first
                                   /\ calcs'[n].closed = calcs[n].closed
                                   /\ calcs'[n].finished = calcs[n].finished
    BY <2>1, <2>2 DEF Calc
  <2>4. TableInv' /\ ChainInv' /\ BlockInv' /\ ProofInv'
    BY <1>2, <2>1, <2>3, TablesStay
  <2>5. PlaceInv'
    BY <1>1, <1>2, <2>1 DEF IInv, PlaceInv
  <2>6. TypeInv'
    BY <1>2, <1>3, <1>4, <2>1, <2>3 DEF IInv, TypeInv
  <2> QED
    BY <1>5, <2>4, <2>5, <2>6 DEF IInv
<1> QED
  BY <1>6, <1>7

(* try_create_block.                                                       *)
LEMMA TryCreateKeeps == ASSUME IInv, TryCreateBlock PROVE IInv'
<1>1. /\ sequence \in Nat /\ sequence <= MaxSequence + 1 /\ previous.last \in Nat
      /\ previous.last < sequence
  BY BlocksAssumption DEF IInv, TypeInv, PlaceInv, Sequence, TryCreateBlock
<1>2. previous.last + 1 < sequence
  BY <1>1 DEF TryCreateBlock, BlockIsDue
<1>3. calcs[current].full \in BOOLEAN
  BY DEF IInv, TypeInv, TableInv, Calc
<1>4. /\ CloseBlock(sequence, calcs[current].full)
      /\ UNCHANGED <<sequence, chains, settled, states, purged, now>>
  BY DEF TryCreateBlock
<1>5. /\ current' = current + 1 /\ current' <= previous'.last + 1
      /\ previous' \in [last: Sequence, time: 0..MaxNow] /\ previous'.last = sequence - 1
      /\ blocks' \in [DOMAIN blocks' -> Block]
      /\ calcs' \in [DOMAIN calcs' -> Calc]
      /\ lastProved' \in Nat
      /\ TableInv' /\ ChainInv' /\ BlockInv' /\ ProofInv'
  BY <1>1, <1>2, <1>3, <1>4, ClosingKeeps
<1>6. PlaceInv'
  BY <1>1, <1>4, <1>5 DEF PlaceInv
<1>7. PurgeInv'
  BY <1>4 DEF IInv, PurgeInv
<1>8. TypeInv'
  BY <1>4, <1>5 DEF IInv, TypeInv
<1> QED
  BY <1>5, <1>6, <1>7, <1>8 DEF IInv

(* reject_proof and start_proving of the full proof.                       *)
LEMMA LoseKeeps == ASSUME IInv, NEW n \in BlockNumber, LoseFull(n) PROVE IInv'
<1>1. /\ calcs' = [calcs EXCEPT ![n].full = FALSE]
      /\ UNCHANGED <<sequence, current, previous, blocks, lastProved, chains,
                     settled, states, purged, now>>
  BY DEF LoseFull
<1>2. calcs \in [DOMAIN calcs -> Calc]
  BY DEF IInv, TypeInv
<1>3. /\ DOMAIN calcs' = DOMAIN calcs /\ calcs' \in [DOMAIN calcs' -> Calc]
      /\ \A k \in DOMAIN calcs : /\ calcs'[k].first = calcs[k].first
                                 /\ calcs'[k].closed = calcs[k].closed
                                 /\ calcs'[k].finished = calcs[k].finished
  BY <1>1, <1>2 DEF Calc
<1>4. TableInv' /\ ChainInv' /\ BlockInv' /\ ProofInv'
  BY <1>1, <1>3, TablesStay
<1>5. PlaceInv' /\ PurgeInv'
  BY <1>1 DEF IInv, PlaceInv, PurgeInv
<1>6. TypeInv'
  BY <1>1, <1>3 DEF IInv, TypeInv
<1> QED
  BY <1>4, <1>5, <1>6 DEF IInv

(* update_block_state_data_availability, update_block_proof_data_          *)
(* availability.                                                           *)
LEMMA DataKeeps ==
  ASSUME IInv, NEW n \in BlockNumber, UpdateStateData(n) \/ UpdateProofData(n)
  PROVE  IInv'
<1>1. UNCHANGED <<sequence, current, previous, calcs, lastProved, chains,
                  settled, states, purged, now>>
  BY DEF UpdateStateData, UpdateProofData
<1>2. blocks \in [DOMAIN blocks -> Block]
  BY DEF IInv, TypeInv
<1>3. /\ DOMAIN blocks' = DOMAIN blocks /\ blocks' \in [DOMAIN blocks' -> Block]
      /\ \A k \in DOMAIN blocks :
           /\ blocks'[k].first = blocks[k].first
           /\ blocks'[k].last = blocks[k].last
           /\ k \in DOMAIN calcs /\ blocks'[k].proofData =>
                blocks[k].proofData \/ calcs[k].finished
  <2>1. CASE UpdateStateData(n)
    BY <1>2, <2>1 DEF UpdateStateData, Block
  <2>2. CASE UpdateProofData(n)
    BY <1>2, <2>2 DEF UpdateProofData, Block
  <2> QED
    BY <2>1, <2>2
<1>4. TableInv' /\ ChainInv' /\ BlockInv' /\ ProofInv'
  BY <1>1, <1>3, TablesStay
<1>5. PlaceInv' /\ PurgeInv'
  BY <1>1 DEF IInv, PlaceInv, PurgeInv
<1>6. TypeInv'
  BY <1>1, <1>3 DEF IInv, TypeInv
<1> QED
  BY <1>4, <1>5, <1>6 DEF IInv

(* update_block_settlement_tx_hash.                                        *)
LEMMA EntryType ==
  ASSUME NEW e \in Entries, NEW n \in BlockNumber, NEW b \in BOOLEAN
  PROVE  With(e, n, b) \in Entries
<1>1. PICK S \in SUBSET BlockNumber : e \in [S -> BOOLEAN]
  BY DEF Entries
<1>2. With(e, n, b) \in [S \cup {n} -> BOOLEAN]
  BY <1>1 DEF With
<1>3. S \cup {n} \in SUBSET BlockNumber
  BY <1>1
<1> QED
  BY <1>2, <1>3 DEF Entries

LEMMA TxHashKeeps ==
  ASSUME IInv, NEW c \in Chain, NEW n \in BlockNumber, UpdateTxHash(c, n)
  PROVE  IInv'
<1>1. /\ chains' = [chains EXCEPT ![c].included = With(@, n, FALSE)]
      /\ UNCHANGED <<sequence, current, previous, blocks, calcs, lastProved,
                     settled, states, purged, now>>
  BY DEF UpdateTxHash
<1>2. chains \in [Chain -> [last: Nat, included: Entries]]
  BY DEF IInv, TypeInv
<1>3. With(chains[c].included, n, FALSE) \in Entries
  BY <1>2, EntryType
<1>4. /\ chains' \in [Chain -> [last: Nat, included: Entries]]
      /\ \A d \in Chain : chains'[d].last = chains[d].last
  BY <1>1, <1>2, <1>3
<1>5. TableInv' /\ ChainInv' /\ BlockInv' /\ ProofInv'
  BY <1>1, <1>4, TablesStay
<1>6. PlaceInv' /\ PurgeInv'
  BY <1>1 DEF IInv, PlaceInv, PurgeInv
<1>7. TypeInv'
  BY <1>1, <1>4 DEF IInv, TypeInv
<1> QED
  BY <1>5, <1>6, <1>7 DEF IInv

(* purge.                                                                  *)
LEMMA PurgeKeeps ==
  ASSUME IInv, NEW k \in 1..MaxSequence, Purge(k)
  PROVE  IInv' /\ purged' >= purged
<1>1. /\ purged \in Nat /\ purged <= settled.sequence /\ settled.sequence \in Nat
      /\ states.present = purged..(sequence - 1) /\ sequence \in Nat /\ k \in Nat
  BY BlocksAssumption DEF IInv, TypeInv, PurgeInv
<1>2. /\ purged' = PurgeTo(k) /\ PurgeTo(k) > purged
      /\ states' = [present |-> {s \in states.present : s >= PurgeTo(k)},
                    lowest |-> PurgeTo(k)]
      /\ UNCHANGED <<sequence, current, previous, blocks, calcs, lastProved,
                     chains, settled, now>>
  BY DEF Purge
<1>3. PurgeTo(k) \in Nat /\ PurgeTo(k) <= settled.sequence
  BY <1>1 DEF PurgeTo
<1>4. {s \in purged..(sequence - 1) : s >= PurgeTo(k)} = PurgeTo(k)..(sequence - 1)
  BY <1>1, <1>2, <1>3
<1>5. states' \in [present: SUBSET Nat, lowest: Nat]
      /\ states'.present = PurgeTo(k)..(sequence - 1) /\ states'.lowest = PurgeTo(k)
  BY <1>1, <1>2, <1>3, <1>4
<1>6. PurgeInv'
  BY <1>2, <1>3, <1>5 DEF PurgeInv
<1>7. TableInv' /\ ChainInv' /\ BlockInv' /\ ProofInv'
  BY <1>2, TablesStay
<1>8. PlaceInv'
  BY <1>2 DEF IInv, PlaceInv
<1>9. TypeInv'
  BY <1>2, <1>3, <1>5 DEF IInv, TypeInv
<1> QED
  BY <1>1, <1>2, <1>3, <1>6, <1>7, <1>8, <1>9 DEF IInv

LEMMA IdleKeeps ==
  ASSUME IInv, now' \in 0..MaxNow,
         UNCHANGED <<sequence, current, previous, blocks, calcs, lastProved,
                     chains, settled, states, purged>>
  PROVE  IInv'
<1>1. TableInv' /\ ChainInv' /\ BlockInv' /\ ProofInv'
  BY TablesStay
<1>2. PlaceInv' /\ PurgeInv'
  BY DEF IInv, PlaceInv, PurgeInv
<1>3. TypeInv'
  BY DEF IInv, TypeInv
<1> QED
  BY <1>1, <1>2, <1>3 DEF IInv

-----------------------------------------------------------------------------
(* Proofs and the frontier of proved blocks.                               *)

(* The search of submit_proof ends before the open block.                  *)
LEMMA FrontierFound ==
  ASSUME NEW C, lastProved \in Nat, current \in Nat, lastProved < current
  PROVE  /\ Frontier(C) \in lastProved..(current - 1)
         /\ \A i \in (lastProved + 1)..Frontier(C) : C[i].finished
         /\ Frontier(C) = current - 1 \/ ~C[Frontier(C) + 1].finished
<1> DEFINE S == {i \in (lastProved + 1)..current : i = current \/ ~C[i].finished}
           Good(k) == /\ \A i \in (lastProved + 1)..k : C[i].finished
                      /\ k = current - 1 \/ ~C[k + 1].finished
<1>1. S \in SUBSET Nat /\ current \in S
  OBVIOUS
<1> HIDE DEF S
<1>2. PICK m \in S : \A i \in S : m <= i
  BY <1>1, LeastMember
<1>3. m \in (lastProved + 1)..current /\ (m = current \/ ~C[m].finished)
  BY DEF S
<1>4. \A i \in (lastProved + 1)..(m - 1) : C[i].finished
  <2> SUFFICES ASSUME NEW i \in (lastProved + 1)..(m - 1), ~C[i].finished PROVE FALSE
    OBVIOUS
  <2>1. i \in S
    BY <1>3 DEF S
  <2> QED
    BY <1>2, <1>3, <2>1
<1>5. m - 1 \in lastProved..(current - 1) /\ m - 1 + 1 = m
  BY <1>3
<1>6. Good(m - 1)
  BY <1>3, <1>4, <1>5
<1>7. Frontier(C) = CHOOSE k \in lastProved..(current - 1) : Good(k)
  BY DEF Frontier
<1> HIDE DEF Good
<1>8. Frontier(C) \in lastProved..(current - 1) /\ Good(Frontier(C))
  BY <1>5, <1>6, <1>7
<1> QED
  BY <1>8 DEF Good

(* submit_proof of a full proof.                                           *)
LEMMA SubmitKeeps ==
  ASSUME IInv, NEW n \in BlockNumber, SubmitFull(n)
  PROVE  IInv' /\ lastProved' >= lastProved
<1> DEFINE C == [calcs EXCEPT ![n].full = TRUE,
                              ![n].finished = @ \/ calcs[n].closed]
<1>1. /\ n \in DOMAIN calcs /\ calcs' = C
      /\ lastProved' = IF calcs[n].closed THEN Frontier(C) ELSE lastProved
      /\ UNCHANGED <<sequence, current, previous, blocks, chains, settled,
                     states, purged, now>>
  BY DEF SubmitFull
<1>2. /\ calcs \in [DOMAIN calcs -> Calc]
      /\ current \in Nat /\ lastProved \in Nat /\ lastProved < current
      /\ settled.block \in Nat /\ settled.block <= lastProved
      /\ DOMAIN blocks = {0} \cup Closed /\ DOMAIN calcs = Closed \cup {current}
  BY DEF IInv, TypeInv, TableInv
<1>3. /\ DOMAIN C = DOMAIN calcs /\ C \in [DOMAIN C -> Calc]
      /\ \A k \in DOMAIN calcs : /\ C[k].first = calcs[k].first
                                 /\ C[k].closed = calcs[k].closed
                                 /\ k # n => C[k] = calcs[k]
                                 /\ C[k].finished =
                                      (calcs[k].finished \/ (k = n /\ calcs[n].closed))
  <2>1. calcs[n] \in Calc
    BY <1>1, <1>2
  <2>2. [calcs[n] EXCEPT !.full = TRUE, !.finished = @ \/ calcs[n].closed] \in Calc
        /\ (calcs[n].finished \/ calcs[n].closed) \in BOOLEAN
    BY <2>1 DEF Calc
  <2>3. \A k \in DOMAIN calcs : k # n => C[k] = calcs[k]
    BY <1>1
  <2>4. /\ C[n].first = calcs[n].first /\ C[n].closed = calcs[n].closed
        /\ C[n].finished = (calcs[n].finished \/ calcs[n].closed)
    BY <1>1, <2>1 DEF Calc
  <2>5. C \in [DOMAIN C -> Calc] /\ DOMAIN C = DOMAIN calcs
    BY <1>1, <1>2, <2>2
  <2>6. \A k \in DOMAIN calcs : calcs[k].finished \in BOOLEAN
    BY <1>2 DEF Calc
  <2> HIDE DEF C
  <2>7. ASSUME NEW k \in DOMAIN calcs
        PROVE  /\ C[k].first = calcs[k].first /\ C[k].closed = calcs[k].closed
               /\ C[k].finished = (calcs[k].finished \/ (k = n /\ calcs[n].closed))
    <3>1. CASE k = n
      BY <2>4, <3>1
    <3>2. CASE k # n
      BY <2>3, <2>6, <3>2
    <3> QED
      BY <3>1, <3>2
  <2> QED
    BY <2>3, <2>5, <2>7
<1> HIDE DEF C
<1>4. PlaceInv' /\ PurgeInv'
  BY <1>1 DEF IInv, PlaceInv, PurgeInv
<1>5. CASE ~calcs[n].closed
  <2>1. \A k \in DOMAIN calcs : calcs'[k].finished = calcs[k].finished
    BY <1>1, <1>2, <1>3, <1>5 DEF Calc
  <2>2. TableInv' /\ ChainInv' /\ BlockInv' /\ ProofInv'
    BY <1>1, <1>3, <1>5, <2>1, TablesStay
  <2>3. TypeInv'
    BY <1>1, <1>3, <1>5 DEF IInv, TypeInv
  <2> QED
    BY <1>1, <1>2, <1>4, <1>5, <2>2, <2>3 DEF IInv
<1>6. CASE calcs[n].closed
  <2>1. /\ lastProved' \in lastProved..(current - 1)
        /\ \A i \in (lastProved + 1)..lastProved' : C[i].finished
        /\ lastProved' = current - 1 \/ ~C[lastProved' + 1].finished
    BY <1>1, <1>2, <1>6, FrontierFound
  <2>2. lastProved' \in Nat /\ lastProved <= lastProved' /\ lastProved' < current
    BY <1>2, <2>1
  <2>3. BlockInv' /\ Closed' = Closed
    BY <1>1, <1>3, BlocksStay
  <2>4. TableInv'
    BY <1>1, <1>2, <1>3, <2>2, <2>3 DEF TableInv
  <2>5. ChainInv'
    <3>1. ASSUME NEW c \in Chain
          PROVE  settled'.block <= chains'[c].last /\ chains'[c].last <= lastProved'
      BY <1>1, <1>2, <2>2 DEF IInv, TypeInv, ChainInv
    <3>2. Chain # {} => \E c \in Chain : settled'.block = chains'[c].last
      BY <1>1 DEF IInv, ChainInv
    <3> QED
      BY <3>1, <3>2 DEF ChainInv
  <2>6. ProofInv
    BY DEF IInv
  <2>7. n # current
    BY <1>6, <2>6 DEF ProofInv
  <2>8. /\ C[current].finished = calcs[current].finished
        /\ C[current].closed = calcs[current].closed
    BY <1>2, <1>3, <2>7
  <2>9. ~calcs'[current'].closed /\ ~calcs'[current'].finished
    BY <1>1, <2>6, <2>8 DEF ProofInv
  <2>10. \A k \in Closed' : calcs'[k].closed /\ (blocks'[k].proofData => calcs'[k].finished)
    BY <1>1, <1>2, <1>3, <2>3, <2>6 DEF ProofInv
  <2>11. ASSUME NEW k \in DOMAIN calcs', k <= lastProved' PROVE calcs'[k].finished
    <3>1. k \in Nat /\ k \in DOMAIN calcs
      BY <1>1, <1>2, <1>3, <2>11 DEF Closed
    <3>2. CASE k <= lastProved
      BY <1>1, <1>3, <2>6, <3>1, <3>2 DEF ProofInv
    <3>3. CASE k > lastProved
      <4>1. k \in (lastProved + 1)..lastProved'
        BY <1>2, <2>2, <2>11, <3>1, <3>3
      <4> QED
        BY <1>1, <2>1, <4>1
    <3> QED
      BY <1>2, <3>1, <3>2, <3>3
  <2>12. ~calcs'[lastProved' + 1].finished
    <3>1. CASE lastProved' = current - 1
      BY <1>1, <1>2, <2>9, <3>1
    <3>2. CASE ~C[lastProved' + 1].finished
      BY <1>1, <3>2
    <3> QED
      BY <2>1, <3>1, <3>2
  <2>13. ProofInv'
    BY <2>9, <2>10, <2>11, <2>12 DEF ProofInv
  <2>14. TypeInv'
    BY <1>1, <1>3, <2>2 DEF IInv, TypeInv
  <2> QED
    BY <1>2, <1>4, <2>2, <2>3, <2>4, <2>5, <2>13, <2>14 DEF IInv
<1> QED
  BY <1>5, <1>6

-----------------------------------------------------------------------------
(* Settlement.                                                             *)

(* What the slowest chain has settled.                                     *)
LEMMA SlowestChain ==
  ASSUME NEW CH, Chain # {}, \A c \in Chain : CH[c].last \in Nat
  PROVE  /\ \E c \in Chain : Everywhere(CH) = CH[c].last
         /\ \A c \in Chain : Everywhere(CH) <= CH[c].last
<1> DEFINE S == {CH[c].last : c \in Chain}
<1>1. S \in SUBSET Nat /\ S # {}
  OBVIOUS
<1>2. Everywhere(CH) = Least(S)
  BY DEF Everywhere
<1>3. \A c \in Chain : CH[c].last \in S
  OBVIOUS
<1>4. \A x \in S : \E c \in Chain : x = CH[c].last
  OBVIOUS
<1> HIDE DEF S
<1>5. \E x \in S : \A y \in S : x <= y
  BY <1>1, LeastMember
<1>6. Least(S) \in S /\ \A y \in S : Least(S) <= y
  BY <1>5 DEF Least
<1> QED
  BY <1>2, <1>3, <1>4, <1>6

LEMMA WithoutFields ==
  ASSUME NEW f, NEW S
  PROVE  /\ DOMAIN Without(f, S) = DOMAIN f \ S
         /\ \A k \in DOMAIN f \ S : Without(f, S)[k] = f[k]
BY DEF Without

LEMMA WithoutType ==
  ASSUME NEW T, NEW f, f \in [DOMAIN f -> T], NEW S
  PROVE  Without(f, S) \in [DOMAIN Without(f, S) -> T]
BY DEF Without

(* update_app_last_settled_block_number deletes exactly the blocks up to   *)
(* the one that every chain has settled.                                   *)
LEMMA CleanupRemoves ==
  ASSUME IInv, NEW least \in Nat, Cleanup(least),
         settled.block <= least, least <= lastProved,
         UNCHANGED <<current, previous, lastProved>>
  PROVE  /\ settled'.block = least /\ settled'.sequence >= settled.sequence
         /\ settled' \in [block: Nat, sequence: Nat]
         /\ blocks' \in [DOMAIN blocks' -> Block]
         /\ calcs' \in [DOMAIN calcs' -> Calc]
         /\ TableInv' /\ BlockInv' /\ ProofInv'
<1> DEFINE start == IF settled.block = 0 THEN 1 ELSE settled.block
           gone == IF least > settled.block THEN start..least ELSE {}
           removed == gone \cap DOMAIN blocks
<1>1. /\ blocks' = Without(blocks, gone)
      /\ calcs' = Without(calcs, gone)
      /\ settled' = [block |-> least,
                     sequence |-> IF removed = {} THEN settled.sequence
                                  ELSE blocks[CHOOSE n \in removed :
                                         \A m \in removed : m <= n].last]
  BY DEF Cleanup
<1>2. /\ settled \in [block: Nat, sequence: Nat]
      /\ current \in Nat /\ lastProved \in Nat /\ lastProved < current
      /\ settled.block \in Nat /\ settled.sequence \in Nat
      /\ DOMAIN blocks = {0} \cup Closed /\ DOMAIN calcs = Closed \cup {current}
      /\ blocks \in [DOMAIN blocks -> Block] /\ calcs \in [DOMAIN calcs -> Calc]
      /\ BlockInv /\ ProofInv /\ MaxSequence \in Nat
  BY BlocksAssumption DEF IInv, TypeInv, TableInv
<1>3. \A n \in Closed : n \in Nat /\ settled.block < n /\ n < current
  BY <1>2 DEF Closed
<1>4. gone \subseteq Nat /\ 0 \notin gone /\ current \notin gone
      /\ \A n \in Closed : n \in gone <=> n <= least
  BY <1>2, <1>3
<1>5. removed = {n \in Closed : n <= least}
  BY <1>2, <1>4
<1>6. least = settled.block => removed = {}
  BY <1>2, <1>3, <1>5
<1> HIDE DEF gone, start
<1>7. /\ blocks' \in [DOMAIN blocks' -> Block]
      /\ calcs' \in [DOMAIN calcs' -> Calc]
  BY <1>1, <1>2, WithoutType
<1>8. /\ DOMAIN blocks' = DOMAIN blocks \ gone /\ DOMAIN calcs' = DOMAIN calcs \ gone
      /\ \A k \in DOMAIN blocks \ gone : blocks'[k] = blocks[k]
      /\ \A k \in DOMAIN calcs \ gone : calcs'[k] = calcs[k]
  BY <1>1, WithoutFields
<1>9. settled'.block = least
  BY <1>1
<1>10. Closed' = {n \in Closed : n > least}
  BY <1>2, <1>9 DEF Closed
<1>11. DOMAIN blocks' = {0} \cup Closed' /\ DOMAIN calcs' = Closed' \cup {current'}
  BY <1>2, <1>3, <1>4, <1>8, <1>10
<1>12. TableInv'
  BY <1>2, <1>9, <1>11 DEF TableInv
<1>13. /\ current \in DOMAIN calcs \ gone
       /\ \A n \in Closed' : /\ n \in Closed /\ least < n
                             /\ blocks'[n] = blocks[n] /\ calcs'[n] = calcs[n]
  BY <1>2, <1>3, <1>4, <1>8, <1>10
<1>14. /\ settled' \in [block: Nat, sequence: Nat]
       /\ settled'.sequence = IF least = settled.block THEN settled.sequence
                              ELSE blocks[least].last
       /\ least # settled.block => least \in Closed
  <2>1. CASE least = settled.block
    BY <1>1, <1>2, <1>6, <2>1
  <2>2. CASE least # settled.block
    <3>1. least \in Closed /\ least \in removed /\ \A n \in removed : n \in Nat /\ n <= least
      BY <1>2, <1>3, <1>5, <2>2 DEF Closed
    <3> HIDE DEF removed
    <3>2. (CHOOSE n \in removed : \A m \in removed : m <= n) = least
      <4>1. PICK k : k = CHOOSE n \in removed : \A m \in removed : m <= n
        OBVIOUS
      <4>2. k \in removed /\ \A m \in removed : m <= k
        BY <3>1, <4>1
      <4>3. k <= least /\ least <= k /\ k \in Nat
        BY <3>1, <4>2
      <4> QED
        BY <4>1, <4>3
    <3>3. settled'.sequence = blocks[least].last
      BY <1>1, <3>1, <3>2
    <3>4. blocks[least].last \in Nat
      BY <1>2, <3>1 DEF Block, Sequence
    <3>5. settled' = [block |-> least, sequence |-> blocks[least].last]
      BY <1>1, <3>1, <3>2
    <3> QED
      BY <2>2, <3>1, <3>3, <3>4, <3>5
  <2> QED
    BY <2>1, <2>2
<1> HIDE DEF removed
<1>15. \A n \in Closed : blocks[n].first \in Nat /\ blocks[n].last \in Nat
  BY <1>2 DEF Block, Sequence
<1>16. settled'.sequence >= settled.sequence
  <2>1. least \in Closed => settled.sequence < blocks[least].first
                            /\ blocks[least].first <= blocks[least].last
    BY <1>2 DEF BlockInv
  <2> QED
    BY <1>2, <1>14, <1>15, <2>1
<1>17. BlockInv'
  <2>1. ASSUME NEW n \in Closed'
        PROVE  /\ blocks'[n].first <= blocks'[n].last
               /\ blocks'[n].first = 1 + IF n = settled'.block + 1 THEN settled'.sequence
                                         ELSE blocks'[n - 1].last
               /\ settled'.sequence < blocks'[n].first
               /\ blocks'[n].last <= previous'.last
               /\ n = current' - 1 => blocks'[n].last = previous'.last
               /\ calcs'[n].first = blocks'[n].first
    <3>1. n \in Closed /\ least < n /\ n \in Nat /\ blocks'[n] = blocks[n]
          /\ calcs'[n] = calcs[n]
      BY <1>3, <1>13
    <3>2. blocks[n].first = 1 + IF n = settled'.block + 1 THEN settled'.sequence
                                ELSE blocks'[n - 1].last
      <4>1. blocks[n].first = 1 + IF n = settled.block + 1 THEN settled.sequence
                                  ELSE blocks[n - 1].last
        BY <1>2, <3>1 DEF BlockInv
      <4>2. CASE n = least + 1
        <5>1. least # settled.block => n # settled.block + 1 /\ n - 1 = least
          BY <1>2, <4>2
        <5> QED
          BY <1>2, <1>9, <1>14, <4>1, <4>2, <5>1
      <4>3. CASE n # least + 1
        <5>1. n - 1 \in Closed' /\ n # settled.block + 1
          BY <1>2, <1>9, <3>1, <4>3 DEF Closed
        <5> QED
          BY <1>9, <1>13, <4>1, <4>3, <5>1
      <4> QED
        BY <4>2, <4>3
    <3>3. settled'.sequence < blocks[n].first
      BY <1>2, <1>14, <3>1 DEF BlockInv
    <3> QED
      BY <1>2, <3>1, <3>2, <3>3 DEF BlockInv
  <2>2. \A m, n \in Closed' : m < n => blocks'[m].last < blocks'[n].first
    BY <1>2, <1>13 DEF BlockInv
  <2>3. settled'.sequence <= previous'.last
    BY <1>2, <1>14 DEF BlockInv
  <2>4. settled'.block = current' - 1 => settled'.sequence = previous'.last
    BY <1>2, <1>9, <1>14 DEF BlockInv
  <2>5. calcs'[current'].first = previous'.last + 1
    BY <1>2, <1>8, <1>13 DEF BlockInv
  <2> QED
    BY <2>1, <2>2, <2>3, <2>4, <2>5 DEF BlockInv
<1>18. ProofInv'
  <2>1. \A n \in Closed' : calcs'[n].closed /\ (blocks'[n].proofData => calcs'[n].finished)
    BY <1>2, <1>13 DEF ProofInv
  <2>2. ~calcs'[current'].closed /\ ~calcs'[current'].finished
    BY <1>2, <1>8, <1>13 DEF ProofInv
  <2>3. \A n \in DOMAIN calcs' : n <= lastProved' => calcs'[n].finished
    BY <1>2, <1>8 DEF ProofInv
  <2>4. lastProved + 1 \in DOMAIN calcs \ gone
    <3>1. CASE lastProved + 1 = current
      BY <1>13, <3>1
    <3>2. CASE lastProved + 1 # current
      <4>1. lastProved + 1 \in Closed
        BY <1>2, <3>2 DEF Closed
      <4>2. ~(lastProved + 1 <= least)
        BY <1>2
      <4> QED
        BY <1>2, <1>4, <4>1, <4>2
    <3> QED
      BY <3>1, <3>2
  <2>5. ~calcs'[lastProved' + 1].finished
    BY <1>2, <1>8, <2>4 DEF ProofInv
  <2> QED
    BY <2>1, <2>2, <2>3, <2>5 DEF ProofInv
<1> QED
  BY <1>7, <1>9, <1>12, <1>14, <1>16, <1>17, <1>18

(* update_block_settlement_tx_included_in_block: a chain settles only      *)
(* blocks that are proved, and only what all chains settled is deleted.    *)
LEMMA IncludedKeeps ==
  ASSUME IInv, NEW c \in Chain, NEW n \in BlockNumber, TxIncluded(c, n)
  PROVE  /\ IInv' /\ settled'.block >= settled.block
         /\ settled'.sequence >= settled.sequence
         /\ \A d \in Chain : chains'[d].last >= chains[d].last
<1> DEFINE CH == [chains EXCEPT ![c].last = n, ![c].included = With(@, n, TRUE)]
<1>1. /\ CanSettle(n) /\ IsNext(c, n) /\ chains' = CH /\ Cleanup(Everywhere(CH))
      /\ UNCHANGED <<sequence, current, previous, lastProved, states, purged, now>>
  BY DEF TxIncluded
<1>2. /\ chains \in [Chain -> [last: Nat, included: Entries]]
      /\ current \in Nat /\ lastProved \in Nat /\ lastProved < current
      /\ settled.block \in Nat /\ n \in Nat
      /\ DOMAIN blocks = {0} \cup Closed /\ DOMAIN calcs = Closed \cup {current}
      /\ ProofInv /\ ChainInv /\ settled.block <= lastProved
  BY BlocksAssumption DEF IInv, TypeInv, TableInv, BlockNumber
<1>3. chains[c].last \in Nat /\ chains[c].included \in Entries
      /\ n = chains[c].last + 1 /\ n > 0
  BY <1>1, <1>2 DEF IsNext
<1>4. n <= lastProved
  <2>1. n \in Closed
    BY <1>1, <1>2, <1>3 DEF CanSettle
  <2>2. calcs[n].finished
    BY <1>1, <1>2, <1>3, <2>1 DEF CanSettle, ProofInv
  <2>3. n # lastProved + 1
    BY <1>2, <2>2 DEF ProofInv
  <2>4. chains[c].last <= lastProved
    BY <1>2 DEF ChainInv
  <2> QED
    BY <1>2, <1>3, <2>3, <2>4
<1>5. With(chains[c].included, n, TRUE) \in Entries
  BY <1>3, EntryType
<1>6. /\ CH \in [Chain -> [last: Nat, included: Entries]]
      /\ CH[c].last = n
      /\ \A d \in Chain : d # c => CH[d] = chains[d]
  BY <1>2, <1>5
<1> HIDE DEF CH
<1>7. \A d \in Chain : /\ chains[d].last \in Nat /\ CH[d].last \in Nat
                       /\ CH[d].last >= chains[d].last
                       /\ settled.block <= CH[d].last /\ CH[d].last <= lastProved
  <2>1. ASSUME NEW d \in Chain
        PROVE  /\ chains[d].last \in Nat /\ CH[d].last \in Nat
               /\ CH[d].last >= chains[d].last
               /\ settled.block <= CH[d].last /\ CH[d].last <= lastProved
    <3>1. /\ chains[d].last \in Nat /\ settled.block <= chains[d].last
          /\ chains[d].last <= lastProved
      BY <1>2 DEF ChainInv
    <3>2. CASE d = c
      BY <1>2, <1>3, <1>4, <1>6, <3>1, <3>2
    <3>3. CASE d # c
      BY <1>6, <3>1, <3>3
    <3> QED
      BY <3>2, <3>3
  <2> QED
    BY <2>1
<1>8. PICK least : least = Everywhere(CH)
  OBVIOUS
<1>9. /\ \E d \in Chain : least = CH[d].last
      /\ \A d \in Chain : least <= CH[d].last
  BY <1>7, <1>8, SlowestChain
<1>10. least \in Nat /\ settled.block <= least /\ least <= lastProved
  BY <1>7, <1>9
<1>11. /\ settled'.block = least /\ settled'.sequence >= settled.sequence
       /\ settled' \in [block: Nat, sequence: Nat]
       /\ blocks' \in [DOMAIN blocks' -> Block]
       /\ calcs' \in [DOMAIN calcs' -> Calc]
       /\ TableInv' /\ BlockInv' /\ ProofInv'
  BY <1>1, <1>8, <1>10, CleanupRemoves
<1>12. ChainInv'
  BY <1>1, <1>7, <1>9, <1>11 DEF ChainInv
<1>13. PlaceInv'
  BY <1>1 DEF IInv, PlaceInv
<1>14. PurgeInv'
  <2>1. purged \in Nat /\ purged <= settled.sequence /\ settled.sequence \in Nat
        /\ settled'.sequence \in Nat
    BY <1>11 DEF IInv, TypeInv, PurgeInv
  <2>2. purged' <= settled'.sequence
    BY <1>1, <1>11, <2>1
  <2> QED
    BY <1>1, <2>2 DEF IInv, PurgeInv
<1>15. TypeInv'
  BY <1>1, <1>6, <1>11 DEF IInv, TypeInv
<1>16. settled'.block >= settled.block
  BY <1>10, <1>11, <1>2
<1>17. \A d \in Chain : chains'[d].last >= chains[d].last
  BY <1>1, <1>7
<1> QED
  BY <1>11, <1>12, <1>13, <1>14, <1>15, <1>16, <1>17 DEF IInv

-----------------------------------------------------------------------------
LEMMA NextIInv == IInv /\ [Next]_vars => IInv'
<1> SUFFICES ASSUME IInv, [Next]_vars PROVE IInv'
  OBVIOUS
<1>1. CASE IncreaseSequence
  BY <1>1, IncreaseKeeps
<1>2. CASE TryCreateBlock
  BY <1>2, TryCreateKeeps
<1>3. ASSUME NEW n \in BlockNumber, SubmitFull(n) PROVE IInv'
  BY <1>3, SubmitKeeps
<1>4. ASSUME NEW n \in BlockNumber, LoseFull(n) PROVE IInv'
  BY <1>4, LoseKeeps
<1>5. ASSUME NEW n \in BlockNumber, UpdateStateData(n) \/ UpdateProofData(n) PROVE IInv'
  BY <1>5, DataKeeps
<1>6. ASSUME NEW c \in Chain, NEW n \in BlockNumber, UpdateTxHash(c, n) PROVE IInv'
  BY <1>6, TxHashKeeps
<1>7. ASSUME NEW c \in Chain, NEW n \in BlockNumber, TxIncluded(c, n) PROVE IInv'
  BY <1>7, IncludedKeeps
<1>8. ASSUME NEW k \in 1..MaxSequence, Purge(k) PROVE IInv'
  BY <1>8, PurgeKeeps
<1>9. CASE Tick
  <2>1. now' \in 0..MaxNow
    BY <1>9, BlocksAssumption DEF Tick, IInv, TypeInv
  <2> QED
    BY <1>9, <2>1, IdleKeeps DEF Tick
<1>10. CASE UNCHANGED vars
  <2>1. now' \in 0..MaxNow
    BY <1>10 DEF vars, IInv, TypeInv
  <2> QED
    BY <1>10, <2>1, IdleKeeps DEF vars
<1> QED
  BY <1>1, <1>2, <1>3, <1>4, <1>5, <1>6, <1>7, <1>8, <1>9, <1>10 DEF Next

LEMMA Invariant == Spec => []IInv
BY InitIInv, NextIInv, PTL DEF Spec

-----------------------------------------------------------------------------
(* The properties of Blocks.                                               *)

(* The variables of app_instance.move have their types.                    *)
THEOREM TypeCorrect == Spec => []TypeOK
BY Invariant, IInvImpliesTypeOK, PTL

(* Blocks tile the sequences, whichever call closes them and whatever has  *)
(* been deleted: none is left out and none is in two blocks.               *)
THEOREM BlocksAlwaysTile == Spec => []BlocksTile
BY Invariant, IInvImpliesTiling, PTL

(* A block and its calculation are in their tables until every chain has   *)
(* settled the block, and no longer.                                       *)
THEOREM TablesAlwaysHold == Spec => []TablesHoldTheUnsettled
BY Invariant, IInvImpliesTables, PTL

(* last_proved_block_number ends the unbroken run of finished blocks, in   *)
(* whatever order they finish.                                             *)
THEOREM FrontierIsExact == Spec => []ProvedFrontier
BY Invariant, IInvImpliesProofs, PTL

(* No chain settles a block that is not proved.                            *)
THEOREM OnlyProvedIsSettled == Spec => []SettledIsProved
BY Invariant, IInvImpliesProofs, PTL

(* A purge takes no state of a sequence that is still to be settled.       *)
THEOREM UnsettledStatesStay == Spec => []PurgeKeepsTheUnsettled
BY Invariant, IInvImpliesStates, PTL

(* Nothing that was closed, proved, settled or purged is taken back.       *)
THEOREM ProgressStays == Spec => NeverBack
<1> DEFINE Forward == /\ current' >= current
                      /\ lastProved' >= lastProved
                      /\ settled'.block >= settled.block
                      /\ settled'.sequence >= settled.sequence
                      /\ purged' >= purged
                      /\ \A c \in Chain : chains'[c].last >= chains[c].last
<1>1. IInv /\ [Next]_vars => [Forward]_vars
  <2> SUFFICES ASSUME IInv, Next PROVE Forward
    BY DEF vars
  <2>1. /\ current \in Nat /\ lastProved \in Nat /\ settled.block \in Nat
        /\ settled.sequence \in Nat /\ purged \in Nat
        /\ \A c \in Chain : chains[c].last \in Nat
    BY DEF IInv, TypeInv
  <2>2. ASSUME NEW next, NEW full \in BOOLEAN, CloseBlock(next, full)
        PROVE  current' >= current /\ lastProved' >= lastProved
    BY <2>1, <2>2 DEF CloseBlock, IInv, TableInv
  <2>3. CASE IncreaseSequence
    <3>1. UNCHANGED <<chains, settled, purged>>
      BY <2>3 DEF IncreaseSequence
    <3>2. current' >= current /\ lastProved' >= lastProved
      <4>1. CASE BlockIsDue(sequence + 1)
        <5> DEFINE next == sequence + 1
                   full == FALSE
        <5>1. CloseBlock(next, full) /\ full \in BOOLEAN
          BY <2>3, <4>1 DEF IncreaseSequence
        <5> HIDE DEF next, full
        <5> QED
          BY <2>2, <5>1
      <4>2. CASE ~BlockIsDue(sequence + 1)
        BY <2>1, <2>3, <4>2 DEF IncreaseSequence
      <4> QED
        BY <4>1, <4>2
    <3> QED
      BY <2>1, <3>1, <3>2
  <2>4. CASE TryCreateBlock
    <3>1. calcs[current].full \in BOOLEAN
      BY DEF IInv, TypeInv, TableInv, Calc
    <3>2. CloseBlock(sequence, calcs[current].full) /\ UNCHANGED <<chains, settled, purged>>
      BY <2>4 DEF TryCreateBlock
    <3>3. current' >= current /\ lastProved' >= lastProved
      BY <2>2, <3>1, <3>2
    <3> QED
      BY <2>1, <3>2, <3>3
  <2>5. ASSUME NEW n \in BlockNumber, SubmitFull(n) PROVE Forward
    <3>1. UNCHANGED <<current, chains, settled, purged>>
      BY <2>5 DEF SubmitFull
    <3>2. lastProved' >= lastProved
      BY <2>5, SubmitKeeps
    <3> QED
      BY <2>1, <3>1, <3>2
  <2>6. ASSUME NEW n \in BlockNumber,
               LoseFull(n) \/ UpdateStateData(n) \/ UpdateProofData(n)
        PROVE  Forward
    <3>1. UNCHANGED <<current, lastProved, chains, settled, purged>>
      BY <2>6 DEF LoseFull, UpdateStateData, UpdateProofData
    <3> QED
      BY <2>1, <3>1
  <2>7. ASSUME NEW c \in Chain, NEW n \in BlockNumber, UpdateTxHash(c, n)
        PROVE  Forward
    <3>1. UNCHANGED <<current, lastProved, settled, purged>>
          /\ chains' = [chains EXCEPT ![c].included = With(@, n, FALSE)]
      BY <2>7 DEF UpdateTxHash
    <3>2. \A d \in Chain : chains'[d].last = chains[d].last
      BY <3>1 DEF IInv, TypeInv
    <3> QED
      BY <2>1, <3>1, <3>2
  <2>8. ASSUME NEW c \in Chain, NEW n \in BlockNumber, TxIncluded(c, n)
        PROVE  Forward
    <3>1. UNCHANGED <<current, lastProved, purged>>
      BY <2>8 DEF TxIncluded
    <3>2. /\ settled'.block >= settled.block /\ settled'.sequence >= settled.sequence
          /\ \A d \in Chain : chains'[d].last >= chains[d].last
      BY <2>8, IncludedKeeps
    <3> QED
      BY <2>1, <3>1, <3>2
  <2>9. ASSUME NEW k \in 1..MaxSequence, Purge(k) PROVE Forward
    <3>1. UNCHANGED <<current, lastProved, chains, settled>>
      BY <2>9 DEF Purge
    <3>2. purged' >= purged
      BY <2>9, PurgeKeeps
    <3> QED
      BY <2>1, <3>1, <3>2
  <2>10. CASE Tick
    <3>1. UNCHANGED <<current, lastProved, chains, settled, purged>>
      BY <2>10 DEF Tick
    <3> QED
      BY <2>1, <3>1
  <2> QED
    BY <2>3, <2>4, <2>5, <2>6, <2>7, <2>8, <2>9, <2>10 DEF Next
<1> QED
  BY <1>1, Invariant, PTL DEF Spec, NeverBack

-----------------------------------------------------------------------------
(* Every calculation, step by step, is one of Calculation.                 *)

LEMMA PlacesOfCalcs ==
  ASSUME IInv
  PROVE  /\ current \in Nat \ {0} /\ sequence \in Nat /\ previous.last \in Nat
         /\ settled.block \in Nat /\ settled.block < current
         /\ DOMAIN blocks = {0} \cup (settled.block + 1)..(current - 1)
         /\ DOMAIN calcs = (settled.block + 1)..current
         /\ calcs \in [DOMAIN calcs -> Calc]
         /\ calcs[current].first = previous.last + 1 /\ ~calcs[current].closed
         /\ ~calcs[current].finished
         /\ \A n \in (settled.block + 1)..(current - 1) :
              /\ blocks[n].first \in Nat /\ blocks[n].last \in Nat
              /\ blocks[n].first <= blocks[n].last
              /\ calcs[n].closed /\ calcs[n].first = blocks[n].first
<1>1. /\ current \in Nat \ {0} /\ sequence \in Nat /\ previous.last \in Nat
      /\ settled.block \in Nat /\ settled.block < current
  BY DEF IInv, TypeInv, TableInv, Sequence
<1>2. /\ DOMAIN blocks = {0} \cup (settled.block + 1)..(current - 1)
      /\ DOMAIN calcs = (settled.block + 1)..current
  BY <1>1 DEF IInv, TableInv, Closed
<1>3. ASSUME NEW n \in (settled.block + 1)..(current - 1)
      PROVE  /\ blocks[n].first \in Nat /\ blocks[n].last \in Nat
             /\ blocks[n].first <= blocks[n].last
             /\ calcs[n].closed /\ calcs[n].first = blocks[n].first
  <2>1. blocks[n] \in Block /\ n \in Closed
    BY <1>2 DEF IInv, TypeInv, Closed
  <2> QED
    BY <2>1 DEF Block, Sequence, IInv, BlockInv, ProofInv
<1> QED
  BY <1>1, <1>2, <1>3 DEF IInv, TypeInv, BlockInv, ProofInv

LEMMA CalcStays ==
  ASSUME NEW n, UNCHANGED <<current, sequence>>,
         n <= current =>
           /\ n \in DOMAIN calcs' <=> n \in DOMAIN calcs
           /\ n \in DOMAIN calcs =>
                /\ calcs'[n] = calcs[n]
                /\ n < current => /\ blocks'[n].first = blocks[n].first
                                  /\ blocks'[n].last = blocks[n].last,
         n \in Nat, current \in Nat
  PROVE  UNCHANGED CalcOf(n)
BY DEF CalcOf, Length

(* A calculation that is there, field by field.                            *)
Kept == [phase : {"open", "closed"}, length : Nat, full : BOOLEAN, finished : BOOLEAN]

LEMMA KeptRecord ==
  ASSUME NEW c \in BOOLEAN, NEW l \in Nat, NEW f \in BOOLEAN, NEW d \in BOOLEAN, NEW r,
         r = [phase |-> IF c THEN "closed" ELSE "open", length |-> l,
              full |-> f, finished |-> d]
  PROVE  /\ r \in Kept /\ r.phase = IF c THEN "closed" ELSE "open"
         /\ r.length = l /\ r.full = f /\ r.finished = d
BY DEF Kept

LEMMA LengthIsNat == ASSUME IInv, NEW n \in DOMAIN calcs PROVE Length(n) \in Nat
<1>1. n <= current /\ n \in Nat /\ current \in Nat
  BY PlacesOfCalcs
<1>2. CASE n < current
  <2>1. /\ blocks[n].first \in Nat /\ blocks[n].last \in Nat
        /\ blocks[n].first <= blocks[n].last
    BY <1>1, <1>2, PlacesOfCalcs
  <2> QED
    BY <1>2, <2>1 DEF Length
<1>3. CASE n = current
  BY <1>3, PlacesOfCalcs DEF Length
<1> QED
  BY <1>1, <1>2, <1>3

LEMMA CalcFields ==
  ASSUME IInv, NEW n \in DOMAIN calcs
  PROVE  /\ CalcOf(n) \in Kept
         /\ CalcOf(n).phase = IF calcs[n].closed THEN "closed" ELSE "open"
         /\ CalcOf(n).length = Length(n)
         /\ CalcOf(n).full = calcs[n].full
         /\ CalcOf(n).finished = calcs[n].finished
<1>1. n <= current /\ calcs[n] \in Calc /\ n \in Nat /\ current \in Nat
  BY PlacesOfCalcs
<1>2. /\ Length(n) \in Nat /\ calcs[n].closed \in BOOLEAN /\ calcs[n].full \in BOOLEAN
      /\ calcs[n].finished \in BOOLEAN
  BY <1>1, LengthIsNat DEF Calc
<1>3. CalcOf(n) = [phase |-> IF calcs[n].closed THEN "closed" ELSE "open",
                   length |-> Length(n), full |-> calcs[n].full,
                   finished |-> calcs[n].finished]
  BY <1>1 DEF CalcOf
<1> QED
  BY <1>2, <1>3, KeptRecord

LEMMA CalcFieldsNext ==
  ASSUME NEW n \in DOMAIN calcs', n \in Nat, current' \in Nat, n <= current',
         calcs'[n] \in Calc, Length(n)' \in Nat
  PROVE  /\ CalcOf(n)' \in Kept
         /\ CalcOf(n)'.phase = IF calcs'[n].closed THEN "closed" ELSE "open"
         /\ CalcOf(n)'.length = Length(n)'
         /\ CalcOf(n)'.full = calcs'[n].full
         /\ CalcOf(n)'.finished = calcs'[n].finished
<1>1. /\ calcs'[n].closed \in BOOLEAN /\ calcs'[n].full \in BOOLEAN
      /\ calcs'[n].finished \in BOOLEAN
  BY DEF Calc
<1>2. CalcOf(n)' = [phase |-> IF calcs'[n].closed THEN "closed" ELSE "open",
                    length |-> Length(n)', full |-> calcs'[n].full,
                    finished |-> calcs'[n].finished]
  BY DEF CalcOf
<1> QED
  BY <1>1, <1>2, KeptRecord

(* CloseBlock, for all calculations.                                       *)
LEMMA ClosingCalcs ==
  ASSUME IInv, NEW next \in Nat, NEW full \in BOOLEAN, CloseBlock(next, full),
         sequence' = next, previous.last + 1 < next, NEW n \in Nat \ {0}
  PROVE  /\ n = current =>
              /\ CalcOf(n)' \in Kept /\ CalcOf(n)'.phase = "closed"
              /\ CalcOf(n)'.length = next - (previous.last + 1)
              /\ CalcOf(n)'.full = FALSE /\ CalcOf(n)'.finished = full
         /\ n # current => UNCHANGED CalcOf(n)
<1>0. /\ current \in Nat \ {0} /\ previous.last \in Nat
      /\ settled.block \in Nat /\ settled.block < current
      /\ DOMAIN blocks = {0} \cup (settled.block + 1)..(current - 1)
      /\ DOMAIN calcs = (settled.block + 1)..current
  BY PlacesOfCalcs
<1>1. current \in DOMAIN calcs /\ current # 0 /\ current \notin DOMAIN blocks
  BY <1>0
<1>2. /\ blocks' = With(blocks, current, NewBlock(previous.last + 1, next - 1))
      /\ calcs' = With(With(calcs, current,
                            [first |-> previous.last + 1, closed |-> TRUE,
                             full |-> FALSE, finished |-> full]),
                       current + 1, NewCalc(next))
      /\ current' = current + 1
  BY DEF CloseBlock
<1>3. /\ DOMAIN calcs' = DOMAIN calcs \cup {current + 1}
      /\ calcs'[current + 1] = NewCalc(next)
      /\ calcs'[current] = [first |-> previous.last + 1, closed |-> TRUE,
                            full |-> FALSE, finished |-> full]
      /\ \A m \in DOMAIN calcs : m # current => calcs'[m] = calcs[m]
  BY <1>0, <1>1, <1>2 DEF With
<1>4. /\ blocks'[current] = NewBlock(previous.last + 1, next - 1)
      /\ \A m \in DOMAIN blocks : blocks'[m] = blocks[m]
  BY <1>1, <1>2 DEF With
<1>5. CASE n = current
  <2>1. n < current' /\ blocks'[n].first = previous.last + 1 /\ blocks'[n].last = next - 1
    BY <1>0, <1>2, <1>4, <1>5 DEF NewBlock
  <2>2. Length(n)' = next - (previous.last + 1) /\ Length(n)' \in Nat
    BY <1>0, <2>1 DEF Length
  <2>3. /\ calcs'[n] \in Calc /\ calcs'[n].closed = TRUE
        /\ calcs'[n].full = FALSE /\ calcs'[n].finished = full
    <3>1. calcs'[n] = [first |-> previous.last + 1, closed |-> TRUE,
                       full |-> FALSE, finished |-> full]
      BY <1>3, <1>5
    <3>2. previous.last + 1 \in Nat /\ TRUE \in BOOLEAN /\ FALSE \in BOOLEAN
      BY <1>0
    <3>3. calcs'[n] \in Calc
      BY <3>1, <3>2 DEF Calc
    <3>4. calcs'[n].finished = full /\ calcs'[n].closed = TRUE /\ calcs'[n].full = FALSE
      BY <3>1
    <3> QED
      BY <3>3, <3>4
  <2>4. n \in DOMAIN calcs' /\ n <= current' /\ current' \in Nat
    BY <1>0, <1>1, <1>2, <1>3, <1>5
  <2> QED
    BY <1>5, <2>2, <2>3, <2>4, CalcFieldsNext
<1>6. CASE n > current + 1
  BY <1>0, <1>2, <1>6 DEF CalcOf
<1>7. CASE n = current + 1
  <2>1. CalcOf(n) = NewAbstract
    BY <1>0, <1>7 DEF CalcOf
  <2>2. /\ calcs'[n] = NewCalc(next) /\ n = current' /\ n \in DOMAIN calcs'
        /\ NewCalc(next).first = next /\ NewCalc(next).closed = FALSE
        /\ NewCalc(next).full = FALSE /\ NewCalc(next).finished = FALSE
    BY <1>2, <1>3, <1>7 DEF NewCalc
  <2>3. Length(n)' = 0
    BY <2>2, <1>0, <1>2 DEF Length
  <2>4. CalcOf(n)' = NewAbstract
    BY <1>0, <1>2, <2>2, <2>3 DEF CalcOf, NewAbstract
  <2> QED
    BY <1>0, <1>7, <2>1, <2>4
<1>8. CASE n < current
  <2>1. n \in DOMAIN calcs' <=> n \in DOMAIN calcs
    BY <1>0, <1>3, <1>8
  <2>2. n \in DOMAIN calcs => calcs'[n] = calcs[n] /\ blocks'[n] = blocks[n]
    <3>1. n \in DOMAIN calcs => n \in DOMAIN blocks /\ n # current
      BY <1>0, <1>8
    <3> QED
      BY <1>3, <1>4, <3>1
  <2>3. Length(n)' = blocks'[n].last - blocks'[n].first + 1
        /\ Length(n) = blocks[n].last - blocks[n].first + 1
    BY <1>0, <1>2, <1>8 DEF Length
  <2> QED
    BY <1>0, <1>2, <1>8, <2>1, <2>2, <2>3 DEF CalcOf
<1>9. n = current \/ n > current + 1 \/ n = current + 1 \/ n < current
  BY <1>0
<1> QED
  BY <1>5, <1>6, <1>7, <1>8, <1>9

(* What the abstract calculation of block n may do.                        *)
CalcStep(n) == Abstract(n)!Next \/ UNCHANGED CalcOf(n)

(* The calculation of the open block.                                      *)
LEMMA OpenCalc ==
  ASSUME IInv, NEW n, n = current
  PROVE  /\ CalcOf(n) \in Kept /\ CalcOf(n).phase = "open" /\ CalcOf(n).finished = FALSE
         /\ CalcOf(n).full = calcs[n].full
         /\ CalcOf(n).length = IF sequence > previous.last + 1
                               THEN sequence - (previous.last + 1) ELSE 0
<1>1. /\ n \in DOMAIN calcs /\ ~calcs[n].closed /\ calcs[n] \in Calc /\ ~calcs[n].finished
      /\ calcs[n].first = previous.last + 1
  BY PlacesOfCalcs
<1>2. calcs[n].finished = FALSE
  BY <1>1 DEF Calc
<1>3. Length(n) = IF sequence > previous.last + 1 THEN sequence - (previous.last + 1) ELSE 0
  BY <1>1, PlacesOfCalcs DEF Length
<1> QED
  BY <1>1, <1>2, <1>3, CalcFields

LEMMA IncreaseCalcs ==
  ASSUME IInv, IncreaseSequence, NEW n \in 1..MaxSequence
  PROVE  CalcStep(n)
<1> DEFINE C == CalcOf(n)
<1>0. /\ current \in Nat \ {0} /\ previous.last \in Nat /\ sequence \in Nat
      /\ sequence' = sequence + 1 /\ n \in Nat \ {0}
      /\ previous.last <= sequence /\ (sequence > 0 => previous.last < sequence)
      /\ current \in DOMAIN calcs /\ calcs[current] \in Calc /\ ~calcs[current].closed
      /\ ~calcs[current].finished
  BY PlacesOfCalcs DEF IncreaseSequence, IInv, PlaceInv
<1>1. CASE BlockIsDue(sequence + 1)
  <2> DEFINE next == sequence + 1
  <2>1. CloseBlock(next, FALSE)
    BY <1>1 DEF IncreaseSequence
  <2>2. next \in Nat /\ previous.last + 1 < next /\ sequence' = next
    BY <1>0, <1>1 DEF BlockIsDue
  <2>3. ASSUME n = current PROVE C.length + 1 = next - (previous.last + 1)
    <3>1. C.length = IF sequence > previous.last + 1
                     THEN sequence - (previous.last + 1) ELSE 0
      BY <2>3, OpenCalc
    <3> HIDE DEF C
    <3> QED
      BY <1>0, <2>2, <3>1
  <2> HIDE DEF next
  <2>4. /\ n = current =>
              /\ C' \in Kept /\ C'.phase = "closed"
              /\ C'.length = next - (previous.last + 1)
              /\ C'.full = FALSE /\ C'.finished = FALSE
        /\ n # current => UNCHANGED C
    BY <1>0, <2>1, <2>2, ClosingCalcs
  <2>5. CASE n = current
    <3>1. C \in Kept /\ C.phase = "open" /\ C.finished = FALSE
      BY <2>5, OpenCalc
    <3>2. Abstract(n)!CloseWithSequence
      BY <2>3, <2>4, <2>5, <3>1 DEF Abstract!CloseWithSequence, Kept
    <3> QED
      BY <3>2 DEF CalcStep, Abstract!Next
  <2> QED
    BY <2>4, <2>5 DEF CalcStep
<1>2. CASE ~BlockIsDue(sequence + 1)
  <2>1. /\ calcs' = [calcs EXCEPT ![current].full = FALSE]
        /\ UNCHANGED <<current, previous, blocks>>
    BY <1>2 DEF IncreaseSequence
  <2>2. CASE n = current
    <3>1. /\ DOMAIN calcs' = DOMAIN calcs /\ calcs'[n].first = previous.last + 1
          /\ calcs'[n] \in Calc /\ calcs'[n].full = FALSE
          /\ calcs'[n].closed = FALSE /\ calcs'[n].finished = FALSE
      BY <1>0, <2>1, <2>2, PlacesOfCalcs DEF Calc
    <3>2. Length(n)' = IF sequence + 1 > previous.last + 1
                       THEN sequence + 1 - (previous.last + 1) ELSE 0
      BY <1>0, <2>1, <2>2, <3>1 DEF Length
    <3>3. Length(n)' \in Nat /\ n \in DOMAIN calcs' /\ n <= current' /\ current' \in Nat
      BY <1>0, <2>1, <2>2, <3>1, <3>2
    <3>4. /\ C' \in Kept /\ C'.phase = "open" /\ C'.length = Length(n)'
          /\ C'.full = FALSE /\ C'.finished = FALSE
      BY <1>0, <3>1, <3>3, CalcFieldsNext
    <3>5. /\ C \in Kept /\ C.phase = "open" /\ C.finished = FALSE
          /\ C.length = IF sequence > previous.last + 1
                        THEN sequence - (previous.last + 1) ELSE 0
      BY <2>2, OpenCalc
    <3>6. CASE sequence > previous.last
      <4>1. C'.length = C.length + 1
        BY <1>0, <3>2, <3>4, <3>5, <3>6
      <4>2. Abstract(n)!NextSequence
        BY <3>4, <3>5, <4>1 DEF Abstract!NextSequence, Kept
      <4> QED
        BY <4>2 DEF CalcStep, Abstract!Next
    <3>7. CASE sequence <= previous.last
      <4>1. C.length = 0 /\ C'.length = 0
        BY <1>0, <3>2, <3>4, <3>5, <3>7
      <4>2. CASE C.full
        <5>1. Abstract(n)!Lose
          BY <3>4, <3>5, <4>1, <4>2 DEF Abstract!Lose, Kept
        <5> QED
          BY <5>1 DEF CalcStep, Abstract!Next
      <4>3. CASE ~C.full
        <5>1. C' = C
          BY <3>4, <3>5, <4>1, <4>3 DEF Kept
        <5> QED
          BY <5>1 DEF CalcStep
      <4> QED
        BY <4>2, <4>3
    <3> QED
      BY <1>0, <3>6, <3>7
  <2>3. CASE n # current
    <3>1. DOMAIN calcs' = DOMAIN calcs /\ calcs'[n] = calcs[n]
      BY <2>1, <2>3
    <3>2. UNCHANGED Length(n)
      BY <1>0, <2>1, <2>3, <3>1 DEF Length
    <3> QED
      BY <1>0, <2>1, <2>3, <3>1, <3>2 DEF CalcStep, CalcOf
  <2> QED
    BY <2>2, <2>3
<1> QED
  BY <1>1, <1>2

LEMMA TryCreateCalcs ==
  ASSUME IInv, TryCreateBlock, NEW n \in 1..MaxSequence
  PROVE  CalcStep(n)
<1> DEFINE C == CalcOf(n)
           f == calcs[current].full
<1>0. /\ current \in Nat \ {0} /\ previous.last \in Nat /\ sequence \in Nat
      /\ sequence' = sequence /\ n \in Nat \ {0}
      /\ sequence > 0 => previous.last < sequence
      /\ current \in DOMAIN calcs /\ calcs[current] \in Calc
  BY PlacesOfCalcs DEF TryCreateBlock, IInv, PlaceInv
<1>1. CloseBlock(sequence, f) /\ previous.last + 1 < sequence /\ f \in BOOLEAN
  BY <1>0 DEF TryCreateBlock, BlockIsDue, Calc
<1>2. n = current => /\ C \in Kept /\ C.phase = "open" /\ C.finished = FALSE /\ C.full = f
                     /\ C.length = sequence - (previous.last + 1) /\ C.length > 0
  <2> SUFFICES ASSUME n = current
               PROVE  /\ C \in Kept /\ C.phase = "open" /\ C.finished = FALSE /\ C.full = f
                      /\ C.length = sequence - (previous.last + 1) /\ C.length > 0
    OBVIOUS
  <2>1. /\ C \in Kept /\ C.phase = "open" /\ C.finished = FALSE /\ C.full = f
        /\ C.length = IF sequence > previous.last + 1
                      THEN sequence - (previous.last + 1) ELSE 0
    BY OpenCalc
  <2> HIDE DEF C, f
  <2>2. C.length = sequence - (previous.last + 1) /\ C.length > 0
    BY <1>0, <1>1, <2>1
  <2> QED
    BY <2>1, <2>2
<1> HIDE DEF f
<1>3. /\ n = current =>
           /\ C' \in Kept /\ C'.phase = "closed"
           /\ C'.length = sequence - (previous.last + 1)
           /\ C'.full = FALSE /\ C'.finished = f
      /\ n # current => UNCHANGED C
  BY <1>0, <1>1, ClosingCalcs
<1>4. CASE n = current
  <2>1. Abstract(n)!Close
    BY <1>2, <1>3, <1>4 DEF Abstract!Close, Kept
  <2> QED
    BY <2>1 DEF CalcStep, Abstract!Next
<1> QED
  BY <1>3, <1>4 DEF CalcStep

LEMMA ProofCalcs ==
  ASSUME IInv, NEW m \in BlockNumber, SubmitFull(m) \/ LoseFull(m), NEW n \in 1..MaxSequence
  PROVE  CalcStep(n)
<1>0. /\ n \in Nat /\ current \in Nat /\ calcs \in [DOMAIN calcs -> Calc]
      /\ UNCHANGED <<current, sequence, blocks>> /\ m \in DOMAIN calcs
  BY PlacesOfCalcs DEF SubmitFull, LoseFull
<1>c. /\ DOMAIN calcs' = DOMAIN calcs /\ (n # m => calcs'[n] = calcs[n])
      /\ n = m => /\ calcs'[n].first = calcs[n].first /\ calcs'[n].closed = calcs[n].closed
                  /\ calcs'[n] \in Calc
  <2>r. ASSUME NEW r \in Calc, NEW u \in BOOLEAN, NEW d \in BOOLEAN
        PROVE  /\ [r EXCEPT !.full = u] \in Calc
               /\ [r EXCEPT !.full = u].first = r.first
               /\ [r EXCEPT !.full = u].closed = r.closed
               /\ [r EXCEPT !.full = u, !.finished = d] \in Calc
               /\ [r EXCEPT !.full = u, !.finished = d].first = r.first
               /\ [r EXCEPT !.full = u, !.finished = d].closed = r.closed
    BY DEF Calc
  <2>1. CASE SubmitFull(m)
    <3>1. PICK d \in BOOLEAN : calcs' = [calcs EXCEPT ![m].full = TRUE, ![m].finished = d]
      BY <2>1 DEF SubmitFull
    <3>2. calcs' = [calcs EXCEPT ![m] = [calcs[m] EXCEPT !.full = TRUE, !.finished = d]]
      BY <1>0, <3>1
    <3>3. /\ DOMAIN calcs' = DOMAIN calcs /\ calcs[m] \in Calc
          /\ calcs'[m] = [calcs[m] EXCEPT !.full = TRUE, !.finished = d]
          /\ n # m => calcs'[n] = calcs[n]
      BY <1>0, <3>2
    <3>4. /\ [calcs[m] EXCEPT !.full = TRUE, !.finished = d] \in Calc
          /\ [calcs[m] EXCEPT !.full = TRUE, !.finished = d].first = calcs[m].first
          /\ [calcs[m] EXCEPT !.full = TRUE, !.finished = d].closed = calcs[m].closed
      BY <2>r, <3>3
    <3> QED
      BY <3>3, <3>4
  <2>2. CASE LoseFull(m)
    <3>1. calcs' = [calcs EXCEPT ![m] = [calcs[m] EXCEPT !.full = FALSE]]
      BY <1>0, <2>2 DEF LoseFull
    <3>2. /\ DOMAIN calcs' = DOMAIN calcs /\ calcs[m] \in Calc
          /\ calcs'[m] = [calcs[m] EXCEPT !.full = FALSE]
          /\ n # m => calcs'[n] = calcs[n]
      BY <1>0, <3>1
    <3>3. /\ [calcs[m] EXCEPT !.full = FALSE] \in Calc
          /\ [calcs[m] EXCEPT !.full = FALSE].first = calcs[m].first
          /\ [calcs[m] EXCEPT !.full = FALSE].closed = calcs[m].closed
      BY <2>r, <3>2
    <3> QED
      BY <3>2, <3>3
  <2> QED
    BY <2>1, <2>2
<1>1. CASE n # m
  BY <1>0, <1>c, <1>1, CalcStays DEF CalcStep
<1>2. CASE n = m
  <2> DEFINE C == CalcOf(n)
  <2>1. /\ C \in Kept
        /\ C.phase = IF calcs[n].closed THEN "closed" ELSE "open"
        /\ C.length = Length(n) /\ C.full = calcs[n].full /\ C.finished = calcs[n].finished
    BY <1>0, <1>2, CalcFields
  <2>2. calcs[n] \in Calc /\ n <= current /\ Length(n) \in Nat
    BY <1>0, <1>2, PlacesOfCalcs, LengthIsNat
  <2>3. UNCHANGED Length(n)
    BY <1>0, <1>c, <1>2 DEF Length
  <2>4. /\ C' \in Kept /\ C'.phase = C.phase /\ C'.length = C.length
        /\ C'.full = calcs'[n].full /\ C'.finished = calcs'[n].finished
    <3>1. n \in DOMAIN calcs' /\ n <= current' /\ current' \in Nat /\ calcs'[n] \in Calc
          /\ Length(n)' \in Nat
      BY <1>0, <1>c, <1>2, <2>2, <2>3
    <3>2. /\ C' \in Kept /\ C'.phase = (IF calcs'[n].closed THEN "closed" ELSE "open")
          /\ C'.length = Length(n)'
          /\ C'.full = calcs'[n].full /\ C'.finished = calcs'[n].finished
      BY <1>0, <3>1, CalcFieldsNext
    <3> QED
      BY <1>c, <1>2, <2>1, <2>3, <3>2
  <2>5. CASE SubmitFull(m)
    <3>1. calcs'[n].full = TRUE /\ calcs'[n].finished = (calcs[n].finished \/ calcs[n].closed)
      BY <1>0, <1>2, <2>2, <2>5 DEF SubmitFull, Calc
    <3>2. C'.full = TRUE /\ C'.finished = (C.finished \/ C.phase = "closed")
      <4>1. calcs[n].closed <=> C.phase = "closed"
        BY <2>1
      <4> QED
        BY <2>1, <2>4, <3>1, <4>1
    <3>3. C.length > 0
      <4>1. HasSequences(m)
        BY <2>5 DEF SubmitFull
      <4>2. CASE n < current
        BY <1>0, <1>2, <2>1, <4>2, PlacesOfCalcs DEF Length
      <4>3. CASE n = current
        BY <1>0, <1>2, <2>1, <4>1, <4>3, PlacesOfCalcs DEF Length, HasSequences
      <4> QED
        BY <1>0, <2>2, <4>2, <4>3
    <3>4. Abstract(n)!ProveAll
      <4>1. C.phase # "deleted"
        BY <2>1
      <4> QED
        BY <2>1, <2>4, <3>2, <3>3, <4>1 DEF Abstract!ProveAll, Kept
    <3> QED
      BY <3>4 DEF CalcStep, Abstract!Next
  <2>6. CASE LoseFull(m)
    <3>1. calcs'[n].full = FALSE /\ calcs'[n].finished = calcs[n].finished /\ calcs[n].full
      BY <1>0, <1>2, <2>2, <2>6 DEF LoseFull, Calc
    <3>2. Abstract(n)!Lose
      BY <2>1, <2>4, <3>1 DEF Abstract!Lose, Kept
    <3> QED
      BY <3>2 DEF CalcStep, Abstract!Next
  <2> QED
    BY <2>5, <2>6
<1> QED
  BY <1>1, <1>2

LEMMA DeletedCalcs ==
  ASSUME IInv, IInv', NEW c \in Chain, NEW m \in BlockNumber, TxIncluded(c, m),
         NEW n \in 1..MaxSequence
  PROVE  CalcStep(n)
<1>0. /\ settled.block <= settled'.block
      /\ n \in Nat /\ n # 0 /\ current \in Nat
      /\ settled.block \in Nat /\ settled'.block \in Nat /\ settled'.block < current
      /\ UNCHANGED <<current, sequence, lastProved>>
      /\ DOMAIN calcs = (settled.block + 1)..current
      /\ DOMAIN calcs' = (settled'.block + 1)..current
      /\ DOMAIN blocks = {0} \cup (settled.block + 1)..(current - 1)
      /\ DOMAIN blocks' = {0} \cup (settled'.block + 1)..(current - 1)
  <2>1. UNCHANGED <<current, sequence, lastProved>>
    BY DEF TxIncluded
  <2>2. settled.block <= settled'.block
    BY IncludedKeeps
  <2>3. /\ settled'.block \in Nat /\ settled'.block < current'
        /\ DOMAIN calcs' = (settled'.block + 1)..current'
        /\ DOMAIN blocks' = {0} \cup (settled'.block + 1)..(current' - 1)
    <3>1. current' \in Nat /\ settled'.block \in Nat /\ settled'.block < current'
      BY DEF IInv, TypeInv, TableInv
    <3> QED
      BY <3>1 DEF IInv, TableInv, Closed
  <2> QED
    BY <2>1, <2>2, <2>3, PlacesOfCalcs
<1>1. PICK S : blocks' = Without(blocks, S) /\ calcs' = Without(calcs, S)
  BY DEF TxIncluded, Cleanup
<1>2. /\ \A k \in DOMAIN calcs' : calcs'[k] = calcs[k]
      /\ \A k \in DOMAIN blocks' : blocks'[k] = blocks[k]
  BY <1>1 DEF Without
<1>3. CASE n > settled'.block \/ n <= settled.block
  <2>1. n <= current => (n \in DOMAIN calcs' <=> n \in DOMAIN calcs)
    BY <1>0, <1>3
  <2>2. n \in DOMAIN calcs => calcs'[n] = calcs[n]
    BY <1>0, <1>2, <1>3
  <2>3. n \in DOMAIN calcs /\ n < current => blocks'[n] = blocks[n]
    BY <1>0, <1>2, <1>3
  <2> QED
    BY <1>0, <2>1, <2>2, <2>3, CalcStays DEF CalcStep
<1>4. CASE settled.block < n /\ n <= settled'.block
  <2>1. n \in DOMAIN calcs /\ n \notin DOMAIN calcs' /\ n \in (settled.block + 1)..(current - 1)
    BY <1>0, <1>4
  <2>2. settled'.block <= lastProved /\ lastProved \in Nat
    BY <1>0 DEF IInv, TableInv, TypeInv
  <2>3. calcs[n].closed /\ calcs[n].finished
    BY <1>0, <1>4, <2>1, <2>2, PlacesOfCalcs DEF IInv, ProofInv
  <2>4. CalcOf(n).phase = "closed" /\ CalcOf(n).finished
    BY <2>1, <2>3, CalcFields
  <2>5. CalcOf(n)' = [phase |-> "deleted", length |-> 0, full |-> FALSE, finished |-> FALSE]
    <3>1. CalcOf(n)' = DeletedAbstract
      BY <1>0, <2>1 DEF CalcOf
    <3> QED
      BY <3>1 DEF DeletedAbstract, NewAbstract
  <2>6. Abstract(n)!Delete
    BY <2>4, <2>5 DEF Abstract!Delete, Abstract!Deleted
  <2> QED
    BY <2>6 DEF CalcStep, Abstract!Next
<1> QED
  BY <1>0, <1>3, <1>4

LEMMA StepsOfCalcs ==
  ASSUME IInv, IInv', [Next]_vars, NEW n \in 1..MaxSequence
  PROVE  CalcStep(n)
<1>0. n \in Nat /\ current \in Nat
  BY PlacesOfCalcs
<1>1. CASE IncreaseSequence
  BY <1>1, IncreaseCalcs
<1>2. CASE TryCreateBlock
  BY <1>2, TryCreateCalcs
<1>3. ASSUME NEW m \in BlockNumber, SubmitFull(m) \/ LoseFull(m) PROVE CalcStep(n)
  BY <1>3, ProofCalcs
<1>4. ASSUME NEW m \in BlockNumber, UpdateStateData(m) \/ UpdateProofData(m) PROVE CalcStep(n)
  <2>1. UNCHANGED <<current, sequence, calcs>>
    BY <1>4 DEF UpdateStateData, UpdateProofData
  <2>2. n \in DOMAIN blocks =>
          blocks'[n].first = blocks[n].first /\ blocks'[n].last = blocks[n].last
    <3>1. blocks \in [DOMAIN blocks -> Block]
      BY DEF IInv, TypeInv
    <3>2. CASE n = m
      BY <1>4, <3>1, <3>2 DEF UpdateStateData, UpdateProofData, Block
    <3>3. CASE n # m
      BY <1>4, <3>1, <3>3 DEF UpdateStateData, UpdateProofData
    <3> QED
      BY <3>2, <3>3
  <2>3. n \in DOMAIN calcs /\ n < current => n \in DOMAIN blocks
    BY <1>0, PlacesOfCalcs
  <2> QED
    BY <1>0, <2>1, <2>2, <2>3, CalcStays DEF CalcStep
<1>5. ASSUME NEW c \in Chain, NEW m \in BlockNumber, UpdateTxHash(c, m) PROVE CalcStep(n)
  BY <1>0, <1>5, CalcStays DEF UpdateTxHash, CalcStep
<1>6. ASSUME NEW c \in Chain, NEW m \in BlockNumber, TxIncluded(c, m) PROVE CalcStep(n)
  BY <1>6, DeletedCalcs
<1>7. ASSUME NEW k \in 1..MaxSequence, Purge(k) PROVE CalcStep(n)
  BY <1>0, <1>7, CalcStays DEF Purge, CalcStep
<1>8. CASE Tick \/ UNCHANGED vars
  BY <1>0, <1>8, CalcStays DEF Tick, vars, CalcStep
<1> QED
  BY <1>1, <1>2, <1>3, <1>4, <1>5, <1>6, <1>7, <1>8 DEF Next

(* The calculation of every block keeps the promises of Calculation, for   *)
(* any chains and any number of blocks: it finishes with the first proof   *)
(* of the whole block after the closing, or with one that was there, and   *)
(* is deleted only when it is finished.                                    *)
THEOREM Implementation == Spec => ImplementsCalculations
<1>1. Init => \A n \in 1..MaxSequence : Abstract(n)!Init
  <2> SUFFICES ASSUME Init, NEW n \in 1..MaxSequence PROVE Abstract(n)!Init
    OBVIOUS
  <2>1. CalcOf(n) = NewAbstract
    <3>1. CASE n = 1
      <4>1. /\ current = 1 /\ sequence = 0 /\ calcs[1] = NewCalc(1) /\ DOMAIN calcs = {1}
        BY DEF Init
      <4>2. Length(1) = 0
        BY <4>1 DEF Length, NewCalc
      <4> QED
        <5>1. NewCalc(1).closed = FALSE /\ NewCalc(1).full = FALSE
              /\ NewCalc(1).finished = FALSE
          BY DEF NewCalc
        <5> QED
          BY <3>1, <4>1, <4>2, <5>1 DEF CalcOf, NewAbstract
    <3>2. CASE n # 1
      BY <3>2 DEF Init, CalcOf
    <3> QED
      BY <3>1, <3>2
  <2> QED
    BY <2>1 DEF Abstract!Init, NewAbstract
<1>2. IInv /\ IInv' /\ [Next]_vars
        => [\A n \in 1..MaxSequence : Abstract(n)!Next \/ UNCHANGED CalcOf(n)]_vars
  BY StepsOfCalcs DEF CalcStep
<1>4. Spec => [][\A n \in 1..MaxSequence : Abstract(n)!Next \/ UNCHANGED CalcOf(n)]_vars
  BY <1>2, Invariant, PTL DEF Spec
<1>5. Spec => \A n \in 1..MaxSequence : Abstract(n)!Init
  BY <1>1 DEF Spec
<1> QED
  BY <1>4, <1>5, PTL DEF ImplementsCalculations

-----------------------------------------------------------------------------
(* An app on its instance.                                                 *)

LEMMA AppStep == ASSUME AppNext PROVE Next
<1>1. CASE Call
  BY <1>1 DEF Call, Next
<1>2. CASE AppTryCreateBlock
  BY <1>2 DEF AppTryCreateBlock, Next
<1>3. ASSUME NEW c \in Chain, NEW n \in BlockNumber, AppTxIncluded(c, n)
      PROVE  Next
  BY <1>3 DEF AppTxIncluded, Next
<1>4. ASSUME NEW k \in 1..MaxSequence, AppPurge(k) PROVE Next
  BY <1>4 DEF AppPurge, Next
<1>5. CASE Elsewhere
  BY <1>5 DEF Elsewhere, Next
<1> QED
  BY <1>1, <1>2, <1>3, <1>4, <1>5 DEF AppNext

(* The calls of an app are calls of Blocks: whatever is proved of Blocks   *)
(* holds of an app on its instance.                                        *)
THEOREM AppImplementsBlocks == AppSpec => Spec
<1>1. AppInit => Init
  BY DEF AppInit
<1>2. [AppNext]_appVars => [Next]_vars
  BY AppStep DEF appVars
<1> QED
  BY <1>1, <1>2, PTL DEF AppSpec, Spec

LEMMA AppIInv == AppSpec => []IInv
BY AppImplementsBlocks, Invariant, PTL

(* The three counters of actions are the instance's sequence, and the list *)
(* of records starts behind the last purge.                                *)
RecordInv ==
  /\ state.sequence = sequence /\ state.actions = sequence
  /\ rollback = [start |-> IF purged = 0 THEN 0 ELSE purged + 1,
                 end |-> sequence, records |-> rollback.records]
  /\ DOMAIN rollback.records = (purged + 1)..sequence

LEMMA RecordInvImplies ==
  ASSUME IInv, RecordInv
  PROVE  RecordsOfKeptStates /\ PurgesAreAccepted
<1>1. /\ sequence \in Nat /\ purged \in Nat /\ previous.last \in Nat
      /\ settled.sequence \in Nat /\ MaxSequence \in Nat
  BY BlocksAssumption DEF IInv, TypeInv, Sequence
<1>2. RecordsOfKeptStates
  <2>1. states.present = purged..(sequence - 1)
    BY DEF IInv, PurgeInv
  <2>2. {s + 1 : s \in purged..(sequence - 1)} = (purged + 1)..sequence
    <3>1. ASSUME NEW m \in (purged + 1)..sequence
          PROVE  m - 1 \in purged..(sequence - 1) /\ m = (m - 1) + 1
      BY <1>1
    <3>2. \A s \in purged..(sequence - 1) : s + 1 \in (purged + 1)..sequence
      BY <1>1
    <3> QED
      BY <3>1, <3>2
  <2> QED
    BY <2>1, <2>2 DEF RecordInv, RecordsOfKeptStates
<1>3. PurgesAreAccepted
  <2> SUFFICES ASSUME NEW k \in 1..MaxSequence, PurgeTo(k) > purged
               PROVE  PurgeTo(k) \in rollback.start..rollback.end
    BY DEF PurgesAreAccepted
  <2>1. settled.sequence <= sequence
    BY <1>1 DEF IInv, BlockInv, PlaceInv
  <2>2. PurgeTo(k) \in Nat /\ PurgeTo(k) <= settled.sequence
    BY <1>1 DEF PurgeTo
  <2>3. /\ rollback.end = sequence
        /\ rollback.start = IF purged = 0 THEN 0 ELSE purged + 1
    BY DEF RecordInv
  <2> QED
    BY <1>1, <2>1, <2>2, <2>3
<1> QED
  BY <1>2, <1>3

LEMMA CommitKeeps ==
  ASSUME IInv, RecordInv, CommitAction, IncreaseSequence
  PROVE  RecordInv'
<1>1. sequence' = sequence + 1 /\ purged' = purged
  BY DEF IncreaseSequence
<1>2. sequence \in Nat /\ purged \in Nat
  BY DEF IInv, TypeInv
<1>3. purged <= sequence
  BY <1>2 DEF IInv, PurgeInv, BlockInv, PlaceInv, TypeInv, Sequence
<1>4. state'.sequence = sequence + 1 /\ state'.actions = sequence + 1
  BY DEF CommitAction, RecordInv
<1>5. /\ rollback' = [start |-> rollback.start, end |-> sequence + 1,
                      records |-> rollback'.records]
      /\ DOMAIN rollback'.records = DOMAIN rollback.records \cup {sequence + 1}
  BY DEF CommitAction, RecordInv
<1>7. ((purged + 1)..sequence) \cup {sequence + 1} = (purged + 1)..(sequence + 1)
  BY <1>2, <1>3
<1> QED
  BY <1>1, <1>4, <1>5, <1>7 DEF RecordInv

LEMMA AppPurgeKeeps ==
  ASSUME IInv, RecordInv, NEW k \in 1..MaxSequence, AppPurge(k)
  PROVE  RecordInv'
<1> DEFINE p == PurgeTo(k)
<1>1. /\ sequence' = sequence /\ purged' = p /\ p > purged /\ state' = state
  BY DEF AppPurge, Purge
<1>2. /\ sequence \in Nat /\ purged \in Nat /\ p \in Nat
  BY DEF IInv, TypeInv, PurgeTo
<1>3. /\ rollback' = [start |-> p + 1, end |-> rollback.end,
                      records |-> rollback'.records]
      /\ DOMAIN rollback'.records = DOMAIN rollback.records \ Gone(p)
  BY DEF AppPurge, PurgeRecords
<1>4. Gone(p) = (IF purged = 0 THEN 0 ELSE purged + 1)..p
  BY DEF Gone, RecordInv
<1> HIDE DEF p
<1>5. ((purged + 1)..sequence) \ Gone(p) = (p + 1)..sequence
  BY <1>1, <1>2, <1>4
<1>6. DOMAIN rollback'.records = (p + 1)..sequence
  BY <1>3, <1>5 DEF RecordInv
<1>7. rollback.end = sequence
  BY DEF RecordInv
<1> QED
  BY <1>1, <1>2, <1>3, <1>6, <1>7 DEF RecordInv

LEMMA OthersKeepRecords ==
  ASSUME RecordInv,
         AppTryCreateBlock \/ Elsewhere \/ UNCHANGED appVars
           \/ \E c \in Chain, n \in BlockNumber : AppTxIncluded(c, n)
  PROVE  RecordInv'
<1>1. UNCHANGED <<sequence, purged, state, rollback>>
  <2>1. CASE AppTryCreateBlock
    BY <2>1 DEF AppTryCreateBlock, TryCreateBlock
  <2>2. CASE Elsewhere
    BY <2>2 DEF Elsewhere, SubmitFull, LoseFull, UpdateStateData,
                UpdateProofData, UpdateTxHash, Tick
  <2>3. CASE UNCHANGED appVars
    BY <2>3 DEF appVars, vars
  <2>4. CASE \E c \in Chain, n \in BlockNumber : AppTxIncluded(c, n)
    BY <2>4 DEF AppTxIncluded, TxIncluded
  <2> QED
    BY <2>1, <2>2, <2>3, <2>4
<1> QED
  BY <1>1 DEF RecordInv

LEMMA AppRecordInv == AppSpec => []RecordInv
<1>1. AppInit => RecordInv
  <2> SUFFICES ASSUME AppInit PROVE RecordInv
    OBVIOUS
  <2>1. /\ sequence = 0 /\ purged = 0
        /\ state.sequence = 0 /\ state.actions = 0
        /\ rollback = [start |-> 0, end |-> 0, records |-> [k \in {} |-> <<>>]]
    BY DEF AppInit, Init, StateInit
  <2>2. 1..0 = {}
    OBVIOUS
  <2> QED
    BY <2>1, <2>2 DEF RecordInv
<1>2. IInv /\ RecordInv /\ [AppNext]_appVars => RecordInv'
  <2> SUFFICES ASSUME IInv, RecordInv, [AppNext]_appVars PROVE RecordInv'
    OBVIOUS
  <2>1. CASE Call
    BY <2>1, CommitKeeps DEF Call
  <2>2. ASSUME NEW k \in 1..MaxSequence, AppPurge(k) PROVE RecordInv'
    BY <2>2, AppPurgeKeeps
  <2>3. CASE \/ AppTryCreateBlock \/ Elsewhere \/ UNCHANGED appVars
             \/ \E c \in Chain, n \in BlockNumber : AppTxIncluded(c, n)
    BY <2>3, OthersKeepRecords
  <2> QED
    BY <2>1, <2>2, <2>3 DEF AppNext
<1> QED
  BY <1>1, <1>2, AppIInv, PTL DEF AppSpec

(* The rollback list holds the records of the sequences whose states are   *)
(* kept and refuses no purge, for any chains and any number of sequences.  *)
THEOREM RecordsFollowStates ==
  AppSpec => [](RecordsOfKeptStates /\ PurgesAreAccepted)
BY RecordInvImplies, AppIInv, AppRecordInv, PTL

-----------------------------------------------------------------------------
(* The jobs of an app.                                                     *)

JobInv ==
  \A s \in DOMAIN jobBlock :
    /\ s \in Nat /\ s < sequence
    /\ jobBlock[s] \in Nat \ {0}
    /\ BlockHolds(jobBlock[s], s)

LEMMA ClosingHolds ==
  ASSUME IInv, NEW next \in Nat, NEW full, CloseBlock(next, full),
         UNCHANGED settled,
         NEW n, NEW s \in Nat, s < next, BlockHolds(n, s)
  PROVE  BlockHolds(n, s)'
<1>1. /\ current \in Nat /\ previous.last \in Nat
      /\ current \notin DOMAIN blocks
  BY DEF IInv, TypeInv, TableInv, Closed, Sequence
<1>2. /\ blocks' = With(blocks, current, NewBlock(previous.last + 1, next - 1))
      /\ current' = current + 1
  BY DEF CloseBlock
<1>3. /\ DOMAIN blocks' = DOMAIN blocks \cup {current}
      /\ blocks'[current] = NewBlock(previous.last + 1, next - 1)
      /\ \A m \in DOMAIN blocks : blocks'[m] = blocks[m]
  BY <1>1, <1>2 DEF With
<1>4. CASE n = current /\ s > previous.last
  BY <1>1, <1>3, <1>4 DEF BlockHolds, NewBlock
<1>5. CASE n \in DOMAIN blocks /\ blocks[n].first <= s /\ s <= blocks[n].last
  BY <1>3, <1>5 DEF BlockHolds
<1>6. CASE n <= settled.block /\ s <= settled.sequence
  BY <1>6 DEF BlockHolds
<1> QED
  BY <1>4, <1>5, <1>6 DEF BlockHolds

LEMMA IncreaseHolds ==
  ASSUME IInv, IncreaseSequence, NEW n, NEW s \in Nat, s <= sequence,
         BlockHolds(n, s)
  PROVE  BlockHolds(n, s)'
<1>1. sequence \in Nat /\ UNCHANGED settled
  BY DEF IInv, TypeInv, IncreaseSequence
<1>2. CASE BlockIsDue(sequence + 1)
  <2> DEFINE next == sequence + 1
  <2>1. CloseBlock(next, FALSE)
    BY <1>2 DEF IncreaseSequence
  <2>2. next \in Nat /\ s < next
    BY <1>1
  <2> HIDE DEF next
  <2> QED
    BY <1>1, <2>1, <2>2, ClosingHolds
<1>3. CASE ~BlockIsDue(sequence + 1)
  BY <1>1, <1>3 DEF IncreaseSequence, BlockHolds
<1> QED
  BY <1>2, <1>3

LEMMA IncludedHolds ==
  ASSUME IInv, NEW c \in Chain, NEW k \in BlockNumber, TxIncluded(c, k),
         NEW n \in Nat \ {0}, NEW s \in Nat, BlockHolds(n, s)
  PROVE  BlockHolds(n, s)'
<1>1. /\ IInv' /\ settled'.block >= settled.block
      /\ settled'.sequence >= settled.sequence
  BY IncludedKeeps
<1>2. UNCHANGED <<current, previous>> /\ \E S : blocks' = Without(blocks, S)
  BY DEF TxIncluded, Cleanup
<1>3. \A m \in DOMAIN blocks' : m \in DOMAIN blocks /\ blocks'[m] = blocks[m]
  <2>1. PICK S : blocks' = Without(blocks, S)
    BY <1>2
  <2> QED
    BY <2>1 DEF Without
<1>4. /\ settled.block \in Nat /\ settled.sequence \in Nat
      /\ settled'.block \in Nat /\ settled'.sequence \in Nat
      /\ current \in Nat /\ previous.last \in Nat
      /\ DOMAIN blocks = {0} \cup Closed /\ DOMAIN blocks' = {0} \cup Closed'
      /\ settled'.block < current
  BY <1>1, <1>2 DEF IInv, TypeInv, TableInv, Sequence
<1>5. CASE n = current /\ s > previous.last
  BY <1>2, <1>5 DEF BlockHolds
<1>6. CASE n \in DOMAIN blocks /\ blocks[n].first <= s /\ s <= blocks[n].last
  <2>1. n \in Closed /\ blocks[n] \in Block
    BY <1>4, <1>6 DEF IInv, TypeInv
  <2>2. blocks[n].last \in Nat /\ blocks[n].last <= previous.last
    BY <2>1 DEF IInv, BlockInv, Block, Sequence
  <2>3. CASE n > settled'.block
    <3>1. n \in DOMAIN blocks'
      BY <1>2, <1>4, <2>1, <2>3 DEF Closed
    <3> QED
      BY <1>3, <1>6, <3>1 DEF BlockHolds
  <2>4. CASE n <= settled'.block
    <3>1. CASE settled'.block = current - 1
      <4>1. settled'.sequence = previous.last
        BY <1>1, <1>2, <3>1 DEF IInv, BlockInv
      <4> QED
        BY <1>4, <1>6, <2>2, <2>4, <4>1 DEF BlockHolds
    <3>2. CASE settled'.block # current - 1
      <4> DEFINE m == settled'.block + 1
      <4>1. m \in Closed' /\ m \in Closed /\ n < m
        BY <1>1, <1>2, <1>4, <2>4, <3>2 DEF Closed
      <4>2. blocks'[m].first = 1 + settled'.sequence
        BY <1>1, <4>1 DEF IInv, BlockInv
      <4>3. blocks[n].last < blocks[m].first
        BY <2>1, <4>1 DEF IInv, BlockInv
      <4>4. blocks'[m] = blocks[m]
        BY <1>3, <1>4, <4>1
      <4> QED
        BY <1>4, <1>6, <2>2, <2>4, <4>2, <4>3, <4>4 DEF BlockHolds
    <3> QED
      BY <3>1, <3>2
  <2> QED
    BY <1>4, <2>3, <2>4
<1>7. CASE n <= settled.block /\ s <= settled.sequence
  BY <1>1, <1>4, <1>7 DEF BlockHolds
<1> QED
  BY <1>5, <1>6, <1>7 DEF BlockHolds

(* A step elsewhere moves no block.                                        *)
LEMMA ElsewhereKeepsPlaces ==
  ASSUME IInv, Elsewhere \/ UNCHANGED appVars
  PROVE  /\ UNCHANGED <<sequence, current, previous, settled, jobBlock>>
         /\ DOMAIN blocks' = DOMAIN blocks
         /\ \A m \in DOMAIN blocks : /\ blocks'[m].first = blocks[m].first
                                     /\ blocks'[m].last = blocks[m].last
<1>1. ASSUME NEW k \in BlockNumber, UpdateStateData(k) \/ UpdateProofData(k)
      PROVE  /\ UNCHANGED <<sequence, current, previous, settled>>
             /\ DOMAIN blocks' = DOMAIN blocks
             /\ \A m \in DOMAIN blocks : /\ blocks'[m].first = blocks[m].first
                                         /\ blocks'[m].last = blocks[m].last
  <2>1. blocks \in [DOMAIN blocks -> Block]
    BY DEF IInv, TypeInv
  <2> QED
    BY <1>1, <2>1 DEF UpdateStateData, UpdateProofData, Block
<1>2. ASSUME NEW k \in BlockNumber, SubmitFull(k) \/ LoseFull(k)
      PROVE  UNCHANGED <<sequence, current, previous, settled, blocks>>
  BY <1>2 DEF SubmitFull, LoseFull
<1>3. ASSUME NEW c \in Chain, NEW k \in BlockNumber, UpdateTxHash(c, k)
      PROVE  UNCHANGED <<sequence, current, previous, settled, blocks>>
  BY <1>3 DEF UpdateTxHash
<1>4. ASSUME Tick PROVE UNCHANGED <<sequence, current, previous, settled, blocks>>
  BY <1>4 DEF Tick
<1>5. CASE Elsewhere
  BY <1>1, <1>2, <1>3, <1>4, <1>5 DEF Elsewhere
<1>6. CASE UNCHANGED appVars
  BY <1>6 DEF appVars, vars
<1> QED
  BY <1>5, <1>6

LEMMA ElsewhereHolds ==
  ASSUME IInv, Elsewhere \/ UNCHANGED appVars, NEW n, NEW s, BlockHolds(n, s)
  PROVE  BlockHolds(n, s)' /\ UNCHANGED <<sequence, jobBlock>>
BY ElsewhereKeepsPlaces DEF BlockHolds

LEMMA CallKeepsJobs == ASSUME IInv, JobInv, Call PROVE JobInv'
<1>1. IncreaseSequence /\ sequence' = sequence + 1
  BY DEF Call, IncreaseSequence
<1>2. /\ sequence \in Nat /\ current \in Nat \ {0} /\ previous.last \in Nat
      /\ sequence > 0 => previous.last < sequence
  BY DEF IInv, TypeInv, PlaceInv, Sequence
<1>3. CASE sequence = 0
  <2>1. jobBlock' = jobBlock
    BY <1>3 DEF Call
  <2>2. SUFFICES ASSUME NEW s \in DOMAIN jobBlock PROVE FALSE
    BY <2>1 DEF JobInv
  <2> QED
    BY <1>3, <2>2 DEF JobInv
<1>4. CASE sequence # 0
  <2>1. jobBlock' = With(jobBlock, sequence, current)
    BY <1>4 DEF Call, BlockOfJob
  <2> SUFFICES ASSUME NEW s \in DOMAIN jobBlock', NEW n, n = jobBlock'[s]
               PROVE  /\ s \in Nat /\ s < sequence' /\ n \in Nat \ {0}
                      /\ BlockHolds(n, s)'
    BY DEF JobInv, BlockHolds
  <2>2. s \in Nat /\ s <= sequence /\ n \in Nat \ {0} /\ BlockHolds(n, s)
    <3>1. CASE s = sequence
      BY <1>2, <1>4, <2>1, <3>1 DEF With, BlockHolds
    <3>2. CASE s # sequence
      BY <1>2, <2>1, <3>2 DEF With, JobInv
    <3> QED
      BY <3>1, <3>2
  <2>3. BlockHolds(n, s)'
    BY <1>1, <2>2, IncreaseHolds
  <2> QED
    BY <1>1, <1>2, <2>2, <2>3
<1> QED
  BY <1>3, <1>4

LEMMA OthersKeepJobs ==
  ASSUME IInv, JobInv, UNCHANGED <<sequence, jobBlock>>,
         \A s \in DOMAIN jobBlock :
           LET n == jobBlock[s] IN
           \/ n = current' /\ s > previous'.last
           \/ n \in DOMAIN blocks' /\ blocks'[n].first <= s /\ s <= blocks'[n].last
           \/ n <= settled'.block /\ s <= settled'.sequence
  PROVE  JobInv'
BY DEF JobInv, BlockHolds

(* Every job an app created names the block its sequence ended up in, for  *)
(* any chains, any number of sequences and any order of closings,          *)
(* settlements and deletions.                                              *)
THEOREM JobsAlwaysNameTheirBlock == AppSpec => []JobsNameTheirBlock
<1>1. AppInit => JobInv
  BY DEF AppInit, JobInv
<1>2. IInv /\ JobInv /\ [AppNext]_appVars => JobInv'
  <2> SUFFICES ASSUME IInv, JobInv, [AppNext]_appVars PROVE JobInv'
    OBVIOUS
  <2>1. CASE Call
    BY <2>1, CallKeepsJobs
  <2>2. CASE AppTryCreateBlock
    <3>1. /\ CloseBlock(sequence, calcs[current].full)
          /\ UNCHANGED <<sequence, settled, jobBlock>>
      BY <2>2 DEF AppTryCreateBlock, TryCreateBlock
    <3>2. sequence \in Nat
      BY DEF IInv, TypeInv
    <3>3. \A s \in DOMAIN jobBlock : \A n : n = jobBlock[s] => BlockHolds(n, s)'
      BY <3>1, <3>2, ClosingHolds DEF JobInv
    <3> QED
      BY <3>1, <3>3, OthersKeepJobs DEF BlockHolds
  <2>3. ASSUME NEW c \in Chain, NEW k \in BlockNumber, AppTxIncluded(c, k)
        PROVE  JobInv'
    <3>1. TxIncluded(c, k) /\ UNCHANGED <<sequence, jobBlock>>
      BY <2>3 DEF AppTxIncluded, TxIncluded
    <3>2. \A s \in DOMAIN jobBlock : \A n : n = jobBlock[s] => BlockHolds(n, s)'
      BY <3>1, IncludedHolds DEF JobInv
    <3> QED
      BY <3>1, <3>2, OthersKeepJobs DEF BlockHolds
  <2>4. ASSUME NEW k \in 1..MaxSequence, AppPurge(k) PROVE JobInv'
    BY <2>4 DEF AppPurge, Purge, JobInv, BlockHolds
  <2>5. CASE Elsewhere \/ UNCHANGED appVars
    <3>1. UNCHANGED <<sequence, jobBlock>>
      <4>1. CASE Elsewhere
        BY <4>1 DEF Elsewhere, SubmitFull, LoseFull, UpdateStateData,
                    UpdateProofData, UpdateTxHash, Tick
      <4>2. CASE UNCHANGED appVars
        BY <4>2 DEF appVars, vars
      <4> QED
        BY <2>5, <4>1, <4>2
    <3>2. \A s \in DOMAIN jobBlock : \A n : n = jobBlock[s] => BlockHolds(n, s)'
      BY <2>5, ElsewhereHolds DEF JobInv
    <3> QED
      BY <3>1, <3>2, OthersKeepJobs DEF BlockHolds
  <2> QED
    BY <2>1, <2>2, <2>3, <2>4, <2>5 DEF AppNext
<1>3. JobInv => JobsNameTheirBlock
  BY DEF JobInv, JobsNameTheirBlock
<1> QED
  BY <1>1, <1>2, <1>3, AppIInv, PTL DEF AppSpec
-----------------------------------------------------------------------------
(* What an action does to the state, update by update.                     *)

Update == [index: Index, value: Nat]
Table == [Index -> Int]
Entry == [index: Index, previous: Int, before: Table, after: Table]
Draft == [elements: Table, commitment: Table, record: Seq(Entry)]

(* The drafts of an action, from the one it starts from.                   *)
Runs(g, s, us) ==
  /\ g \in [0..Len(us) -> Draft] /\ g[0] = s
  /\ \A i \in 1..Len(us) : g[i] = Written(g[i - 1], us[i])

LEMMA WrittenTyped ==
  ASSUME NEW s \in Draft, NEW u \in Update
  PROVE  /\ Written(s, u) \in Draft
         /\ Written(s, u).elements = [s.elements EXCEPT ![u.index] = u.value]
         /\ Written(s, u).commitment = Updated(s.commitment, u.index, s.elements[u.index], u.value)
         /\ Written(s, u).record = Append(s.record, Written(s, u).record[Len(s.record) + 1])
         /\ Written(s, u).record[Len(s.record) + 1].index = u.index
         /\ Written(s, u).record[Len(s.record) + 1].previous = s.elements[u.index]
<1> DEFINE after == Updated(s.commitment, u.index, s.elements[u.index], u.value)
           e == [index |-> u.index, previous |-> s.elements[u.index],
                 before |-> s.commitment, after |-> after]
<1>1. /\ s.elements \in Table /\ s.commitment \in Table /\ s.record \in Seq(Entry)
      /\ u.index \in Index /\ u.value \in Nat /\ s.elements[u.index] \in Int
  BY DEF Draft, Update, Table
<1>2. Digest(u.value) \in Int /\ Digest(s.elements[u.index]) \in Int
  BY <1>1 DEF Digest
<1>3. after \in Table
  BY <1>1, <1>2 DEF Updated, Table
<1>4. e \in Entry
  BY <1>1, <1>3 DEF Entry
<1>5. Written(s, u) = [elements |-> [s.elements EXCEPT ![u.index] = u.value],
                       commitment |-> after, record |-> Append(s.record, e)]
  BY DEF Written, Previous
<1>6. [s.elements EXCEPT ![u.index] = u.value] \in Table
  BY <1>1 DEF Table
<1> HIDE DEF e
<1>7. Append(s.record, e) \in Seq(Entry) /\ Append(s.record, e)[Len(s.record) + 1] = e
  BY <1>1, <1>4
<1>8. e.index = u.index /\ e.previous = s.elements[u.index]
  BY DEF e
<1> HIDE DEF after
<1> QED
  BY <1>3, <1>5, <1>6, <1>7, <1>8 DEF Draft, after

LEMMA ActionRun ==
  ASSUME NEW s \in Draft, NEW us \in Seq(Update)
  PROVE  \E g : Runs(g, s, us) /\ WrittenAll(s, us) = g[Len(us)]
<1> DEFINE N == Len(us)
           after == CHOOSE f : f = [i \in 0..N |->
                      IF i = 0 THEN s ELSE Written(f[i - 1], us[i])]
           F == [p \in Draft \X (1..N) |-> Written(p[1], us[p[2]])]
<1>1. N \in Nat /\ \A i \in 1..N : us[i] \in Update
  OBVIOUS
<1>2. F \in [Draft \X (1..N) -> Draft]
  BY <1>1, WrittenTyped
<1>3. PICK g \in [0..N -> Draft] : g[0] = s /\ \A i \in 1..N : g[i] = F[<<g[i - 1], i>>]
  <2>1. N \in Nat
    BY <1>1
  <2> HIDE DEF F, N
  <2>2. Reaches(N, Draft, s, F)
    BY <1>2, <2>1, Recursion
  <2> QED
    BY <2>2 DEF Reaches
<1>4. \A i \in 1..N : g[i] = Written(g[i - 1], us[i])
  BY <1>1, <1>3
<1>5. g = [i \in 0..N |-> IF i = 0 THEN s ELSE Written(g[i - 1], us[i])]
  BY <1>1, <1>3, <1>4
<1>6. after = [i \in 0..N |-> IF i = 0 THEN s ELSE Written(after[i - 1], us[i])]
  BY <1>5
<1> DEFINE Same == {i \in 0..N : after[i] = g[i]}
<1> HIDE DEF after, F
<1>7. \A i \in 0..N : i \in Same
  <2>1. 0 \in Same
    BY <1>1, <1>5, <1>6
  <2>2. ASSUME NEW i \in 0..(N - 1), i \in Same PROVE i + 1 \in Same
    <3>1. i + 1 \in 1..N /\ (i + 1) - 1 = i
      BY <1>1
    <3>2. after[i + 1] = Written(after[i], us[i + 1])
      BY <1>1, <1>6, <3>1
    <3>3. g[i + 1] = Written(g[i], us[i + 1])
      BY <1>4, <3>1
    <3> QED
      BY <1>1, <2>2, <3>1, <3>2, <3>3
  <2> HIDE DEF Same
  <2> QED
    BY <1>1, <2>1, <2>2, BoundedInduction
<1>8. WrittenAll(s, us) = after[N]
  BY DEF WrittenAll, after
<1>9. after[N] = g[N]
  BY <1>1, <1>7
<1>10. Runs(g, s, us)
  BY <1>3, <1>4 DEF Runs
<1> QED
  BY <1>8, <1>9, <1>10

(* The commitment follows the table.                                       *)
LEMMA RunCommits ==
  ASSUME NEW s \in Draft, NEW us \in Seq(Update), NEW g, Runs(g, s, us),
         s.commitment = Commitment(s.elements)
  PROVE  g[Len(us)].commitment = Commitment(g[Len(us)].elements)
<1> DEFINE N == Len(us)
           P == {m \in 0..N : g[m].commitment = Commitment(g[m].elements)}
<1>1. N \in Nat /\ \A i \in 1..N : us[i] \in Update
  OBVIOUS
<1>2. 0 \in P
  BY <1>1 DEF Runs
<1>3. ASSUME NEW m \in 0..(N - 1), m \in P PROVE m + 1 \in P
  <2> DEFINE t == g[m]
             u == us[m + 1]
  <2>1. m + 1 \in 1..N /\ (m + 1) - 1 = m /\ m \in 0..N /\ m + 1 \in 0..N
    BY <1>1
  <2>2. g[m + 1] = Written(t, u) /\ t \in Draft /\ u \in Update
    BY <1>1, <2>1 DEF Runs
  <2>3. t.commitment = Commitment(t.elements)
    BY <1>3
  <2> HIDE DEF t, u
  <2>4. /\ g[m + 1].elements = [t.elements EXCEPT ![u.index] = u.value]
        /\ g[m + 1].commitment = Updated(t.commitment, u.index, t.elements[u.index], u.value)
    BY <2>2, WrittenTyped
  <2>5. t.elements \in Table /\ t.commitment \in Table /\ u.index \in Index /\ u.value \in Nat
    BY <2>2 DEF Draft, Update
  <2>6. ASSUME NEW i \in Index
        PROVE  Updated(t.commitment, u.index, t.elements[u.index], u.value)[i]
                 = Digest([t.elements EXCEPT ![u.index] = u.value][i])
    <3>1. t.commitment[i] = Digest(t.elements[i]) /\ t.elements[i] \in Int
      BY <2>3, <2>5 DEF Commitment, Table
    <3>2. CASE i = u.index
      BY <2>5, <3>1, <3>2 DEF Updated, Digest, Table
    <3>3. CASE i # u.index
      BY <2>5, <3>1, <3>3 DEF Updated, Table
    <3> QED
      BY <3>2, <3>3
  <2>7. Updated(t.commitment, u.index, t.elements[u.index], u.value)
          = Commitment([t.elements EXCEPT ![u.index] = u.value])
    <3>1. DOMAIN Updated(t.commitment, u.index, t.elements[u.index], u.value) = Index
      BY <2>5 DEF Updated, Table
    <3>2. Updated(t.commitment, u.index, t.elements[u.index], u.value)
            = [i \in Index |-> Updated(t.commitment, u.index, t.elements[u.index], u.value)[i]]
      BY <3>1 DEF Updated
    <3> QED
      BY <2>6, <3>2 DEF Commitment
  <2> QED
    BY <2>1, <2>4, <2>7
<1>4. N \in P
  <2> HIDE DEF P, N
  <2>1. N \in Nat
    BY <1>1
  <2>2. \A m \in 0..N : m \in P
    BY ONLY <1>2, <1>3, <2>1, BoundedInduction
  <2> QED
    BY <2>1, <2>2
<1> QED
  BY <1>4

(* The record has, per update, what was there before it.                   *)
LEMMA RunRecords ==
  ASSUME NEW s \in Draft, NEW us \in Seq(Update), NEW g, Runs(g, s, us),
         s.record = <<>>
  PROVE  /\ Len(g[Len(us)].record) = Len(us)
         /\ \A j \in 1..Len(us) :
              /\ g[Len(us)].record[j].index = us[j].index
              /\ g[Len(us)].record[j].previous = g[j - 1].elements[us[j].index]
<1> DEFINE N == Len(us)
           Good(m) == /\ Len(g[m].record) = m
                      /\ \A j \in 1..m :
                           /\ g[m].record[j].index = us[j].index
                           /\ g[m].record[j].previous = g[j - 1].elements[us[j].index]
           P == {m \in 0..N : Good(m)}
<1>1. N \in Nat /\ \A i \in 1..N : us[i] \in Update
  OBVIOUS
<1>2. 0 \in P
  <2>1. g[0].record = <<>> /\ 1..0 = {}
    BY DEF Runs
  <2> QED
    BY <1>1, <2>1
<1>3. ASSUME NEW m \in 0..(N - 1), m \in P PROVE m + 1 \in P
  <2> DEFINE t == g[m]
             u == us[m + 1]
             w == Written(t, u)
  <2>1. m + 1 \in 1..N /\ (m + 1) - 1 = m /\ m \in 0..N /\ m + 1 \in 0..N
    BY <1>1
  <2>2. g[m + 1] = w /\ t \in Draft /\ u \in Update
    BY <1>1, <2>1 DEF Runs
  <2>3. t.record \in Seq(Entry) /\ Len(t.record) = m
    BY <1>3, <2>2 DEF Draft
  <2>4. /\ w.record = Append(t.record, w.record[m + 1])
        /\ w.record[m + 1].index = u.index
        /\ w.record[m + 1].previous = t.elements[u.index]
    <3> HIDE DEF t, u
    <3> QED
      BY <2>2, <2>3, WrittenTyped
  <2>5. Good(m)
    BY <1>3
  <2> HIDE DEF w
  <2>6. Len(w.record) = m + 1 /\ \A j \in 1..m : w.record[j] = t.record[j]
    <3> HIDE DEF t
    <3> QED
      BY <2>3, <2>4
  <2>7. ASSUME NEW j \in 1..(m + 1)
        PROVE  /\ g[m + 1].record[j].index = us[j].index
               /\ g[m + 1].record[j].previous = g[j - 1].elements[us[j].index]
    <3>1. CASE j = m + 1
      BY <2>1, <2>2, <2>4, <3>1
    <3>2. CASE j \in 1..m
      BY <2>2, <2>5, <2>6, <3>2
    <3> QED
      BY <3>1, <3>2
  <2> QED
    BY <2>1, <2>2, <2>6, <2>7
<1>4. N \in P
  <2> HIDE DEF P, N
  <2>1. N \in Nat
    BY <1>1
  <2>2. \A m \in 0..N : m \in P
    BY ONLY <1>2, <1>3, <2>1, BoundedInduction
  <2> QED
    BY <2>1, <2>2
<1> QED
  BY <1>4

(* The table has what was written last, or what was there.                 *)
LEMMA RunWrites ==
  ASSUME NEW s \in Draft, NEW us \in Seq(Update), NEW g, Runs(g, s, us), NEW i \in Index
  PROVE  /\ (\A j \in 1..Len(us) : us[j].index # i) =>
              g[Len(us)].elements[i] = s.elements[i]
         /\ \A j \in 1..Len(us) :
              us[j].index = i /\ (\A h \in (j + 1)..Len(us) : us[h].index # i) =>
                g[Len(us)].elements[i] = us[j].value
<1> DEFINE N == Len(us)
           Good(m) == /\ (\A j \in 1..m : us[j].index # i) => g[m].elements[i] = s.elements[i]
                      /\ \A j \in 1..m :
                           us[j].index = i /\ (\A h \in (j + 1)..m : us[h].index # i) =>
                             g[m].elements[i] = us[j].value
           P == {m \in 0..N : Good(m)}
<1>1. N \in Nat /\ \A j \in 1..N : us[j] \in Update
  OBVIOUS
<1>2. 0 \in P
  <2>1. g[0] = s /\ 1..0 = {}
    BY DEF Runs
  <2> QED
    BY <1>1, <2>1
<1>3. ASSUME NEW m \in 0..(N - 1), m \in P PROVE m + 1 \in P
  <2> DEFINE t == g[m]
             u == us[m + 1]
  <2>1. m + 1 \in 1..N /\ (m + 1) - 1 = m /\ m \in 0..N /\ m + 1 \in 0..N
    BY <1>1
  <2>2. g[m + 1] = Written(t, u) /\ t \in Draft /\ u \in Update
    BY <1>1, <2>1 DEF Runs
  <2>3. g[m + 1].elements[i] = IF u.index = i THEN u.value ELSE t.elements[i]
    <3> HIDE DEF t, u
    <3>1. g[m + 1].elements = [t.elements EXCEPT ![u.index] = u.value]
      BY <2>2, WrittenTyped
    <3>2. t.elements \in Table /\ u.index \in Index
      BY <2>2 DEF Draft, Update
    <3> QED
      BY <3>1, <3>2 DEF Table
  <2>4. Good(m)
    BY <1>3
  <2>5. ASSUME \A j \in 1..(m + 1) : us[j].index # i
        PROVE  g[m + 1].elements[i] = s.elements[i]
    <3>1. u.index # i /\ \A j \in 1..m : us[j].index # i
      BY <2>1, <2>5
    <3> QED
      BY <2>3, <2>4, <3>1
  <2>6. ASSUME NEW j \in 1..(m + 1), us[j].index = i,
               \A h \in (j + 1)..(m + 1) : us[h].index # i
        PROVE  g[m + 1].elements[i] = us[j].value
    <3>1. CASE j = m + 1
      BY <2>3, <2>6, <3>1
    <3>2. CASE j \in 1..m
      <4>1. m + 1 \in (j + 1)..(m + 1) /\ \A h \in (j + 1)..m : h \in (j + 1)..(m + 1)
        BY <3>2
      <4> QED
        BY <2>3, <2>4, <2>6, <3>2, <4>1
    <3> QED
      BY <3>1, <3>2
  <2> QED
    BY <2>1, <2>5, <2>6
<1>4. N \in P
  <2> HIDE DEF P, N
  <2>1. N \in Nat
    BY <1>1
  <2>2. \A m \in 0..N : m \in P
    BY ONLY <1>2, <1>3, <2>1, BoundedInduction
  <2> QED
    BY <2>1, <2>2
<1> QED
  BY <1>4

-----------------------------------------------------------------------------
(* What the table holds after k actions, from what it held before the k-th.*)

Writes(k, i) ==
  UNION {{<<a, n>> : n \in {m \in DOMAIN Updates[a] : Updates[a][m].index = i}} : a \in 1..k}

Later(v, w) == v[1] < w[1] \/ (v[1] = w[1] /\ v[2] <= w[2])

Content(W) ==
  IF W = {} THEN None
  ELSE LET last == CHOOSE w \in W : \A v \in W : Later(v, w)
       IN  Updates[last[1]][last[2]].value

LEMMA WritesIn ==
  ASSUME NEW k \in 1..MaxAction, NEW i, NEW w
  PROVE  w \in Writes(k, i) <=>
           \E a \in 1..k : \E n \in DOMAIN Updates[a] : w = <<a, n>> /\ Updates[a][n].index = i
BY DEF Writes

LEMMA StateAfterContent ==
  ASSUME NEW k \in 0..MaxAction
  PROVE  /\ StateAfter[k] = [i \in Index |-> Content(Writes(k, i))]
         /\ StateAfter[k] = [i \in Index |-> StateAfter[k][i]]
<1>1. StateAfter[k] = [i \in Index |-> Content(Writes(k, i))]
  BY DEF StateAfter, Content, Writes, Later
<1> QED
  BY <1>1

LEMMA UpdatesTyped ==
  ASSUME NEW k \in 1..MaxAction
  PROVE  /\ k \in Nat /\ k - 1 \in Nat /\ MaxAction \in Nat
         /\ Updates[k] \in Seq(Update) /\ Len(Updates[k]) \in Nat
         /\ DOMAIN Updates[k] = 1..Len(Updates[k])
         /\ \A j \in 1..Len(Updates[k]) : Updates[k][j] \in Update
<1>1. MaxAction \in Nat /\ k \in Nat /\ k - 1 \in Nat
  BY AppStateAssumption
<1>2. Updates \in [1..MaxAction -> Seq(Update)]
  BY AppStateAssumption DEF Update
<1>3. Updates[k] \in Seq(Update)
  BY <1>2
<1> QED
  BY <1>1, <1>3

LEMMA StateAfterNone == StateAfter[0] = [i \in Index |-> None]
<1>1. 0 \in 0..MaxAction /\ 1..0 = {}
  BY AppStateAssumption
<1>2. ASSUME NEW i \in Index PROVE StateAfter[0][i] = None
  <2>1. Writes(0, i) = {}
    BY <1>1 DEF Writes
  <2> QED
    BY <1>1, <2>1, StateAfterContent DEF Content
<1>3. StateAfter[0] = [i \in Index |-> StateAfter[0][i]]
  BY <1>1, StateAfterContent
<1> QED
  BY <1>2, <1>3

(* What action k wrote last counts; an element it leaves alone stays.      *)
LEMMA StateAfterStep ==
  ASSUME NEW k \in 1..MaxAction, NEW i \in Index
  PROVE  /\ (\A j \in DOMAIN Updates[k] : Updates[k][j].index # i) =>
              StateAfter[k][i] = StateAfter[k - 1][i]
         /\ \A j \in DOMAIN Updates[k] :
              Updates[k][j].index = i
                /\ (\A h \in DOMAIN Updates[k] : h > j => Updates[k][h].index # i) =>
                StateAfter[k][i] = Updates[k][j].value
<1> DEFINE us == Updates[k]
<1>1. k \in Nat /\ k - 1 \in Nat /\ MaxAction \in Nat /\ us \in Seq(Update)
  BY UpdatesTyped
<1>n. k \in 0..MaxAction /\ k - 1 \in 0..MaxAction
  BY <1>1
<1>2. /\ StateAfter[k][i] = Content(Writes(k, i))
      /\ StateAfter[k - 1][i] = Content(Writes(k - 1, i))
  <2>1. \A m \in 0..MaxAction : StateAfter[m][i] = Content(Writes(m, i))
    BY StateAfterContent
  <2> QED
    BY <1>n, <2>1
<1>3. ASSUME \A j \in DOMAIN us : us[j].index # i
      PROVE  StateAfter[k][i] = StateAfter[k - 1][i]
  <2>1. Writes(k, i) = Writes(k - 1, i)
    <3>1. ASSUME NEW w \in Writes(k, i) PROVE w \in Writes(k - 1, i)
      <4>1. PICK a \in 1..k : \E n \in DOMAIN Updates[a] :
                                w = <<a, n>> /\ Updates[a][n].index = i
        BY DEF Writes
      <4>2. a # k
        BY <1>3, <4>1
      <4>3. a \in 1..(k - 1)
        BY <1>1, <4>2
      <4> QED
        BY <4>1, <4>3 DEF Writes
    <3>2. 1..(k - 1) \subseteq 1..k
      BY <1>1
    <3>3. Writes(k - 1, i) \subseteq Writes(k, i)
      BY <3>2 DEF Writes
    <3> QED
      BY <3>1, <3>3
  <2> QED
    BY <1>2, <2>1
<1>4. ASSUME NEW j \in DOMAIN us, us[j].index = i,
             \A h \in DOMAIN us : h > j => us[h].index # i
      PROVE  StateAfter[k][i] = us[j].value
  <2> DEFINE W == Writes(k, i)
             last == CHOOSE w \in W : \A v \in W : Later(v, w)
  <2>1. <<k, j>> \in W
    BY <1>1, <1>4, WritesIn
  <2>2. ASSUME NEW v \in W PROVE Later(v, <<k, j>>)
    <3>1. PICK a \in 1..k : \E n \in DOMAIN Updates[a] :
                              v = <<a, n>> /\ Updates[a][n].index = i
      BY <2>2, WritesIn
    <3>2. PICK n \in DOMAIN Updates[a] : v = <<a, n>> /\ Updates[a][n].index = i
      BY <3>1
    <3>3. CASE a # k
      BY <1>1, <3>2, <3>3 DEF Later
    <3>4. CASE a = k
      <4>1. n \in DOMAIN us /\ ~ (n > j)
        BY <1>4, <3>2, <3>4
      <4>2. n \in Nat /\ j \in Nat
        BY <1>1, <4>1
      <4> QED
        BY <3>2, <3>4, <4>1, <4>2 DEF Later
    <3> QED
      BY <3>3, <3>4
  <2>3. last \in W /\ Later(<<k, j>>, last)
    <3>1. \E w \in W : \A v \in W : Later(v, w)
      BY <2>1, <2>2
    <3> HIDE DEF W
    <3> QED
      BY <2>1, <3>1
  <2>4. last = <<k, j>>
    <3>1. PICK a \in 1..k : \E n \in DOMAIN Updates[a] :
                              last = <<a, n>> /\ Updates[a][n].index = i
      <4> HIDE DEF last
      <4> QED
        BY <2>3, WritesIn
    <3>2. PICK n \in DOMAIN Updates[a] : last = <<a, n>>
      BY <3>1
    <3> HIDE DEF last
    <3>3. Later(<<a, n>>, <<k, j>>) /\ Later(<<k, j>>, <<a, n>>)
      BY <2>2, <2>3, <3>2
    <3>4. a \in Nat /\ a = k
      BY <1>1, <3>3 DEF Later
    <3>5. n \in Nat /\ j \in Nat
      BY <1>1, <3>2, <3>4
    <3>6. n = j
      BY <1>1, <3>3, <3>4, <3>5 DEF Later
    <3> QED
      BY <3>2, <3>4, <3>6
  <2>5. W # {} /\ StateAfter[k][i] = Updates[last[1]][last[2]].value
    BY <1>2, <2>1 DEF Content
  <2> HIDE DEF last
  <2> QED
    BY <2>4, <2>5
<1> QED
  BY <1>3, <1>4

(* A draft that starts from the table after k - 1 actions, with its        *)
(* commitment, ends with the table after k, with its own.                  *)
Fresh(k) == [elements |-> StateAfter[k - 1], commitment |-> Commitment(StateAfter[k - 1]),
             record |-> <<>>]

LEMMA LastOfIndex ==
  ASSUME NEW us \in Seq(Update), NEW k \in DOMAIN us
  PROVE  \E j \in DOMAIN us : /\ us[j].index = us[k].index
                             /\ \A h \in DOMAIN us : h > j => us[h].index # us[k].index
<1> DEFINE i == us[k].index
           N == Len(us)
           S == {d \in 0..N : N - d \in DOMAIN us /\ us[N - d].index = i}
<1>1. N \in Nat /\ DOMAIN us = 1..N
  OBVIOUS
<1>2. N - k \in S /\ S \in SUBSET Nat
  BY <1>1
<1>3. PICK m \in S : \A n \in S : m <= n
  <2> HIDE DEF S
  <2> QED
    BY <1>2, LeastMember
<1>4. N - m \in DOMAIN us /\ us[N - m].index = i
  BY <1>3
<1>5. ASSUME NEW h \in DOMAIN us, h > N - m, us[h].index = i PROVE FALSE
  <2>1. N - h \in S
    BY <1>1, <1>5
  <2>2. m <= N - h
    BY <1>3, <2>1
  <2> QED
    BY <1>1, <1>3, <1>5, <2>2
<1> QED
  BY <1>4, <1>5

LEMMA ActionReaches ==
  ASSUME NEW k \in 1..MaxAction, StateAfter[k - 1] \in Table
  PROVE  LET w == WrittenAll(Fresh(k), Updates[k]) IN
         /\ w.elements = StateAfter[k]
         /\ w.commitment = Commitment(StateAfter[k])
         /\ StateAfter[k] \in Table
         /\ Undo(StateAfter[k], w.record) = StateAfter[k - 1]
<1> DEFINE us == Updates[k]
           s == Fresh(k)
           N == Len(us)
<1>1. /\ us \in Seq(Update) /\ N \in Nat /\ DOMAIN us = 1..N
      /\ \A j \in 1..N : us[j] \in Update
  BY UpdatesTyped
<1>2. s \in Draft /\ s.commitment = Commitment(s.elements) /\ s.record = <<>>
      /\ s.elements = StateAfter[k - 1]
  <2>1. Commitment(StateAfter[k - 1]) \in Table
    <3>1. \A i \in Index : Digest(StateAfter[k - 1][i]) \in Int
      BY DEF Digest, Table
    <3> QED
      BY <3>1 DEF Commitment, Table
  <2>2. <<>> \in Seq(Entry)
    OBVIOUS
  <2> QED
    BY <2>1, <2>2 DEF Fresh, Draft
<1> HIDE DEF s
<1>3. PICK g : Runs(g, s, us) /\ WrittenAll(s, us) = g[N]
  BY <1>1, <1>2, ActionRun
<1>4. g[N] \in Draft /\ \A m \in 0..N : g[m] \in Draft /\ g[m].elements \in Table
  BY <1>1, <1>3 DEF Runs, Draft
<1>5. g[N].elements = StateAfter[k]
  <2>1. ASSUME NEW i \in Index PROVE g[N].elements[i] = StateAfter[k][i]
    <3>1. CASE \A j \in 1..N : us[j].index # i
      <4>1. g[N].elements[i] = s.elements[i]
        BY <1>1, <1>2, <1>3, <3>1, RunWrites
      <4>2. StateAfter[k][i] = StateAfter[k - 1][i]
        BY <1>1, <3>1, StateAfterStep
      <4> QED
        BY <1>2, <4>1, <4>2
    <3>2. CASE \E j \in 1..N : us[j].index = i
      <4>1. PICK j \in 1..N : us[j].index = i /\ \A h \in 1..N : h > j => us[h].index # i
        <5>1. PICK l \in DOMAIN us : us[l].index = i
          BY <1>1, <3>2
        <5>2. \E j \in DOMAIN us :
                us[j].index = i /\ \A h \in DOMAIN us : h > j => us[h].index # i
          <6>1. us \in Seq(Update)
            BY <1>1
          <6> HIDE DEF us
          <6> QED
            BY ONLY <5>1, <6>1, LastOfIndex
        <5> QED
          BY <1>1, <5>2
      <4>2. \A h \in (j + 1)..N : us[h].index # i
        BY <1>1, <4>1
      <4>3. g[N].elements[i] = us[j].value
        BY <1>1, <1>2, <1>3, <4>1, <4>2, RunWrites
      <4>4. StateAfter[k][i] = us[j].value
        BY <1>1, <4>1, StateAfterStep
      <4> QED
        BY <4>3, <4>4
    <3> QED
      BY <3>1, <3>2
  <2>2. g[N].elements = [i \in Index |-> g[N].elements[i]]
    BY <1>1, <1>4 DEF Table
  <2>3. StateAfter[k] = [i \in Index |-> StateAfter[k][i]]
    <3>1. k \in 0..MaxAction
      BY UpdatesTyped
    <3> QED
      BY <3>1, StateAfterContent
  <2> QED
    BY <2>1, <2>2, <2>3
<1>6. g[N].commitment = Commitment(g[N].elements)
  BY <1>1, <1>2, <1>3, RunCommits
<1>7. Undo(g[N].elements, g[N].record) = s.elements
  <2> DEFINE r == g[N].record
             E == g[N].elements
             b == [i \in 0..N |-> g[N - i].elements]
             back == CHOOSE f : f = [i \in 0..N |->
                       IF i = 0 THEN E
                       ELSE [f[i - 1] EXCEPT ![r[N + 1 - i].index] = r[N + 1 - i].previous]]
  <2>1. /\ Len(r) = N
        /\ \A j \in 1..N : /\ r[j].index = us[j].index
                           /\ r[j].previous = g[j - 1].elements[us[j].index]
    BY <1>1, <1>2, <1>3, RunRecords
  <2>2. ASSUME NEW i \in 1..N
        PROVE  b[i] = [b[i - 1] EXCEPT ![r[N + 1 - i].index] = r[N + 1 - i].previous]
    <3> DEFINE j == N + 1 - i
               t == g[j - 1]
               u == us[j]
    <3>1. j \in 1..N /\ j - 1 = N - i /\ N - (i - 1) = j /\ i \in 0..N /\ i - 1 \in 0..N
          /\ j - 1 \in 0..N
      BY <1>1
    <3>2. b[i] = t.elements /\ b[i - 1] = g[j].elements
      BY <3>1
    <3>3. g[j] = Written(t, u) /\ t \in Draft /\ u \in Update
      BY <1>1, <1>3, <1>4, <3>1 DEF Runs
    <3>4. r[j].index = u.index /\ r[j].previous = t.elements[u.index]
      BY <2>1, <3>1
    <3> HIDE DEF t, u, j, b, r
    <3>5. g[j].elements = [t.elements EXCEPT ![u.index] = u.value] /\ t.elements \in Table
      BY <3>3, WrittenTyped DEF Draft
    <3>6. t.elements = [g[j].elements EXCEPT ![u.index] = t.elements[u.index]]
      BY <3>5 DEF Table
    <3> QED
      BY <3>2, <3>4, <3>6 DEF j
  <2>3. b[0] = E
    BY <1>1
  <2> HIDE DEF r, E
  <2>4. b = [i \in 0..N |->
               IF i = 0 THEN E
               ELSE [b[i - 1] EXCEPT ![r[N + 1 - i].index] = r[N + 1 - i].previous]]
    <3>1. b = [i \in 0..N |-> b[i]]
      OBVIOUS
    <3>2. ASSUME NEW i \in 0..N
          PROVE  b[i] = IF i = 0 THEN E
                        ELSE [b[i - 1] EXCEPT ![r[N + 1 - i].index] = r[N + 1 - i].previous]
      <4>1. i = 0 \/ i \in 1..N
        BY <1>1
      <4> HIDE DEF b
      <4> QED
        BY <2>2, <2>3, <4>1
    <3> HIDE DEF b
    <3> QED
      BY <3>1, <3>2
  <2>5. back = [i \in 0..N |->
               IF i = 0 THEN E
               ELSE [back[i - 1] EXCEPT ![r[N + 1 - i].index] = r[N + 1 - i].previous]]
    BY <2>4
  <2> DEFINE Same == {i \in 0..N : back[i] = b[i]}
  <2>6. N \in Same
    <3> HIDE DEF back, b
    <3>1. 0 \in Same
      BY <1>1, <2>3, <2>5
    <3>2. ASSUME NEW i \in 0..(N - 1), i \in Same PROVE i + 1 \in Same
      <4>1. i + 1 \in 1..N /\ (i + 1) - 1 = i /\ i + 1 \in 0..N /\ i + 1 # 0
        BY <1>1
      <4>2. back[i + 1] = [back[i] EXCEPT ![r[N + 1 - (i + 1)].index] = r[N + 1 - (i + 1)].previous]
        BY <2>5, <4>1
      <4>3. b[i + 1] = [b[i] EXCEPT ![r[N + 1 - (i + 1)].index] = r[N + 1 - (i + 1)].previous]
        BY <2>2, <4>1
      <4>4. back[i] = b[i]
        BY <3>2
      <4> QED
        BY <4>1, <4>2, <4>3, <4>4
    <3> HIDE DEF Same, N
    <3>3. N \in Nat
      BY <1>1
    <3>4. \A i \in 0..N : i \in Same
      BY ONLY <3>1, <3>2, <3>3, BoundedInduction
    <3> QED
      BY <3>3, <3>4
  <2>7. Undo(E, r) = back[N]
    BY <2>1 DEF Undo, back
  <2>8. back[N] = b[N]
    BY <2>6
  <2>9. b[N] = g[0].elements
    <3>1. N \in 0..N /\ N - N = 0
      BY <1>1
    <3> QED
      BY <3>1
  <2> QED
    BY <1>3, <2>7, <2>8, <2>9 DEF Runs, E, r
<1> QED
  BY <1>2, <1>3, <1>4, <1>5, <1>6, <1>7 DEF s

LEMMA StateAfterTyped == \A k \in 0..MaxAction : StateAfter[k] \in Table
<1> DEFINE P == {k \in 0..MaxAction : StateAfter[k] \in Table}
<1>1. MaxAction \in Nat
  BY AppStateAssumption
<1>2. 0 \in P
  BY <1>1, StateAfterNone DEF Table, None
<1>3. ASSUME NEW k \in 0..(MaxAction - 1), k \in P PROVE k + 1 \in P
  <2>1. k + 1 \in 1..MaxAction /\ (k + 1) - 1 = k /\ k + 1 \in 0..MaxAction
    BY <1>1
  <2> DEFINE m == k + 1
  <2>2. m \in 1..MaxAction /\ StateAfter[m - 1] \in Table
    BY <1>3, <2>1
  <2> HIDE DEF m
  <2>3. StateAfter[m] \in Table
    BY <2>2, ActionReaches
  <2> QED
    BY <2>1, <2>3 DEF m
<1> HIDE DEF P
<1>4. \A k \in 0..MaxAction : k \in P
  BY ONLY <1>1, <1>2, <1>3, BoundedInduction
<1> QED
  BY <1>4 DEF P

-----------------------------------------------------------------------------
(* The state and its records.                                              *)

StateInv ==
  /\ state.sequence \in 0..MaxAction
  /\ state.elements = StateAfter[state.sequence]
  /\ state.commitment = Commitment(StateAfter[state.sequence])

UndoInv ==
  \A j \in DOMAIN rollback.records :
    /\ j \in 1..MaxAction
    /\ Undo(StateAfter[j], rollback.records[j]) = StateAfter[j - 1]

LEMMA CommitReaches ==
  ASSUME StateInv, UndoInv, CommitAction
  PROVE  StateInv' /\ UndoInv'
<1> DEFINE k == state.sequence + 1
           w == WrittenAll(Fresh(k), Updates[k])
<1>1. k \in 1..MaxAction /\ k - 1 = state.sequence /\ k \in 0..MaxAction
  BY AppStateAssumption DEF CommitAction, StateInv
<1>2. [elements |-> state.elements, commitment |-> state.commitment, record |-> <<>>] = Fresh(k)
  BY <1>1 DEF StateInv, Fresh
<1>3. /\ state' = [sequence |-> k, actions |-> k,
                   elements |-> w.elements, commitment |-> w.commitment]
      /\ rollback' = [start |-> rollback.start, end |-> k,
                      records |-> [j \in DOMAIN rollback.records \cup {k} |->
                                     IF j = k THEN w.record ELSE rollback.records[j]]]
  BY <1>2 DEF CommitAction
<1>4. /\ w.elements = StateAfter[k]
      /\ w.commitment = Commitment(StateAfter[k])
      /\ Undo(StateAfter[k], w.record) = StateAfter[k - 1]
  <2>1. StateAfter[k - 1] \in Table
    BY <1>1, StateAfterTyped DEF StateInv
  <2> HIDE DEF k
  <2> QED
    BY <1>1, <2>1, ActionReaches
<1> HIDE DEF w
<1>5. StateInv'
  BY <1>1, <1>3, <1>4 DEF StateInv
<1>6. UndoInv'
  <2>1. rollback'.records = [j \in DOMAIN rollback.records \cup {k} |->
                               IF j = k THEN w.record ELSE rollback.records[j]]
    BY <1>3
  <2> HIDE DEF k
  <2>2. ASSUME NEW j \in DOMAIN rollback'.records
        PROVE  /\ j \in 1..MaxAction
               /\ Undo(StateAfter[j], rollback'.records[j]) = StateAfter[j - 1]
    <3>1. CASE j = k
      BY <1>1, <1>4, <2>1, <3>1
    <3>2. CASE j # k
      BY <2>1, <3>2 DEF UndoInv
    <3> QED
      BY <3>1, <3>2
  <2> QED
    BY <2>2 DEF UndoInv
<1> QED
  BY <1>5, <1>6

LEMMA RecordsGo ==
  ASSUME StateInv, UndoInv, UNCHANGED state, NEW p, PurgeRecords(p)
  PROVE  StateInv' /\ UndoInv'
<1>1. rollback'.records = [j \in DOMAIN rollback.records \ Gone(p) |-> rollback.records[j]]
  BY DEF PurgeRecords
<1> QED
  BY <1>1 DEF StateInv, UndoInv

(* Undoing the records, newest first.                                      *)
LEMMA RollsBack ==
  ASSUME StateInv, UndoInv, NEW k \in 0..state.sequence,
         (k + 1)..state.sequence \subseteq DOMAIN rollback.records
  PROVE  RolledBack(k) = StateAfter[k]
<1> DEFINE n == state.sequence
           N == n - k
           b == [i \in 0..N |-> StateAfter[n - i]]
           back == CHOOSE f : f = [i \in 0..N |->
                     IF i = 0 THEN state.elements
                     ELSE Undo(f[i - 1], rollback.records[n + 1 - i])]
           Same == {i \in 0..N : back[i] = b[i]}
<1>1. n \in Nat /\ k \in Nat /\ N \in Nat /\ N \in 0..N /\ n - N = k
  BY DEF StateInv
<1>2. b[0] = state.elements
  BY <1>1 DEF StateInv
<1>3. ASSUME NEW i \in 1..N
      PROVE  b[i] = Undo(b[i - 1], rollback.records[n + 1 - i])
  <2> DEFINE j == n + 1 - i
  <2>1. j \in (k + 1)..n /\ j - 1 = n - i /\ n - (i - 1) = j /\ i \in 0..N /\ i - 1 \in 0..N
    BY <1>1
  <2>2. b[i] = StateAfter[j - 1] /\ b[i - 1] = StateAfter[j]
    BY <2>1
  <2> HIDE DEF j
  <2>3. Undo(StateAfter[j], rollback.records[j]) = StateAfter[j - 1]
    BY <2>1 DEF UndoInv
  <2> HIDE DEF b
  <2> QED
    BY <2>2, <2>3 DEF j
<1>4. b = [i \in 0..N |-> IF i = 0 THEN state.elements
                          ELSE Undo(b[i - 1], rollback.records[n + 1 - i])]
  <2>1. b = [i \in 0..N |-> b[i]]
    OBVIOUS
  <2>2. ASSUME NEW i \in 0..N
        PROVE  b[i] = IF i = 0 THEN state.elements
                      ELSE Undo(b[i - 1], rollback.records[n + 1 - i])
    <3>1. i = 0 \/ i \in 1..N
      BY <1>1
    <3> HIDE DEF b
    <3> QED
      BY <1>2, <1>3, <3>1
  <2> HIDE DEF b
  <2> QED
    BY <2>1, <2>2
<1>5. back = [i \in 0..N |-> IF i = 0 THEN state.elements
                             ELSE Undo(back[i - 1], rollback.records[n + 1 - i])]
  BY <1>4
<1>6. RolledBack(k) = back[N]
  BY DEF RolledBack
<1>7. b[N] = StateAfter[k]
  BY <1>1
<1> HIDE DEF b, back
<1>8. N \in Same
  <2>1. 0 \in Same
    BY <1>1, <1>2, <1>5
  <2>2. ASSUME NEW i \in 0..(N - 1), i \in Same PROVE i + 1 \in Same
    <3>1. i + 1 \in 1..N /\ (i + 1) - 1 = i /\ i + 1 \in 0..N /\ i + 1 # 0
      BY <1>1
    <3>2. back[i + 1] = Undo(back[i], rollback.records[n + 1 - (i + 1)])
      BY <1>5, <3>1
    <3>3. b[i + 1] = Undo(b[i], rollback.records[n + 1 - (i + 1)])
      BY <1>3, <3>1
    <3>4. back[i] = b[i]
      BY <2>2
    <3> QED
      BY <3>1, <3>2, <3>3, <3>4
  <2> HIDE DEF Same, N
  <2>3. N \in Nat
    BY <1>1
  <2>4. \A i \in 0..N : i \in Same
    BY ONLY <2>1, <2>2, <2>3, BoundedInduction
  <2> QED
    BY <2>3, <2>4
<1> QED
  BY <1>6, <1>7, <1>8

(* Which commitments the blocks have been given.                           *)
EndsInv ==
  /\ lastCommitment = IF current = 1 THEN Zero ELSE Commitment(StateAfter[previous.last + 1])
  /\ DOMAIN blocks \subseteq DOMAIN ends
  /\ \A n \in DOMAIN blocks \ {0} :
       /\ ends[n].end = Commitment(StateAfter[blocks[n].last + 1])
       /\ ends[n].start = IF n = 1 THEN Zero ELSE Commitment(StateAfter[blocks[n].first])

LEMMA ClosingCommits ==
  ASSUME IInv, EndsInv, NEW next \in Nat, NEW full, CloseBlock(next, full),
         NEW commitment, commitment = Commitment(StateAfter[next]), BlockCommits(commitment)
  PROVE  EndsInv'
<1> DEFINE new == [start |-> lastCommitment, end |-> commitment]
<1>1. /\ current \in Nat \ {0} /\ previous.last \in Nat /\ current \notin DOMAIN blocks
      /\ current + 1 # 1
  BY DEF IInv, TypeInv, TableInv, Closed, Sequence
<1>2. /\ blocks' = With(blocks, current, NewBlock(previous.last + 1, next - 1))
      /\ current' = current + 1 /\ previous'.last = next - 1
  BY DEF CloseBlock
<1>3. /\ DOMAIN blocks' = DOMAIN blocks \cup {current}
      /\ blocks'[current] = NewBlock(previous.last + 1, next - 1)
      /\ \A m \in DOMAIN blocks : blocks'[m] = blocks[m]
  BY <1>1, <1>2 DEF With
<1>4. ends' = With(ends, current, new) /\ lastCommitment' = commitment
  BY <1>1, <1>2 DEF BlockCommits
<1> HIDE DEF new
<1>5. /\ DOMAIN ends' = DOMAIN ends \cup {current}
      /\ ends'[current] = new
      /\ \A m \in DOMAIN blocks : ends'[m] = ends[m]
  BY <1>1, <1>4 DEF With, EndsInv
<1>6. (next - 1) + 1 = next
  OBVIOUS
<1>7. lastCommitment' = IF current' = 1 THEN Zero ELSE Commitment(StateAfter[previous'.last + 1])
  BY <1>1, <1>2, <1>4, <1>6
<1>8. ASSUME NEW n \in DOMAIN blocks' \ {0}
      PROVE  /\ ends'[n].end = Commitment(StateAfter[blocks'[n].last + 1])
             /\ ends'[n].start = IF n = 1 THEN Zero
                                 ELSE Commitment(StateAfter[blocks'[n].first])
  <2>1. CASE n = current
    <3>1. ends'[n] = new /\ blocks'[n].last + 1 = next /\ blocks'[n].first = previous.last + 1
      BY <1>3, <1>5, <1>6, <2>1 DEF NewBlock
    <3> QED
      BY <2>1, <3>1 DEF EndsInv, new
  <2>2. CASE n # current
    <3>1. n \in DOMAIN blocks \ {0}
      BY <1>3, <2>2
    <3> QED
      BY <1>3, <1>5, <3>1 DEF EndsInv
  <2> QED
    BY <2>1, <2>2
<1>9. DOMAIN blocks' \subseteq DOMAIN ends'
  BY <1>3, <1>5 DEF EndsInv
<1> QED
  BY <1>7, <1>8, <1>9 DEF EndsInv

LEMMA NotClosing ==
  ASSUME EndsInv, UNCHANGED <<current, previous, lastCommitment>>,
         DOMAIN blocks' \subseteq DOMAIN blocks, DOMAIN blocks' \subseteq DOMAIN ends',
         \A m \in DOMAIN blocks' : /\ blocks'[m].first = blocks[m].first
                                   /\ blocks'[m].last = blocks[m].last
                                   /\ ends'[m] = ends[m]
  PROVE  EndsInv'
<1>1. ASSUME NEW n \in DOMAIN blocks' \ {0}
      PROVE  /\ ends'[n].end = Commitment(StateAfter[blocks'[n].last + 1])
             /\ ends'[n].start = IF n = 1 THEN Zero
                                 ELSE Commitment(StateAfter[blocks'[n].first])
  BY DEF EndsInv
<1> QED
  BY <1>1 DEF EndsInv

LEMMA StepsKeepState ==
  ASSUME IInv, RecordInv, StateInv, UndoInv, EndsInv, [AppNext]_appVars
  PROVE  StateInv' /\ UndoInv' /\ EndsInv'
<1>1. CASE Call
  <2>1. StateInv' /\ UndoInv'
    BY <1>1, CommitReaches DEF Call
  <2>2. /\ sequence \in Nat /\ state'.sequence = sequence + 1
        /\ IncreaseSequence /\ BlockCommits(state'.commitment)
    BY <1>1 DEF Call, CommitAction, RecordInv, IInv, TypeInv
  <2>3. CASE BlockIsDue(sequence + 1)
    <3> DEFINE next == sequence + 1
    <3>1. CloseBlock(next, FALSE)
      BY <2>2, <2>3 DEF IncreaseSequence
    <3>n. next \in Nat
      BY <2>2
    <3>2. state'.commitment = Commitment(StateAfter[next])
      BY <2>1, <2>2 DEF StateInv
    <3> HIDE DEF next
    <3> QED
      BY <2>1, <2>2, <3>1, <3>n, <3>2, ClosingCommits
  <2>4. CASE ~BlockIsDue(sequence + 1)
    <3>1. UNCHANGED <<current, previous, blocks, lastCommitment, ends>>
      BY <2>2, <2>4 DEF IncreaseSequence, BlockCommits
    <3> QED
      BY <2>1, <3>1 DEF EndsInv
  <2> QED
    BY <2>3, <2>4
<1>2. CASE AppTryCreateBlock
  <2>1. /\ CloseBlock(sequence, calcs[current].full) /\ BlockCommits(state.commitment)
        /\ UNCHANGED <<state, rollback>>
    BY <1>2 DEF AppTryCreateBlock, TryCreateBlock
  <2>2. sequence \in Nat /\ state.commitment = Commitment(StateAfter[sequence])
    BY DEF IInv, TypeInv, StateInv, RecordInv
  <2>3. EndsInv'
    BY <2>1, <2>2, ClosingCommits
  <2> QED
    BY <2>1, <2>3 DEF StateInv, UndoInv
<1>3. ASSUME NEW c \in Chain, NEW n \in BlockNumber, AppTxIncluded(c, n)
      PROVE  StateInv' /\ UndoInv' /\ EndsInv'
  <2>1. /\ UNCHANGED <<state, rollback, lastCommitment, current, previous>>
        /\ ends' = [m \in DOMAIN blocks' |-> ends[m]]
        /\ \E S : blocks' = Without(blocks, S)
    BY <1>3 DEF AppTxIncluded, TxIncluded, Cleanup
  <2>2. /\ DOMAIN blocks' \subseteq DOMAIN blocks
        /\ \A m \in DOMAIN blocks' : blocks'[m] = blocks[m]
    <3>1. PICK S : blocks' = Without(blocks, S)
      BY <2>1
    <3> QED
      BY <3>1 DEF Without
  <2>3. EndsInv'
    BY <2>1, <2>2, NotClosing
  <2> QED
    BY <2>1, <2>3 DEF StateInv, UndoInv
<1>4. ASSUME NEW k \in 1..MaxSequence, AppPurge(k)
      PROVE  StateInv' /\ UndoInv' /\ EndsInv'
  <2>1. /\ PurgeRecords(PurgeTo(k))
        /\ UNCHANGED <<state, lastCommitment, ends, current, previous, blocks>>
    BY <1>4 DEF AppPurge, Purge
  <2>2. EndsInv'
    BY <2>1 DEF EndsInv
  <2> QED
    BY <2>1, <2>2, RecordsGo
<1>5. CASE Elsewhere \/ UNCHANGED appVars
  <2>1. UNCHANGED <<state, rollback, lastCommitment, ends>>
    BY <1>5 DEF Elsewhere, appVars
  <2>2. EndsInv'
    BY <1>5, <2>1, ElsewhereKeepsPlaces, NotClosing DEF EndsInv
  <2> QED
    BY <2>1, <2>2 DEF StateInv, UndoInv
<1> QED
  BY <1>1, <1>2, <1>3, <1>4, <1>5 DEF AppNext

LEMMA AppInvariant == AppSpec => [](IInv /\ RecordInv /\ StateInv /\ UndoInv /\ EndsInv)
<1>1. AppInit => StateInv /\ UndoInv /\ EndsInv
  <2> SUFFICES ASSUME AppInit PROVE StateInv /\ UndoInv /\ EndsInv
    OBVIOUS
  <2>1. /\ state.sequence = 0 /\ state.elements = [i \in Index |-> None]
        /\ state.commitment = Zero /\ DOMAIN rollback.records = {}
        /\ current = 1 /\ lastCommitment = Zero
        /\ DOMAIN blocks = {0} /\ DOMAIN ends = {0}
    BY DEF AppInit, Init, StateInit
  <2>2. Commitment([i \in Index |-> None]) = Zero
    BY DEF Commitment, Digest, Zero
  <2>3. StateInv
    BY <2>1, <2>2, StateAfterNone, AppStateAssumption DEF StateInv
  <2> QED
    BY <2>1, <2>3 DEF UndoInv, EndsInv
<1> QED
  BY <1>1, StepsKeepState, AppIInv, AppRecordInv, PTL DEF AppSpec

(* The commitment an app keeps by increments is the commitment of its      *)
(* table, and its table has what its actions wrote last: for any actions,  *)
(* also those that write an element twice or write back what was there.    *)
THEOREM CommitmentFollowsTheState == AppSpec => []CommitmentIsOfTheState
<1>1. StateInv => CommitmentIsOfTheState
  BY DEF StateInv, CommitmentIsOfTheState
<1> QED
  BY <1>1, AppInvariant, PTL

(* Undoing the records that are left, newest first, leads back to the      *)
(* state after any sequence since the last purge.                          *)
THEOREM RecordsAlwaysReachTheStates == AppSpec => []RecordsReachTheStates
<1>1. IInv /\ RecordInv /\ StateInv /\ UndoInv => RecordsReachTheStates
  <2> SUFFICES ASSUME IInv, RecordInv, StateInv, UndoInv PROVE RecordsReachTheStates
    OBVIOUS
  <2>1. RecordsOfKeptStates /\ PurgesAreAccepted
    BY RecordInvImplies
  <2>2. ASSUME NEW k \in purged..state.sequence PROVE RolledBack(k) = StateAfter[k]
    <3>1. purged \in Nat /\ state.sequence \in Nat /\ state.sequence = sequence
      BY DEF IInv, TypeInv, StateInv, RecordInv
    <3>2. k \in 0..state.sequence
      BY <3>1
    <3>3. (k + 1)..state.sequence \subseteq DOMAIN rollback.records
      BY <3>1 DEF RecordInv
    <3> QED
      BY <3>2, <3>3, RollsBack
  <2> QED
    BY <2>1, <2>2 DEF RecordsReachTheStates
<1> QED
  BY <1>1, AppInvariant, PTL

(* A block commits to the state after its last sequence and starts from    *)
(* the end of the block before it, whichever call closes it and whatever   *)
(* has been deleted meanwhile.                                             *)
THEOREM BlocksAlwaysCommitToTheirEnd == AppSpec => []BlocksCommitToTheirEnd
<1>1. EndsInv => BlocksCommitToTheirEnd
  BY DEF EndsInv, BlocksCommitToTheirEnd
<1> QED
  BY <1>1, AppInvariant, PTL

=============================================================================
