-------------------------- MODULE IndexedMapProofs --------------------------
(***************************************************************************)
(* An indexed Merkle map for any keys and values and any height that       *)
(* MapAssumption allows, which is every height but 1: its list stays       *)
(* sorted and linked without gaps, the map implements KeyValueMap, every   *)
(* leaf stands on a path to the root, and so proofs decide membership and  *)
(* witnesses verify.                                                       *)
(***************************************************************************)
EXTENDS IndexedMap, FiniteSetTheorems, WellFoundedInduction, TLAPS

(* A set of naturals has a least member.                                   *)
LEMMA LeastMember ==
  ASSUME NEW S \in SUBSET Nat, S # {}
  PROVE  \E m \in S : \A n \in S : m <= n
<1> DEFINE Less == OpToRel(<, Nat)
<1>1. IsWellFoundedOn(Less, Nat)
  BY NatLessThanWellFounded
<1>2. \A x, y \in Nat : <<y, x>> \in Less <=> y < x
  BY DEF OpToRel
<1> HIDE DEF Less
<1>3. PICK x \in S : \A y \in S : ~ (<<y, x>> \in Less)
  BY ONLY <1>1, WFMin, S \subseteq Nat, S # {}
<1>4. ASSUME NEW y \in S PROVE x <= y
  <2>1. ~ (<<y, x>> \in Less) /\ x \in Nat /\ y \in Nat
    BY <1>3
  <2>2. ~ (y < x)
    BY <1>2, <2>1
  <2> QED
    BY <2>1, <2>2
<1> QED
  BY <1>4

(* Induction up to a bound: a set with 0 and with every successor.         *)
LEMMA BoundedInduction ==
  ASSUME NEW N \in Nat, NEW S, 0 \in S, \A n \in 0..(N - 1) : n \in S => n + 1 \in S
  PROVE  \A n \in 0..N : n \in S
<1> DEFINE T == {n \in 0..N : n \notin S}
<1> SUFFICES ASSUME T # {} PROVE FALSE
  OBVIOUS
<1>1. PICK m \in T : \A n \in T : m <= n
  <2>1. T \in SUBSET Nat
    OBVIOUS
  <2> HIDE DEF T
  <2> QED
    BY <2>1, LeastMember
<1>2. m # 0 /\ m - 1 \in 0..(N - 1) /\ m - 1 + 1 = m
  OBVIOUS
<1>3. m - 1 \in S
  BY <1>1, <1>2
<1> QED
  BY <1>2, <1>3

(* A function on 0..N may be defined by its first value and by a step.     *)
Reaches(N, S, a, F) ==
  \E g \in [0..N -> S] : g[0] = a /\ \A i \in 1..N : g[i] = F[<<g[i - 1], i>>]

LEMMA Recursion ==
  ASSUME NEW N \in Nat, NEW S, NEW a \in S, NEW F \in [S \X (1..N) -> S]
  PROVE  Reaches(N, S, a, F)
<1> DEFINE Good(g, n) == /\ g \in [0..n -> S] /\ g[0] = a
                         /\ \A i \in 1..n : g[i] = F[<<g[i - 1], i>>]
           T == {n \in 0..N : \E g : Good(g, n)}
<1>1. 0 \in T
  <2> DEFINE h == [i \in 0..0 |-> a]
  <2>1. h \in [0..0 -> S] /\ h[0] = a /\ 1..0 = {}
    OBVIOUS
  <2>2. Good(h, 0)
    BY <2>1
  <2> HIDE DEF Good
  <2>3. \E g : Good(g, 0)
    BY <2>2
  <2> QED
    BY <2>3
<1>2. ASSUME NEW n \in 0..(N - 1), n \in T PROVE n + 1 \in T
  <2>1. PICK g : Good(g, n)
    BY <1>2
  <2> DEFINE next == F[<<g[n], n + 1>>]
             h == [i \in 0..(n + 1) |-> IF i = n + 1 THEN next ELSE g[i]]
  <2>2. <<g[n], n + 1>> \in S \X (1..N)
    BY <2>1
  <2>3. next \in S
    BY <2>2
  <2>4. h \in [0..(n + 1) -> S] /\ h[0] = a
    BY <2>1, <2>3
  <2>5. ASSUME NEW i \in 1..(n + 1) PROVE h[i] = F[<<h[i - 1], i>>]
    <3>1. CASE i = n + 1
      <4>1. h[i] = next /\ h[i - 1] = g[n]
        BY <3>1
      <4> QED
        BY <3>1, <4>1
    <3>2. CASE i \in 1..n
      <4>1. h[i] = g[i] /\ h[i - 1] = g[i - 1]
        BY <3>2
      <4> QED
        BY <2>1, <3>2, <4>1
    <3> QED
      BY <3>1, <3>2
  <2>6. Good(h, n + 1)
    BY <2>4, <2>5
  <2> HIDE DEF Good
  <2>7. \E f : Good(f, n + 1)
    BY <2>6
  <2> QED
    BY <2>7
<1> HIDE DEF T
<1>3. \A n \in 0..N : n \in T
  BY <1>1, <1>2, BoundedInduction
<1>4. N \in T
  BY <1>3
<1> QED
  BY <1>4 DEF T, Reaches

-----------------------------------------------------------------------------
Positions == 1..Len(sorted_leaves)

ListInv ==
  /\ sorted_leaves \in Seq(Leaf)
  /\ next_index \in Nat \ {0}
  /\ Len(sorted_leaves) = next_index
  /\ sorted_leaves[1].key = 0
  /\ \A i, j \in Positions : i < j => sorted_leaves[i].key < sorted_leaves[j].key
  /\ \A i \in Positions :
       sorted_leaves[i].next_key =
         IF i = Len(sorted_leaves) THEN 0 ELSE sorted_leaves[i + 1].key

IndexInv ==
  /\ leaf_indices \in [Keys -> 0..(next_index - 1)]
  /\ \A i \in Positions : leaf_indices[sorted_leaves[i].key] = sorted_leaves[i].index
  /\ IsFiniteSet(Keys)
  /\ Cardinality(Keys) = next_index

IInv == ListInv /\ IndexInv

-----------------------------------------------------------------------------
(* Where keys are.                                                         *)
LEMMA ListTypes ==
  ASSUME ListInv
  PROVE  /\ DOMAIN sorted_leaves = Positions
         /\ 1 \in Positions
         /\ \A i \in Positions : /\ i \in Nat
                                 /\ sorted_leaves[i] \in Leaf
                                 /\ sorted_leaves[i].key \in Nat
         /\ Len(sorted_leaves) \in Nat
<1>1. /\ sorted_leaves \in Seq(Leaf)
      /\ Len(sorted_leaves) \in Nat \ {0}
      /\ DOMAIN sorted_leaves = 1..Len(sorted_leaves)
  BY DEF ListInv
<1>2. \A i \in Positions : sorted_leaves[i] \in Leaf /\ i \in Nat
  BY <1>1 DEF Positions
<1>3. \A leaf \in Leaf : leaf.key \in Nat
  BY MapAssumption DEF Leaf
<1>4. 1 \in Positions
  BY <1>1 DEF Positions
<1> QED
  BY <1>1, <1>2, <1>3, <1>4 DEF Positions

LEMMA PositionIsUnique ==
  ASSUME ListInv, NEW i \in Positions
  PROVE  PositionOf(sorted_leaves[i].key) = i
<1>1. \A j \in Positions : sorted_leaves[j].key = sorted_leaves[i].key => j = i
  BY ListTypes DEF ListInv
<1>2. DOMAIN sorted_leaves = Positions
  BY ListTypes
<1> QED
  BY <1>1, <1>2 DEF PositionOf

(* A key that is not there falls in the gap after one leaf: the low leaf,  *)
(* just before the position it would be inserted at.                       *)
LEMMA TheGap ==
  ASSUME ListInv, NEW key \in Key, key \notin Keys
  PROVE  /\ LowPosition(key) \in Positions
         /\ InsertPosition(key) = LowPosition(key) + 1
         /\ sorted_leaves[LowPosition(key)].key < key
         /\ \A j \in Positions : j > LowPosition(key) => key < sorted_leaves[j].key
<1> DEFINE S == {i \in Positions : sorted_leaves[i].key > key}
<1>0. key \in Nat /\ key > 0
  BY MapAssumption, ListTypes DEF ListInv, Keys
<1>1. \A i \in Positions : sorted_leaves[i].key # key
  BY ListTypes DEF Keys
<1>2. \E m \in Positions :
        /\ sorted_leaves[m].key < key
        /\ \A j \in Positions : j > m => key < sorted_leaves[j].key
  <2>1. CASE S = {}
    <3>1. \A i \in Positions : sorted_leaves[i].key < key
      BY <1>0, <1>1, <2>1, ListTypes
    <3>2. Len(sorted_leaves) \in Positions
      BY ListTypes DEF ListInv, Positions
    <3>3. \A j \in Positions : ~ (j > Len(sorted_leaves))
      BY ListTypes DEF Positions
    <3> QED
      BY <3>1, <3>2, <3>3
  <2>2. CASE S # {}
    <3>1. S \in SUBSET Nat
      BY ListTypes
    <3>2. PICK p \in S : \A n \in S : p <= n
      BY <2>2, <3>1, LeastMember
    <3>3. p \in Positions /\ p # 1 /\ sorted_leaves[p].key > key
      BY <1>0, ListTypes DEF ListInv
    <3>4. p - 1 \in Positions /\ p - 1 < p
      BY <3>3, ListTypes DEF Positions
    <3>5. sorted_leaves[p - 1].key < key
      BY <1>0, <1>1, <3>2, <3>4, ListTypes
    <3>6. ASSUME NEW j \in Positions, j > p - 1 PROVE key < sorted_leaves[j].key
      <4>1. j = p \/ p < j
        BY <3>3, <3>6, ListTypes
      <4>2. sorted_leaves[p].key <= sorted_leaves[j].key
        BY <3>3, <4>1, ListTypes DEF ListInv
      <4> QED
        BY <1>0, <3>3, <4>2, ListTypes
    <3> QED
      BY <3>4, <3>5, <3>6
  <2> QED
    BY <2>1, <2>2
<1>3. PICK m \in Positions : /\ sorted_leaves[m].key < key
                             /\ \A j \in Positions : j > m => key < sorted_leaves[j].key
  BY <1>2
<1>4. LowPosition(key) = m
  <2>1. \A j \in Positions : sorted_leaves[j].key < key => j <= m
    BY <1>0, <1>3, ListTypes
  <2>2. \A i \in Positions :
          (/\ sorted_leaves[i].key < key
           /\ \A j \in Positions : sorted_leaves[j].key < key => j <= i) => i = m
    BY <1>3, <2>1, ListTypes
  <2> QED
    BY <1>3, <2>1, <2>2, ListTypes DEF LowPosition
<1>5. \A i \in Positions : sorted_leaves[i].key > key <=> i > m
  <2>1. \A i \in Positions : i <= m => sorted_leaves[i].key <= sorted_leaves[m].key
    BY ListTypes DEF ListInv
  <2> QED
    BY <1>0, <1>3, <2>1, ListTypes
<1>6. InsertPosition(key) = m + 1
  <2>1. CASE m = Len(sorted_leaves)
    <3>1. ~ \E i \in Positions : sorted_leaves[i].key > key
      BY <1>5, <2>1, ListTypes DEF Positions
    <3> QED
      BY <2>1, <3>1, ListTypes DEF InsertPosition
  <2>2. CASE m # Len(sorted_leaves)
    <3>1. m + 1 \in Positions
      BY <2>2, ListTypes DEF Positions
    <3>2. /\ sorted_leaves[m + 1].key > key
          /\ \A j \in Positions : sorted_leaves[j].key > key => m + 1 <= j
      BY <1>5, <3>1, ListTypes
    <3>3. \A i \in Positions :
            (/\ sorted_leaves[i].key > key
             /\ \A j \in Positions : sorted_leaves[j].key > key => i <= j) => i = m + 1
      BY <3>1, <3>2, ListTypes
    <3> QED
      BY <3>1, <3>2, <3>3, ListTypes DEF InsertPosition
  <2> QED
    BY <2>1, <2>2
<1> QED
  BY <1>3, <1>4, <1>6

-----------------------------------------------------------------------------
(* The invariant.                                                          *)
LEMMA InitEstablishes == Init => IInv
<1> SUFFICES ASSUME Init PROVE IInv
  OBVIOUS
<1>1. /\ sorted_leaves = <<FirstLeaf>>
      /\ leaf_indices = [k \in {0} |-> 0]
      /\ next_index = 1
  BY DEF Init
<1>2. FirstLeaf \in Leaf /\ FirstLeaf.key = 0 /\ FirstLeaf.next_key = 0 /\ FirstLeaf.index = 0
  BY MapAssumption DEF FirstLeaf, Leaf
<1>3. /\ sorted_leaves \in Seq(Leaf) /\ Len(sorted_leaves) = 1
      /\ DOMAIN sorted_leaves = {1} /\ sorted_leaves[1] = FirstLeaf
      /\ Positions = {1}
  BY <1>1, <1>2 DEF Positions
<1>5. ListInv
  BY <1>1, <1>2, <1>3 DEF ListInv
<1>6. Keys = {0}
  BY <1>2, <1>3 DEF Keys
<1>7. IsFiniteSet(Keys) /\ Cardinality(Keys) = 1
  BY <1>6, FS_Singleton
<1>8. IndexInv
  BY <1>1, <1>2, <1>3, <1>6, <1>7 DEF IndexInv
<1> QED
  BY <1>5, <1>8 DEF IInv

(* A new value for a key that is there.                                    *)
LEMMA WriteKeeps ==
  ASSUME IInv, NEW key \in Key, NEW value \in Value, Write(key, value)
  PROVE  /\ IInv'
         /\ key \in Keys /\ Keys' = Keys /\ leaf_indices' = leaf_indices
         /\ \A k \in Keys :
              (LeafOf(k).value)' = IF k = key THEN value ELSE LeafOf(k).value
<1> DEFINE p == PositionOf(key)
<1>1. p \in Positions /\ sorted_leaves[p].key = key
  <2>1. key \in Keys
    BY DEF Write, IInv, IndexInv
  <2>2. PICK i \in Positions : sorted_leaves[i].key = key
    BY <2>1, ListTypes DEF Keys, IInv
  <2> QED
    BY <2>2, PositionIsUnique DEF IInv
<1>2. /\ sorted_leaves' = [sorted_leaves EXCEPT ![p].value = value]
      /\ leaf_indices' = leaf_indices /\ next_index' = next_index
  BY DEF Write
<1> HIDE DEF p
<1>t. /\ DOMAIN sorted_leaves = Positions /\ sorted_leaves[p] \in Leaf
      /\ sorted_leaves \in Seq(Leaf)
  BY <1>1, ListTypes DEF IInv, ListInv
<1> DEFINE leaf == [key |-> sorted_leaves[p].key, value |-> value,
                    next_key |-> sorted_leaves[p].next_key,
                    index |-> sorted_leaves[p].index]
<1>l. /\ leaf \in Leaf /\ leaf.key = sorted_leaves[p].key
      /\ leaf.next_key = sorted_leaves[p].next_key
      /\ leaf.index = sorted_leaves[p].index
      /\ leaf = [sorted_leaves[p] EXCEPT !.value = value]
  BY <1>t DEF Leaf
<1>u. sorted_leaves' = [sorted_leaves EXCEPT ![p] = leaf]
  BY <1>1, <1>2, <1>l
<1> HIDE DEF leaf
<1>3. /\ sorted_leaves' \in Seq(Leaf) /\ Len(sorted_leaves') = Len(sorted_leaves)
      /\ DOMAIN sorted_leaves' = DOMAIN sorted_leaves
  BY <1>1, <1>t, <1>l, <1>u DEF Positions
<1>4. ASSUME NEW i \in Positions
      PROVE  /\ sorted_leaves'[i].key = sorted_leaves[i].key
             /\ sorted_leaves'[i].next_key = sorted_leaves[i].next_key
             /\ sorted_leaves'[i].index = sorted_leaves[i].index
  <2>1. sorted_leaves'[i] = IF i = p THEN leaf ELSE sorted_leaves[i]
    BY <1>t, <1>u
  <2> QED
    BY <1>l, <2>1
<1>5. Positions' = Positions
  BY <1>3 DEF Positions
<1>6. Keys' = Keys
  <2>1. Keys = {sorted_leaves[i].key : i \in Positions}
    BY <1>t DEF Keys
  <2>2. Keys' = {sorted_leaves'[i].key : i \in Positions}
    BY <1>t, <1>3 DEF Keys
  <2> QED
    BY <1>4, <2>1, <2>2
<1>7. ListInv'
  <2>0. Len(sorted_leaves) \in Nat
    BY <1>t
  <2>1. \A i \in Positions : i # Len(sorted_leaves) => i + 1 \in Positions
    BY <2>0 DEF Positions
  <2>2. \A i \in Positions :
          sorted_leaves'[i].next_key =
            IF i = Len(sorted_leaves') THEN 0 ELSE sorted_leaves'[i + 1].key
    BY <1>3, <1>4, <2>1 DEF IInv, ListInv
  <2>3. \A i, j \in Positions : i < j => sorted_leaves'[i].key < sorted_leaves'[j].key
    BY <1>4 DEF IInv, ListInv
  <2>4. sorted_leaves'[1].key = 0
    BY <1>4, ListTypes DEF IInv, ListInv
  <2> QED
    BY <1>2, <1>3, <1>5, <2>2, <2>3, <2>4 DEF IInv, ListInv
<1>8. IndexInv'
  BY <1>2, <1>4, <1>5, <1>6 DEF IInv, IndexInv
<1>9. ASSUME NEW k \in Keys
      PROVE  (LeafOf(k).value)' = IF k = key THEN value ELSE LeafOf(k).value
  <2>1. PICK i \in Positions : k = sorted_leaves[i].key
    BY <1>t DEF Keys
  <2>2. PositionOf(k) = i
    BY <2>1, PositionIsUnique DEF IInv
  <2>3. \A j \in Positions : sorted_leaves'[j].key = k <=> sorted_leaves[j].key = k
    BY <1>4
  <2>4. PositionOf(k)' = (CHOOSE j \in Positions : sorted_leaves'[j].key = k)
    BY <1>t, <1>3 DEF PositionOf
  <2>5. PositionOf(k) = (CHOOSE j \in Positions : sorted_leaves[j].key = k)
    BY <1>t DEF PositionOf
  <2>6. \A j \in Positions : sorted_leaves[j].key = k => j = i
    BY <2>1, ListTypes DEF IInv, ListInv
  <2>7. PositionOf(k)' = i
    BY <2>1, <2>3, <2>4, <2>6
  <2>8. LeafOf(k)' = sorted_leaves'[i] /\ LeafOf(k) = sorted_leaves[i]
    BY <2>2, <2>7 DEF LeafOf
  <2>9. sorted_leaves'[i] = IF i = p THEN leaf ELSE sorted_leaves[i]
    BY <1>t, <1>u
  <2>10. leaf.value = value
    BY DEF leaf
  <2>11. k = key <=> i = p
    BY <1>1, <2>1, <2>6
  <2> QED
    BY <2>8, <2>9, <2>10, <2>11
<1>10. key \in Keys
  BY <1>1, <1>t DEF Keys
<1> QED
  BY <1>2, <1>6, <1>7, <1>8, <1>9, <1>10 DEF IInv

-----------------------------------------------------------------------------
(* A key that was not there.                                               *)

(* The list after an insertion behind a place, place by place.             *)
InsertedBehind(m, key, value) ==
  /\ key \notin Keys /\ m \in Positions
  /\ sorted_leaves[m].key < key
  /\ \A j \in Positions : j > m => key < sorted_leaves[j].key
  /\ sorted_leaves' \in Seq(Leaf)
  /\ Len(sorted_leaves') = Len(sorted_leaves) + 1
  /\ \A i \in Positions : i <= m =>
       /\ sorted_leaves'[i].key = sorted_leaves[i].key
       /\ sorted_leaves'[i].value = sorted_leaves[i].value
       /\ sorted_leaves'[i].index = sorted_leaves[i].index
       /\ i = m => sorted_leaves'[i].next_key = key
       /\ i # m => sorted_leaves'[i].next_key = sorted_leaves[i].next_key
  /\ sorted_leaves'[m + 1] =
       [key |-> key, value |-> value,
        next_key |-> sorted_leaves[m].next_key, index |-> next_index]
  /\ \A i \in Positions : i > m => sorted_leaves'[i + 1] = sorted_leaves[i]

LEMMA InsertedLeaves ==
  ASSUME IInv, NEW key \in Key, NEW value \in Value, Insert(key, value),
         NEW m, m = LowPosition(key)
  PROVE  InsertedBehind(m, key, value)
<1> DEFINE R == Relinked(key)
           new == NewLeaf(key, value)
<1>1. key \notin Keys
  BY DEF Insert, IInv, IndexInv
<1>2. /\ m \in Positions /\ InsertPosition(key) = m + 1
      /\ sorted_leaves[m].key < key
      /\ \A j \in Positions : j > m => key < sorted_leaves[j].key
  BY <1>1, TheGap DEF IInv
<1>t. /\ DOMAIN sorted_leaves = Positions /\ sorted_leaves \in Seq(Leaf)
      /\ \A i \in Positions : sorted_leaves[i] \in Leaf /\ i \in Nat
      /\ Len(sorted_leaves) \in Nat
  BY ListTypes DEF IInv, ListInv
<1>3. FindLowLeaf(key) = sorted_leaves[m] /\ PositionOf(FindLowLeaf(key).key) = m
  BY <1>2, PositionIsUnique DEF FindLowLeaf, IInv
<1>4. R = [sorted_leaves EXCEPT ![m] = [sorted_leaves[m] EXCEPT !.next_key = key]]
  BY <1>2, <1>3, <1>t DEF Relinked
<1>5. [sorted_leaves[m] EXCEPT !.next_key = key] =
        [key |-> sorted_leaves[m].key, value |-> sorted_leaves[m].value,
         next_key |-> key, index |-> sorted_leaves[m].index]
  BY <1>2, <1>t DEF Leaf
<1>6. /\ new = [key |-> key, value |-> value,
                next_key |-> sorted_leaves[m].next_key, index |-> next_index]
      /\ new \in Leaf
  BY <1>2, <1>3, <1>t DEF NewLeaf, Leaf, IInv, ListInv
<1>7. sorted_leaves' = Inserted(R, m + 1, new)
  BY <1>2 DEF Insert
<1> HIDE DEF R, new
<1>8. /\ R \in Seq(Leaf) /\ Len(R) = Len(sorted_leaves)
      /\ \A i \in Positions : i # m => R[i] = sorted_leaves[i]
      /\ R[m] = [key |-> sorted_leaves[m].key, value |-> sorted_leaves[m].value,
                 next_key |-> key, index |-> sorted_leaves[m].index]
  <2>1. [sorted_leaves[m] EXCEPT !.next_key = key] \in Leaf
    BY <1>2, <1>t DEF Leaf
  <2> QED
    BY <1>2, <1>4, <1>5, <1>t, <2>1 DEF Positions
<1>9. sorted_leaves' =
        [i \in 1..(Len(sorted_leaves) + 1) |->
           IF i < m + 1 THEN R[i] ELSE IF i = m + 1 THEN new ELSE R[i - 1]]
  BY <1>7, <1>8 DEF Inserted
<1>10. /\ sorted_leaves' \in Seq(Leaf)
       /\ Len(sorted_leaves') = Len(sorted_leaves) + 1
  <2>1. ASSUME NEW i \in 1..(Len(sorted_leaves) + 1)
        PROVE  (IF i < m + 1 THEN R[i] ELSE IF i = m + 1 THEN new ELSE R[i - 1]) \in Leaf
    <3>1. \A j \in Positions : R[j] \in Leaf
      BY <1>8 DEF Positions
    <3>2. CASE i < m + 1
      BY <1>2, <1>t, <3>1, <3>2 DEF Positions
    <3>3. CASE i = m + 1
      BY <1>6, <3>3
    <3>4. CASE i > m + 1
      BY <1>2, <1>t, <3>1, <3>4 DEF Positions
    <3> QED
      BY <1>2, <1>t, <3>2, <3>3, <3>4
  <2> QED
    BY <1>9, <1>t, <2>1
<1>11. ASSUME NEW i \in Positions, i <= m
       PROVE  sorted_leaves'[i] = R[i]
  BY <1>2, <1>9, <1>11, <1>t DEF Positions
<1>12. sorted_leaves'[m + 1] = new
  BY <1>2, <1>9, <1>t DEF Positions
<1>13. ASSUME NEW i \in Positions, i > m
       PROVE  sorted_leaves'[i + 1] = sorted_leaves[i]
  <2>1. i + 1 \in 1..(Len(sorted_leaves) + 1) /\ ~ (i + 1 < m + 1) /\ i + 1 # m + 1
    BY <1>2, <1>13, <1>t DEF Positions
  <2>2. sorted_leaves'[i + 1] = R[i + 1 - 1] /\ i + 1 - 1 = i
    BY <1>9, <1>t, <2>1
  <2> QED
    BY <1>8, <1>13, <1>2, <1>t, <2>2
<1>14. ASSUME NEW i \in Positions, i <= m
       PROVE  /\ sorted_leaves'[i].key = sorted_leaves[i].key
              /\ sorted_leaves'[i].value = sorted_leaves[i].value
              /\ sorted_leaves'[i].index = sorted_leaves[i].index
              /\ i = m => sorted_leaves'[i].next_key = key
              /\ i # m => sorted_leaves'[i].next_key = sorted_leaves[i].next_key
  <2>1. CASE i = m
    BY <1>8, <1>11, <1>14, <2>1
  <2>2. CASE i # m
    BY <1>8, <1>11, <1>14, <2>2
  <2> QED
    BY <2>1, <2>2
<1> QED
  BY <1>1, <1>2, <1>6, <1>10, <1>12, <1>13, <1>14 DEF InsertedBehind

(* Where a place of the new list comes from.                               *)
LEMMA PlacesAfterInsert ==
  ASSUME IInv, NEW m \in Positions, sorted_leaves' \in Seq(Leaf),
         Len(sorted_leaves') = Len(sorted_leaves) + 1,
         NEW i \in Positions'
  PROVE  \/ i \in Positions /\ i <= m
         \/ i = m + 1
         \/ i - 1 \in Positions /\ i - 1 > m /\ i = (i - 1) + 1
<1>1. Len(sorted_leaves) \in Nat /\ m \in Nat
  BY ListTypes DEF IInv
<1>2. i \in 1..(Len(sorted_leaves) + 1)
  BY DEF Positions
<1> QED
  BY <1>1, <1>2 DEF Positions

LEMMA InsertKeeps ==
  ASSUME IInv, NEW key \in Key, NEW value \in Value, Insert(key, value)
  PROVE  /\ IInv'
         /\ key \notin Keys /\ Keys' = Keys \cup {key}
         /\ \A k \in Keys : (LeafOf(k).value)' = LeafOf(k).value
         /\ (LeafOf(key).value)' = value
<1> DEFINE n == Len(sorted_leaves)
<1>0. PICK m : InsertedBehind(m, key, value)
  BY InsertedLeaves
<1>1. /\ key \notin Keys /\ m \in Positions
      /\ sorted_leaves[m].key < key
      /\ \A j \in Positions : j > m => key < sorted_leaves[j].key
      /\ sorted_leaves' \in Seq(Leaf)
      /\ Len(sorted_leaves') = n + 1
  BY <1>0 DEF InsertedBehind
<1>2. \A i \in Positions : i <= m =>
        /\ sorted_leaves'[i].key = sorted_leaves[i].key
        /\ sorted_leaves'[i].value = sorted_leaves[i].value
        /\ sorted_leaves'[i].index = sorted_leaves[i].index
        /\ i = m => sorted_leaves'[i].next_key = key
        /\ i # m => sorted_leaves'[i].next_key = sorted_leaves[i].next_key
  BY <1>0 DEF InsertedBehind
<1>3. /\ sorted_leaves'[m + 1].key = key
      /\ sorted_leaves'[m + 1].value = value
      /\ sorted_leaves'[m + 1].next_key = sorted_leaves[m].next_key
      /\ sorted_leaves'[m + 1].index = next_index
  <2>1. sorted_leaves'[m + 1] =
          [key |-> key, value |-> value,
           next_key |-> sorted_leaves[m].next_key, index |-> next_index]
    BY <1>0 DEF InsertedBehind
  <2> QED
    BY <2>1
<1>4. \A i \in Positions : i > m => sorted_leaves'[i + 1] = sorted_leaves[i]
  BY <1>0 DEF InsertedBehind
<1>5. /\ n \in Nat /\ m \in Nat /\ m >= 1 /\ m <= n /\ key \in Nat
      /\ 1 \in Positions
      /\ \A i \in Positions : i \in Nat /\ i >= 1 /\ i <= n /\ sorted_leaves[i].key \in Nat
  BY <1>1, ListTypes, MapAssumption DEF Positions, IInv
<1>6. /\ Positions' = 1..(n + 1) /\ DOMAIN sorted_leaves' = Positions'
      /\ \A i \in Nat : i >= 1 /\ i <= n => i \in Positions
  BY <1>1, <1>5 DEF Positions
<1>7. ASSUME NEW i \in Positions'
      PROVE  \/ i \in Positions /\ i <= m
             \/ i = m + 1
             \/ i - 1 \in Positions /\ i - 1 > m /\ i = (i - 1) + 1
  BY <1>1, <1>7, PlacesAfterInsert
<1>8. \A i \in Positions : i <= m => sorted_leaves[i].key < key
  <2>1. SUFFICES ASSUME NEW i \in Positions, i <= m
                 PROVE  sorted_leaves[i].key < key
    OBVIOUS
  <2>2. \A a, b \in Positions : a < b => sorted_leaves[a].key < sorted_leaves[b].key
    BY DEF IInv, ListInv
  <2>3. CASE i = m
    BY <1>1, <2>3
  <2>4. CASE i # m
    <3>1. i < m
      BY <1>5, <2>1, <2>4
    <3>2. sorted_leaves[i].key < sorted_leaves[m].key
      BY <1>1, <2>2, <3>1
    <3> QED
      BY <1>1, <1>5, <3>2
  <2> QED
    BY <2>3, <2>4
<1>9. \A i, j \in Positions' : i < j => sorted_leaves'[i].key < sorted_leaves'[j].key
  <2>1. SUFFICES ASSUME NEW i \in Positions', NEW j \in Positions', i < j
                 PROVE  sorted_leaves'[i].key < sorted_leaves'[j].key
    OBVIOUS
  <2>2. i \in Nat /\ j \in Nat
    BY <1>6, <1>5
  <2>o. \A a, b \in Positions : a < b => sorted_leaves[a].key < sorted_leaves[b].key
    BY DEF IInv, ListInv
  <2>3. CASE i \in Positions /\ i <= m
    <3>1. CASE j \in Positions /\ j <= m
      BY <1>2, <2>1, <2>3, <2>o, <3>1
    <3>2. CASE j = m + 1
      BY <1>2, <1>3, <1>8, <2>3, <3>2
    <3>3. CASE j - 1 \in Positions /\ j - 1 > m /\ j = (j - 1) + 1
      <4>1. sorted_leaves'[j] = sorted_leaves[j - 1]
        BY <1>4, <3>3
      <4>2. i < j - 1
        BY <1>5, <2>2, <2>3, <3>3
      <4> QED
        BY <1>2, <2>3, <2>o, <3>3, <4>1, <4>2
    <3> QED
      BY <1>7, <3>1, <3>2, <3>3
  <2>4. CASE i = m + 1
    <3>1. j - 1 \in Positions /\ j - 1 > m /\ j = (j - 1) + 1
      <4>1. \/ j \in Positions /\ j <= m
            \/ j = m + 1
            \/ j - 1 \in Positions /\ j - 1 > m /\ j = (j - 1) + 1
        BY <1>7
      <4> QED
        BY <1>5, <2>1, <2>2, <2>4, <4>1
    <3>2. sorted_leaves'[j] = sorted_leaves[j - 1]
      BY <1>4, <3>1
    <3> QED
      BY <1>1, <1>3, <2>4, <3>1, <3>2
  <2>5. CASE i - 1 \in Positions /\ i - 1 > m /\ i = (i - 1) + 1
    <3>1. j - 1 \in Positions /\ j - 1 > m /\ j = (j - 1) + 1 /\ i - 1 < j - 1
      <4>1. \/ j \in Positions /\ j <= m
            \/ j = m + 1
            \/ j - 1 \in Positions /\ j - 1 > m /\ j = (j - 1) + 1
        BY <1>7
      <4> QED
        BY <1>5, <2>1, <2>2, <2>5, <4>1
    <3>2. /\ sorted_leaves'[j] = sorted_leaves[j - 1]
          /\ sorted_leaves'[i] = sorted_leaves[i - 1]
      BY <1>4, <2>5, <3>1
    <3> QED
      BY <2>5, <2>o, <3>1, <3>2
  <2> QED
    BY <1>7, <2>3, <2>4, <2>5
<1>10. ASSUME NEW i \in Positions'
       PROVE  sorted_leaves'[i].next_key =
                IF i = n + 1 THEN 0 ELSE sorted_leaves'[i + 1].key
  <2>0. i \in Nat
    BY <1>5, <1>6
  <2>o. \A a \in Positions :
          sorted_leaves[a].next_key = IF a = n THEN 0 ELSE sorted_leaves[a + 1].key
    BY DEF IInv, ListInv
  <2>1. CASE i \in Positions /\ i <= m /\ i # m
    <3>1. i + 1 \in Positions /\ i + 1 <= m /\ i # n /\ i # n + 1
      BY <1>5, <1>6, <2>0, <2>1
    <3> QED
      BY <1>2, <2>1, <2>o, <3>1
  <2>2. CASE i = m
    <3>1. i # n + 1
      BY <1>5, <2>2
    <3> QED
      BY <1>1, <1>2, <1>3, <1>5, <2>2, <3>1
  <2>3. CASE i = m + 1
    <3>1. CASE m = n
      BY <1>1, <1>3, <2>3, <2>o, <3>1
    <3>2. CASE m # n
      <4>1. m + 1 \in Positions /\ m + 1 > m /\ m + 1 # n + 1
        BY <1>5, <1>6, <3>2
      <4>2. sorted_leaves'[(m + 1) + 1] = sorted_leaves[m + 1]
        BY <1>4, <4>1
      <4> QED
        BY <1>1, <1>3, <2>3, <2>o, <3>2, <4>1, <4>2
    <3> QED
      BY <3>1, <3>2
  <2>4. CASE i - 1 \in Positions /\ i - 1 > m /\ i = (i - 1) + 1
    <3>1. sorted_leaves'[i] = sorted_leaves[i - 1]
      BY <1>4, <2>4
    <3>2. sorted_leaves[i - 1].next_key =
            IF i - 1 = n THEN 0 ELSE sorted_leaves[(i - 1) + 1].key
      BY <2>4, <2>o
    <3>3. CASE i = n + 1
      BY <1>5, <2>0, <3>1, <3>2, <3>3
    <3>4. CASE i # n + 1
      <4>1. i \in Positions /\ i > m /\ i - 1 # n
        BY <1>5, <1>6, <2>0, <2>4, <3>4
      <4>2. sorted_leaves'[i + 1] = sorted_leaves[i]
        BY <1>4, <4>1
      <4> QED
        BY <2>4, <3>1, <3>2, <3>4, <4>1, <4>2
    <3> QED
      BY <3>3, <3>4
  <2> QED
    BY <1>7, <2>1, <2>2, <2>3, <2>4
<1>11. next_index' = next_index + 1 /\ next_index \in Nat \ {0} /\ n = next_index
  BY DEF Insert, IInv, ListInv
<1>12. sorted_leaves'[1].key = 0
  BY <1>2, <1>5 DEF IInv, ListInv
<1>13. ListInv'
  BY <1>1, <1>9, <1>10, <1>11, <1>12 DEF ListInv
<1>14. /\ \A i \in Positions : i <= m => i \in Positions'
       /\ \A i \in Positions : i > m => i + 1 \in Positions'
       /\ m + 1 \in Positions'
  BY <1>5, <1>6
<1>15. Keys' = Keys \cup {key}
  <2>1. /\ Keys = {sorted_leaves[i].key : i \in Positions}
        /\ Keys' = {sorted_leaves'[i].key : i \in Positions'}
    BY <1>6, ListTypes DEF Keys, IInv
  <2>2. ASSUME NEW i \in Positions' PROVE sorted_leaves'[i].key \in Keys \cup {key}
    BY <1>2, <1>3, <1>4, <1>7, <2>1
  <2>3. ASSUME NEW i \in Positions PROVE sorted_leaves[i].key \in Keys'
    <3>1. CASE i <= m
      BY <1>2, <1>14, <2>1, <3>1
    <3>2. CASE i > m
      BY <1>4, <1>14, <2>1, <3>2
    <3> QED
      BY <1>5, <3>1, <3>2
  <2>4. key \in Keys'
    BY <1>3, <1>14, <2>1
  <2> QED
    BY <2>1, <2>2, <2>3, <2>4
<1>16. leaf_indices' = [k \in Keys \cup {key} |->
                          IF k = key THEN next_index ELSE leaf_indices[k]]
  BY DEF Insert, IInv, IndexInv
<1>17. leaf_indices' \in [Keys' -> 0..(next_index' - 1)]
  <2>1. \A k \in Keys : leaf_indices[k] \in 0..(next_index - 1)
    BY DEF IInv, IndexInv
  <2> QED
    BY <1>11, <1>15, <1>16, <2>1
<1>18. ASSUME NEW i \in Positions'
       PROVE  leaf_indices'[sorted_leaves'[i].key] = sorted_leaves'[i].index
  <2>1. \A j \in Positions : /\ sorted_leaves[j].key \in Keys
                             /\ leaf_indices'[sorted_leaves[j].key] = sorted_leaves[j].index
    <3>1. \A j \in Positions : sorted_leaves[j].key \in Keys
      BY ListTypes DEF Keys, IInv
    <3>2. \A j \in Positions : leaf_indices[sorted_leaves[j].key] = sorted_leaves[j].index
      BY DEF IInv, IndexInv
    <3> QED
      BY <1>1, <1>16, <3>1, <3>2
  <2>2. CASE i \in Positions /\ i <= m
    BY <1>2, <2>1, <2>2
  <2>3. CASE i = m + 1
    BY <1>3, <1>16, <2>3
  <2>4. CASE i - 1 \in Positions /\ i - 1 > m /\ i = (i - 1) + 1
    <3>1. sorted_leaves'[i] = sorted_leaves[i - 1]
      BY <1>4, <2>4
    <3> QED
      BY <2>1, <2>4, <3>1
  <2> QED
    BY <1>7, <2>2, <2>3, <2>4
<1>19. IsFiniteSet(Keys') /\ Cardinality(Keys') = next_index'
  <2>1. IsFiniteSet(Keys) /\ Cardinality(Keys) = next_index
    BY DEF IInv, IndexInv
  <2> QED
    BY <1>1, <1>11, <1>15, <2>1, FS_AddElement
<1>20. IndexInv'
  BY <1>17, <1>18, <1>19 DEF IndexInv
<1>21. ASSUME NEW i \in Positions', NEW k, k = sorted_leaves'[i].key
       PROVE  LeafOf(k)' = sorted_leaves'[i]
  <2>1. i \in Nat /\ \A j \in Positions' : j \in Nat /\ sorted_leaves'[j].key \in Nat
    <3>1. \A j \in Positions' : sorted_leaves'[j] \in Leaf /\ j \in Nat
      BY <1>1, <1>5, <1>6
    <3>2. \A leaf \in Leaf : leaf.key \in Nat
      BY MapAssumption DEF Leaf
    <3> QED
      BY <3>1, <3>2
  <2>2. \A j \in Positions' : sorted_leaves'[j].key = sorted_leaves'[i].key => j = i
    BY <1>9, <2>1
  <2>3. (CHOOSE j \in Positions' : sorted_leaves'[j].key = k) = i
    BY <1>21, <2>2
  <2> QED
    BY <1>6, <2>3 DEF LeafOf, PositionOf
<1>22. ASSUME NEW k \in Keys
       PROVE  (LeafOf(k).value)' = LeafOf(k).value
  <2>1. PICK i \in Positions : k = sorted_leaves[i].key
    BY ListTypes DEF Keys, IInv
  <2>2. LeafOf(k) = sorted_leaves[i]
    BY <2>1, PositionIsUnique DEF LeafOf, IInv
  <2>3. CASE i <= m
    <3>1. LeafOf(k)' = sorted_leaves'[i]
      BY <1>2, <1>14, <1>21, <2>1, <2>3
    <3> QED
      BY <1>2, <2>1, <2>2, <2>3, <3>1
  <2>4. CASE i > m
    <3>1. LeafOf(k)' = sorted_leaves'[i + 1]
      BY <1>4, <1>14, <1>21, <2>1, <2>4
    <3> QED
      BY <1>4, <2>1, <2>2, <2>4, <3>1
  <2> QED
    BY <1>5, <2>3, <2>4
<1>23. (LeafOf(key).value)' = value
  <2>1. LeafOf(key)' = sorted_leaves'[m + 1]
    BY <1>3, <1>14, <1>21
  <2> QED
    BY <1>3, <2>1
<1> QED
  BY <1>1, <1>13, <1>15, <1>20, <1>22, <1>23 DEF IInv

(* What a step does to the map its callers see.                            *)
LEMMA StepImplements ==
  ASSUME IInv, [Next]_vars
  PROVE  IInv' /\ [Map!Next]_Contents
<1>1. DOMAIN leaf_indices = Keys /\ DOMAIN Contents = Keys
  BY DEF IInv, IndexInv, Contents
<1>2. ASSUME NEW key \in Key, NEW value \in Value, Insert(key, value)
      PROVE  IInv' /\ Map!Insert(key, value)
  <2>1. /\ IInv' /\ key \notin Keys /\ Keys' = Keys \cup {key}
        /\ \A k \in Keys : (LeafOf(k).value)' = LeafOf(k).value
        /\ (LeafOf(key).value)' = value
    BY <1>2, InsertKeeps
  <2>2. Contents' = [k \in Keys' |-> (LeafOf(k).value)']
    BY <2>1 DEF IInv, IndexInv, Contents
  <2>3. Contents = [k \in Keys |-> LeafOf(k).value]
    BY <1>1 DEF Contents
  <2>4. Contents' = [k \in DOMAIN Contents \cup {key} |->
                       IF k = key THEN value ELSE Contents[k]]
    BY <1>1, <2>1, <2>2, <2>3
  <2>5. Cardinality(DOMAIN Contents) < Capacity
    BY <1>1, <1>2 DEF Insert, IInv, IndexInv, ListInv
  <2>6. key \notin DOMAIN Contents
    BY <1>1, <2>1
  <2>c. \A S : Map!Cardinality(S) = Cardinality(S)
    BY DEF Map!Cardinality, Cardinality
  <2>7. Map!Insert(key, value)
    BY <2>c, <2>4, <2>5, <2>6 DEF Map!Insert
  <2> QED
    BY <2>1, <2>7
<1>3. ASSUME NEW key \in Key, NEW value \in Value, Write(key, value)
      PROVE  IInv' /\ Map!Update(key, value)
  <2>1. IInv' /\ key \in Keys /\ Keys' = Keys /\ leaf_indices' = leaf_indices
        /\ \A k \in Keys :
             (LeafOf(k).value)' = IF k = key THEN value ELSE LeafOf(k).value
    BY <1>3, WriteKeeps
  <2>2. Contents' = [k \in Keys |-> (LeafOf(k).value)']
    BY <1>1, <2>1 DEF Contents
  <2>3. Contents = [k \in Keys |-> LeafOf(k).value]
    BY <1>1 DEF Contents
  <2>4. Contents' = [Contents EXCEPT ![key] = value]
    BY <2>1, <2>2, <2>3
  <2> QED
    BY <1>1, <2>1, <2>4 DEF Map!Update
<1>4. CASE Next
  <2>1. PICK key \in Key, value \in Value : Insert(key, value) \/ Write(key, value)
    BY <1>4 DEF Next, Update, Set
  <2>2. IInv' /\ (Map!Insert(key, value) \/ Map!Update(key, value))
    BY <1>2, <1>3, <2>1
  <2> QED
    BY <2>2 DEF Map!Next
<1>5. CASE UNCHANGED vars
  <2>1. /\ sorted_leaves' = sorted_leaves /\ leaf_indices' = leaf_indices
        /\ next_index' = next_index
    BY <1>5 DEF vars
  <2>2. Keys' = Keys /\ Positions' = Positions
    BY <2>1 DEF Keys, Positions
  <2>3. \A k : LeafOf(k)' = LeafOf(k)
    BY <2>1 DEF LeafOf, PositionOf
  <2>4. Contents' = Contents
    BY <2>1, <2>3 DEF Contents
  <2>5. IInv'
    BY <2>1, <2>2 DEF IInv, ListInv, IndexInv
  <2> QED
    BY <2>4, <2>5
<1> QED
  BY <1>4, <1>5

LEMMA InvariantImplies == IInv => TypeOK /\ GapsAreEmpty
<1> SUFFICES ASSUME IInv PROVE TypeOK /\ GapsAreEmpty
  OBVIOUS
<1>1. TypeOK
  BY DEF IInv, ListInv, IndexInv, TypeOK
<1>2. DOMAIN leaf_indices = Keys /\ Keys = {sorted_leaves[i].key : i \in Positions}
  BY ListTypes DEF IInv, IndexInv, Keys
<1>3. ASSUME NEW i \in Positions, NEW k \in Keys PROVE ~ InGap(k, sorted_leaves[i])
  <2>1. PICK j \in Positions : k = sorted_leaves[j].key
    BY <1>2
  <2>n. /\ i \in Nat /\ j \in Nat /\ i <= Len(sorted_leaves) /\ j <= Len(sorted_leaves)
        /\ Len(sorted_leaves) \in Nat
        /\ sorted_leaves[i].key \in Nat /\ sorted_leaves[j].key \in Nat
    BY ListTypes DEF Positions, IInv
  <2>o. \A a, b \in Positions : a < b => sorted_leaves[a].key < sorted_leaves[b].key
    BY DEF IInv, ListInv
  <2>2. CASE j <= i
    <3>1. sorted_leaves[j].key <= sorted_leaves[i].key
      BY <2>2, <2>n, <2>o
    <3> QED
      BY <2>1, <2>n, <3>1 DEF InGap
  <2>3. CASE j > i
    <3>1. i + 1 \in Positions /\ i # Len(sorted_leaves)
      BY <2>3, <2>n DEF Positions
    <3>2. sorted_leaves[i].next_key = sorted_leaves[i + 1].key
      BY <3>1 DEF IInv, ListInv
    <3>3. /\ sorted_leaves[i + 1].key \in Nat
          /\ sorted_leaves[i].key < sorted_leaves[i + 1].key
          /\ sorted_leaves[i + 1].key <= sorted_leaves[j].key
      <4>1. sorted_leaves[i + 1].key \in Nat
        BY <3>1, ListTypes DEF IInv
      <4>2. i < i + 1 /\ (j = i + 1 \/ i + 1 < j)
        BY <2>3, <2>n
      <4> QED
        BY <2>n, <2>o, <3>1, <4>1, <4>2
    <3> QED
      BY <2>1, <2>n, <3>2, <3>3 DEF InGap
  <2> QED
    BY <2>2, <2>3, <2>n
<1>4. ASSUME NEW k \in Key, k \notin Keys
      PROVE  \E i \in Positions : InGap(k, sorted_leaves[i])
  <2> DEFINE m == LowPosition(k)
  <2>1. /\ m \in Positions /\ sorted_leaves[m].key < k
        /\ \A j \in Positions : j > m => k < sorted_leaves[j].key
    BY <1>4, TheGap DEF IInv
  <2> HIDE DEF m
  <2>n. k \in Nat /\ sorted_leaves[m].key \in Nat
    BY <2>1, MapAssumption, ListTypes DEF IInv
  <2>2. CASE m = Len(sorted_leaves)
    <3>1. sorted_leaves[m].next_key = 0
      BY <2>1, <2>2 DEF IInv, ListInv
    <3> QED
      BY <2>1, <2>n, <3>1 DEF InGap
  <2>3. CASE m # Len(sorted_leaves)
    <3>1. m + 1 \in Positions /\ m + 1 > m
      <4>1. m \in 1..Len(sorted_leaves) /\ Len(sorted_leaves) \in Nat
        BY <2>1, ListTypes DEF Positions, IInv
      <4> QED
        BY <2>3, <4>1 DEF Positions
    <3>2. sorted_leaves[m].next_key = sorted_leaves[m + 1].key
      BY <2>1, <2>3 DEF IInv, ListInv
    <3> QED
      BY <2>1, <2>n, <3>1, <3>2 DEF InGap
  <2> QED
    BY <2>2, <2>3
<1>5. GapsAreEmpty
  BY <1>2, <1>3, <1>4 DEF GapsAreEmpty, Positions, IInv, IndexInv, ListInv
<1> QED
  BY <1>1, <1>5

LEMMA Inductive == Spec => []IInv
<1>1. Init => IInv
  BY InitEstablishes
<1>2. IInv /\ [Next]_vars => IInv'
  BY StepImplements
<1> QED
  BY <1>1, <1>2, PTL DEF Spec

-----------------------------------------------------------------------------
(* The leaves, their index and their number have their types and agree, of *)
(* every map that operations of map.rs can build.                          *)
THEOREM MapTypes == Spec => []TypeOK
<1>1. IInv => TypeOK
  BY InvariantImplies
<1> QED
  BY <1>1, Inductive, PTL

(* The list stays sorted, the leaf a proof of absence rests on vouches for *)
(* an empty gap, and each absent key has such a leaf, whatever is inserted *)
(* and in which order.                                                     *)
THEOREM EmptyGaps == Spec => []GapsAreEmpty
<1>1. IInv => GapsAreEmpty
  BY InvariantImplies
<1> QED
  BY <1>1, Inductive, PTL

(* Every run of the indexed map is one of a plain map with room for        *)
(* Capacity keys.                                                          *)
THEOREM MapIsImplemented == Spec => ImplementsMap
<1>1. Init => Map!Init
  <2>1. SUFFICES ASSUME Init PROVE Contents = [k \in {0} |-> 0]
    BY DEF Map!Init
  <2>1a. leaf_indices = [k \in {0} |-> 0] /\ sorted_leaves = <<FirstLeaf>>
    BY <2>1 DEF Init
  <2>2. DOMAIN leaf_indices = {0} /\ sorted_leaves = <<FirstLeaf>>
    BY <2>1a
  <2>3. LeafOf(0) = FirstLeaf
    <3>1. DOMAIN sorted_leaves = {1} /\ sorted_leaves[1] = FirstLeaf /\ FirstLeaf.key = 0
      BY <2>2 DEF FirstLeaf
    <3>2. PositionOf(0) = 1
      BY <3>1 DEF PositionOf
    <3> QED
      BY <3>1, <3>2 DEF LeafOf
  <2> QED
    BY <2>2, <2>3 DEF Contents, FirstLeaf
<1>2. IInv /\ [Next]_vars => [Map!Next]_Contents
  BY StepImplements
<1> QED
  BY <1>1, <1>2, Inductive, PTL DEF Spec, ImplementsMap, Map!Spec
-----------------------------------------------------------------------------
(* The tree.  Each recursive function is the one its equations describe.   *)

LEMMA PowersOfTwo ==
  /\ Pow2[0] = 1
  /\ \A n \in 1..32 : Pow2[n] = 2 * Pow2[n - 1]
  /\ \A n \in 0..32 : Pow2[n] \in Nat \ {0}
<1> DEFINE F == [p \in Nat \X (1..32) |-> 2 * p[1]]
<1>1. PICK g \in [0..32 -> Nat] : g[0] = 1 /\ \A i \in 1..32 : g[i] = F[<<g[i - 1], i>>]
  <2>1. F \in [Nat \X (1..32) -> Nat] /\ 1 \in Nat /\ 32 \in Nat
    OBVIOUS
  <2> HIDE DEF F
  <2>2. Reaches(32, Nat, 1, F)
    BY <2>1, Recursion
  <2> QED
    BY <2>2 DEF Reaches
<1>2. \A i \in 1..32 : g[i] = 2 * g[i - 1]
  BY <1>1
<1>3. g = [i \in 0..32 |-> IF i = 0 THEN 1 ELSE 2 * g[i - 1]]
  BY <1>1, <1>2
<1>4. Pow2 = [i \in 0..32 |-> IF i = 0 THEN 1 ELSE 2 * Pow2[i - 1]]
  BY <1>3 DEF Pow2
<1>5. Pow2[0] = 1 /\ \A n \in 1..32 : Pow2[n] = 2 * Pow2[n - 1]
  BY <1>4
<1> DEFINE S == {n \in 0..32 : Pow2[n] \in Nat \ {0}}
<1>6. 0 \in S
  BY <1>5
<1>7. ASSUME NEW n \in 0..(32 - 1), n \in S PROVE n + 1 \in S
  <2>1. n + 1 \in 1..32 /\ (n + 1) - 1 = n
    OBVIOUS
  <2>2. Pow2[n + 1] = 2 * Pow2[n]
    BY <1>5, <2>1
  <2> QED
    BY <1>7, <2>1, <2>2
<1> HIDE DEF S
<1>8. \A n \in 0..32 : n \in S
  BY ONLY <1>6, <1>7, BoundedInduction
<1> QED
  BY <1>5, <1>8 DEF S

LEMMA CapacityType == Capacity \in Nat \ {0}
<1>1. Height - 1 \in 0..32
  BY MapAssumption
<1> QED
  BY <1>1, PowersOfTwo DEF Capacity

LEMMA Indices ==
  ASSUME NEW i \in Nat
  PROVE  /\ IndexAt(i) \in [0..Height -> Nat]
         /\ IndexAt(i)[0] = i
         /\ \A m \in 1..Height : IndexAt(i)[m] = IndexAt(i)[m - 1] \div 2
<1> DEFINE F == [p \in Nat \X (1..Height) |-> p[1] \div 2]
           at == CHOOSE f : f = [m \in 0..Height |-> IF m = 0 THEN i ELSE f[m - 1] \div 2]
<1>h. Height \in Nat
  BY MapAssumption
<1>1. PICK g \in [0..Height -> Nat] :
        g[0] = i /\ \A m \in 1..Height : g[m] = F[<<g[m - 1], m>>]
  <2>1. F \in [Nat \X (1..Height) -> Nat]
    OBVIOUS
  <2> HIDE DEF F
  <2>2. Reaches(Height, Nat, i, F)
    BY <1>h, <2>1, Recursion
  <2> QED
    BY <2>2 DEF Reaches
<1>2. ASSUME NEW m \in 1..Height PROVE g[m] = g[m - 1] \div 2
  <2>1. <<g[m - 1], m>> \in Nat \X (1..Height)
    BY <1>h, <1>1
  <2>2. F[<<g[m - 1], m>>] = <<g[m - 1], m>>[1] \div 2
    BY <2>1
  <2> QED
    BY <1>1, <2>2
<1>3. g = [m \in 0..Height |-> IF m = 0 THEN i ELSE g[m - 1] \div 2]
  BY <1>h, <1>1, <1>2
<1>4. at = [m \in 0..Height |-> IF m = 0 THEN i ELSE at[m - 1] \div 2]
  BY <1>3
<1>5. IndexAt(i) = at
  BY DEF IndexAt
<1> HIDE DEF at
<1>6. at[0] = i /\ \A m \in 1..Height : at[m] = at[m - 1] \div 2
  BY <1>h, <1>4
<1> DEFINE S == {m \in 0..Height : at[m] \in Nat}
<1>7. 0 \in S
  BY <1>h, <1>6
<1>8. ASSUME NEW m \in 0..(Height - 1), m \in S PROVE m + 1 \in S
  <2>1. m + 1 \in 1..Height /\ (m + 1) - 1 = m
    BY <1>h
  <2>2. at[m + 1] = at[m] \div 2 /\ at[m] \in Nat
    BY <1>6, <1>8, <2>1
  <2> QED
    BY <2>1, <2>2
<1> HIDE DEF S
<1>9. \A m \in 0..Height : m \in S
  BY ONLY <1>h, <1>7, <1>8, BoundedInduction
<1> QED
  BY <1>4, <1>5, <1>6, <1>9 DEF S

(* The path of a leaf that fits the tree ends at the root.                 *)
LEMMA IndexEnds ==
  ASSUME NEW i \in Nat, i < Capacity
  PROVE  IndexAt(i)[Height - 1] = 0
<1> DEFINE at == IndexAt(i)
           top == Height - 1
           S == {m \in 0..top : at[m] < Pow2[top - m]}
<1>1. top \in 1..31 /\ Height \in Nat /\ Height = top + 1
  BY MapAssumption
<1>2. at[0] = i /\ \A m \in 0..Height : at[m] \in Nat
  BY Indices
<1>3. 0 \in S
  BY <1>1, <1>2 DEF Capacity
<1>4. ASSUME NEW m \in 0..(top - 1), m \in S PROVE m + 1 \in S
  <2>1. /\ m + 1 \in 1..Height /\ (m + 1) - 1 = m /\ m + 1 \in 0..top /\ m \in 0..Height
        /\ top - m \in 1..32 /\ (top - m) - 1 = top - (m + 1) /\ top - (m + 1) \in 0..32
    BY <1>1
  <2>2. at[m + 1] = at[m] \div 2 /\ at[m] \in Nat
    BY <1>2, <2>1, Indices
  <2>3. Pow2[top - m] = 2 * Pow2[top - (m + 1)] /\ Pow2[top - (m + 1)] \in Nat
    BY <2>1, PowersOfTwo
  <2>4. at[m] < Pow2[top - m]
    BY <1>4
  <2> HIDE DEF at, top
  <2>5. at[m + 1] < Pow2[top - (m + 1)]
    BY <2>2, <2>3, <2>4
  <2> QED
    BY <2>1, <2>5
<1>5. top \in S
  <2> HIDE DEF S, top
  <2>1. \A m \in 0..top : m \in S
    BY <1>1, <1>3, <1>4, BoundedInduction
  <2> QED
    BY <1>1, <2>1
<1>6. at[top] < 1 /\ at[top] \in Nat
  BY <1>1, <1>2, <1>5, PowersOfTwo
<1> QED
  BY <1>6

LEMMA NodeAfterSet ==
  ASSUME NEW N, NEW l, NEW x, NEW hash, NEW m, NEW j
  PROVE  GetNode(SetNode(N, l, x, hash), m, j) =
           IF m = l /\ j = x THEN hash ELSE GetNode(N, m, j)
<1>1. <<m, j>> = <<l, x>> <=> m = l /\ j = x
  OBVIOUS
<1> QED
  BY <1>1 DEF GetNode, SetNode

(* The tables of update_tree, level by level.                              *)
LEMMA TablesUpTo ==
  ASSUME NEW N, NEW i, NEW hash
  PROVE  LET up == NodesUpTo(N, i, hash)
         IN  /\ up[0] = SetNode(N, 0, i, hash)
             /\ \A m \in 1..Height :
                  up[m] = SetNode(up[m - 1], m, IndexAt(i)[m],
                                  Parent(up[m - 1], m, IndexAt(i)[m]))
<1> DEFINE index == IndexAt(i)
           Step(T, m) == SetNode(T, m, index[m], Parent(T, m, index[m]))
           Up(g, n) == g = [m \in 0..n |-> IF m = 0 THEN SetNode(N, 0, i, hash)
                                           ELSE Step(g[m - 1], m)]
           S == {n \in 0..Height : \E g : Up(g, n)}
           upTo == CHOOSE f : f = [m \in 0..Height |->
                      IF m = 0 THEN SetNode(N, 0, i, hash)
                      ELSE SetNode(f[m - 1], m, index[m], Parent(f[m - 1], m, index[m]))]
<1>h. Height \in Nat
  BY MapAssumption
<1> HIDE DEF Step, index
<1>1. 0 \in S
  <2> DEFINE g == [m \in 0..0 |-> SetNode(N, 0, i, hash)]
  <2>1. Up(g, 0)
    OBVIOUS
  <2> HIDE DEF g, Up
  <2> QED
    BY <1>h, <2>1
<1>2. ASSUME NEW n \in 0..(Height - 1), n \in S PROVE n + 1 \in S
  <2>1. PICK g : Up(g, n)
    BY <1>2
  <2> DEFINE next == Step(g[n], n + 1)
             h == [m \in 0..(n + 1) |-> IF m = n + 1 THEN next ELSE g[m]]
  <2>2. ASSUME NEW m \in 0..(n + 1)
        PROVE  h[m] = IF m = 0 THEN SetNode(N, 0, i, hash) ELSE Step(h[m - 1], m)
    <3>1. CASE m = n + 1
      <4>1. h[m] = next /\ h[m - 1] = g[n] /\ m # 0
        BY <1>h, <3>1
      <4> QED
        BY <3>1, <4>1
    <3>2. CASE m \in 0..n /\ m # 0
      <4>1. h[m] = g[m] /\ h[m - 1] = g[m - 1]
        BY <1>h, <3>2
      <4> QED
        BY <2>1, <3>2, <4>1
    <3>3. CASE m = 0
      <4>1. h[m] = g[m]
        BY <1>h, <3>3
      <4> QED
        BY <2>1, <3>3, <4>1
    <3> QED
      BY <1>h, <3>1, <3>2, <3>3
  <2>3. Up(h, n + 1)
    BY <2>2
  <2> HIDE DEF Up, h
  <2> QED
    BY <1>h, <2>3
<1> HIDE DEF S
<1>3. \A n \in 0..Height : n \in S
  BY ONLY <1>h, <1>1, <1>2, BoundedInduction
<1>4. PICK g : Up(g, Height)
  BY <1>h, <1>3 DEF S
<1>5. Up(upTo, Height)
  BY <1>4 DEF Step
<1>6. NodesUpTo(N, i, hash) = upTo
  BY DEF NodesUpTo, index
<1> HIDE DEF upTo
<1>7. /\ upTo[0] = SetNode(N, 0, i, hash)
      /\ \A m \in 1..Height : upTo[m] = Step(upTo[m - 1], m)
  BY <1>h, <1>5
<1> QED
  BY <1>6, <1>7 DEF Step, index

(* Every node above a leaf is the hash of the two below it.                *)
OnPath(N, i) ==
  \A m \in 1..(Height - 2) :
    GetNode(N, m, IndexAt(i)[m]) = Parent(N, m, IndexAt(i)[m])

(* update_tree sets the leaf, repairs what is above it and leaves the rest.*)
LEMMA TreeAfter ==
  ASSUME NEW N, NEW i \in Nat, NEW hash
  PROVE  /\ GetNode(UpdateTree(N, i, hash), 0, i) = hash
         /\ OnPath(UpdateTree(N, i, hash), i)
         /\ \A m, j : ~ (m \in 0..(Height - 2) /\ j = IndexAt(i)[m]) =>
              GetNode(UpdateTree(N, i, hash), m, j) = GetNode(N, m, j)
<1> DEFINE at == IndexAt(i)
           up == NodesUpTo(N, i, hash)
           Good(l) ==
             /\ GetNode(up[l], 0, i) = hash
             /\ \A m \in 1..l : GetNode(up[l], m, at[m]) = Parent(up[l], m, at[m])
             /\ \A m, j : ~ (m \in 0..l /\ j = at[m]) =>
                  GetNode(up[l], m, j) = GetNode(N, m, j)
           S == {l \in 0..(Height - 2) : Good(l)}
<1>1. Height \in Nat /\ Height - 2 \in Nat
  BY MapAssumption
<1>2. at[0] = i
  BY Indices
<1>3. /\ up[0] = SetNode(N, 0, i, hash)
      /\ \A m \in 1..Height : up[m] = SetNode(up[m - 1], m, at[m], Parent(up[m - 1], m, at[m]))
  BY TablesUpTo
<1> HIDE DEF at, up
<1>4. 0 \in S
  <2>1. \A m, j : GetNode(up[0], m, j) = IF m = 0 /\ j = i THEN hash ELSE GetNode(N, m, j)
    BY <1>3, NodeAfterSet
  <2> QED
    BY <1>1, <1>2, <2>1
<1>5. ASSUME NEW l \in 0..(Height - 2 - 1), l \in S PROVE l + 1 \in S
  <2>0. /\ l + 1 \in 1..Height /\ (l + 1) - 1 = l /\ l + 1 \in 0..(Height - 2)
        /\ l \in Nat /\ ~ (l + 1 \in 0..l)
    BY <1>1
  <2> DEFINE parent == Parent(up[l], l + 1, at[l + 1])
  <2>1. up[l + 1] = SetNode(up[l], l + 1, at[l + 1], parent)
    BY <1>3, <2>0
  <2>2. \A m, j : GetNode(up[l + 1], m, j) =
                    IF m = l + 1 /\ j = at[l + 1] THEN parent ELSE GetNode(up[l], m, j)
    <3> HIDE DEF parent
    <3> QED
      BY <2>1, NodeAfterSet
  <2>3. ASSUME NEW m \in 1..(l + 1), NEW j PROVE Parent(up[l + 1], m, j) = Parent(up[l], m, j)
    <3>1. m - 1 # l + 1
      BY <2>0
    <3>2. \A k : GetNode(up[l + 1], m - 1, k) = GetNode(up[l], m - 1, k)
      BY <2>2, <3>1
    <3> QED
      BY <3>2 DEF Parent
  <2>4. Good(l)
    BY <1>5
  <2>5. GetNode(up[l + 1], 0, i) = hash
    BY <2>0, <2>2, <2>4
  <2>6. ASSUME NEW m \in 1..(l + 1)
        PROVE  GetNode(up[l + 1], m, at[m]) = Parent(up[l + 1], m, at[m])
    <3>1. CASE m = l + 1
      BY <2>2, <2>3, <3>1
    <3>2. CASE m # l + 1
      <4>1. m \in 1..l
        BY <2>0, <3>2
      <4> QED
        BY <2>2, <2>3, <2>4, <3>2, <4>1
    <3> QED
      BY <3>1, <3>2
  <2>7. ASSUME NEW m, NEW j, ~ (m \in 0..(l + 1) /\ j = at[m])
        PROVE  GetNode(up[l + 1], m, j) = GetNode(N, m, j)
    <3>1. ~ (m \in 0..l /\ j = at[m])
      BY <2>0, <2>7
    <3>2. ~ (m = l + 1 /\ j = at[l + 1])
      BY <2>0, <2>7
    <3> QED
      BY <2>2, <2>4, <3>1, <3>2
  <2> QED
    BY <2>0, <2>5, <2>6, <2>7
<1>6. Height - 2 \in S
  <2> HIDE DEF S
  <2>1. \A l \in 0..(Height - 2) : l \in S
    BY ONLY <1>1, <1>4, <1>5, BoundedInduction
  <2> QED
    BY <1>1, <2>1
<1>7. UpdateTree(N, i, hash) = up[Height - 2]
  BY DEF UpdateTree, up
<1> QED
  BY <1>6, <1>7 DEF OnPath, at

(* A path has the siblings of the nodes above the leaf and their sides.    *)
LEMMA Paths ==
  ASSUME NEW N, NEW i \in Nat
  PROVE  /\ Len(MerkleProof(N, i)) = Height - 1
         /\ \A n \in 1..(Height - 1) :
              /\ MerkleProof(N, i)[n].right <=> IndexAt(i)[n - 1] % 2 = 1
              /\ MerkleProof(N, i)[n].sibling = GetNode(N, n - 1, Sibling(IndexAt(i)[n - 1]))
<1> DEFINE at == IndexAt(i)
           p == MerkleProof(N, i)
           entry(n) == [sibling |-> GetNode(N, n - 1, Sibling(at[n - 1])),
                        right |-> at[n - 1] % 2 = 1]
<1>1. Height - 1 \in Nat
  BY MapAssumption
<1>2. p = [n \in 1..(Height - 1) |-> entry(n)]
  BY DEF MerkleProof
<1>3. Len(p) = Height - 1
  <2> DEFINE R == {entry(n) : n \in 1..(Height - 1)}
  <2> HIDE DEF entry, p
  <2>1. p \in [1..(Height - 1) -> R]
    BY <1>2
  <2> HIDE DEF R
  <2> QED
    BY <1>1, <2>1
<1>4. ASSUME NEW n \in 1..(Height - 1)
      PROVE  /\ p[n].right <=> at[n - 1] % 2 = 1
             /\ p[n].sibling = GetNode(N, n - 1, Sibling(at[n - 1]))
  <2>1. p[n] = entry(n)
    BY <1>2
  <2> HIDE DEF p, at
  <2>2. entry(n).right = (at[n - 1] % 2 = 1)
    BY Zenon
  <2>3. entry(n).sibling = GetNode(N, n - 1, Sibling(at[n - 1]))
    BY Zenon
  <2> QED
    BY <2>1, <2>2, <2>3, Zenon
<1> QED
  BY <1>3, <1>4

(* The hashes that compute_root goes through.                              *)
Climbs(over, hash, proof) ==
  /\ over[0] = hash
  /\ \A n \in 1..Len(proof) :
       over[n] = IF proof[n].right THEN HashPair(proof[n].sibling, over[n - 1])
                                   ELSE HashPair(over[n - 1], proof[n].sibling)

LEMMA RootClimbs ==
  ASSUME NEW hash, NEW proof, Len(proof) \in Nat
  PROVE  \E over : Climbs(over, hash, proof) /\ ComputeRoot(hash, proof) = over[Len(proof)]
<1> DEFINE top == Len(proof)
           Step(x, n) == IF proof[n].right THEN HashPair(proof[n].sibling, x)
                                           ELSE HashPair(x, proof[n].sibling)
           Over(g, k) == g = [n \in 0..k |-> IF n = 0 THEN hash ELSE Step(g[n - 1], n)]
           S == {k \in 0..top : \E g : Over(g, k)}
           over == CHOOSE f : f = [n \in 0..Len(proof) |->
                      IF n = 0 THEN hash
                      ELSE IF proof[n].right THEN HashPair(proof[n].sibling, f[n - 1])
                                             ELSE HashPair(f[n - 1], proof[n].sibling)]
<1>h. top \in Nat
  OBVIOUS
<1> HIDE DEF Step, top
<1>1. 0 \in S
  <2> DEFINE g == [n \in 0..0 |-> hash]
  <2>1. Over(g, 0)
    OBVIOUS
  <2> HIDE DEF g, Over
  <2> QED
    BY <1>h, <2>1
<1>2. ASSUME NEW k \in 0..(top - 1), k \in S PROVE k + 1 \in S
  <2>1. PICK g : Over(g, k)
    BY <1>2
  <2> DEFINE next == Step(g[k], k + 1)
             h == [n \in 0..(k + 1) |-> IF n = k + 1 THEN next ELSE g[n]]
  <2>2. ASSUME NEW n \in 0..(k + 1)
        PROVE  h[n] = IF n = 0 THEN hash ELSE Step(h[n - 1], n)
    <3>1. CASE n = k + 1
      <4>1. h[n] = next /\ h[n - 1] = g[k] /\ n # 0
        BY <1>h, <3>1
      <4> QED
        BY <3>1, <4>1
    <3>2. CASE n \in 0..k /\ n # 0
      <4>1. h[n] = g[n] /\ h[n - 1] = g[n - 1]
        BY <1>h, <3>2
      <4> QED
        BY <2>1, <3>2, <4>1
    <3>3. CASE n = 0
      <4>1. h[n] = g[n]
        BY <1>h, <3>3
      <4> QED
        BY <2>1, <3>3, <4>1
    <3> QED
      BY <1>h, <3>1, <3>2, <3>3
  <2>3. Over(h, k + 1)
    BY <2>2
  <2> HIDE DEF Over, h
  <2> QED
    BY <1>h, <2>3
<1> HIDE DEF S
<1>3. \A k \in 0..top : k \in S
  BY ONLY <1>h, <1>1, <1>2, BoundedInduction
<1>4. PICK g : Over(g, top)
  BY <1>h, <1>3 DEF S
<1>5. Over(over, top)
  BY <1>4, Zenon DEF Step, top
<1>6. ComputeRoot(hash, proof) = over[Len(proof)]
  BY DEF ComputeRoot
<1> HIDE DEF over
<1>7. over[0] = hash /\ \A n \in 1..top : over[n] = Step(over[n - 1], n)
  BY <1>h, <1>5
<1>8. Climbs(over, hash, proof)
  BY <1>7, Zenon DEF Step, top, Climbs
<1> QED
  BY <1>6, <1>8

(* A node and its sibling are the two below their parent.                  *)
LEMMA Joined ==
  ASSUME NEW N, NEW l \in Nat, NEW a \in Nat
  PROVE  /\ a % 2 = 1 => HashPair(GetNode(N, l, Sibling(a)), GetNode(N, l, a))
                            = Parent(N, l + 1, a \div 2)
         /\ a % 2 # 1 => HashPair(GetNode(N, l, a), GetNode(N, l, Sibling(a)))
                            = Parent(N, l + 1, a \div 2)
<1>1. /\ a % 2 = 1 => 2 * (a \div 2) = a - 1 /\ 2 * (a \div 2) + 1 = a
      /\ a % 2 # 1 => 2 * (a \div 2) = a /\ 2 * (a \div 2) + 1 = a + 1
  OBVIOUS
<1>2. (l + 1) - 1 = l
  OBVIOUS
<1> QED
  BY <1>1, <1>2 DEF Parent, Sibling

(* What stands on its path climbs to the root.                             *)
LEMMA RootOnPath ==
  ASSUME NEW N, NEW i \in Nat, i < Capacity, OnPath(N, i)
  PROVE  ComputeRoot(GetNode(N, 0, i), MerkleProof(N, i)) = RootOver(N)
<1> DEFINE at == IndexAt(i)
           proof == MerkleProof(N, i)
           top == Height - 1
           hash == GetNode(N, 0, i)
<1>1. Height \in Nat /\ top \in Nat /\ top >= 1
  BY MapAssumption
<1>2. /\ at[0] = i /\ at[top] = 0
      /\ \A m \in 0..Height : at[m] \in Nat
      /\ \A m \in 1..Height : at[m] = at[m - 1] \div 2
  BY Indices, IndexEnds
<1>3. /\ Len(proof) = top
      /\ \A n \in 1..top : /\ proof[n].right <=> at[n - 1] % 2 = 1
                           /\ proof[n].sibling = GetNode(N, n - 1, Sibling(at[n - 1]))
  BY Paths
<1>4. \A m \in 1..(top - 1) : GetNode(N, m, at[m]) = Parent(N, m, at[m])
  <2>1. top - 1 = Height - 2
    BY <1>1
  <2> QED
    BY <2>1 DEF OnPath
<1>o. RootOver(N) = Parent(N, top, at[top])
  BY <1>2 DEF RootOver
<1> HIDE DEF at, proof, hash, top
<1>5. PICK over : Climbs(over, hash, proof) /\ ComputeRoot(hash, proof) = over[top]
  BY <1>1, <1>3, RootClimbs
<1>6. ASSUME NEW n \in 0..(top - 1), over[n] = GetNode(N, n, at[n])
      PROVE  over[n + 1] = Parent(N, n + 1, at[n + 1])
  <2>1. /\ n + 1 \in 1..top /\ n + 1 \in 1..Height /\ (n + 1) - 1 = n
        /\ n \in Nat /\ n \in 0..Height
    BY <1>1 DEF top
  <2>2. at[n] \in Nat /\ at[n + 1] = at[n] \div 2
    BY <1>2, <2>1
  <2>3. /\ proof[n + 1].right <=> at[n] % 2 = 1
        /\ proof[n + 1].sibling = GetNode(N, n, Sibling(at[n]))
    BY <1>3, <2>1
  <2>4. over[n + 1] = IF proof[n + 1].right THEN HashPair(proof[n + 1].sibling, over[n])
                                            ELSE HashPair(over[n], proof[n + 1].sibling)
    BY <1>3, <1>5, <2>1 DEF Climbs
  <2>5. CASE at[n] % 2 = 1
    BY <1>6, <2>1, <2>2, <2>3, <2>4, <2>5, Joined
  <2>6. CASE at[n] % 2 # 1
    BY <1>6, <2>1, <2>2, <2>3, <2>4, <2>6, Joined
  <2> QED
    BY <2>5, <2>6
<1> DEFINE S == {n \in 0..(top - 1) : over[n] = GetNode(N, n, at[n])}
<1>7. 0 \in S
  BY <1>1, <1>2, <1>5 DEF Climbs, hash
<1>8. ASSUME NEW n \in 0..(top - 1 - 1), n \in S PROVE n + 1 \in S
  <2>1. n \in 0..(top - 1) /\ n + 1 \in 1..(top - 1) /\ n + 1 \in 0..(top - 1)
    BY <1>1
  <2>2. over[n + 1] = Parent(N, n + 1, at[n + 1])
    BY <1>6, <1>8
  <2>3. over[n + 1] = GetNode(N, n + 1, at[n + 1])
    BY <1>4, <2>1, <2>2
  <2> QED
    BY <2>1, <2>3
<1>9. top - 1 \in S
  <2> HIDE DEF S
  <2>1. top - 1 \in Nat
    BY <1>1
  <2>2. \A n \in 0..(top - 1) : n \in S
    BY ONLY <2>1, <1>7, <1>8, BoundedInduction
  <2> QED
    BY <2>1, <2>2
<1>10. over[top] = Parent(N, top, at[top])
  <2>1. (top - 1) + 1 = top /\ top - 1 \in 0..(top - 1)
    BY <1>1
  <2>2. over[top - 1] = GetNode(N, top - 1, at[top - 1])
    BY <1>9
  <2>3. over[(top - 1) + 1] = Parent(N, (top - 1) + 1, at[(top - 1) + 1])
    BY ONLY <1>6, <2>1, <2>2
  <2> QED
    BY <2>1, <2>3
<1> QED
  BY <1>5, <1>10, <1>o DEF hash, proof

(* The path of a leaf is the same before and after the leaf is set, and    *)
(* what stands on its path stays there.                                    *)
LEMMA SamePath ==
  ASSUME NEW N, NEW i \in Nat, NEW hash
  PROVE  MerkleProof(UpdateTree(N, i, hash), i) = MerkleProof(N, i)
<1> DEFINE at == IndexAt(i)
           U == UpdateTree(N, i, hash)
<1>1. ASSUME NEW n \in 1..(Height - 1)
      PROVE  GetNode(U, n - 1, Sibling(at[n - 1])) = GetNode(N, n - 1, Sibling(at[n - 1]))
  <2>1. n - 1 \in 0..Height /\ at[n - 1] \in Nat
    BY MapAssumption, Indices
  <2> HIDE DEF at
  <2>2. Sibling(at[n - 1]) # at[n - 1]
    BY <2>1 DEF Sibling
  <2> QED
    BY <2>2, TreeAfter DEF at
<1> QED
  BY <1>1 DEF MerkleProof

LEMMA StaysOnPath ==
  ASSUME NEW N, NEW i \in Nat, NEW j \in Nat, NEW hash, OnPath(N, j)
  PROVE  OnPath(UpdateTree(N, i, hash), j)
<1> DEFINE U == UpdateTree(N, i, hash)
           ai == IndexAt(i)
           aj == IndexAt(j)
<1>1. /\ Height \in Nat
      /\ \A m \in 0..Height : ai[m] \in Nat /\ aj[m] \in Nat
      /\ \A m \in 1..Height : ai[m] = ai[m - 1] \div 2
  <2>1. /\ ai \in [0..Height -> Nat] /\ aj \in [0..Height -> Nat]
        /\ \A m \in 1..Height : ai[m] = ai[m - 1] \div 2
    BY Indices
  <2> HIDE DEF ai, aj
  <2> QED
    BY <2>1, MapAssumption
<1>2. /\ \A m \in 1..(Height - 2) : GetNode(U, m, ai[m]) = Parent(U, m, ai[m])
      /\ \A m, k : ~ (m \in 0..(Height - 2) /\ k = ai[m]) => GetNode(U, m, k) = GetNode(N, m, k)
  BY TreeAfter DEF OnPath
<1>3. \A m \in 1..(Height - 2) : GetNode(N, m, aj[m]) = Parent(N, m, aj[m])
  BY DEF OnPath
<1> SUFFICES ASSUME NEW m \in 1..(Height - 2)
             PROVE  GetNode(U, m, aj[m]) = Parent(U, m, aj[m])
  BY DEF OnPath
<1> HIDE DEF U, ai, aj
<1>4. CASE aj[m] = ai[m]
  BY <1>2, <1>4
<1>5. CASE aj[m] # ai[m]
  <2>1. /\ m \in 1..Height /\ m - 1 \in 0..Height
        /\ ai[m] = ai[m - 1] \div 2 /\ ai[m - 1] \in Nat
        /\ m \in 0..Height /\ aj[m] \in Nat
    BY <1>1
  <2>2. 2 * aj[m] # ai[m - 1] /\ 2 * aj[m] + 1 # ai[m - 1]
    BY <1>5, <2>1
  <2>3. /\ GetNode(U, m - 1, 2 * aj[m]) = GetNode(N, m - 1, 2 * aj[m])
        /\ GetNode(U, m - 1, 2 * aj[m] + 1) = GetNode(N, m - 1, 2 * aj[m] + 1)
    BY <1>2, <2>2
  <2>4. GetNode(U, m, aj[m]) = GetNode(N, m, aj[m])
    BY <1>2, <1>5
  <2> QED
    BY <1>3, <2>3, <2>4 DEF Parent
<1> QED
  BY <1>4, <1>5

(* What a path and a new leaf make is the root of the tree with that leaf. *)
LEMMA RootAfter ==
  ASSUME NEW N, NEW i \in Nat, i < Capacity, NEW hash
  PROVE  ComputeRoot(hash, MerkleProof(N, i)) = RootOver(UpdateTree(N, i, hash))
BY TreeAfter, SamePath, RootOnPath

(* path_indices_to_index reads the index of the leaf back from its path.   *)
LEMMA PathLeadsBack ==
  ASSUME NEW N, NEW i \in Nat, i < Capacity
  PROVE  PathIndex(MerkleProof(N, i)) = i
<1> DEFINE at == IndexAt(i)
           proof == MerkleProof(N, i)
           top == Height - 1
           bit(n) == IF at[n - 1] % 2 = 1 THEN Pow2[n - 1] ELSE 0
           F == [p \in Nat \X (1..top) |-> p[1] + bit(p[2])]
           sum == CHOOSE f : f = [n \in 0..Len(proof) |->
                    IF n = 0 THEN 0
                    ELSE f[n - 1] + (IF proof[n].right THEN Pow2[n - 1] ELSE 0)]
<1>1. top \in 1..31 /\ Height = top + 1 /\ top \in Nat
  BY MapAssumption
<1>2. /\ at[0] = i /\ at[top] = 0
      /\ \A m \in 0..Height : at[m] \in Nat
      /\ \A m \in 1..Height : at[m] = at[m - 1] \div 2
  BY Indices, IndexEnds
<1>3. Len(proof) = top /\ \A n \in 1..top : proof[n].right <=> at[n - 1] % 2 = 1
  BY Paths
<1>4. PathIndex(proof) = sum[top]
  BY <1>3 DEF PathIndex
<1> HIDE DEF at, proof, top
<1>5. \A n \in 1..top : bit(n) \in Nat
  BY <1>1, PowersOfTwo
<1>6. PICK g \in [0..top -> Nat] : g[0] = 0 /\ \A n \in 1..top : g[n] = F[<<g[n - 1], n>>]
  <2>1. F \in [Nat \X (1..top) -> Nat]
    <3> HIDE DEF bit
    <3> QED
      BY <1>5
  <2> HIDE DEF F
  <2>2. Reaches(top, Nat, 0, F)
    BY <1>1, <2>1, Recursion
  <2> QED
    BY <2>2 DEF Reaches
<1>7. ASSUME NEW n \in 1..top PROVE g[n] = g[n - 1] + bit(n)
  <2> HIDE DEF bit
  <2>1. <<g[n - 1], n>> \in Nat \X (1..top)
    BY <1>1, <1>6
  <2>2. F[<<g[n - 1], n>>] = <<g[n - 1], n>>[1] + bit(<<g[n - 1], n>>[2])
    BY <2>1
  <2> QED
    BY <1>6, <2>2
<1>8. \A n \in 1..top : (IF proof[n].right THEN Pow2[n - 1] ELSE 0) = bit(n)
  BY <1>3, Zenon
<1>9. g = [n \in 0..top |-> IF n = 0 THEN 0
                            ELSE g[n - 1] + (IF proof[n].right THEN Pow2[n - 1] ELSE 0)]
  <2> HIDE DEF bit
  <2>1. ASSUME NEW n \in 0..top
        PROVE  g[n] = IF n = 0 THEN 0
                      ELSE g[n - 1] + (IF proof[n].right THEN Pow2[n - 1] ELSE 0)
    <3>1. CASE n = 0
      BY <1>6, <3>1
    <3>2. CASE n # 0
      <4>1. n \in 1..top
        BY <1>1, <3>2
      <4> QED
        BY <1>7, <1>8, <3>2, <4>1
    <3> QED
      BY <3>1, <3>2
  <2> QED
    BY <1>6, <2>1
<1>10. sum = [n \in 0..top |-> IF n = 0 THEN 0
                               ELSE sum[n - 1] + (IF proof[n].right THEN Pow2[n - 1] ELSE 0)]
  BY <1>3, <1>9
<1> HIDE DEF sum
<1>11. sum[0] = 0
  BY <1>1, <1>10
<1>12. \A n \in 1..top : sum[n] = sum[n - 1] + bit(n)
  <2> SUFFICES ASSUME NEW n \in 1..top PROVE sum[n] = sum[n - 1] + bit(n)
    OBVIOUS
  <2>1. n \in 0..top /\ n # 0
    BY <1>1
  <2>2. sum[n] = sum[n - 1] + (IF proof[n].right THEN Pow2[n - 1] ELSE 0)
    BY <1>10, <2>1, Zenon
  <2> QED
    BY <1>8, <2>2, Zenon
<1> DEFINE S == {n \in 0..top : sum[n] \in Nat /\ sum[n] + at[n] * Pow2[n] = i}
<1>13. 0 \in S
  <2>1. sum[0] + at[0] * Pow2[0] = i /\ 0 \in 0..top
    BY <1>1, <1>2, <1>11, PowersOfTwo
  <2> QED
    BY <1>11, <2>1
<1>14. ASSUME NEW n \in 0..(top - 1), n \in S PROVE n + 1 \in S
  <2>1. /\ n + 1 \in 1..top /\ n + 1 \in 1..Height /\ (n + 1) - 1 = n
        /\ n \in 0..32 /\ n + 1 \in 1..32 /\ n \in 0..Height /\ n + 1 \in 0..top
    BY <1>1
  <2>2. at[n] \in Nat /\ at[n + 1] = at[n] \div 2
    BY <1>2, <2>1
  <2>3. Pow2[n + 1] = 2 * Pow2[n] /\ Pow2[n] \in Nat
    BY <2>1, PowersOfTwo
  <2>4. sum[n + 1] = sum[n] + (IF at[n] % 2 = 1 THEN Pow2[n] ELSE 0)
    BY <1>12, <2>1
  <2>5. sum[n] \in Nat /\ sum[n] + at[n] * Pow2[n] = i
    BY <1>14
  <2>6. CASE at[n] % 2 = 1
    <3>1. at[n] = 2 * at[n + 1] + 1 /\ at[n + 1] \in Nat
      BY <2>2, <2>6
    <3>2. at[n] * Pow2[n] = at[n + 1] * Pow2[n + 1] + Pow2[n]
      BY <2>3, <3>1
    <3>3. sum[n + 1] = sum[n] + Pow2[n]
      BY <2>4, <2>6
    <3>4. Pow2[n + 1] \in Nat
      BY <2>3
    <3>5. at[n + 1] * Pow2[n + 1] \in Nat
      BY <3>1, <3>4
    <3> QED
      BY <2>1, <2>3, <2>5, <3>2, <3>3, <3>5
  <2>7. CASE at[n] % 2 # 1
    <3>1. at[n] = 2 * at[n + 1] /\ at[n + 1] \in Nat
      BY <2>2, <2>7
    <3>2. at[n] * Pow2[n] = at[n + 1] * Pow2[n + 1]
      BY <2>3, <3>1
    <3>3. sum[n + 1] = sum[n]
      BY <2>4, <2>5, <2>7
    <3> QED
      BY <2>1, <2>5, <3>2, <3>3
  <2> QED
    BY <2>6, <2>7
<1>15. top \in S
  <2> HIDE DEF S
  <2>1. \A n \in 0..top : n \in S
    BY ONLY <1>1, <1>13, <1>14, BoundedInduction
  <2> QED
    BY <1>1, <2>1
<1>16. sum[top] = i
  <2>1. sum[top] \in Nat /\ sum[top] + at[top] * Pow2[top] = i
    BY <1>15
  <2>2. Pow2[top] \in Nat
    <3>1. top \in 0..32
      BY <1>1
    <3> QED
      BY <3>1, PowersOfTwo
  <2> QED
    BY <1>2, <2>1, <2>2
<1> QED
  BY <1>4, <1>16 DEF proof, top

(* A map that is new: the levels are one hash behind, but the siblings of  *)
(* the first leaf are all empty.                                           *)
LEMMA NewLevels ==
  ASSUME NEW hash
  PROVE  /\ NewNodes(hash)[0] = hash /\ NewNodes(hash)[1] = hash
         /\ \A l \in 2..Height : NewNodes(hash)[l] = HashPair(NewNodes(hash)[l - 1], Zero)
<1> DEFINE Level(g, k) == g = [l \in 0..k |-> IF l <= 1 THEN hash ELSE HashPair(g[l - 1], Zero)]
           S == {k \in 0..Height : \E g : Level(g, k)}
           upTo == CHOOSE f : f = [l \in 0..Height |->
                      IF l <= 1 THEN hash ELSE HashPair(f[l - 1], Zero)]
<1>h. Height \in Nat /\ Height >= 2
  BY MapAssumption
<1> HIDE DEF HashPair, Zero
<1>1. 0 \in S
  <2> DEFINE g == [l \in 0..0 |-> hash]
  <2>1. Level(g, 0)
    OBVIOUS
  <2> HIDE DEF g, Level
  <2> QED
    BY <1>h, <2>1
<1>2. ASSUME NEW k \in 0..(Height - 1), k \in S PROVE k + 1 \in S
  <2>1. PICK g : Level(g, k)
    BY <1>2
  <2> DEFINE next == IF k = 0 THEN hash ELSE HashPair(g[k], Zero)
             h == [l \in 0..(k + 1) |-> IF l = k + 1 THEN next ELSE g[l]]
  <2>2. ASSUME NEW l \in 0..(k + 1)
        PROVE  h[l] = IF l <= 1 THEN hash ELSE HashPair(h[l - 1], Zero)
    <3>1. CASE l = k + 1
      <4>1. h[l] = next /\ h[l - 1] = g[k] /\ (l <= 1 <=> k = 0)
        BY <1>h, <3>1
      <4> QED
        BY <4>1
    <3>2. CASE l \in 0..k /\ l > 1
      <4>1. h[l] = g[l] /\ h[l - 1] = g[l - 1]
        BY <1>h, <3>2
      <4>2. g[l] = HashPair(g[l - 1], Zero)
        BY <1>h, <2>1, <3>2
      <4> QED
        BY <3>2, <4>1, <4>2
    <3>3. CASE l \in 0..k /\ l <= 1
      <4>1. h[l] = g[l]
        BY <1>h, <3>3
      <4> QED
        BY <2>1, <3>3, <4>1
    <3> QED
      BY <1>h, <3>1, <3>2, <3>3
  <2>3. Level(h, k + 1)
    BY <2>2
  <2> HIDE DEF Level, h
  <2> QED
    BY <1>h, <2>3
<1> HIDE DEF S
<1>3. \A k \in 0..Height : k \in S
  BY ONLY <1>h, <1>1, <1>2, BoundedInduction
<1>4. \E g : Level(g, Height)
  <2> HIDE DEF Level
  <2>1. Height \in S
    BY <1>h, <1>3
  <2> QED
    BY <2>1 DEF S
<1>5. Level(upTo, Height)
  BY <1>4
<1>6. NewNodes(hash) = upTo
  BY DEF NewNodes
<1> HIDE DEF upTo
<1>7. /\ upTo[0] = hash /\ upTo[1] = hash
      /\ \A l \in 2..Height : upTo[l] = HashPair(upTo[l - 1], Zero)
  BY <1>h, <1>5
<1> QED
  BY <1>6, <1>7

LEMMA NewRoot ==
  Init => ComputeRoot(LeafHash(FirstLeaf), MerkleProof(nodes, 0)) = internal_root
<1> SUFFICES ASSUME Init
             PROVE  ComputeRoot(LeafHash(FirstLeaf), MerkleProof(nodes, 0)) = internal_root
  OBVIOUS
<1> DEFINE hash == LeafHash(FirstLeaf)
           new == NewNodes(hash)
           proof == MerkleProof(nodes, 0)
           at == IndexAt(0)
           top == Height - 1
<1>1. top \in 1..31 /\ Height = top + 1 /\ top \in Nat
  BY MapAssumption
<1>2. nodes = [p \in (0..top) \X {0} |-> new[p[1]]] /\ internal_root = HashPair(new[top], Zero)
  BY DEF Init
<1>3. at[0] = 0 /\ \A m \in 1..Height : at[m] = at[m - 1] \div 2
  BY Indices
<1>4. /\ Len(proof) = top
      /\ \A n \in 1..top : /\ proof[n].right <=> at[n - 1] % 2 = 1
                           /\ proof[n].sibling = GetNode(nodes, n - 1, Sibling(at[n - 1]))
  BY Paths
<1>5. /\ new[0] = hash /\ new[1] = hash
      /\ \A l \in 2..Height : new[l] = HashPair(new[l - 1], Zero)
  BY NewLevels
<1> HIDE DEF hash, new, proof, at, top
<1>6. PICK over : Climbs(over, hash, proof) /\ ComputeRoot(hash, proof) = over[top]
  BY <1>1, <1>4, RootClimbs
<1> DEFINE S == {n \in 0..top : at[n] = 0}
<1>7. \A n \in 0..top : n \in S
  <2>1. 0 \in S
    BY <1>1, <1>3
  <2>2. ASSUME NEW n \in 0..(top - 1), n \in S PROVE n + 1 \in S
    <3>1. n + 1 \in 1..Height /\ (n + 1) - 1 = n /\ n + 1 \in 0..top
      BY <1>1
    <3>2. at[n + 1] = 0 \div 2
      BY <1>3, <2>2, <3>1
    <3> QED
      BY <3>1, <3>2
  <2> HIDE DEF S
  <2> QED
    BY ONLY <1>1, <2>1, <2>2, BoundedInduction
<1>8. \A n \in 1..top : over[n] = HashPair(over[n - 1], Zero)
  <2> SUFFICES ASSUME NEW n \in 1..top PROVE over[n] = HashPair(over[n - 1], Zero)
    OBVIOUS
  <2>1. n - 1 \in 0..top
    BY <1>1
  <2>2. at[n - 1] = 0
    BY <1>7, <2>1
  <2>3. Sibling(at[n - 1]) = 1 /\ at[n - 1] % 2 # 1
    BY <2>2 DEF Sibling
  <2>4. <<n - 1, 1>> \notin DOMAIN nodes
    BY <1>2
  <2>5. proof[n].sibling = Zero /\ ~ proof[n].right
    BY <1>4, <2>3, <2>4 DEF GetNode
  <2> QED
    BY <1>4, <1>6, <2>5 DEF Climbs
<1> DEFINE Q == {n \in 0..(top - 1) : over[n] = new[n + 1]}
<1>9. 0 \in Q
  BY <1>1, <1>5, <1>6 DEF Climbs
<1>10. ASSUME NEW n \in 0..(top - 1 - 1), n \in Q PROVE n + 1 \in Q
  <2>1. /\ n + 1 \in 1..top /\ n + 1 \in 0..(top - 1) /\ (n + 1) - 1 = n
        /\ (n + 1) + 1 \in 2..Height /\ ((n + 1) + 1) - 1 = n + 1
    BY <1>1
  <2>2. over[n + 1] = HashPair(over[n], Zero)
    BY <1>8, <2>1
  <2>3. new[(n + 1) + 1] = HashPair(new[n + 1], Zero)
    BY <1>5, <2>1
  <2> QED
    BY <1>10, <2>1, <2>2, <2>3
<1>11. top - 1 \in Q
  <2> HIDE DEF Q
  <2>1. top - 1 \in Nat
    BY <1>1
  <2>2. \A n \in 0..(top - 1) : n \in Q
    BY ONLY <1>9, <1>10, <2>1, BoundedInduction
  <2> QED
    BY <2>1, <2>2
<1>12. over[top] = HashPair(new[top], Zero)
  <2>1. over[top - 1] = new[top]
    BY <1>1, <1>11
  <2>2. over[top] = HashPair(over[top - 1], Zero)
    BY <1>1, <1>8
  <2> QED
    BY <2>1, <2>2
<1> QED
  BY <1>2, <1>6, <1>12 DEF hash, proof

-----------------------------------------------------------------------------
(* The tree holds the leaves: each stands on a path to the root, but for   *)
(* the first leaf of a new map, whose path is repaired when it changes.    *)
Holds(N, leaf) ==
  OnPath(N, leaf.index) /\ GetNode(N, 0, leaf.index) = LeafHash(leaf)

Fresh ==
  /\ Len(sorted_leaves) = 1
  /\ ComputeRoot(LeafHash(sorted_leaves[1]), MerkleProof(nodes, sorted_leaves[1].index))
       = internal_root

Whole ==
  /\ internal_root = RootOver(nodes)
  /\ \A i \in Positions : Holds(nodes, sorted_leaves[i])

TreeInv ==
  /\ next_index <= Capacity
  /\ \A i, j \in Positions : i # j => sorted_leaves[i].index # sorted_leaves[j].index
  /\ Fresh \/ Whole

LEMMA IndexTypes ==
  ASSUME IInv, NEW i \in Positions
  PROVE  /\ leaf_indices[sorted_leaves[i].key] = sorted_leaves[i].index
         /\ sorted_leaves[i].index \in Nat
         /\ sorted_leaves[i].index < next_index
         /\ next_index \in Nat
<1>1. leaf_indices \in [Keys -> 0..(next_index - 1)] /\ next_index \in Nat
  BY DEF IInv, IndexInv, ListInv
<1>2. sorted_leaves[i].key \in Keys
  BY ListTypes DEF Keys, IInv
<1>3. leaf_indices[sorted_leaves[i].key] = sorted_leaves[i].index
  BY DEF IInv, IndexInv
<1> QED
  BY <1>1, <1>2, <1>3

LEMMA HoldsAfter ==
  ASSUME NEW N, NEW i \in Nat, NEW hash, NEW leaf, leaf.index \in Nat, leaf.index # i,
         Holds(N, leaf)
  PROVE  Holds(UpdateTree(N, i, hash), leaf)
<1>1. OnPath(UpdateTree(N, i, hash), leaf.index)
  BY StaysOnPath DEF Holds
<1>2. IndexAt(i)[0] = i
  BY Indices
<1>3. GetNode(UpdateTree(N, i, hash), 0, leaf.index) = GetNode(N, 0, leaf.index)
  BY <1>2, TreeAfter
<1> QED
  BY <1>1, <1>3 DEF Holds

LEMMA HoldsIt ==
  ASSUME NEW N, NEW leaf, leaf.index \in Nat
  PROVE  Holds(UpdateTree(N, leaf.index, LeafHash(leaf)), leaf)
BY TreeAfter DEF Holds

LEMMA HoldsSame ==
  ASSUME NEW N, NEW leaf, NEW other, Holds(N, leaf), other.index = leaf.index,
         LeafHash(other) = LeafHash(leaf)
  PROVE  Holds(N, other)
BY DEF Holds

(* The path of every leaf leads to the root.                               *)
LEMMA LeavesLeadToTheRoot ==
  ASSUME IInv, TreeInv, NEW i \in Positions
  PROVE  ComputeRoot(LeafHash(sorted_leaves[i]), MerkleProof(nodes, sorted_leaves[i].index))
           = internal_root
<1>1. sorted_leaves[i].index \in Nat /\ sorted_leaves[i].index < Capacity
  <2>1. Capacity \in Nat
    BY CapacityType
  <2> QED
    BY <2>1, IndexTypes DEF TreeInv
<1>2. CASE Fresh
  <2>1. i = 1
    BY <1>2 DEF Fresh, Positions
  <2> QED
    BY <1>2, <2>1 DEF Fresh
<1>3. CASE Whole
  BY <1>1, <1>3, RootOnPath DEF Whole, Holds
<1> QED
  BY <1>2, <1>3 DEF TreeInv

LEMMA InitTree == Init => TreeInv
<1> SUFFICES ASSUME Init PROVE TreeInv
  OBVIOUS
<1>1. sorted_leaves = <<FirstLeaf>> /\ next_index = 1
  BY DEF Init
<1>2. Len(sorted_leaves) = 1 /\ sorted_leaves[1] = FirstLeaf /\ Positions = {1}
  BY <1>1 DEF Positions
<1>3. FirstLeaf.index = 0
  BY DEF FirstLeaf
<1>4. Fresh
  BY <1>2, <1>3, NewRoot DEF Fresh
<1>5. Capacity \in Nat \ {0}
  BY CapacityType
<1> QED
  BY <1>1, <1>2, <1>4, <1>5 DEF TreeInv

(* A step of the tree while the other leaves stay as they are.             *)
LEMMA OthersHold ==
  ASSUME IInv, TreeInv, NEW p \in Positions, NEW i \in Positions, i # p, NEW hash
  PROVE  Holds(UpdateTree(nodes, sorted_leaves[p].index, hash), sorted_leaves[i])
<1>1. ~ Fresh
  <2>1. ~ (Len(sorted_leaves) = 1)
    BY DEF Positions
  <2> QED
    BY <2>1 DEF Fresh
<1>2. Holds(nodes, sorted_leaves[i]) /\ sorted_leaves[i].index # sorted_leaves[p].index
  BY <1>1 DEF TreeInv, Whole
<1> QED
  BY <1>2, IndexTypes, HoldsAfter

LEMMA WriteTree ==
  ASSUME IInv, TreeInv, NEW key \in Key, NEW value \in Value, Write(key, value)
  PROVE  TreeInv'
<1> DEFINE p == PositionOf(key)
           leaf == Revalued(key, value)
<1>1. p \in Positions /\ sorted_leaves[p].key = key
  <2>1. key \in Keys
    BY DEF Write, IInv, IndexInv
  <2>2. PICK i \in Positions : sorted_leaves[i].key = key
    BY <2>1, ListTypes DEF Keys, IInv
  <2> QED
    BY <2>2, PositionIsUnique DEF IInv
<1>2. /\ sorted_leaves' = [sorted_leaves EXCEPT ![p].value = value]
      /\ nodes' = UpdateTree(nodes, leaf_indices[key], LeafHash(leaf))
      /\ internal_root' = RootOver(nodes')
      /\ next_index' = next_index
  BY DEF Write
<1>3. leaf = [sorted_leaves[p] EXCEPT !.value = value]
  BY DEF Revalued, LeafOf
<1> HIDE DEF p, leaf
<1>4. /\ DOMAIN sorted_leaves = Positions /\ sorted_leaves[p] \in Leaf
      /\ sorted_leaves \in Seq(Leaf)
  BY <1>1, ListTypes DEF IInv, ListInv
<1>5. leaf \in Leaf /\ leaf.index = sorted_leaves[p].index
  BY <1>3, <1>4 DEF Leaf
<1>6. /\ sorted_leaves' = [sorted_leaves EXCEPT ![p] = leaf]
      /\ Len(sorted_leaves') = Len(sorted_leaves)
  BY <1>1, <1>2, <1>3, <1>4, <1>5 DEF Positions
<1>7. /\ Positions' = Positions
      /\ \A i \in Positions : sorted_leaves'[i] = IF i = p THEN leaf ELSE sorted_leaves[i]
  BY <1>4, <1>6 DEF Positions
<1>8. \A i \in Positions : sorted_leaves'[i].index = sorted_leaves[i].index
  BY <1>5, <1>7
<1>9. nodes' = UpdateTree(nodes, sorted_leaves[p].index, LeafHash(leaf))
  BY <1>1, <1>2, IndexTypes
<1>10. ASSUME NEW i \in Positions PROVE Holds(nodes', sorted_leaves'[i])
  <2>1. CASE i = p
    <3>1. leaf.index \in Nat
      BY <1>1, <1>5, IndexTypes
    <3> QED
      BY <1>5, <1>7, <1>9, <2>1, <3>1, HoldsIt
  <2>2. CASE i # p
    <3>1. Holds(nodes', sorted_leaves[i])
      BY <1>1, <1>9, <2>2, OthersHold
    <3> QED
      BY <1>7, <2>2, <3>1
  <2> QED
    BY <2>1, <2>2
<1>11. Whole'
  BY <1>2, <1>7, <1>10 DEF Whole
<1> QED
  BY <1>2, <1>7, <1>8, <1>11 DEF TreeInv, Capacity

LEMMA InsertTree ==
  ASSUME IInv, TreeInv, NEW key \in Key, NEW value \in Value, Insert(key, value)
  PROVE  TreeInv'
<1> DEFINE m == LowPosition(key)
           low == UpdatedLow(key)
           new == NewLeaf(key, value)
           N1 == NodesAfterLow(key)
<1>1. InsertedBehind(m, key, value)
  BY InsertedLeaves
<1>2. /\ next_index < Capacity /\ next_index' = next_index + 1
      /\ nodes' = NodesAfterInsert(key, value)
      /\ internal_root' = RootOver(nodes')
  BY DEF Insert
<1>3. /\ m \in Positions
      /\ low = [sorted_leaves[m] EXCEPT !.next_key = key]
      /\ N1 = UpdateTree(nodes, leaf_indices[sorted_leaves[m].key], LeafHash(low))
      /\ NodesAfterInsert(key, value) = UpdateTree(N1, next_index, LeafHash(new))
      /\ new = [key |-> key, value |-> value,
                next_key |-> sorted_leaves[m].next_key, index |-> next_index]
  BY <1>1 DEF InsertedBehind, UpdatedLow, FindLowLeaf, NodesAfterLow, NodesAfterInsert, NewLeaf
<1> HIDE DEF m, low, new, N1
<1>4. /\ Len(sorted_leaves) \in Nat /\ Len(sorted_leaves') = Len(sorted_leaves) + 1
      /\ m \in Nat /\ \A i \in Positions : i \in Nat
      /\ Capacity \in Nat
  <2>1. Capacity \in Nat
    BY CapacityType
  <2> QED
    BY <1>1, <1>3, <2>1, ListTypes DEF InsertedBehind, IInv
<1>5. /\ low.key = sorted_leaves[m].key /\ low.value = sorted_leaves[m].value
      /\ low.next_key = key /\ low.index = sorted_leaves[m].index
  <2>1. sorted_leaves[m] \in Leaf
    BY <1>3, ListTypes DEF IInv
  <2> QED
    BY <1>3, <2>1 DEF Leaf
<1>6. N1 = UpdateTree(nodes, sorted_leaves[m].index, LeafHash(low))
  BY <1>3, IndexTypes
<1>7. \A i \in Positions : sorted_leaves[i].index \in Nat /\ sorted_leaves[i].index < next_index
  BY IndexTypes
<1>8. /\ \A i \in Positions : i < m => sorted_leaves'[i].index = sorted_leaves[i].index
      /\ sorted_leaves'[m].index = sorted_leaves[m].index
      /\ sorted_leaves'[m + 1] = new
      /\ \A i \in Positions : i > m => sorted_leaves'[i + 1] = sorted_leaves[i]
      /\ \A i \in Positions : i < m => LeafHash(sorted_leaves'[i]) = LeafHash(sorted_leaves[i])
      /\ LeafHash(sorted_leaves'[m]) = LeafHash(low)
  <2>1. \A i \in Positions : i <= m =>
          /\ sorted_leaves'[i].key = sorted_leaves[i].key
          /\ sorted_leaves'[i].value = sorted_leaves[i].value
          /\ sorted_leaves'[i].index = sorted_leaves[i].index
          /\ i = m => sorted_leaves'[i].next_key = key
          /\ i # m => sorted_leaves'[i].next_key = sorted_leaves[i].next_key
    BY <1>1 DEF InsertedBehind
  <2>2. \A i \in Positions : i < m => i <= m /\ i # m
    BY <1>4
  <2>3. m <= m
    BY <1>4
  <2>4. /\ sorted_leaves'[m].key = low.key /\ sorted_leaves'[m].value = low.value
        /\ sorted_leaves'[m].next_key = low.next_key
    BY <1>3, <1>5, <2>1, <2>3
  <2>5. LeafHash(sorted_leaves'[m]) = LeafHash(low)
    BY <2>4 DEF LeafHash
  <2>6. /\ sorted_leaves'[m + 1] = new
        /\ \A i \in Positions : i > m => sorted_leaves'[i + 1] = sorted_leaves[i]
    BY <1>1, <1>3 DEF InsertedBehind
  <2> QED
    BY <1>3, <2>1, <2>2, <2>3, <2>5, <2>6 DEF LeafHash
<1>9. new.index = next_index /\ next_index \in Nat
  BY <1>3 DEF IInv, ListInv
<1>10. ASSUME NEW j \in Positions'
       PROVE  \/ j \in Positions /\ j < m
              \/ j = m
              \/ j = m + 1
              \/ \E i \in Positions : i > m /\ j = i + 1
  <2>1. j \in 1..(Len(sorted_leaves) + 1) /\ m \in 1..Len(sorted_leaves)
    BY <1>3, <1>4 DEF Positions
  <2>2. CASE j > m + 1
    <3>1. j - 1 \in Positions /\ j - 1 > m /\ j = (j - 1) + 1
      BY <1>4, <2>1, <2>2 DEF Positions
    <3> QED
      BY <3>1
  <2>3. CASE j < m
    BY <1>4, <2>1, <2>3 DEF Positions
  <2> QED
    BY <1>4, <2>1, <2>2, <2>3
<1>11. ASSUME NEW i \in Positions, i # m
       PROVE  Holds(nodes', sorted_leaves[i])
  <2>1. Holds(N1, sorted_leaves[i])
    BY <1>3, <1>6, <1>11, OthersHold
  <2>2. sorted_leaves[i].index \in Nat /\ sorted_leaves[i].index # next_index
    BY <1>7, <1>9
  <2> QED
    BY <1>2, <1>3, <1>9, <2>1, <2>2, HoldsAfter
<1>12. Holds(nodes', low)
  <2>1. low.index \in Nat /\ low.index # next_index
    BY <1>3, <1>5, <1>7, <1>9
  <2>2. Holds(N1, low)
    BY <1>5, <1>6, <2>1, HoldsIt
  <2>3. Holds(UpdateTree(N1, next_index, LeafHash(new)), low)
    BY ONLY <1>9, <2>1, <2>2, HoldsAfter
  <2> QED
    BY <1>2, <1>3, <2>3
<1>13. Holds(nodes', new)
  BY <1>2, <1>3, <1>9, HoldsIt
<1>14. ASSUME NEW j \in Positions' PROVE Holds(nodes', sorted_leaves'[j])
  <2>1. CASE j \in Positions /\ j < m
    <3>1. j # m
      BY <1>4, <2>1
    <3> QED
      BY <1>8, <1>11, <2>1, <3>1, HoldsSame
  <2>2. CASE j = m
    BY <1>5, <1>8, <1>12, <2>2, HoldsSame
  <2>3. CASE j = m + 1
    BY <1>8, <1>13, <2>3
  <2>4. ASSUME NEW i \in Positions, i > m, j = i + 1 PROVE Holds(nodes', sorted_leaves'[j])
    <3>1. i # m
      BY <1>4, <2>4
    <3> QED
      BY <1>8, <1>11, <2>4, <3>1
  <2> QED
    BY <1>10, <2>1, <2>2, <2>3, <2>4
<1>15. Whole'
  BY <1>2, <1>14 DEF Whole
<1>16. ASSUME NEW j \in Positions', NEW k \in Positions', j # k
       PROVE  sorted_leaves'[j].index # sorted_leaves'[k].index
  <2> DEFINE Old(a) == IF a <= m THEN a ELSE a - 1
  <2>1. ASSUME NEW a \in Positions'
        PROVE  IF a = m + 1 THEN sorted_leaves'[a].index = next_index
               ELSE /\ Old(a) \in Positions
                    /\ sorted_leaves'[a].index = sorted_leaves[Old(a)].index
    <3>1. CASE a \in Positions /\ a < m
      BY <1>4, <1>8, <3>1
    <3>2. CASE a = m
      BY <1>3, <1>4, <1>8, <3>2
    <3>3. CASE a = m + 1
      BY <1>8, <1>9, <3>3
    <3>4. ASSUME NEW i \in Positions, i > m, a = i + 1
          PROVE  /\ a # m + 1 /\ Old(a) \in Positions
                 /\ sorted_leaves'[a].index = sorted_leaves[Old(a)].index
      <4>1. i \in Nat /\ Old(a) = i /\ a # m + 1
        BY <1>4, <3>4
      <4> QED
        BY <1>8, <3>4, <4>1
    <3> QED
      BY <1>10, <3>1, <3>2, <3>3, <3>4
  <2>2. \A a \in Positions' : a \in Nat
    BY <1>4 DEF Positions
  <2>3. \A a, b \in Positions : a # b => sorted_leaves[a].index # sorted_leaves[b].index
    BY DEF TreeInv
  <2>4. \A b \in Positions : sorted_leaves[b].index # next_index
    BY <1>7, <1>9
  <2>5. j # m + 1 /\ k # m + 1 => Old(j) # Old(k)
    BY <1>4, <1>16, <2>2
  <2> HIDE DEF Old
  <2> QED
    BY <2>1, <2>3, <2>4, <2>5, <1>16
<1>17. next_index' <= Capacity
  BY <1>2, <1>4, <1>9
<1> QED
  BY <1>15, <1>16, <1>17 DEF TreeInv, Capacity

LEMMA TreeStep == IInv /\ TreeInv /\ [Next]_vars => TreeInv'
<1> SUFFICES ASSUME IInv, TreeInv, [Next]_vars PROVE TreeInv'
  OBVIOUS
<1>1. CASE Next
  <2>1. PICK key \in Key, value \in Value : Insert(key, value) \/ Write(key, value)
    BY <1>1 DEF Next, Update, Set
  <2> QED
    BY <2>1, InsertTree, WriteTree
<1>2. CASE UNCHANGED vars
  <2>1. /\ sorted_leaves' = sorted_leaves /\ nodes' = nodes
        /\ internal_root' = internal_root /\ next_index' = next_index
    BY <1>2 DEF vars
  <2>2. Positions' = Positions
    BY <2>1 DEF Positions
  <2>3. (Fresh => Fresh') /\ (Whole => Whole')
    BY <2>1, <2>2 DEF Fresh, Whole
  <2> QED
    BY <2>1, <2>2, <2>3 DEF TreeInv, Capacity
<1> QED
  BY <1>1, <1>2

LEMMA TreeInductive == Spec => [](IInv /\ TreeInv)
<1>1. IInv /\ TreeInv /\ [Next]_vars => TreeInv'
  BY TreeStep
<1> QED
  BY <1>1, InitTree, Inductive, PTL DEF Spec

(* The checks that a program makes on a path hold for every leaf.          *)
LEMMA LeavesVerify ==
  ASSUME IInv, TreeInv, NEW i \in Positions
  PROVE  Verifies(Root, sorted_leaves[i], MerkleProof(nodes, sorted_leaves[i].index), next_index)
<1> DEFINE path == MerkleProof(nodes, sorted_leaves[i].index)
<1>1. Len(path) = Height - 1 /\ Height - 1 \in 1..32
  BY IndexTypes, Paths, MapAssumption
<1>2. LongEnough(path, next_index)
  <2>1. Pow2[Height - 1] \in Nat /\ next_index \in Nat /\ next_index <= Pow2[Height - 1]
    BY CapacityType DEF TreeInv, Capacity, IInv, ListInv
  <2> HIDE DEF path
  <2> QED
    BY <1>1, <2>1 DEF LongEnough
<1>3. ComputeRoot(LeafHash(sorted_leaves[i]), path) = internal_root
  BY LeavesLeadToTheRoot
<1> QED
  BY <1>2, <1>3 DEF Verifies, Root

LEMMA WhereKeysAre ==
  ASSUME IInv, NEW k \in Keys
  PROVE  \E i \in Positions : /\ sorted_leaves[i].key = k /\ LeafOf(k) = sorted_leaves[i]
                              /\ PositionOf(k) = i
                              /\ leaf_indices[k] = sorted_leaves[i].index
<1>1. PICK i \in Positions : sorted_leaves[i].key = k
  BY ListTypes DEF Keys, IInv
<1>2. PositionOf(k) = i
  BY <1>1, PositionIsUnique DEF IInv
<1> QED
  BY <1>1, <1>2, IndexTypes DEF LeafOf

LEMMA PresentVerify ==
  ASSUME IInv, TreeInv, NEW k \in Keys, NEW v
  PROVE  VerifyMembership(Root, MembershipProof(k), k, v, next_index) <=> v = LeafOf(k).value
<1>1. PICK i \in Positions : /\ sorted_leaves[i].key = k /\ LeafOf(k) = sorted_leaves[i]
                             /\ leaf_indices[k] = sorted_leaves[i].index
  BY WhereKeysAre
<1>2. /\ MembershipProof(k).leaf = sorted_leaves[i]
      /\ MembershipProof(k).merkle_proof = MerkleProof(nodes, sorted_leaves[i].index)
  BY <1>1 DEF MembershipProof
<1>3. Verifies(Root, sorted_leaves[i], MerkleProof(nodes, sorted_leaves[i].index), next_index)
  BY LeavesVerify
<1> QED
  BY <1>1, <1>2, <1>3 DEF VerifyMembership

LEMMA AbsentVerify ==
  ASSUME IInv, TreeInv, NEW k \in Key, k \notin Keys
  PROVE  VerifyNonMembership(Root, NonMembershipProof(k), k, next_index)
<1> DEFINE m == LowPosition(k)
<1>1. /\ m \in Positions /\ sorted_leaves[m].key < k
      /\ \A j \in Positions : j > m => k < sorted_leaves[j].key
  BY TheGap DEF IInv
<1>2. /\ NonMembershipProof(k).low_leaf = sorted_leaves[m]
      /\ NonMembershipProof(k).merkle_proof = MerkleProof(nodes, sorted_leaves[m].index)
  BY <1>1, IndexTypes DEF NonMembershipProof, FindLowLeaf
<1> HIDE DEF m
<1>3. Verifies(Root, sorted_leaves[m], MerkleProof(nodes, sorted_leaves[m].index), next_index)
  BY <1>1, LeavesVerify
<1>4. InGap(k, sorted_leaves[m])
  <2>1. k \in Nat /\ sorted_leaves[m].key \in Nat
    BY <1>1, MapAssumption, ListTypes DEF IInv
  <2>2. CASE m = Len(sorted_leaves)
    <3>1. sorted_leaves[m].next_key = 0
      BY <1>1, <2>2 DEF IInv, ListInv
    <3> QED
      BY <1>1, <2>1, <3>1 DEF InGap
  <2>3. CASE m # Len(sorted_leaves)
    <3>1. m + 1 \in Positions /\ m + 1 > m
      <4>1. m \in 1..Len(sorted_leaves) /\ Len(sorted_leaves) \in Nat
        BY <1>1, ListTypes DEF Positions, IInv
      <4> QED
        BY <2>3, <4>1 DEF Positions
    <3>2. sorted_leaves[m].next_key = sorted_leaves[m + 1].key
      BY <1>1, <2>3 DEF IInv, ListInv
    <3> QED
      BY <1>1, <2>1, <3>1, <3>2 DEF InGap
  <2> QED
    BY <2>2, <2>3
<1> QED
  BY <1>2, <1>3, <1>4 DEF VerifyNonMembership

(* The witnesses of the two operations that have one.                      *)
LEMMA UpdateVerifies ==
  ASSUME IInv, TreeInv, NEW key \in Key, NEW value \in Value, Write(key, value)
  PROVE  LET w == UpdateWitness(key, value)
         IN  /\ VerifyUpdate(w) /\ w.kind = "update"
             /\ w.old_root = Root /\ w.new_root = Root'
<1> DEFINE w == UpdateWitness(key, value)
           leaf == Revalued(key, value)
           N == UpdateTree(nodes, leaf_indices[key], LeafHash(leaf))
           newRoot == CombinedRoot(RootOver(N), next_index)
           old == LeafOf(key).value
           proof == MembershipProof(key)
<1>1. /\ w.kind = "update" /\ w.key = key /\ w.old_value = old /\ w.new_value = value
      /\ w.old_root = Root /\ w.new_root = newRoot /\ w.tree_length = next_index
      /\ w.membership_proof = proof /\ w.updated_leaf = leaf
  <2> HIDE DEF leaf, newRoot, old, proof
  <2>1. w = [kind |-> "update", key |-> key,
             old_value |-> old, new_value |-> value,
             old_root |-> Root, new_root |-> newRoot,
             tree_length |-> next_index, membership_proof |-> proof,
             updated_leaf |-> leaf]
    BY DEF UpdateWitness, old, newRoot, N, leaf, proof
  <2> HIDE DEF w
  <2> QED
    BY <2>1
<1>2. key \in Keys
  BY DEF Write, IInv, IndexInv
<1>3. PICK i \in Positions : LeafOf(key) = sorted_leaves[i] /\ leaf_indices[key] = sorted_leaves[i].index
  BY <1>2, WhereKeysAre
<1>4. proof.leaf = LeafOf(key) /\ proof.merkle_proof = MerkleProof(nodes, leaf_indices[key])
  BY DEF MembershipProof
<1>5. leaf_indices[key] \in Nat /\ leaf_indices[key] < Capacity
  <2>1. Capacity \in Nat
    BY CapacityType
  <2> QED
    BY <1>3, <2>1, IndexTypes DEF TreeInv
<1>6. newRoot = CombinedRoot(ComputeRoot(LeafHash(leaf), MerkleProof(nodes, leaf_indices[key])), next_index)
  BY <1>5, RootAfter
<1>7. VerifyMembership(Root, proof, key, old, next_index)
  BY <1>2, PresentVerify
<1>8. leaf = [LeafOf(key) EXCEPT !.value = value]
  BY DEF Revalued
<1>9. newRoot = Root'
  BY DEF Write, Root
<1> HIDE DEF w, leaf, N, newRoot, old, proof
<1>10. VerifyUpdate(w)
  BY <1>1, <1>4, <1>6, <1>7, <1>8 DEF VerifyUpdate
<1> QED
  BY <1>1, <1>9, <1>10 DEF w

LEMMA InsertVerifies ==
  ASSUME IInv, TreeInv, NEW key \in Key, NEW value \in Value, Insert(key, value)
  PROVE  LET w == InsertWitness(key, value)
         IN  /\ VerifyInsert(w) /\ w.kind = "insert"
             /\ w.old_root = Root /\ w.new_root = Root'
<1> DEFINE w == InsertWitness(key, value)
           newRoot == CombinedRoot(RootOver(NodesAfterInsert(key, value)), next_index + 1)
           proof == NonMembershipProof(key)
           before == NonMembershipProof(key).merkle_proof
           low == UpdatedLow(key)
           new == NewLeaf(key, value)
           path == NewLeafPath(key)
           m == LowPosition(key)
<1>1. /\ w.kind = "insert" /\ w.key = key /\ w.value = value
      /\ w.old_root = Root /\ w.new_root = newRoot
      /\ w.new_leaf_index = next_index /\ w.tree_length = next_index
      /\ w.non_membership_proof = proof /\ w.low_leaf_proof_before = before
      /\ w.updated_low_leaf = low /\ w.new_leaf = new /\ w.new_leaf_proof_after = path
  <2> HIDE DEF newRoot, proof, before, low, new, path
  <2>1. w = [kind |-> "insert", key |-> key, value |-> value,
             old_root |-> Root, new_root |-> newRoot,
             new_leaf_index |-> next_index, tree_length |-> next_index,
             non_membership_proof |-> proof, low_leaf_proof_before |-> before,
             updated_low_leaf |-> low, new_leaf |-> new, new_leaf_proof_after |-> path]
    BY DEF InsertWitness, newRoot, proof, before, low, new, path
  <2> HIDE DEF w
  <2> QED
    BY <2>1
<1>2. key \notin Keys
  BY DEF Insert, IInv, IndexInv
<1>3. m \in Positions
  BY <1>2, TheGap DEF IInv
<1>4. /\ proof.low_leaf = sorted_leaves[m]
      /\ before = MerkleProof(nodes, sorted_leaves[m].index)
      /\ low = [sorted_leaves[m] EXCEPT !.next_key = key]
      /\ new = [key |-> key, value |-> value,
                next_key |-> sorted_leaves[m].next_key, index |-> next_index]
  BY <1>3, IndexTypes DEF NonMembershipProof, FindLowLeaf, UpdatedLow, NewLeaf
<1>5. /\ next_index \in Nat /\ next_index < Capacity
      /\ sorted_leaves[m].index \in Nat /\ sorted_leaves[m].index < Capacity
  <2>1. Capacity \in Nat
    BY CapacityType
  <2> QED
    BY <1>3, <2>1, IndexTypes DEF Insert
<1>6. PathIndex(before) = sorted_leaves[m].index /\ PathIndex(path) = next_index
  BY <1>4, <1>5, PathLeadsBack DEF NewLeafPath
<1>7. VerifyNonMembership(Root, proof, key, next_index)
  BY <1>2, AbsentVerify
<1>8. Root = CombinedRoot(ComputeRoot(LeafHash(sorted_leaves[m]), before), next_index)
  BY <1>3, <1>4, LeavesLeadToTheRoot DEF Root
<1>9. newRoot = CombinedRoot(ComputeRoot(LeafHash(new), path), next_index + 1)
  BY <1>5, RootAfter DEF NewLeafPath, NodesAfterInsert
<1>10. newRoot = Root'
  BY DEF Insert, Root
<1> HIDE DEF w, newRoot, proof, before, low, new, path, m
<1>11. VerifyInsert(w)
  BY <1>1, <1>4, <1>6, <1>7, <1>8, <1>9 DEF VerifyInsert
<1> QED
  BY <1>1, <1>10, <1>11 DEF w

-----------------------------------------------------------------------------
(* Proofs decide membership for every set of keys and every height but 1,  *)
(* where all proofs are refused: the proof of a key that is there holds    *)
(* for its value alone, no leaf shows it absent, and the proof of absence  *)
(* of any other key holds.                                                 *)
THEOREM ProofsAlwaysDecide == Spec => []ProofsDecide
<1>1. IInv /\ TreeInv => ProofsDecide
  <2> SUFFICES ASSUME IInv, TreeInv PROVE ProofsDecide
    OBVIOUS
  <2>1. DOMAIN leaf_indices = Keys
    BY DEF IInv, IndexInv
  <2>2. ASSUME NEW k \in Keys, NEW i \in Positions
        PROVE  ~ VerifyNonMembership(Root,
                   [low_leaf |-> sorted_leaves[i],
                    merkle_proof |-> MerkleProof(nodes, sorted_leaves[i].index)],
                   k, next_index)
    <3>1. ~ InGap(k, sorted_leaves[i])
      BY <2>1, InvariantImplies DEF GapsAreEmpty, Positions
    <3> QED
      BY <3>1 DEF VerifyNonMembership
  <2>3. ASSUME NEW k \in Keys, NEW v \in Value
        PROVE  VerifyMembership(Root, MembershipProof(k), k, v, next_index)
                 <=> v = LeafOf(k).value
    BY PresentVerify
  <2>4. ASSUME NEW k \in Key, k \notin Keys
        PROVE  VerifyNonMembership(Root, NonMembershipProof(k), k, next_index)
    BY <2>4, AbsentVerify
  <2> QED
    BY <2>1, <2>2, <2>3, <2>4 DEF ProofsDecide, Positions
<1> QED
  BY <1>1, TreeInductive, PTL

(* Every witness the map makes convinces the program that checks it and    *)
(* takes it from the root before the operation to the root after it, for   *)
(* every height but 1, the first insertion into a new map included.        *)
THEOREM WitnessesAlwaysVerify == Spec => WitnessesVerify
<1> DEFINE A ==
      witness'.kind # "none" =>
        /\ IF witness'.kind = "insert" THEN VerifyInsert(witness')
                                       ELSE VerifyUpdate(witness')
        /\ witness'.old_root = Root /\ witness'.new_root = Root'
<1>1. IInv /\ TreeInv /\ [Next]_vars => [A]_vars
  <2> SUFFICES ASSUME IInv, TreeInv, Next, witness'.kind # "none" PROVE A
    OBVIOUS
  <2>1. NoWitness.kind = "none"
    BY DEF NoWitness
  <2>2. PICK key \in Key, value \in Value :
          Insert(key, value) \/ Update(key, value) \/ Set(key, value)
    BY DEF Next
  <2>3. CASE Insert(key, value)
    <3>1. witness' = InsertWitness(key, value)
      BY <2>1, <2>3 DEF Insert
    <3>2. /\ VerifyInsert(witness') /\ witness'.kind = "insert"
          /\ witness'.old_root = Root /\ witness'.new_root = Root'
      BY <2>3, <3>1, InsertVerifies
    <3> QED
      BY <3>2
  <2>4. CASE Update(key, value)
    <3>1. witness' = UpdateWitness(key, value) /\ Write(key, value)
      BY <2>1, <2>4 DEF Update
    <3>2. /\ VerifyUpdate(witness') /\ witness'.kind = "update"
          /\ witness'.old_root = Root /\ witness'.new_root = Root'
      BY <3>1, UpdateVerifies
    <3> QED
      BY <3>2
  <2>5. CASE Set(key, value)
    BY <2>1, <2>5 DEF Set
  <2> QED
    BY <2>2, <2>3, <2>4, <2>5
<1> QED
  BY <1>1, TreeInductive, PTL DEF Spec, WitnessesVerify
=============================================================================
