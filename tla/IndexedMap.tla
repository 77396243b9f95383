----------------------------- MODULE IndexedMap -----------------------------
(***************************************************************************)
(* The indexed Merkle map: leaves linked in the order of their keys, held  *)
(* in a sorted list and, by index, in a sparse Merkle tree; the proofs and *)
(* witnesses it produces, and the checks a zkVM program makes on them.     *)
(*                                                                         *)
(* A hash is the term it was computed from, so that only equal terms have  *)
(* equal hashes; the zero hash is no term.  A path is one sequence of      *)
(* records instead of the two vectors of MerkleProof.                      *)
(***************************************************************************)
EXTENDS Integers, Sequences

CONSTANTS
  Key,             \* field elements used as keys; zero is the first leaf's
  Value,           \* field elements used as values
  Height           \* levels of the tree, the root and the leaves included

ASSUME MapAssumption ==
  /\ Key \subseteq Nat /\ 0 \in Key
  /\ Value \subseteq Nat /\ 0 \in Value
  /\ Height \in 2..32

VARIABLES
  sorted_leaves,   \* sequence of leaves
  leaf_indices,    \* function: key -> index in the tree
  nodes,           \* function: <<level, index>> -> hash; a zero is not kept
  internal_root,
  next_index,
  witness          \* what the last operation returned

vars == <<sorted_leaves, leaf_indices, nodes, internal_root, next_index, witness>>

Leaf == [key : Key, value : Value, next_key : Key, index : Nat]

(* 1 << n                                                                  *)
Pow2[n \in 0..32] == IF n = 0 THEN 1 ELSE 2 * Pow2[n - 1]

Capacity == Pow2[Height - 1]

-----------------------------------------------------------------------------
(* Hashes.                                                                 *)
Zero == <<>>
LeafHash(leaf) == <<leaf.key, leaf.value, leaf.next_key>>
HashPair(left, right) == <<left, right>>
CombinedRoot(root, length) == <<root, length>>

Root == CombinedRoot(internal_root, next_index)

-----------------------------------------------------------------------------
(* The sparse tree.                                                        *)
GetNode(N, level, index) ==
  IF <<level, index>> \in DOMAIN N THEN N[<<level, index>>] ELSE Zero

SetNode(N, level, index, hash) ==
  [p \in DOMAIN N \cup {<<level, index>>} |->
     IF p = <<level, index>> THEN hash ELSE N[p]]

Parent(N, level, index) ==
  HashPair(GetNode(N, level - 1, 2 * index), GetNode(N, level - 1, 2 * index + 1))

(* The index above a leaf, level by level.                                 *)
IndexAt(leaf_index) ==
  LET at[level \in 0..Height] ==
        IF level = 0 THEN leaf_index ELSE at[level - 1] \div 2
  IN  at

(* update_tree: the nodes above a leaf, one level at a time; the topmost   *)
(* pair is the root, which is kept apart.                                  *)
NodesUpTo(N, leaf_index, hash) ==
  LET index == IndexAt(leaf_index)
      upTo[level \in 0..Height] ==
        IF level = 0 THEN SetNode(N, 0, leaf_index, hash)
        ELSE SetNode(upTo[level - 1], level, index[level],
                     Parent(upTo[level - 1], level, index[level]))
  IN  upTo

UpdateTree(N, leaf_index, hash) == NodesUpTo(N, leaf_index, hash)[Height - 2]

RootOver(N) == Parent(N, Height - 1, 0)

(* `new` leaves every level one hash below what update_tree will put there.*)
NewNodes(hash) ==
  LET upTo[level \in 0..Height] ==
        IF level <= 1 THEN hash ELSE HashPair(upTo[level - 1], Zero)
  IN  upTo

Sibling(index) == IF index % 2 = 1 THEN index - 1 ELSE index + 1

MerkleProof(N, leaf_index) ==
  LET index == IndexAt(leaf_index)
  IN  [n \in 1..(Height - 1) |->
         [sibling |-> GetNode(N, n - 1, Sibling(index[n - 1])),
          right |-> index[n - 1] % 2 = 1]]

-----------------------------------------------------------------------------
(* The sorted list.                                                        *)
Keys == {sorted_leaves[i].key : i \in DOMAIN sorted_leaves}

PositionOf(key) == CHOOSE i \in DOMAIN sorted_leaves : sorted_leaves[i].key = key

LeafOf(key) == sorted_leaves[PositionOf(key)]

(* find_low_leaf: the last leaf below a key that is not the first one.     *)
LowPosition(key) ==
  CHOOSE i \in DOMAIN sorted_leaves :
    /\ sorted_leaves[i].key < key
    /\ \A j \in DOMAIN sorted_leaves : sorted_leaves[j].key < key => j <= i

FindLowLeaf(key) == sorted_leaves[LowPosition(key)]

(* The position of the first leaf above a key, or the end of the list.     *)
InsertPosition(key) ==
  IF \E i \in DOMAIN sorted_leaves : sorted_leaves[i].key > key
  THEN CHOOSE i \in DOMAIN sorted_leaves :
         /\ sorted_leaves[i].key > key
         /\ \A j \in DOMAIN sorted_leaves : sorted_leaves[j].key > key => i <= j
  ELSE Len(sorted_leaves) + 1

Inserted(s, position, leaf) ==
  [i \in 1..(Len(s) + 1) |->
     IF i < position THEN s[i] ELSE IF i = position THEN leaf ELSE s[i - 1]]

-----------------------------------------------------------------------------
(* Proofs.                                                                 *)
MembershipProof(key) ==
  [leaf |-> LeafOf(key), merkle_proof |-> MerkleProof(nodes, leaf_indices[key])]

NonMembershipProof(key) ==
  LET low == FindLowLeaf(key)
  IN  [low_leaf |-> low, merkle_proof |-> MerkleProof(nodes, leaf_indices[low.key])]

(* compute_root                                                            *)
ComputeRoot(hash, proof) ==
  LET over[n \in 0..Len(proof)] ==
        IF n = 0 THEN hash
        ELSE IF proof[n].right THEN HashPair(proof[n].sibling, over[n - 1])
                               ELSE HashPair(over[n - 1], proof[n].sibling)
  IN  over[Len(proof)]

PathIndex(proof) ==
  LET sum[n \in 0..Len(proof)] ==
        IF n = 0 THEN 0
        ELSE sum[n - 1] + (IF proof[n].right THEN Pow2[n - 1] ELSE 0)
  IN  sum[Len(proof)]

(* Slip: a level too many for a tree that is full.                         *)
LongerThanNeeded(proof, length) ==
  /\ Len(proof) \in 1..32
  /\ Pow2[Len(proof)] > length

(* As many siblings as a tree of this length has levels, at least one.     *)
LongEnough(proof, length) ==
  /\ Len(proof) \in 1..32
  /\ Pow2[Len(proof)] >= length

Verifies(root, leaf, proof, length) ==
  /\ LongEnough(proof, length)
  /\ CombinedRoot(ComputeRoot(LeafHash(leaf), proof), length) = root

VerifyMembership(root, proof, key, value, length) ==
  /\ proof.leaf.key = key /\ proof.leaf.value = value
  /\ Verifies(root, proof.leaf, proof.merkle_proof, length)

InGap(key, leaf) ==
  key > leaf.key /\ (leaf.next_key # 0 => key < leaf.next_key)

VerifyNonMembership(root, proof, key, length) ==
  /\ InGap(key, proof.low_leaf)
  /\ Verifies(root, proof.low_leaf, proof.merkle_proof, length)

(* ProvableIndexedMerkleMap::update                                        *)
VerifyUpdate(w) ==
  LET leaf == w.membership_proof.leaf
      path == w.membership_proof.merkle_proof
  IN  /\ VerifyMembership(w.old_root, w.membership_proof, w.key, w.old_value,
                          w.tree_length)
      /\ w.updated_leaf = [leaf EXCEPT !.value = w.new_value]
      /\ w.new_root =
           CombinedRoot(ComputeRoot(LeafHash(w.updated_leaf), path), w.tree_length)

(* ProvableIndexedMerkleMap::insert                                        *)
VerifyInsert(w) ==
  LET low == w.non_membership_proof.low_leaf
  IN  /\ w.new_leaf_index = w.tree_length
      /\ PathIndex(w.low_leaf_proof_before) = low.index
      /\ PathIndex(w.new_leaf_proof_after) = w.new_leaf_index
      /\ VerifyNonMembership(w.old_root, w.non_membership_proof, w.key, w.tree_length)
      /\ w.old_root = CombinedRoot(ComputeRoot(LeafHash(low), w.low_leaf_proof_before),
                                   w.tree_length)
      /\ w.updated_low_leaf = [low EXCEPT !.next_key = w.key]
      /\ w.new_leaf = [key |-> w.key, value |-> w.value,
                       next_key |-> low.next_key, index |-> w.new_leaf_index]
      /\ w.new_root =
           CombinedRoot(ComputeRoot(LeafHash(w.new_leaf), w.new_leaf_proof_after),
                        w.tree_length + 1)

-----------------------------------------------------------------------------
(* The operations.  Errors leave the map as it is and are no steps.        *)
NoWitness == [kind |-> "none"]

FirstLeaf == [key |-> 0, value |-> 0, next_key |-> 0, index |-> 0]

Init ==
  LET new == NewNodes(LeafHash(FirstLeaf))
  IN  /\ sorted_leaves = <<FirstLeaf>>
      /\ leaf_indices = [k \in {0} |-> 0]
      /\ nodes = [p \in (0..(Height - 1)) \X {0} |-> new[p[1]]]
      /\ internal_root = HashPair(new[Height - 1], Zero)
      /\ next_index = 1
      /\ witness = NoWitness

(* The leaves and the tree after an insertion; the tree in its two steps.  *)
UpdatedLow(key) == [FindLowLeaf(key) EXCEPT !.next_key = key]

NewLeaf(key, value) ==
  [key |-> key, value |-> value, next_key |-> FindLowLeaf(key).next_key,
   index |-> next_index]

(* Slip: the low leaf keeps its successor in the list.                     *)
NotRelinked(key) == sorted_leaves

(* Slip: the low leaf is built anew and loses its value.                   *)
RelinkedAnew(key) ==
  [sorted_leaves EXCEPT ![PositionOf(FindLowLeaf(key).key)] =
     [FirstLeaf EXCEPT !.key = FindLowLeaf(key).key, !.next_key = key,
                       !.index = FindLowLeaf(key).index]]

Relinked(key) ==
  [sorted_leaves EXCEPT ![PositionOf(FindLowLeaf(key).key)].next_key = key]

NodesAfterLow(key) ==
  UpdateTree(nodes, leaf_indices[FindLowLeaf(key).key], LeafHash(UpdatedLow(key)))

NodesAfterInsert(key, value) ==
  UpdateTree(NodesAfterLow(key), next_index, LeafHash(NewLeaf(key, value)))

(* Slip: the path is taken before the low leaf is updated.                 *)
NewLeafPathBefore(key) == MerkleProof(nodes, next_index)

(* The path of the new leaf as the witness carries it.                     *)
NewLeafPath(key) == MerkleProof(NodesAfterLow(key), next_index)

InsertWitness(key, value) ==
  [kind |-> "insert", key |-> key, value |-> value,
   old_root |-> Root,
   new_root |-> CombinedRoot(RootOver(NodesAfterInsert(key, value)), next_index + 1),
   new_leaf_index |-> next_index, tree_length |-> next_index,
   non_membership_proof |-> NonMembershipProof(key),
   low_leaf_proof_before |-> NonMembershipProof(key).merkle_proof,
   updated_low_leaf |-> UpdatedLow(key), new_leaf |-> NewLeaf(key, value),
   new_leaf_proof_after |-> NewLeafPath(key)]

Insert(key, value) ==
  /\ key \notin DOMAIN leaf_indices
  /\ next_index < Capacity
  /\ InGap(key, FindLowLeaf(key))
  /\ sorted_leaves' =
       Inserted(Relinked(key), InsertPosition(key), NewLeaf(key, value))
  /\ nodes' = NodesAfterInsert(key, value)
  /\ internal_root' = RootOver(nodes')
  /\ leaf_indices' = [k \in DOMAIN leaf_indices \cup {key} |->
                        IF k = key THEN next_index ELSE leaf_indices[k]]
  /\ next_index' = next_index + 1
  /\ witness' \in {InsertWitness(key, value), NoWitness}

Revalued(key, value) == [LeafOf(key) EXCEPT !.value = value]

UpdateWitness(key, value) ==
  LET N == UpdateTree(nodes, leaf_indices[key], LeafHash(Revalued(key, value)))
  IN  [kind |-> "update", key |-> key,
       old_value |-> LeafOf(key).value, new_value |-> value,
       old_root |-> Root, new_root |-> CombinedRoot(RootOver(N), next_index),
       tree_length |-> next_index, membership_proof |-> MembershipProof(key),
       updated_leaf |-> Revalued(key, value)]

(* What update and the other half of set do to a key that is there.        *)
Write(key, value) ==
  /\ key \in DOMAIN leaf_indices
  /\ sorted_leaves' = [sorted_leaves EXCEPT ![PositionOf(key)].value = value]
  /\ nodes' = UpdateTree(nodes, leaf_indices[key], LeafHash(Revalued(key, value)))
  /\ internal_root' = RootOver(nodes')
  /\ UNCHANGED <<leaf_indices, next_index>>

Update(key, value) ==
  /\ Write(key, value)
  /\ witness' \in {UpdateWitness(key, value), NoWitness}

Set(key, value) ==
  /\ witness' = NoWitness
  /\ \/ Write(key, value)
     \/ Insert(key, value)

Next == \E k \in Key, v \in Value : Insert(k, v) \/ Update(k, v) \/ Set(k, v)

Spec == Init /\ [][Next]_vars
-----------------------------------------------------------------------------
(* Types of the variables.                                                 *)
TypeOK ==
  /\ sorted_leaves \in Seq(Leaf)
  /\ leaf_indices \in [Keys -> 0..(next_index - 1)]
  /\ next_index \in Nat \ {0}
  /\ Len(sorted_leaves) = next_index

(* The leaves are in the order of their keys and the index by key leads to *)
(* all of them; the gap a leaf vouches for, up to the key it names or, of  *)
(* the last one, without end, is empty, and every gap has a leaf.          *)
GapsAreEmpty ==
  /\ \A i, j \in 1..Len(sorted_leaves) : i < j => sorted_leaves[i].key < sorted_leaves[j].key
  /\ \A i \in 1..Len(sorted_leaves) : LET leaf == sorted_leaves[i] IN
       /\ leaf_indices[leaf.key] = leaf.index
       /\ \A k \in DOMAIN leaf_indices : ~ InGap(k, leaf)
  /\ \A k \in Key \ DOMAIN leaf_indices :
       \E i \in 1..Len(sorted_leaves) : InGap(k, sorted_leaves[i])

(* Proofs decide membership: of a key that is there, the map's proof holds *)
(* for its value alone and the path of no leaf shows it absent; of a key   *)
(* that is not there, the map's proof shows just that.                     *)
ProofsDecide ==
  \A k \in Key :
    IF k \in DOMAIN leaf_indices
    THEN /\ \A v \in Value :
              VerifyMembership(Root, MembershipProof(k), k, v, next_index)
                <=> v = LeafOf(k).value
         /\ \A i \in 1..Len(sorted_leaves) :
              ~ VerifyNonMembership(Root,
                  [low_leaf |-> sorted_leaves[i],
                   merkle_proof |-> MerkleProof(nodes, sorted_leaves[i].index)],
                  k, next_index)
    ELSE VerifyNonMembership(Root, NonMembershipProof(k), k, next_index)

(* A witness convinces the program that checks it, and takes that program  *)
(* from the root the map had to the root the map has.                      *)
WitnessesVerify ==
  [][witness'.kind # "none" =>
       /\ IF witness'.kind = "insert" THEN VerifyInsert(witness')
                                      ELSE VerifyUpdate(witness')
       /\ witness'.old_root = Root /\ witness'.new_root = Root']_vars

(* The map its callers see.                                                *)
Contents == [k \in DOMAIN leaf_indices |-> LeafOf(k).value]

Map == INSTANCE KeyValueMap WITH contents <- Contents

ImplementsMap == Map!Spec
=============================================================================
