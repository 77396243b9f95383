---------------------------- MODULE ProverProofs ----------------------------
(***************************************************************************)
(* The invariants of Prover and its refinement of Calculation, and those   *)
(* of the planner that chooses its merges, for every number of sequences   *)
(* and every timeout.                                                      *)
(***************************************************************************)
EXTENDS MergePlanner, WellFoundedInduction, TLAPS

(* A set of naturals has a least member.                                   *)
LEMMA LeastMember ==
  ASSUME NEW S \in SUBSET Nat, S # {}
  PROVE  \E m \in S : \A n \in S : m <= n
<1> DEFINE Less == OpToRel(<, Nat)
<1>1. IsWellFoundedOn(Less, Nat)
  BY NatLessThanWellFounded
<1>2. \A x, y \in Nat : <<y, x>> \in Less <=> y < x
  BY DEF OpToRel
<1> HIDE DEF Less
<1>3. PICK x \in S : \A y \in S : ~ (<<y, x>> \in Less)
  BY ONLY <1>1, WFMin, S \subseteq Nat, S # {}
<1>4. ASSUME NEW y \in S PROVE x <= y
  <2>1. ~ (<<y, x>> \in Less) /\ x \in Nat /\ y \in Nat
    BY <1>3
  <2>2. ~ (y < x)
    BY <1>2, <2>1
  <2> QED
    BY <2>1, <2>2
<1> QED
  BY <1>4

(* Induction up to a bound: a set with 0 and with every successor.         *)
LEMMA BoundedInduction ==
  ASSUME NEW N \in Nat, NEW S, 0 \in S, \A n \in 0..(N - 1) : n \in S => n + 1 \in S
  PROVE  \A n \in 0..N : n \in S
<1> DEFINE T == {n \in 0..N : n \notin S}
<1> SUFFICES ASSUME T # {} PROVE FALSE
  OBVIOUS
<1>1. PICK m \in T : \A n \in T : m <= n
  <2>1. T \in SUBSET Nat
    OBVIOUS
  <2> HIDE DEF T
  <2> QED
    BY <2>1, LeastMember
<1>2. m # 0 /\ m - 1 \in 0..(N - 1) /\ m - 1 + 1 = m
  OBVIOUS
<1>3. m - 1 \in S
  BY <1>1, <1>2
<1> QED
  BY <1>2, <1>3

(* A function on 0..N may be defined by its first value and by a step.     *)
Reaches(N, S, a, F) ==
  \E g \in [0..N -> S] : g[0] = a /\ \A i \in 1..N : g[i] = F[<<g[i - 1], i>>]

LEMMA Recursion ==
  ASSUME NEW N \in Nat, NEW S, NEW a \in S, NEW F \in [S \X (1..N) -> S]
  PROVE  Reaches(N, S, a, F)
<1> DEFINE Good(g, n) == /\ g \in [0..n -> S] /\ g[0] = a
                         /\ \A i \in 1..n : g[i] = F[<<g[i - 1], i>>]
           T == {n \in 0..N : \E g : Good(g, n)}
<1>1. 0 \in T
  <2> DEFINE h == [i \in 0..0 |-> a]
  <2>1. h \in [0..0 -> S] /\ h[0] = a /\ 1..0 = {}
    OBVIOUS
  <2>2. Good(h, 0)
    BY <2>1
  <2> HIDE DEF Good
  <2>3. \E g : Good(g, 0)
    BY <2>2
  <2> QED
    BY <2>3
<1>2. ASSUME NEW n \in 0..(N - 1), n \in T PROVE n + 1 \in T
  <2>1. PICK g : Good(g, n)
    BY <1>2
  <2> DEFINE next == F[<<g[n], n + 1>>]
             h == [i \in 0..(n + 1) |-> IF i = n + 1 THEN next ELSE g[i]]
  <2>2. <<g[n], n + 1>> \in S \X (1..N)
    BY <2>1
  <2>3. next \in S
    BY <2>2
  <2>4. h \in [0..(n + 1) -> S] /\ h[0] = a
    BY <2>1, <2>3
  <2>5. ASSUME NEW i \in 1..(n + 1) PROVE h[i] = F[<<h[i - 1], i>>]
    <3>1. CASE i = n + 1
      <4>1. h[i] = next /\ h[i - 1] = g[n]
        BY <3>1
      <4> QED
        BY <3>1, <4>1
    <3>2. CASE i \in 1..n
      <4>1. h[i] = g[i] /\ h[i - 1] = g[i - 1]
        BY <3>2
      <4> QED
        BY <2>1, <3>2, <4>1
    <3> QED
      BY <3>1, <3>2
  <2>6. Good(h, n + 1)
    BY <2>4, <2>5
  <2> HIDE DEF Good
  <2>7. \E f : Good(f, n + 1)
    BY <2>6
  <2> QED
    BY <2>7
<1> HIDE DEF T
<1>3. \A n \in 0..N : n \in T
  BY <1>1, <1>2, BoundedInduction
<1>4. N \in T
  BY <1>3
<1> QED
  BY <1>4 DEF T, Reaches

(* A function may be defined by recursion on smaller arguments, whatever   *)
(* their order: the definition is a function F from functions to functions *)
(* that looks at arguments of smaller weight w only.                       *)
LooksBelow(N, D, S, w, F) ==
  /\ N \in Nat /\ S # {} /\ w \in [D -> 0..N]
  /\ F \in [[D -> S] -> [D -> S]]
  /\ \A g, h \in [D -> S] : \A k \in D :
       (\A j \in D : w[j] < w[k] => g[j] = h[j]) => F[g][k] = F[h][k]

LEMMA FixedPoint ==
  ASSUME NEW N, NEW D, NEW S, NEW w, NEW F, LooksBelow(N, D, S, w, F)
  PROVE  \E f \in [D -> S] : f = F[f]
<1> USE DEF LooksBelow
<1> PICK a \in S : TRUE
  OBVIOUS
<1> DEFINE T == [D -> S]
           top == N + 2
           G == [p \in T \X (1..top) |-> F[p[1]]]
           const == [k \in D |-> a]
<1>1. G \in [T \X (1..top) -> T] /\ const \in T /\ top \in Nat
  OBVIOUS
<1>2. PICK g \in [0..top -> T] : g[0] = const /\ \A i \in 1..top : g[i] = G[<<g[i - 1], i>>]
  <2> HIDE DEF G, const, T, top
  <2>1. Reaches(top, T, const, G)
    BY <1>1, Recursion
  <2> QED
    BY <2>1 DEF Reaches
<1>3. ASSUME NEW i \in 0..(N + 1) PROVE g[i + 1] = F[g[i]]
  <2>1. i + 1 \in 1..top /\ (i + 1) - 1 = i /\ g[i] \in T
    BY <1>2
  <2>2. <<g[i], i + 1>> \in T \X (1..top)
    BY <2>1
  <2>3. G[<<g[i], i + 1>>] = F[g[i]]
    BY <2>2
  <2> QED
    BY <1>2, <2>1, <2>3
<1> DEFINE P == {n \in 0..(N + 1) : \A k \in D : w[k] < n => g[n][k] = g[n + 1][k]}
<1>4. 0 \in P
  OBVIOUS
<1>5. ASSUME NEW n \in 0..(N + 1 - 1), n \in P PROVE n + 1 \in P
  <2>1. n \in 0..(N + 1) /\ n + 1 \in 0..(N + 1) /\ g[n] \in T /\ g[n + 1] \in T
    BY <1>2
  <2>2. g[n + 1] = F[g[n]] /\ g[(n + 1) + 1] = F[g[n + 1]]
    BY <1>3, <2>1
  <2>3. ASSUME NEW k \in D, w[k] < n + 1 PROVE g[n + 1][k] = g[(n + 1) + 1][k]
    <3>1. \A j \in D : w[j] < w[k] => g[n][j] = g[n + 1][j]
      BY <1>5, <2>3
    <3>2. F[g[n]][k] = F[g[n + 1]][k]
      BY <2>1, <3>1
    <3> QED
      BY <2>2, <3>2
  <2> QED
    BY <2>1, <2>3
<1>6. N + 1 \in P
  <2> DEFINE M == N + 1
  <2>1. M \in Nat
    OBVIOUS
  <2>2. ASSUME NEW m \in 0..(M - 1), m \in P PROVE m + 1 \in P
    <3>1. M - 1 = N + 1 - 1
      OBVIOUS
    <3> HIDE DEF P, M
    <3> QED
      BY <1>5, <2>2, <3>1
  <2> HIDE DEF P, M
  <2>3. \A n \in 0..M : n \in P
    BY ONLY <1>4, <2>1, <2>2, BoundedInduction
  <2>4. M \in 0..M
    BY <2>1
  <2> QED
    BY <2>3, <2>4 DEF M
<1>7. \A k \in D : g[N + 1][k] = F[g[N + 1]][k]
  <2>1. \A k \in D : w[k] < N + 1
    OBVIOUS
  <2>2. N + 1 \in 0..(N + 1)
    OBVIOUS
  <2> QED
    BY <1>3, <1>6, <2>1, <2>2
<1>8. g[N + 1] \in [D -> S] /\ F[g[N + 1]] \in [D -> S]
  BY <1>2
<1>9. g[N + 1] = F[g[N + 1]]
  BY <1>7, <1>8
<1> QED
  BY <1>8, <1>9

-----------------------------------------------------------------------------
(* The parts of a proof are those of some merge of its interval.           *)
PartsFit(k, parts) == parts = {} \/ [key |-> k, parts |-> parts] \in Merges

(* A table of proofs of the sequences 1..l, whatever made it.              *)
Good(P, l) ==
  /\ DOMAIN P \subseteq Interval
  /\ P \in [DOMAIN P -> Proof]
  /\ \A k \in DOMAIN P :
       /\ PartsFit(k, P[k].parts)
       /\ P[k].status \in {"Reserved", "Used"} => P[k].data
       /\ k[2] <= l

(* The proof of the whole block is never a part of another.  Until the     *)
(* block is finished it is under way, rejected or, as long as the block is *)
(* open, ready with its data.                                              *)
FullProof(P) ==
  Block \in DOMAIN P /\ ~finished =>
    \/ P[Block].status \in {"Started", "Rejected"}
    \/ ~closed /\ P[Block].status = "Calculated" /\ P[Block].data

IInv ==
  /\ Good(proofs, last)
  /\ FullProof(proofs)
  /\ finished => closed
  /\ \A m \in merges : m.key[2] <= last
  /\ last \in 0..MaxSequence /\ closed \in BOOLEAN /\ finished \in BOOLEAN
  /\ requests \subseteq Merges /\ merges \subseteq Merges
  /\ now \in 0..MaxNow

-----------------------------------------------------------------------------
(* Merges and tables.                                                      *)

(* A merge is of an interval, its parts are smaller intervals, and none of *)
(* them starts where it starts and ends where it ends.                     *)
LEMMA MergeParts ==
  ASSUME NEW m \in Merges
  PROVE  /\ m.key \in Interval
         /\ m = [key |-> m.key, parts |-> m.parts]
         /\ m.parts \subseteq Interval
         /\ \E p \in m.parts : p[2] = m.key[2]
         /\ \A p \in m.parts : p[2] <= m.key[2] /\ (p[2] < m.key[2] \/ p[1] > m.key[1])
<1>1. PICK k \in Interval : m \in {[key |-> k, parts |-> Split(k, n)] : n \in k[1]..(k[2] - 1)}
  BY DEF Merges
<1>2. PICK n \in k[1]..(k[2] - 1) : m = [key |-> k, parts |-> Split(k, n)]
  BY <1>1
<1>3. /\ k[1] \in 1..MaxSequence /\ k[2] \in 1..MaxSequence /\ k[1] <= k[2]
      /\ MaxSequence \in Nat
  BY ProverAssumption DEF Interval
<1>4. n \in Nat /\ k[1] <= n /\ n < k[2]
  BY <1>2, <1>3
<1>5. m.parts = {<<k[1], n>>, <<n + 1, k[2]>>} /\ m.key = k
  BY <1>2 DEF Split
<1>6. <<k[1], n>> \in Interval /\ <<n + 1, k[2]>> \in Interval
  BY <1>3, <1>4 DEF Interval
<1> QED
  BY <1>2, <1>3, <1>4, <1>5, <1>6

LEMMA IntervalEnds ==
  ASSUME NEW k \in Interval
  PROVE  k[1] \in Nat /\ k[2] \in Nat /\ k[1] >= 1 /\ k[1] <= k[2] /\ k = <<k[1], k[2]>>
BY ProverAssumption DEF Interval

(* The whole block is no part of a merge within the block.                 *)
LEMMA BlockIsNoPart ==
  ASSUME NEW m \in Merges, NEW l \in Nat, m.key[2] <= l
  PROVE  <<1, l>> \notin m.parts
<1> SUFFICES ASSUME <<1, l>> \in m.parts PROVE FALSE
  OBVIOUS
<1> DEFINE p == <<1, l>>
<1>1. p[1] = 1 /\ p[2] = l
  OBVIOUS
<1>2. p[2] < m.key[2] \/ p[1] > m.key[1]
  BY MergeParts
<1>3. m.key[1] \in Nat /\ m.key[2] \in Nat /\ m.key[1] >= 1
  BY MergeParts, IntervalEnds
<1> HIDE DEF p
<1> QED
  BY <1>1, <1>2, <1>3

LEMMA BlockIsNoPartOf ==
  ASSUME NEW P, NEW l \in Nat, Good(P, l), NEW k \in DOMAIN P
  PROVE  <<1, l>> \notin P[k].parts
<1>1. PartsFit(k, P[k].parts) /\ k[2] <= l
  BY DEF Good
<1>2. CASE P[k].parts = {}
  BY <1>2
<1>3. CASE [key |-> k, parts |-> P[k].parts] \in Merges
  BY <1>1, <1>3, BlockIsNoPart
<1> QED
  BY <1>1, <1>2, <1>3 DEF PartsFit

(* What Mark leaves alone and what it writes.                              *)
LEMMA MarkFields ==
  ASSUME NEW P, NEW S, NEW status, P \in [DOMAIN P -> Proof]
  PROVE  /\ DOMAIN Mark(P, S, status) = DOMAIN P
         /\ \A k \in DOMAIN P :
              /\ Mark(P, S, status)[k].parts = P[k].parts
              /\ Mark(P, S, status)[k].data = P[k].data
              /\ k \notin S => Mark(P, S, status)[k] = P[k]
              /\ k \in S => Mark(P, S, status)[k].status = status
<1>1. \A k \in DOMAIN P :
        Mark(P, S, status)[k] = IF k \in S
                                THEN [P[k] EXCEPT !.status = status, !.stamp = now]
                                ELSE P[k]
  BY DEF Mark
<1>2. \A k \in DOMAIN P : P[k] \in Proof
  OBVIOUS
<1>3. \A k \in DOMAIN P :
        LET q == [P[k] EXCEPT !.status = status, !.stamp = now]
        IN  q.parts = P[k].parts /\ q.data = P[k].data /\ q.status = status
  BY <1>2 DEF Proof
<1> QED
  BY <1>1, <1>3 DEF Mark

LEMMA MarkKeepsGood ==
  ASSUME NEW P, NEW l, Good(P, l), NEW S, NEW status \in Status, now \in 0..MaxNow,
         status \in {"Reserved", "Used"} => \A k \in S \cap DOMAIN P : P[k].data
  PROVE  Good(Mark(P, S, status), l)
<1> DEFINE Q == Mark(P, S, status)
<1>1. P \in [DOMAIN P -> Proof]
  BY DEF Good
<1>2. /\ DOMAIN Q = DOMAIN P
      /\ \A k \in DOMAIN P :
           /\ Q[k].parts = P[k].parts
           /\ Q[k].data = P[k].data
           /\ k \notin S => Q[k] = P[k]
           /\ k \in S => Q[k].status = status
  BY <1>1, MarkFields
<1>3. Q \in [DOMAIN P -> Proof]
  <2>1. ASSUME NEW k \in DOMAIN P
        PROVE  [P[k] EXCEPT !.status = status, !.stamp = now] \in Proof /\ P[k] \in Proof
    BY <1>1 DEF Proof
  <2> QED
    BY <2>1 DEF Mark
<1> HIDE DEF Q
<1>4. ASSUME NEW k \in DOMAIN P
      PROVE  /\ PartsFit(k, Q[k].parts)
             /\ Q[k].status \in {"Reserved", "Used"} => Q[k].data
             /\ k[2] <= l
  <2>1. PartsFit(k, P[k].parts) /\ k[2] <= l
        /\ (P[k].status \in {"Reserved", "Used"} => P[k].data)
    BY DEF Good
  <2> QED
    BY <1>2, <2>1
<1>5. DOMAIN P \subseteq Interval
  BY DEF Good
<1>6. Good(Q, l)
  BY <1>2, <1>3, <1>4, <1>5 DEF Good
<1> QED
  BY <1>6 DEF Q

LEMMA PutKeepsGood ==
  ASSUME NEW P, NEW l, Good(P, l), NEW k \in Interval, k[2] <= l,
         NEW proof \in Proof, PartsFit(k, proof.parts),
         proof.status \notin {"Reserved", "Used"}
  PROVE  Good(Put(P, k, proof), l)
<1> DEFINE Q == Put(P, k, proof)
<1>1. /\ DOMAIN Q = DOMAIN P \cup {k}
      /\ Q[k] = proof
      /\ \A j \in DOMAIN P : j # k => Q[j] = P[j]
  BY DEF Put
<1>2. Q \in [DOMAIN Q -> Proof]
  <2>1. \A j \in DOMAIN P : P[j] \in Proof
    BY DEF Good
  <2> QED
    BY <2>1 DEF Put
<1> HIDE DEF Q
<1>3. ASSUME NEW j \in DOMAIN Q
      PROVE  /\ PartsFit(j, Q[j].parts)
             /\ Q[j].status \in {"Reserved", "Used"} => Q[j].data
             /\ j[2] <= l
  <2>1. CASE j = k
    BY <1>1, <2>1
  <2>2. CASE j # k
    <3>1. j \in DOMAIN P /\ Q[j] = P[j]
      BY <1>1, <2>2
    <3> QED
      BY <3>1 DEF Good
  <2> QED
    BY <2>1, <2>2
<1>4. DOMAIN Q \subseteq Interval
  BY <1>1 DEF Good
<1>5. Good(Q, l)
  BY <1>2, <1>3, <1>4 DEF Good
<1> QED
  BY <1>5 DEF Q

-----------------------------------------------------------------------------
(* What a call does to the proof of one interval b.                        *)

Same(P, Q, b) ==
  /\ b \in DOMAIN Q <=> b \in DOMAIN P
  /\ b \in DOMAIN P => Q[b] = P[b]

Has(P, b, status) == b \in DOMAIN P /\ P[b].status = status

LEMMA MarkSame ==
  ASSUME NEW P, NEW S, NEW status, P \in [DOMAIN P -> Proof], NEW b, b \notin S
  PROVE  Same(P, Mark(P, S, status), b)
BY MarkFields DEF Same

LEMMA PutSame ==
  ASSUME NEW P, NEW k, NEW proof, NEW b, b # k
  PROVE  Same(P, Put(P, k, proof), b)
BY DEF Put, Same

LEMMA PutHas ==
  ASSUME NEW P, NEW k, NEW proof
  PROVE  k \in DOMAIN Put(P, k, proof) /\ Put(P, k, proof)[k] = proof
BY DEF Put

LEMMA SameIsTransitive ==
  ASSUME NEW P, NEW Q, NEW R, NEW b, Same(P, Q, b), Same(Q, R, b)
  PROVE  Same(P, R, b)
BY DEF Same

(* The table after a call on the proof of k: it is good, and of the whole  *)
(* block's proof only the call's own result is new.                        *)
Effect(P, Q, k, proof, b, l) ==
  /\ Good(Q, l)
  /\ k # b => Same(P, Q, b)
  /\ k = b => b \in DOMAIN Q /\ Q[b] = proof

(* submit_proof of move/coordination, for a sequence or a merge.           *)
LEMMA SubmitEffect ==
  ASSUME IInv, NEW k \in Interval, NEW parts, k[2] <= last, PartsFit(k, parts),
         parts \subseteq Interval, Submit(k, parts)
  PROVE  Effect(proofs, proofs', k, Submitted(parts), Block, last)
<1> DEFINE P == Put(proofs, k, Submitted(parts))
           Q == Mark(P, parts, "Used")
<1>1. Good(proofs, last) /\ now \in 0..MaxNow /\ last \in Nat
  BY ProverAssumption DEF IInv
<1>2. Submitted(parts) \in Proof /\ Submitted(parts).parts = parts
      /\ Submitted(parts).status = "Calculated"
  BY <1>1 DEF Submitted, Proof, Status
<1>3. Good(P, last)
  BY <1>1, <1>2, PutKeepsGood
<1>4. \A p \in parts : p \in DOMAIN P /\ P[p].data
  BY DEF Submit, HaveData
<1>5. Block \notin parts
  <2>1. CASE parts = {}
    BY <2>1
  <2>2. CASE [key |-> k, parts |-> parts] \in Merges
    BY <1>1, <2>2, BlockIsNoPart DEF Block
  <2> QED
    BY <2>1, <2>2 DEF PartsFit
<1>6. k # Block => Same(proofs, P, Block)
  BY PutSame
<1>7. k \in DOMAIN P /\ P[k] = Submitted(parts)
  BY PutHas
<1>8. proofs' = Q
  BY DEF Submit
<1> HIDE DEF P
<1>9. Good(Q, last)
  BY <1>1, <1>3, <1>4, MarkKeepsGood DEF Status
<1>10. Same(P, Q, Block)
  BY <1>3, <1>5, MarkSame DEF Good
<1> HIDE DEF Q
<1>11. k # Block => Same(proofs, Q, Block)
  BY <1>6, <1>10, SameIsTransitive
<1>12. k = Block => Block \in DOMAIN Q /\ Q[Block] = Submitted(parts)
  BY <1>7, <1>10 DEF Same
<1> QED
  BY <1>8, <1>9, <1>11, <1>12 DEF Effect

(* reject_proof.                                                           *)
LEMMA RejectEffect ==
  ASSUME IInv, NEW k \in Interval, Reject(k)
  PROVE  Effect(proofs, proofs', k, [proofs[k] EXCEPT !.status = "Rejected"],
                Block, last)
<1> DEFINE proof == [proofs[k] EXCEPT !.status = "Rejected"]
           P == Put(proofs, k, proof)
           Q == Mark(P, proofs[k].parts, "Calculated")
<1>1. Good(proofs, last) /\ now \in 0..MaxNow /\ last \in Nat /\ k \in DOMAIN proofs
  BY ProverAssumption DEF IInv, Reject
<1>2. proofs[k] \in Proof /\ PartsFit(k, proofs[k].parts) /\ k[2] <= last
  BY <1>1 DEF Good
<1>3. proof \in Proof /\ proof.parts = proofs[k].parts /\ proof.status = "Rejected"
  BY <1>2 DEF Proof, Status
<1>4. proofs' = Mark([proofs EXCEPT ![k].status = "Rejected"], proofs[k].parts, "Calculated")
  BY DEF Reject
<1>5. [proofs EXCEPT ![k].status = "Rejected"] = P
  <2>1. DOMAIN proofs \cup {k} = DOMAIN proofs
    BY <1>1
  <2>2. proofs = [j \in DOMAIN proofs |-> proofs[j]]
    BY <1>1 DEF Good
  <2> QED
    BY <2>1, <2>2 DEF Put
<1>6. PartsFit(k, proof.parts)
  BY <1>2, <1>3
<1> HIDE DEF proof
<1>7. Good(P, last)
  BY <1>1, <1>2, <1>3, <1>6, PutKeepsGood
<1>8. Block \notin proofs[k].parts
  BY <1>1, BlockIsNoPartOf DEF Block
<1>9. k # Block => Same(proofs, P, Block)
  BY PutSame
<1>10. k \in DOMAIN P /\ P[k] = proof
  BY PutHas
<1> HIDE DEF P
<1>11. Good(Q, last)
  BY <1>1, <1>7, MarkKeepsGood DEF Status
<1>12. Same(P, Q, Block)
  BY <1>7, <1>8, MarkSame DEF Good
<1>13. proofs' = Q
  BY <1>4, <1>5
<1> HIDE DEF Q
<1>14. k # Block => Same(proofs, Q, Block)
  BY <1>9, <1>12, SameIsTransitive
<1>15. k = Block => Block \in DOMAIN Q /\ Q[Block] = proof
  BY <1>10, <1>12 DEF Same
<1> QED
  BY <1>11, <1>13, <1>14, <1>15 DEF Effect, proof

(* start_proving: it stays within the sequences of the block.              *)
LEMMA StartWithinBlock ==
  ASSUME IInv, NEW m \in Merges, StartProving(m)
  PROVE  m.key[2] <= last
<1>1. \A k \in DOMAIN proofs : k[2] <= last
  BY DEF IInv, Good
<1>2. CASE m.key \in DOMAIN proofs
  BY <1>1, <1>2
<1>3. CASE m.key \notin DOMAIN proofs
  <2>1. PICK p \in m.parts : p[2] = m.key[2]
    BY MergeParts
  <2>2. p \in DOMAIN proofs
    BY <1>3 DEF StartProving, StartAccepted, Reservable
  <2> QED
    BY <1>1, <2>1, <2>2
<1> QED
  BY <1>2, <1>3

LEMMA StartEffect ==
  ASSUME IInv, NEW m \in Merges, StartProving(m)
  PROVE  Effect(proofs, proofs', m.key, Started(m.parts), Block, last)
<1> DEFINE P == Put(proofs, m.key, Started(m.parts))
           old == IF m.key \in DOMAIN proofs THEN proofs[m.key].parts ELSE {}
           Q == Mark(P, old, "Calculated")
           taken == {p \in m.parts : Reservable(Q, m.key, p)}
           R == Mark(Q, taken, "Reserved")
<1>1. Good(proofs, last) /\ now \in 0..MaxNow /\ last \in Nat
  BY ProverAssumption DEF IInv
<1>2. m.key \in Interval /\ m.parts \subseteq Interval /\ m.key[2] <= last
      /\ PartsFit(m.key, m.parts)
  BY MergeParts, StartWithinBlock DEF PartsFit
<1>3. Started(m.parts) \in Proof /\ Started(m.parts).parts = m.parts
      /\ Started(m.parts).status = "Started"
  BY <1>1, <1>2 DEF Started, Proof, Status
<1>4. Good(P, last)
  BY <1>1, <1>2, <1>3, PutKeepsGood
<1>5. Block \notin old
  BY <1>1, BlockIsNoPartOf DEF Block
<1>6. Block \notin m.parts
  BY <1>1, <1>2, BlockIsNoPart DEF Block
<1>7. m.key # Block => Same(proofs, P, Block)
  BY PutSame
<1>8. m.key \in DOMAIN P /\ P[m.key] = Started(m.parts)
  BY PutHas
<1>9. Q = WithStarted(m)
  BY DEF WithStarted
<1>10. proofs' = R
  BY <1>9 DEF StartProving, WithReserved
<1> HIDE DEF P, old
<1>11. Good(Q, last) /\ Same(P, Q, Block)
  BY <1>1, <1>4, <1>5, MarkKeepsGood, MarkSame DEF Status, Good
<1>12. \A p \in m.parts : Q[p].data
  BY <1>9 DEF StartProving, StartAborts, HaveData
<1> HIDE DEF Q
<1>13. Good(R, last)
  BY <1>1, <1>11, <1>12, MarkKeepsGood DEF Status
<1>14. Same(Q, R, Block)
  BY <1>6, <1>11, MarkSame DEF Good
<1> HIDE DEF R
<1>15. Same(P, R, Block)
  BY <1>11, <1>14, SameIsTransitive
<1>16. m.key # Block => Same(proofs, R, Block)
  BY <1>7, <1>15, SameIsTransitive
<1>17. m.key = Block => Block \in DOMAIN R /\ R[Block] = Started(m.parts)
  BY <1>8, <1>15 DEF Same
<1> QED
  BY <1>10, <1>13, <1>16, <1>17 DEF Effect

-----------------------------------------------------------------------------
(* The invariant.                                                          *)

LEMMA InitIInv == Init => IInv
<1> SUFFICES ASSUME Init PROVE IInv
  OBVIOUS
<1>1. DOMAIN proofs = {}
  BY DEF Init
<1>2. proofs \in [DOMAIN proofs -> Proof]
  BY <1>1 DEF Init
<1>3. Good(proofs, last)
  BY <1>1, <1>2 DEF Good
<1>4. FullProof(proofs)
  BY <1>1 DEF FullProof
<1>5. /\ finished => closed
      /\ closed \in BOOLEAN /\ finished \in BOOLEAN
  BY DEF Init
<1>6. /\ \A m \in merges : m.key[2] <= last
      /\ requests \subseteq Merges /\ merges \subseteq Merges
  BY DEF Init
<1>7. last \in 0..MaxSequence /\ now \in 0..MaxNow
  BY ProverAssumption DEF Init
<1> QED
  BY <1>3, <1>4, <1>5, <1>6, <1>7 DEF IInv

LEMMA GoodIsMonotone ==
  ASSUME NEW P, NEW l \in Nat, NEW n \in Nat, l <= n, Good(P, l)
  PROVE  Good(P, n)
<1>1. \A k \in DOMAIN P : k[2] \in Nat
  BY IntervalEnds DEF Good
<1> QED
  BY <1>1 DEF Good

(* next_sequence: there is no proof of the longer block yet.               *)
LEMMA NextSequenceKeeps == IInv /\ NextSequence => IInv' /\ Block' \notin DOMAIN proofs'
<1> SUFFICES ASSUME IInv, NextSequence PROVE IInv' /\ Block' \notin DOMAIN proofs'
  OBVIOUS
<1>1. last \in Nat /\ last' = last + 1 /\ last' \in 0..MaxSequence
  BY ProverAssumption DEF IInv, NextSequence
<1>2. Good(proofs, last) /\ Good(proofs, last + 1)
  BY <1>1, GoodIsMonotone DEF IInv
<1>3. <<1, last + 1>> \notin DOMAIN proofs
  BY <1>1, <1>2 DEF Good
<1>4. Good(proofs, last)' /\ Block' \notin DOMAIN proofs'
  BY <1>1, <1>2, <1>3 DEF NextSequence, Block, Good, PartsFit
<1>5. FullProof(proofs)'
  BY <1>4 DEF FullProof
<1>6. \A m \in merges' : m.key[2] <= last'
  <2>1. \A m \in merges : m.key[2] <= last /\ m.key[2] \in Nat
    BY MergeParts, IntervalEnds DEF IInv
  <2> QED
    BY <1>1, <2>1 DEF NextSequence
<1> QED
  BY <1>1, <1>4, <1>5, <1>6 DEF IInv, NextSequence

(* update_sequence_close of the calculation: a full proof at hand is used. *)
LEMMA CloseKeeps == IInv /\ Close => IInv' /\ ~FullProofAtHand'
<1> SUFFICES ASSUME IInv, Close PROVE IInv' /\ ~FullProofAtHand'
  OBVIOUS
<1>1. Good(proofs, last) /\ now \in 0..MaxNow /\ last \in Nat /\ ~closed /\ ~finished
  BY ProverAssumption DEF IInv, Close
<1>2. closed' = TRUE /\ Block' = Block /\ finished' = FullProofAtHand
      /\ UNCHANGED <<last, requests, merges, now>>
  BY DEF Close, Block
<1>3. /\ closed' \in BOOLEAN /\ finished' \in BOOLEAN
      /\ finished' => closed'
  BY <1>2, Zenon DEF FullProofAtHand
<1>4. /\ \A m \in merges' : m.key[2] <= last'
      /\ last' \in 0..MaxSequence /\ now' \in 0..MaxNow
      /\ requests' \subseteq Merges /\ merges' \subseteq Merges
  BY <1>2 DEF IInv
<1>5. CASE FullProofAtHand
  <2> DEFINE Q == Mark(proofs, {Block}, "Used")
  <2>1. proofs' = Q
    BY <1>5 DEF Close
  <2>2. proofs[Block].data /\ Block \in DOMAIN proofs
    BY <1>5 DEF FullProofAtHand
  <2>3. Good(Q, last)
    BY <1>1, <2>2, MarkKeepsGood DEF Status
  <2>4. Q[Block].status = "Used"
    BY <1>1, <2>2, MarkFields DEF Good
  <2> HIDE DEF Q
  <2>5. Good(proofs, last)'
    BY <1>2, <2>1, <2>3 DEF Good, PartsFit
  <2>6. FullProof(proofs)' /\ ~FullProofAtHand'
    BY <1>2, <1>5, <2>1, <2>4 DEF FullProof, FullProofAtHand
  <2> QED
    BY <1>3, <1>4, <2>5, <2>6 DEF IInv
<1>6. CASE ~FullProofAtHand
  <2>1. proofs' = proofs
    BY <1>6 DEF Close
  <2>2. Good(proofs, last)'
    BY <1>1, <1>2, <2>1 DEF Good, PartsFit
  <2>3. FullProof(proofs)' /\ ~FullProofAtHand'
    BY <1>1, <1>2, <1>6, <2>1 DEF IInv, FullProof, FullProofAtHand
  <2> QED
    BY <1>3, <1>4, <2>2, <2>3 DEF IInv
<1> QED
  BY <1>5, <1>6

(* A call on the proof of k keeps the invariant when its result for the    *)
(* whole block is under way, rejected, or ends the calculation.            *)
LEMMA CallKeeps ==
  ASSUME IInv, NEW k, NEW proof, Effect(proofs, proofs', k, proof, Block, last),
         UNCHANGED <<last, closed, requests, now>>,
         merges' \subseteq Merges, \A m \in merges' : m.key[2] <= last,
         finished' \in BOOLEAN, finished => finished', finished' => closed,
         \/ proof.status \in {"Started", "Rejected"}
         \/ /\ proof.status = "Calculated" /\ proof.data
            /\ closed /\ k = Block => finished'
  PROVE  IInv'
<1>1. last' = last /\ closed' = closed /\ Block' = Block
  BY DEF Block
<1>2. Good(proofs', last)
  BY DEF Effect
<1>3. Good(proofs, last)'
  BY <1>1, <1>2 DEF Good, PartsFit
<1>4. FullProof(proofs)'
  <2>1. CASE k = Block
    BY <1>1, <2>1 DEF Effect, FullProof
  <2>2. CASE k # Block
    <3>1. Same(proofs, proofs', Block) /\ FullProof(proofs)
      BY <2>2 DEF Effect, IInv
    <3> QED
      BY <1>1, <3>1 DEF Same, FullProof
  <2> QED
    BY <2>1, <2>2
<1>5. /\ closed' \in BOOLEAN /\ last' \in 0..MaxSequence /\ now' \in 0..MaxNow
      /\ requests' \subseteq Merges
  BY <1>1 DEF IInv
<1>6. (finished => closed)'
  BY <1>1
<1> QED
  BY <1>1, <1>3, <1>4, <1>5, <1>6 DEF IInv

LEMMA SubmitKeeps ==
  ASSUME IInv, NEW k \in Interval, NEW parts, k[2] <= last, PartsFit(k, parts),
         parts \subseteq Interval, Submit(k, parts)
  PROVE  IInv'
<1>1. Effect(proofs, proofs', k, Submitted(parts), Block, last)
  BY SubmitEffect
<1>2. Submitted(parts).status = "Calculated" /\ Submitted(parts).data
  BY DEF Submitted
<1>3. /\ finished' = (finished \/ IsBlockProof(k))
      /\ UNCHANGED <<last, closed, requests, merges, now>>
  BY DEF Submit
<1>4. finished' \in BOOLEAN /\ (finished => finished') /\ (finished' => closed)
      /\ (closed /\ k = Block => finished')
  BY <1>3, Zenon DEF IsBlockProof, IInv
<1>5. merges' \subseteq Merges /\ \A m \in merges' : m.key[2] <= last
  BY <1>3 DEF IInv
<1> QED
  BY <1>1, <1>2, <1>3, <1>4, <1>5, CallKeeps

LEMMA RejectKeeps ==
  ASSUME IInv, NEW k \in Interval, Reject(k)
  PROVE  IInv'
<1> DEFINE proof == [proofs[k] EXCEPT !.status = "Rejected"]
<1>1. Effect(proofs, proofs', k, proof, Block, last)
  BY RejectEffect
<1>2. proof.status = "Rejected"
  BY DEF IInv, Reject, Good, Proof
<1>3. UNCHANGED <<last, closed, finished, requests, merges, now>>
  BY DEF Reject
<1>4. finished' \in BOOLEAN /\ (finished => finished') /\ (finished' => closed)
  BY <1>3 DEF IInv
<1>5. merges' \subseteq Merges /\ \A m \in merges' : m.key[2] <= last
  BY <1>3 DEF IInv
<1> HIDE DEF proof
<1> QED
  BY <1>1, <1>2, <1>3, <1>4, <1>5, CallKeeps

LEMMA StartKeeps ==
  ASSUME IInv, NEW m \in Merges, StartProving(m)
  PROVE  IInv'
<1>1. Effect(proofs, proofs', m.key, Started(m.parts), Block, last)
  BY StartEffect
<1>2. Started(m.parts).status = "Started"
  BY DEF Started
<1>3. merges' = merges \cup {m} /\ UNCHANGED <<last, closed, finished, requests, now>>
  BY DEF StartProving
<1>4. finished' \in BOOLEAN /\ (finished => finished') /\ (finished' => closed)
  BY <1>3 DEF IInv
<1>5. merges' \subseteq Merges /\ \A n \in merges' : n.key[2] <= last
  BY <1>3, StartWithinBlock DEF IInv
<1> QED
  BY <1>1, <1>2, <1>3, <1>4, <1>5, CallKeeps

(* What submits to the calculation stays within the block.                 *)
LEMMA SubmitSequenceFits ==
  ASSUME IInv, NEW s \in 1..MaxSequence, SubmitSequence(s)
  PROVE  /\ <<s, s>> \in Interval /\ <<s, s>>[2] <= last
         /\ PartsFit(<<s, s>>, {}) /\ Submit(<<s, s>>, {})
BY ProverAssumption DEF SubmitSequence, Interval, PartsFit

LEMMA SubmitMergeFits ==
  ASSUME IInv, NEW m \in Merges, SubmitMerge(m)
  PROVE  /\ m.key \in Interval /\ m.key[2] <= last /\ m.parts \subseteq Interval
         /\ PartsFit(m.key, m.parts) /\ Submit(m.key, m.parts)
BY MergeParts DEF SubmitMerge, IInv, PartsFit

(* Steps that leave the table and the block alone.                         *)
LEMMA IdleKeeps ==
  ASSUME IInv, UNCHANGED <<proofs, last, closed, finished, merges>>,
         requests' \subseteq Merges, now' \in 0..MaxNow
  PROVE  IInv' /\ FullProofAtHand' = FullProofAtHand
<1>1. Good(proofs, last)' /\ FullProof(proofs)'
  BY DEF IInv, Good, PartsFit, FullProof, Block
<1>2. /\ (finished => closed)'
      /\ \A m \in merges' : m.key[2] <= last'
      /\ last' \in 0..MaxSequence /\ closed' \in BOOLEAN /\ finished' \in BOOLEAN
      /\ merges' \subseteq Merges
  BY DEF IInv
<1>3. FullProofAtHand' = FullProofAtHand
  BY DEF FullProofAtHand, Block
<1> QED
  BY <1>1, <1>2, <1>3 DEF IInv

LEMMA NextIInv == IInv /\ [Next]_vars => IInv'
<1> SUFFICES ASSUME IInv, [Next]_vars PROVE IInv'
  OBVIOUS
<1>1. CASE NextSequence
  BY <1>1, NextSequenceKeeps
<1>2. CASE Close
  BY <1>2, CloseKeeps
<1>3. ASSUME NEW m \in Merges, Request(m) PROVE IInv'
  <2>1. UNCHANGED <<proofs, last, closed, finished, merges>>
        /\ requests' \subseteq Merges /\ now' \in 0..MaxNow
    BY <1>3 DEF Request, IInv
  <2> QED
    BY <2>1, IdleKeeps
<1>4. ASSUME NEW m \in Merges, StartProving(m) PROVE IInv'
  BY <1>4, StartKeeps
<1>5. ASSUME NEW m \in Merges, SubmitMerge(m) PROVE IInv'
  BY <1>5, SubmitMergeFits, SubmitKeeps
<1>6. ASSUME NEW s \in 1..MaxSequence, SubmitSequence(s) PROVE IInv'
  <2> DEFINE k == <<s, s>>
             none == {}
  <2>1. k \in Interval /\ k[2] <= last /\ PartsFit(k, none) /\ Submit(k, none)
    BY <1>6, SubmitSequenceFits
  <2>2. none \subseteq Interval
    OBVIOUS
  <2> HIDE DEF k, none
  <2> QED
    BY <2>1, <2>2, SubmitKeeps
<1>7. ASSUME NEW k \in Interval, Reject(k) PROVE IInv'
  BY <1>7, RejectKeeps
<1>8. CASE Tick
  <2>1. UNCHANGED <<proofs, last, closed, finished, merges>>
        /\ requests' \subseteq Merges /\ now' \in 0..MaxNow
    BY <1>8, ProverAssumption DEF Tick, IInv
  <2> QED
    BY <2>1, IdleKeeps
<1>9. CASE UNCHANGED vars
  <2>1. UNCHANGED <<proofs, last, closed, finished, merges>>
        /\ requests' \subseteq Merges /\ now' \in 0..MaxNow
    BY <1>9 DEF vars, IInv
  <2> QED
    BY <2>1, IdleKeeps
<1> QED
  BY <1>1, <1>2, <1>3, <1>4, <1>5, <1>6, <1>7, <1>8, <1>9 DEF Next

LEMMA Invariant == Spec => []IInv
BY InitIInv, NextIInv, PTL DEF Spec

-----------------------------------------------------------------------------
(* The properties of Prover.                                               *)

(* The proofs of the calculation have their types, and the parts of each   *)
(* split its interval, whatever is submitted, restarted or rejected.       *)
THEOREM TypeCorrect == Spec => []TypeOK
<1>1. IInv => TypeOK
  BY DEF IInv, Good, PartsFit, TypeOK
<1> QED
  BY <1>1, Invariant, PTL

(* A proof that a merge has reserved or used has its data.                 *)
THEOREM HeldAlwaysHaveData == Spec => []HeldProofsHaveData
<1>1. IInv => HeldProofsHaveData
  BY DEF IInv, Good, HeldProofsHaveData
<1> QED
  BY <1>1, Invariant, PTL

(* Whichever of the full proof and the closing comes first, a closed block *)
(* with a full proof is finished.                                          *)
THEOREM FullProofNeverMissed == Spec => []NoFullProofIsMissed
<1>1. IInv => NoFullProofIsMissed
  BY DEF IInv, FullProof, NoFullProofIsMissed
<1> QED
  BY <1>1, Invariant, PTL

-----------------------------------------------------------------------------
(* The refinement of Calculation.                                          *)

CalcFacts ==
  /\ Calc \in Abstract!State
  /\ Calc.phase = IF closed THEN "closed" ELSE "open"
  /\ Calc.length = last
  /\ Calc.full = FullProofAtHand
  /\ Calc.finished = finished

LEMMA CalcFields == (IInv => CalcFacts) /\ (IInv' => CalcFacts')
<1>1. ASSUME NEW c \in BOOLEAN, NEW l \in Nat, NEW f \in BOOLEAN, NEW d \in BOOLEAN, NEW r,
             r = [phase |-> IF c THEN "closed" ELSE "open", length |-> l,
                  full |-> f, finished |-> d]
      PROVE  /\ r \in Abstract!State
             /\ r.phase = IF c THEN "closed" ELSE "open"
             /\ r.length = l /\ r.full = f /\ r.finished = d
  BY <1>1 DEF Abstract!State, Abstract!Phase
<1>2. FullProofAtHand \in BOOLEAN /\ FullProofAtHand' \in BOOLEAN
  BY Zenon DEF FullProofAtHand
<1>3. ASSUME IInv PROVE closed \in BOOLEAN /\ last \in Nat /\ finished \in BOOLEAN
  BY <1>3, ProverAssumption DEF IInv
<1>4. ASSUME IInv' PROVE closed' \in BOOLEAN /\ last' \in Nat /\ finished' \in BOOLEAN
  BY <1>4, ProverAssumption DEF IInv
<1>5. Calc = [phase |-> IF closed THEN "closed" ELSE "open", length |-> last,
              full |-> FullProofAtHand, finished |-> finished]
  BY Zenon DEF Calc
<1>6. Calc' = [phase |-> IF closed' THEN "closed" ELSE "open", length |-> last',
               full |-> FullProofAtHand', finished |-> finished']
  BY Zenon DEF Calc
<1>7. IInv => CalcFacts
  BY <1>1, <1>2, <1>3, <1>5 DEF CalcFacts
<1>8. IInv' => CalcFacts'
  BY <1>1, <1>2, <1>4, <1>6 DEF CalcFacts
<1> QED
  BY <1>7, <1>8

(* A step that changes neither the block nor whether a full proof is at    *)
(* hand stutters.                                                          *)
LEMMA CalcStutters ==
  ASSUME UNCHANGED <<last, closed, finished>>, FullProofAtHand' = FullProofAtHand
  PROVE  Calc' = Calc
BY DEF Calc

LEMMA SubmitRefines ==
  ASSUME IInv, NEW k \in Interval, NEW parts, k[2] <= last, PartsFit(k, parts),
         parts \subseteq Interval, Submit(k, parts)
  PROVE  Abstract!Next \/ Calc' = Calc
<1>1. Effect(proofs, proofs', k, Submitted(parts), Block, last)
  BY SubmitEffect
<1>2. /\ finished' = (finished \/ IsBlockProof(k))
      /\ last' = last /\ closed' = closed /\ Block' = Block
  BY DEF Submit, Block
<1>3. CASE k = Block
  <2>1. FullProofAtHand'
    BY <1>1, <1>2, <1>3 DEF Effect, FullProofAtHand, Submitted
  <2>2. last > 0
    BY <1>3, IntervalEnds, ProverAssumption DEF Block, IInv
  <2>3. CalcFacts /\ CalcFacts'
    BY CalcFields, SubmitKeeps
  <2>4. finished' = (finished \/ closed)
    BY <1>2, <1>3 DEF IsBlockProof
  <2>5. Abstract!ProveAll
    BY <1>2, <2>1, <2>2, <2>3, <2>4
       DEF Abstract!ProveAll, Abstract!State, CalcFacts
  <2> QED
    BY <2>5 DEF Abstract!Next
<1>4. CASE k # Block
  <2>1. FullProofAtHand' = FullProofAtHand
    BY <1>1, <1>2, <1>4 DEF Effect, Same, FullProofAtHand
  <2>2. finished' = finished
    BY <1>2, <1>4 DEF IsBlockProof, IInv
  <2> QED
    BY <1>2, <2>1, <2>2, CalcStutters
<1> QED
  BY <1>3, <1>4

(* A call that leaves no full proof loses at most the one there was.       *)
LEMMA CallRefines ==
  ASSUME IInv, IInv', NEW k, NEW proof,
         Effect(proofs, proofs', k, proof, Block, last),
         UNCHANGED <<last, closed, finished>>, proof.status # "Calculated"
  PROVE  Abstract!Next \/ Calc' = Calc
<1>1. last' = last /\ closed' = closed /\ Block' = Block
  BY DEF Block
<1>2. CASE k = Block /\ FullProofAtHand
  <2>1. ~FullProofAtHand'
    BY <1>1, <1>2 DEF Effect, FullProofAtHand
  <2>2. CalcFacts /\ CalcFacts'
    BY CalcFields
  <2>3. Abstract!Lose
    BY <1>2, <2>1, <2>2 DEF Abstract!Lose, Abstract!State, CalcFacts
  <2> QED
    BY <2>3 DEF Abstract!Next
<1>3. CASE k = Block /\ ~FullProofAtHand
  <2>1. ~FullProofAtHand'
    BY <1>1, <1>3 DEF Effect, FullProofAtHand
  <2>2. FullProofAtHand' = FullProofAtHand
    BY <1>3, <2>1, Zenon DEF FullProofAtHand
  <2> QED
    BY <2>2, CalcStutters
<1>4. CASE k # Block
  <2>1. FullProofAtHand' = FullProofAtHand
    BY <1>1, <1>4 DEF Effect, Same, FullProofAtHand
  <2> QED
    BY <2>1, CalcStutters
<1> QED
  BY <1>2, <1>3, <1>4

LEMMA NextRefines == IInv /\ [Next]_vars => Abstract!Next \/ Calc' = Calc
<1> SUFFICES ASSUME IInv, [Next]_vars PROVE Abstract!Next \/ Calc' = Calc
  OBVIOUS
<1>1. IInv' /\ CalcFacts /\ CalcFacts'
  BY NextIInv, CalcFields
<1>2. CASE NextSequence
  <2>1. ~FullProofAtHand'
    BY <1>2, NextSequenceKeeps DEF FullProofAtHand
  <2>2. Abstract!NextSequence
    BY <1>1, <1>2, <2>1
       DEF NextSequence, Abstract!NextSequence, Abstract!State, CalcFacts
  <2> QED
    BY <2>2 DEF Abstract!Next
<1>3. CASE Close
  <2>1. ~FullProofAtHand'
    BY <1>3, CloseKeeps
  <2>2. Abstract!Close
    BY <1>1, <1>3, <2>1 DEF Close, Abstract!Close, Abstract!State, CalcFacts
  <2> QED
    BY <2>2 DEF Abstract!Next
<1>4. ASSUME NEW m \in Merges, StartProving(m) PROVE Abstract!Next \/ Calc' = Calc
  <2>1. Effect(proofs, proofs', m.key, Started(m.parts), Block, last)
    BY <1>4, StartEffect
  <2>2. UNCHANGED <<last, closed, finished>> /\ Started(m.parts).status # "Calculated"
    BY <1>4 DEF StartProving, Started
  <2> QED
    BY <1>1, <2>1, <2>2, CallRefines
<1>5. ASSUME NEW k \in Interval, Reject(k) PROVE Abstract!Next \/ Calc' = Calc
  <2> DEFINE proof == [proofs[k] EXCEPT !.status = "Rejected"]
  <2>1. Effect(proofs, proofs', k, proof, Block, last)
    BY <1>5, RejectEffect
  <2>2. UNCHANGED <<last, closed, finished>> /\ proof.status # "Calculated"
    BY <1>5 DEF Reject, IInv, Good, Proof
  <2> HIDE DEF proof
  <2> QED
    BY <1>1, <2>1, <2>2, CallRefines
<1>6. ASSUME NEW m \in Merges, SubmitMerge(m) PROVE Abstract!Next \/ Calc' = Calc
  BY <1>6, SubmitMergeFits, SubmitRefines
<1>7. ASSUME NEW s \in 1..MaxSequence, SubmitSequence(s)
      PROVE  Abstract!Next \/ Calc' = Calc
  <2> DEFINE k == <<s, s>>
             none == {}
  <2>1. k \in Interval /\ k[2] <= last /\ PartsFit(k, none) /\ Submit(k, none)
    BY <1>7, SubmitSequenceFits
  <2>2. none \subseteq Interval
    OBVIOUS
  <2> HIDE DEF k, none
  <2> QED
    BY <2>1, <2>2, SubmitRefines
<1>8. ASSUME \/ \E m \in Merges : Request(m)
             \/ Tick
             \/ UNCHANGED vars
      PROVE  Calc' = Calc
  <2>1. UNCHANGED <<proofs, last, closed, finished>>
    BY <1>8 DEF Request, Tick, vars
  <2>2. FullProofAtHand' = FullProofAtHand
    BY <2>1 DEF FullProofAtHand, Block
  <2> QED
    BY <2>1, <2>2, CalcStutters
<1> QED
  BY <1>2, <1>3, <1>4, <1>5, <1>6, <1>7, <1>8 DEF Next

(* The calculation keeps what the app instance relies on: it finishes with *)
(* the first full proof after the closing or with one that was there, and  *)
(* never turns unfinished.                                                 *)
THEOREM Implementation == Spec => ImplementsCalculation
<1>1. Init => Abstract!Init
  BY DEF Init, Abstract!Init, Calc, FullProofAtHand, Block
<1>2. IInv /\ [Next]_vars => [Abstract!Next]_Calc
  BY NextRefines
<1> QED
  BY <1>1, <1>2, Invariant, PTL DEF Spec, Abstract!Spec, ImplementsCalculation
-----------------------------------------------------------------------------
(* Powers of two and their multiples.                                      *)

LEMMA PowersOfTwo ==
  /\ Pow2[0] = 1
  /\ \A n \in 1..MaxSequence : Pow2[n] = 2 * Pow2[n - 1]
  /\ \A n \in 0..MaxSequence : Pow2[n] \in Nat \ {0} /\ n < Pow2[n]
<1> DEFINE N == MaxSequence
           F == [p \in Nat \X (1..N) |-> 2 * p[1]]
<1>1. N \in Nat \ {0}
  BY ProverAssumption
<1>2. PICK g \in [0..N -> Nat] : g[0] = 1 /\ \A i \in 1..N : g[i] = F[<<g[i - 1], i>>]
  <2> HIDE DEF N
  <2>1. F \in [Nat \X (1..N) -> Nat] /\ 1 \in Nat /\ N \in Nat
    BY <1>1
  <2> HIDE DEF F
  <2>2. Reaches(N, Nat, 1, F)
    BY <2>1, Recursion
  <2> QED
    BY <2>2 DEF Reaches
<1>3. ASSUME NEW i \in 1..N PROVE g[i] = 2 * g[i - 1]
  <2>1. g[i - 1] \in Nat
    BY <1>1, <1>2
  <2> QED
    BY <1>2, <2>1
<1>4. g = [i \in 0..N |-> IF i = 0 THEN 1 ELSE 2 * g[i - 1]]
  BY <1>1, <1>2, <1>3
<1>5. Pow2 = [i \in 0..N |-> IF i = 0 THEN 1 ELSE 2 * Pow2[i - 1]]
  BY <1>4 DEF Pow2
<1>6. Pow2[0] = 1 /\ \A n \in 1..N : Pow2[n] = 2 * Pow2[n - 1]
  BY <1>1, <1>5
<1> DEFINE S == {n \in 0..N : Pow2[n] \in Nat \ {0} /\ n < Pow2[n]}
<1>7. 0 \in S
  BY <1>1, <1>6
<1> HIDE DEF N
<1>8. ASSUME NEW n \in 0..(N - 1), n \in S PROVE n + 1 \in S
  <2>1. n + 1 \in 1..N /\ (n + 1) - 1 = n
    BY <1>1
  <2>2. Pow2[n + 1] = 2 * Pow2[n]
    BY <1>6, <2>1
  <2> QED
    BY <1>8, <2>1, <2>2
<1> HIDE DEF S
<1>9. \A n \in 0..N : n \in S
  BY <1>1, <1>7, <1>8, BoundedInduction
<1> QED
  BY <1>6, <1>9 DEF S, N

Multiple(x, p) == \E q \in Nat : x = q * p

LEMMA MultiplesAreApart ==
  ASSUME NEW p \in Nat, NEW x \in Nat, NEW y \in Nat, Multiple(x, p), Multiple(y, p), x < y
  PROVE  x + p <= y
<1>1. PICK u \in Nat : x = u * p
  BY DEF Multiple
<1>2. PICK v \in Nat : y = v * p
  BY DEF Multiple
<1>3. u < v
  <2>1. CASE v <= u
    <3>1. PICK d \in Nat : u = v + d
      BY <2>1
    <3>2. u * p = v * p + d * p /\ d * p >= 0
      BY <3>1
    <3> QED
      BY <1>1, <1>2, <3>2
  <2> QED
    BY <2>1
<1>4. PICK d \in Nat : v = u + 1 + d
  BY <1>3
<1>5. v * p = u * p + p + d * p /\ d * p >= 0
  BY <1>4
<1> QED
  BY <1>1, <1>2, <1>5

LEMMA MultiplesAdd ==
  ASSUME NEW p \in Nat, NEW x \in Nat, Multiple(x, p)
  PROVE  Multiple(x + p, p)
<1>1. PICK u \in Nat : x = u * p
  BY DEF Multiple
<1>2. (u + 1) * p = x + p /\ u + 1 \in Nat
  BY <1>1
<1> QED
  BY <1>2 DEF Multiple

(* A power of two is a multiple of every smaller one.                      *)
LEMMA PowersDivide ==
  ASSUME NEW i \in 0..MaxSequence, NEW j \in 0..MaxSequence, i <= j
  PROVE  Multiple(Pow2[j], Pow2[i]) /\ Pow2[i] <= Pow2[j]
<1> DEFINE S == {n \in 0..(MaxSequence - i) : Multiple(Pow2[i + n], Pow2[i])
                                              /\ Pow2[i] <= Pow2[i + n]}
           top == MaxSequence - i
<1>1. top \in Nat /\ \A n \in 0..top : i + n \in 0..MaxSequence
  BY ProverAssumption
<1>2. Pow2[i] \in Nat \ {0}
  BY PowersOfTwo
<1>3. 0 \in S
  <2>1. i + 0 = i /\ Pow2[i] = 1 * Pow2[i]
    BY <1>2
  <2> QED
    BY <1>1, <1>2, <2>1 DEF Multiple
<1>4. ASSUME NEW n \in 0..(top - 1), n \in S PROVE n + 1 \in S
  <2>1. n + 1 \in 0..top /\ i + (n + 1) \in 1..MaxSequence /\ (i + (n + 1)) - 1 = i + n
    BY <1>1
  <2>2. Pow2[i + (n + 1)] = 2 * Pow2[i + n] /\ Pow2[i + n] \in Nat
    BY <1>1, <2>1, PowersOfTwo
  <2>3. PICK q \in Nat : Pow2[i + n] = q * Pow2[i]
    BY <1>4 DEF Multiple
  <2>4. 2 * Pow2[i + n] = (2 * q) * Pow2[i] /\ 2 * q \in Nat
    BY <1>2, <2>2, <2>3
  <2>5. Multiple(Pow2[i + (n + 1)], Pow2[i])
    BY <2>2, <2>4 DEF Multiple
  <2> QED
    BY <1>2, <1>4, <2>1, <2>2, <2>5
<1> HIDE DEF top
<1>5. top = MaxSequence - i
  BY DEF top
<1> HIDE DEF S
<1>6. \A n \in 0..top : n \in S
  BY <1>1, <1>3, <1>4, BoundedInduction
<1>7. j - i \in 0..top /\ i + (j - i) = j
  BY <1>5, ProverAssumption
<1>8. j - i \in S
  BY <1>6, <1>7
<1> QED
  BY <1>7, <1>8 DEF S

LEMMA MultiplesOfMultiples ==
  ASSUME NEW p \in Nat, NEW r \in Nat, NEW x \in Nat, Multiple(x, r), Multiple(r, p)
  PROVE  Multiple(x, p)
<1>1. PICK u \in Nat : x = u * r
  BY DEF Multiple
<1>2. PICK v \in Nat : r = v * p
  BY DEF Multiple
<1>3. x = (u * v) * p /\ u * v \in Nat
  BY <1>1, <1>2
<1> QED
  BY <1>3 DEF Multiple

(* largest_power_of_two_below finds its power.                             *)
LEMMA PowerBelowExists ==
  ASSUME NEW n \in 2..MaxSequence
  PROVE  \E j \in 0..(MaxSequence - 1) :
           PowerBelow(n) = Pow2[j] /\ Pow2[j] < n /\ n <= 2 * Pow2[j]
<1> DEFINE S == {j \in 0..MaxSequence : n <= Pow2[j]}
<1>1. MaxSequence \in S
  BY PowersOfTwo, ProverAssumption
<1>2. S \in SUBSET Nat
  BY ProverAssumption
<1>3. PICK j \in S : \A i \in S : j <= i
  <2> HIDE DEF S
  <2> QED
    BY <1>1, <1>2, LeastMember
<1>4. j \in 0..MaxSequence /\ j # 0
  BY <1>3, PowersOfTwo
<1>5. j \in 1..MaxSequence /\ j - 1 \in 0..MaxSequence /\ j - 1 \notin S
  BY <1>3, <1>4, ProverAssumption
<1>6. Pow2[j] = 2 * Pow2[j - 1] /\ Pow2[j - 1] \in Nat
  BY <1>5, PowersOfTwo
<1>7. Pow2[j - 1] \in Powers /\ Pow2[j - 1] < n /\ n <= 2 * Pow2[j - 1]
  BY <1>3, <1>5, <1>6 DEF Powers
<1>8. PowerBelow(n) \in Powers /\ PowerBelow(n) < n /\ n <= 2 * PowerBelow(n)
  BY <1>7 DEF PowerBelow
<1>9. PICK i \in 0..MaxSequence : PowerBelow(n) = Pow2[i]
  BY <1>8 DEF Powers
<1>10. i # MaxSequence
  BY <1>8, <1>9, PowersOfTwo, ProverAssumption
<1> QED
  BY <1>8, <1>9, <1>10, ProverAssumption
-----------------------------------------------------------------------------
(* The tree of a range.                                                    *)

(* A range of more than one sequence splits into two shorter ones, the     *)
(* left one as long as a power of two that is at least half of it.         *)
Splits(k, j) ==
  /\ Pow2[j] < Length(k) /\ Length(k) <= 2 * Pow2[j]
  /\ Left(k) = <<k[1], k[1] + Pow2[j] - 1>>
  /\ Right(k) = <<k[1] + Pow2[j], k[2]>>

LEMMA Lengths ==
  ASSUME NEW k \in Interval
  PROVE  /\ Length(k) \in 1..MaxSequence
         /\ k[1] \in 1..MaxSequence /\ k[2] \in 1..MaxSequence /\ k[1] <= k[2]
         /\ k = <<k[1], k[2]>>
BY ProverAssumption DEF Interval, Length

LEMMA RangesSplit ==
  ASSUME NEW k \in Interval, Length(k) # 1
  PROVE  /\ \E j \in 0..(MaxSequence - 1) : Splits(k, j)
         /\ Left(k) \in Interval /\ Right(k) \in Interval
         /\ Length(Left(k)) < Length(k) /\ Length(Right(k)) < Length(k)
         /\ Left(k)[2] <= k[2] /\ Right(k)[2] = k[2]
         /\ MergeOf(Left(k), Right(k)).key = k
         /\ MergeOf(Left(k), Right(k)).parts = {Left(k), Right(k)}
         /\ MergeOf(Left(k), Right(k)) \in Merges
<1>1. Length(k) \in 2..MaxSequence
  BY Lengths
<1>2. PICK j \in 0..(MaxSequence - 1) :
        PowerBelow(Length(k)) = Pow2[j] /\ Pow2[j] < Length(k) /\ Length(k) <= 2 * Pow2[j]
  BY <1>1, PowerBelowExists
<1>3. Pow2[j] \in Nat \ {0}
  BY ProverAssumption, PowersOfTwo
<1> DEFINE p == Pow2[j]
           n == k[1] + p - 1
<1>4. SplitPoint(k) = k[1] + p
  BY <1>2 DEF SplitPoint
<1>5. /\ k[1] \in 1..MaxSequence /\ k[2] \in 1..MaxSequence /\ k[1] <= k[2]
      /\ k = <<k[1], k[2]>> /\ MaxSequence \in Nat
  BY Lengths, ProverAssumption
<1>6. p \in Nat \ {0} /\ p < k[2] - k[1] + 1 /\ Length(k) <= 2 * p /\ p < Length(k)
  BY <1>2, <1>3 DEF Length
<1> HIDE DEF p
<1>7. Left(k) = <<k[1], n>> /\ Right(k) = <<n + 1, k[2]>> /\ n + 1 = k[1] + p
  BY <1>4, <1>5, <1>6 DEF Left, Right
<1>8. k[1] <= n /\ n < k[2] /\ n \in 1..MaxSequence /\ n + 1 \in 1..MaxSequence
  BY <1>5, <1>6
<1>9. Left(k) \in Interval /\ Right(k) \in Interval
  BY <1>5, <1>7, <1>8 DEF Interval
<1>10. Splits(k, j)
  BY <1>2, <1>4, <1>7 DEF Splits, Left, Right, p
<1>11. /\ Length(Left(k)) < Length(k) /\ Length(Right(k)) < Length(k)
       /\ Left(k)[1] = k[1] /\ Left(k)[2] <= k[2] /\ Right(k)[2] = k[2]
  BY <1>5, <1>7, <1>8 DEF Length
<1> HIDE DEF n
<1>12. MergeOf(Left(k), Right(k)) = [key |-> k, parts |-> Split(k, n)]
  BY <1>5, <1>7, <1>11 DEF MergeOf, Split
<1>13. n \in k[1]..(k[2] - 1)
  BY <1>5, <1>8
<1>14. MergeOf(Left(k), Right(k)) \in Merges
  BY <1>12, <1>13 DEF Merges
<1>15. Split(k, n) = {Left(k), Right(k)}
  BY <1>7 DEF Split
<1> QED
  BY <1>9, <1>10, <1>11, <1>12, <1>14, <1>15

(* What is gathered over the tree: a function that adds b[k] to what it    *)
(* finds in the halves of k, unless k is a leaf.                           *)
Gathers(X, b, L) ==
  /\ b \in [Interval -> SUBSET X]
  /\ \A k \in Interval : Length(k) = 1 => k \in L

LEMMA Gathering ==
  ASSUME NEW X, NEW b, NEW L, Gathers(X, b, L)
  PROVE  \E f \in [Interval -> SUBSET X] :
           \A k \in Interval :
             f[k] = b[k] \cup (IF k \in L THEN {} ELSE f[Left(k)] \cup f[Right(k)])
<1> USE DEF Gathers
<1> DEFINE D == Interval
           S == SUBSET X
           w == [k \in D |-> Length(k)]
           F == [f \in [D -> S] |->
                   [k \in D |-> b[k] \cup (IF k \in L THEN {}
                                           ELSE f[Left(k)] \cup f[Right(k)])]]
<1>1. MaxSequence \in Nat /\ {} \in S
  BY ProverAssumption
<1>2. w \in [D -> 0..MaxSequence]
  BY Lengths
<1>3. \A k \in D : k \notin L =>
        /\ Left(k) \in D /\ Right(k) \in D
        /\ w[Left(k)] < w[k] /\ w[Right(k)] < w[k]
  BY RangesSplit
<1>4. F \in [[D -> S] -> [D -> S]]
  <2>1. ASSUME NEW f \in [D -> S], NEW k \in D
        PROVE  b[k] \cup (IF k \in L THEN {} ELSE f[Left(k)] \cup f[Right(k)]) \in S
    BY <1>3
  <2> QED
    BY <2>1
<1>5. ASSUME NEW g \in [D -> S], NEW h \in [D -> S], NEW k \in D,
             \A j \in D : w[j] < w[k] => g[j] = h[j]
      PROVE  F[g][k] = F[h][k]
  <2>1. k \notin L => g[Left(k)] = h[Left(k)] /\ g[Right(k)] = h[Right(k)]
    BY <1>3, <1>5
  <2> HIDE DEF D, S
  <2>2. /\ F[g][k] = b[k] \cup (IF k \in L THEN {} ELSE g[Left(k)] \cup g[Right(k)])
        /\ F[h][k] = b[k] \cup (IF k \in L THEN {} ELSE h[Left(k)] \cup h[Right(k)])
    OBVIOUS
  <2> QED
    BY <2>1, <2>2
<1> HIDE DEF F, w
<1>6. PICK f \in [D -> S] : f = F[f]
  <2> HIDE DEF D, S
  <2>1. LooksBelow(MaxSequence, D, S, w, F)
    BY <1>1, <1>2, <1>4, <1>5 DEF LooksBelow
  <2> QED
    BY <2>1, FixedPoint
<1>7. \A k \in D : F[f][k] = b[k] \cup (IF k \in L THEN {} ELSE f[Left(k)] \cup f[Right(k)])
  BY DEF F
<1> QED
  BY <1>6, <1>7
(* The nodes below k, and the merges that the top-down search finds in k.  *)
IsBelow(f) ==
  f = [k \in Interval |->
         {k} \cup IF Length(k) = 1 THEN {} ELSE f[Left(k)] \cup f[Right(k)]]

IsFind(P, f) ==
  f = [k \in Interval |->
         IF k \in DOMAIN P \/ Length(k) = 1 THEN {}
         ELSE {m \in {MergeOf(Left(k), Right(k))} : Ready(P, Left(k), Right(k))}
              \cup f[Left(k)] \cup f[Right(k)]]

Below == CHOOSE f : IsBelow(f)

LEMMA NodesAreBelow ==
  /\ \A k \in Interval : k \in Below[k]
  /\ \A k \in Interval :
       Length(k) # 1 => Below[Left(k)] \subseteq Below[k] /\ Below[Right(k)] \subseteq Below[k]
  /\ \A e : Nodes(e) = Below[<<1, e>>]
<1> DEFINE b == [k \in Interval |-> {k}]
           L == {k \in Interval : Length(k) = 1}
<1>1. Gathers(Interval, b, L)
  BY DEF Gathers
<1>2. PICK f \in [Interval -> SUBSET Interval] :
        \A k \in Interval :
          f[k] = b[k] \cup (IF k \in L THEN {} ELSE f[Left(k)] \cup f[Right(k)])
  <2> HIDE DEF b, L
  <2> QED
    BY <1>1, Gathering
<1>3. \A k \in Interval :
        f[k] = {k} \cup IF Length(k) = 1 THEN {} ELSE f[Left(k)] \cup f[Right(k)]
  BY <1>2
<1>4. IsBelow(f)
  BY <1>3 DEF IsBelow
<1>5. IsBelow(Below)
  BY <1>4 DEF Below
<1>6. \A e : Nodes(e) = Below[<<1, e>>]
  BY Zenon DEF Nodes, Below, IsBelow
<1>7. /\ DOMAIN Below = Interval
      /\ \A k \in Interval :
           Below[k] = {k} \cup IF Length(k) = 1 THEN {} ELSE Below[Left(k)] \cup Below[Right(k)]
  BY <1>5 DEF IsBelow
<1>8. \A k \in Interval :
        /\ k \in Below[k]
        /\ Length(k) # 1 => Below[Left(k)] \subseteq Below[k] /\ Below[Right(k)] \subseteq Below[k]
  BY <1>7
<1> QED
  BY <1>6, <1>8
LEMMA TopDownSearches ==
  ASSUME NEW P
  PROVE  \E f : IsFind(P, f) /\ TopDown(P) = f[Block]
<1> DEFINE b == [k \in Interval |->
                   IF k \in DOMAIN P \/ Length(k) = 1 THEN {}
                   ELSE {m \in {MergeOf(Left(k), Right(k))} : Ready(P, Left(k), Right(k))}]
           L == {k \in Interval : k \in DOMAIN P \/ Length(k) = 1}
<1>1. Gathers(Merges, b, L)
  BY RangesSplit DEF Gathers
<1>2. PICK f \in [Interval -> SUBSET Merges] :
        \A k \in Interval :
          f[k] = b[k] \cup (IF k \in L THEN {} ELSE f[Left(k)] \cup f[Right(k)])
  <2> HIDE DEF b, L
  <2> QED
    BY <1>1, Gathering
<1>3. ASSUME NEW k \in Interval
      PROVE  f[k] = IF k \in DOMAIN P \/ Length(k) = 1 THEN {}
                    ELSE {m \in {MergeOf(Left(k), Right(k))} : Ready(P, Left(k), Right(k))}
                         \cup f[Left(k)] \cup f[Right(k)]
  <2>1. CASE k \in L
    BY <1>2, <2>1
  <2>2. CASE k \notin L
    BY <1>2, <2>2
  <2> QED
    BY <2>1, <2>2
<1>4. IsFind(P, f)
  BY <1>3 DEF IsFind
<1> DEFINE find == CHOOSE g : IsFind(P, g)
<1>5. IsFind(P, find)
  BY <1>4
<1>6. TopDown(P) = find[Block]
  BY Zenon DEF TopDown, IsFind
<1> QED
  BY <1>5, <1>6

(* A top-down search finds merges of nodes only.                           *)
LEMMA TopDownFindsNodes ==
  ASSUME NEW P, NEW l \in 1..MaxSequence, Block = <<1, l>>
  PROVE  \A m \in TopDown(P) : m.key \in Nodes(l)
<1>1. PICK f : IsFind(P, f) /\ TopDown(P) = f[Block]
  BY TopDownSearches
<1>2. /\ DOMAIN f = Interval
      /\ \A k \in Interval :
           f[k] = IF k \in DOMAIN P \/ Length(k) = 1 THEN {}
                  ELSE {m \in {MergeOf(Left(k), Right(k))} : Ready(P, Left(k), Right(k))}
                       \cup f[Left(k)] \cup f[Right(k)]
  BY <1>1 DEF IsFind
<1> DEFINE N == MaxSequence
           S == {n \in 0..N : \A k \in Interval :
                   Length(k) <= n => \A m \in f[k] : m.key \in Below[k]}
<1>3. N \in Nat
  BY ProverAssumption
<1>4. 0 \in S
  BY <1>3, Lengths
<1>5. ASSUME NEW n \in 0..(N - 1), n \in S PROVE n + 1 \in S
  <2>1. ASSUME NEW k \in Interval, Length(k) <= n + 1, NEW m \in f[k]
        PROVE  m.key \in Below[k]
    <3>1. k \notin DOMAIN P /\ Length(k) # 1
      BY <1>2, <2>1
    <3>2. /\ Left(k) \in Interval /\ Right(k) \in Interval
          /\ Length(Left(k)) < Length(k) /\ Length(Right(k)) < Length(k)
          /\ MergeOf(Left(k), Right(k)).key = k
      BY <3>1, RangesSplit
    <3>3. \/ m = MergeOf(Left(k), Right(k))
          \/ m \in f[Left(k)] \/ m \in f[Right(k)]
      BY <1>2, <2>1, <3>1
    <3>4. Length(Left(k)) <= n /\ Length(Right(k)) <= n
      BY <1>3, <2>1, <3>2, Lengths
    <3>5. m.key = k \/ m.key \in Below[Left(k)] \/ m.key \in Below[Right(k)]
      BY <1>5, <3>2, <3>3, <3>4
    <3> QED
      BY <3>1, <3>5, NodesAreBelow
  <2>2. n + 1 \in 0..N
    BY <1>3
  <2> QED
    BY <2>1, <2>2
<1> HIDE DEF N, S
<1>6. \A n \in 0..N : n \in S
  BY <1>3, <1>4, <1>5, BoundedInduction
<1>7. N \in S /\ Block \in Interval /\ Length(Block) <= N
  <2>1. Block \in Interval
    BY ProverAssumption DEF Interval
  <2> QED
    BY <1>3, <1>6, <2>1, Lengths DEF N
<1>8. \A m \in f[Block] : m.key \in Below[Block]
  BY <1>7 DEF S
<1> QED
  BY <1>1, <1>8, NodesAreBelow

-----------------------------------------------------------------------------
(* The aligned chunks that the bottom-up search merges are nodes of every  *)
(* tree that is long enough.                                               *)

(* A range that starts at a multiple of a power of two at least as long.   *)
Regular(k) ==
  \E i \in 0..MaxSequence : Length(k) <= Pow2[i] /\ Multiple(k[1] - 1, Pow2[i])

LEMMA HalvesAreRegular ==
  ASSUME NEW k \in Interval, Regular(k), NEW j \in 0..(MaxSequence - 1), Splits(k, j)
  PROVE  /\ Multiple(k[1] - 1, Pow2[j])
         /\ Regular(Left(k)) /\ Regular(Right(k))
<1>1. PICK i \in 0..MaxSequence : Length(k) <= Pow2[i] /\ Multiple(k[1] - 1, Pow2[i])
  BY DEF Regular
<1>2. /\ Pow2[i] \in Nat /\ Pow2[j] \in Nat
      /\ i \in 0..MaxSequence /\ j \in 0..MaxSequence
  BY PowersOfTwo, ProverAssumption
<1>3. Pow2[j] < Length(k) /\ Length(k) <= 2 * Pow2[j]
  BY DEF Splits
<1>4. k[1] \in Nat /\ k[2] \in Nat /\ k[1] >= 1 /\ Length(k) = k[2] - k[1] + 1
  BY Lengths, ProverAssumption DEF Length
<1>5. j <= i
  <2>1. CASE i <= j
    <3>1. Pow2[i] <= Pow2[j]
      BY <1>2, <2>1, PowersDivide
    <3> QED
      BY <1>1, <1>2, <1>3, <1>4, <3>1
  <2> QED
    BY <1>2, <2>1
<1>6. Multiple(Pow2[i], Pow2[j])
  BY <1>2, <1>5, PowersDivide
<1>7. k[1] - 1 \in Nat
  BY <1>4
<1>8. Multiple(k[1] - 1, Pow2[j])
  BY <1>1, <1>2, <1>6, <1>7, MultiplesOfMultiples
<1>9. Multiple((k[1] - 1) + Pow2[j], Pow2[j])
  BY <1>2, <1>7, <1>8, MultiplesAdd
<1>10. Left(k)[1] = k[1] /\ Left(k)[2] = k[1] + Pow2[j] - 1
       /\ Right(k)[1] = k[1] + Pow2[j] /\ Right(k)[2] = k[2]
  BY DEF Splits
<1>11. Length(Left(k)) <= Pow2[j] /\ Length(Right(k)) <= Pow2[j]
  BY <1>2, <1>3, <1>4, <1>10 DEF Length
<1>12. Regular(Left(k))
  BY <1>2, <1>8, <1>10, <1>11 DEF Regular
<1>13. Right(k)[1] - 1 = (k[1] - 1) + Pow2[j]
  BY <1>2, <1>4, <1>10
<1>14. Regular(Right(k))
  BY <1>2, <1>9, <1>11, <1>13 DEF Regular
<1> QED
  BY <1>8, <1>12, <1>14

(* The chunk of Pow2[h] sequences after a.                                 *)
Chunk(a, h) == <<a + 1, a + Pow2[h]>>

(* A chunk of a regular range is the range or within one of its halves.    *)
LEMMA ChunksAreNotSplit ==
  ASSUME NEW k \in Interval, Regular(k), NEW h \in 0..MaxSequence, NEW a \in Nat,
         Multiple(a, Pow2[h]), k[1] <= a + 1, a + Pow2[h] <= k[2], k # Chunk(a, h)
  PROVE  /\ Length(k) # 1
         /\ Regular(Left(k)) /\ Regular(Right(k))
         /\ \/ Left(k)[1] <= a + 1 /\ a + Pow2[h] <= Left(k)[2]
            \/ Right(k)[1] <= a + 1 /\ a + Pow2[h] <= Right(k)[2]
<1>1. Pow2[h] \in Nat \ {0}
  BY PowersOfTwo
<1>2. k[1] \in Nat /\ k[2] \in Nat /\ k[1] >= 1 /\ Length(k) = k[2] - k[1] + 1
      /\ k = <<k[1], k[2]>> /\ Length(k) \in Nat
  BY Lengths, ProverAssumption DEF Length
<1>3. Pow2[h] < Length(k)
  <2>1. k[1] # a + 1 \/ k[2] # a + Pow2[h]
    BY <1>2 DEF Chunk
  <2> QED
    BY <1>1, <1>2, <2>1
<1>4. Length(k) # 1
  BY <1>1, <1>3
<1>5. PICK j \in 0..(MaxSequence - 1) : Splits(k, j)
  BY <1>4, RangesSplit
<1>6. Multiple(k[1] - 1, Pow2[j]) /\ Regular(Left(k)) /\ Regular(Right(k))
  BY <1>5, HalvesAreRegular
<1>7. /\ Pow2[j] \in Nat /\ j \in 0..MaxSequence /\ j + 1 \in 1..MaxSequence
      /\ (j + 1) - 1 = j
  BY PowersOfTwo, ProverAssumption
<1>8. Pow2[j + 1] = 2 * Pow2[j]
  BY <1>7, PowersOfTwo
<1>9. h <= j
  <2>1. CASE j + 1 <= h
    <3>1. Pow2[j + 1] <= Pow2[h]
      BY <1>7, <2>1, PowersDivide
    <3>2. Length(k) <= 2 * Pow2[j]
      BY <1>5 DEF Splits
    <3> QED
      BY <1>1, <1>2, <1>3, <1>7, <1>8, <3>1, <3>2
  <2> QED
    BY <1>7, <2>1
<1>10. Multiple(Pow2[j], Pow2[h])
  BY <1>7, <1>9, PowersDivide
<1> DEFINE c == k[1] - 1 + Pow2[j]
<1>11. c \in Nat /\ k[1] - 1 \in Nat
  BY <1>2, <1>7
<1>12. Multiple(c, Pow2[j])
  BY <1>6, <1>7, <1>11, MultiplesAdd
<1>13. c = k[1] - 1 + Pow2[j]
  OBVIOUS
<1> HIDE DEF c
<1>14. Multiple(c, Pow2[h])
  BY <1>1, <1>7, <1>10, <1>11, <1>12, MultiplesOfMultiples
<1>15. a + Pow2[h] <= c \/ c <= a
  BY <1>1, <1>11, <1>14, MultiplesAreApart
<1>16. Left(k)[1] = k[1] /\ Left(k)[2] = k[1] + Pow2[j] - 1
       /\ Right(k)[1] = k[1] + Pow2[j] /\ Right(k)[2] = k[2]
  BY <1>5 DEF Splits
<1>17. Left(k)[2] = c /\ Right(k)[1] = c + 1
  BY <1>2, <1>7, <1>13, <1>16
<1> QED
  BY <1>4, <1>6, <1>11, <1>15, <1>16, <1>17

LEMMA ChunksAreBelow ==
  ASSUME NEW h \in 0..MaxSequence, NEW a \in Nat, Multiple(a, Pow2[h])
  PROVE  \A k \in Interval :
           Regular(k) /\ k[1] <= a + 1 /\ a + Pow2[h] <= k[2] => Chunk(a, h) \in Below[k]
<1> DEFINE N == MaxSequence
           Fits(k) == Regular(k) /\ k[1] <= a + 1 /\ a + Pow2[h] <= k[2]
           S == {n \in 0..N : \A k \in Interval :
                   Length(k) <= n /\ Fits(k) => Chunk(a, h) \in Below[k]}
<1>1. N \in Nat
  BY ProverAssumption
<1>2. 0 \in S
  BY <1>1, Lengths
<1>3. ASSUME NEW n \in 0..(N - 1), n \in S PROVE n + 1 \in S
  <2>1. ASSUME NEW k \in Interval, Length(k) <= n + 1, Fits(k), k # Chunk(a, h)
        PROVE  Chunk(a, h) \in Below[k]
    <3>1. /\ Length(k) # 1
          /\ Fits(Left(k)) \/ Fits(Right(k))
      BY <2>1, ChunksAreNotSplit
    <3> HIDE DEF Fits
    <3>2. /\ Left(k) \in Interval /\ Right(k) \in Interval
          /\ Length(Left(k)) < Length(k) /\ Length(Right(k)) < Length(k)
      BY <3>1, RangesSplit
    <3>3. Length(Left(k)) <= n /\ Length(Right(k)) <= n
      BY <1>1, <2>1, <3>2, Lengths
    <3>4. Chunk(a, h) \in Below[Left(k)] \/ Chunk(a, h) \in Below[Right(k)]
      BY <1>3, <3>1, <3>2, <3>3
    <3> QED
      BY <3>1, <3>4, NodesAreBelow
  <2>2. n + 1 \in 0..N
    BY <1>1
  <2> HIDE DEF Fits
  <2>3. \A k \in Interval : Length(k) <= n + 1 /\ Fits(k) => Chunk(a, h) \in Below[k]
    BY <2>1, NodesAreBelow
  <2> QED
    BY <2>2, <2>3
<1> HIDE DEF N, S, Fits
<1>4. \A n \in 0..N : n \in S
  BY <1>1, <1>2, <1>3, BoundedInduction
<1>5. N \in S /\ \A k \in Interval : Length(k) <= N
  BY <1>1, <1>4, Lengths DEF N
<1> QED
  BY <1>5 DEF S, Fits

LEMMA ChunksAreNodes ==
  ASSUME NEW e \in 1..MaxSequence, NEW h \in 0..MaxSequence, NEW a \in Nat,
         Multiple(a, Pow2[h]), a + Pow2[h] <= e
  PROVE  Chunk(a, h) \in Nodes(e)
<1> DEFINE k == <<1, e>>
<1>1. k \in Interval /\ k[1] = 1 /\ k[2] = e /\ Length(k) = e
  BY ProverAssumption DEF Interval, Length
<1>2. Regular(k)
  <2>1. Length(k) <= Pow2[MaxSequence] /\ MaxSequence \in 0..MaxSequence
    BY <1>1, PowersOfTwo, ProverAssumption
  <2>2. Multiple(k[1] - 1, Pow2[MaxSequence])
    <3>1. k[1] - 1 = 0 * Pow2[MaxSequence]
      BY <1>1, <2>1, PowersOfTwo
    <3> QED
      BY <3>1 DEF Multiple
  <2> HIDE DEF k
  <2> QED
    BY <2>1, <2>2 DEF Regular
<1> HIDE DEF k
<1>3. k[1] <= a + 1 /\ a + Pow2[h] <= k[2]
  BY <1>1
<1>4. Chunk(a, h) \in Below[k]
  BY <1>1, <1>2, <1>3, ChunksAreBelow
<1> QED
  BY <1>4, NodesAreBelow DEF k
-----------------------------------------------------------------------------
(* The planner.                                                            *)

(* Where the block may yet end.                                            *)
Ends == IF closed THEN {last} ELSE last..MaxSequence

(* The intervals that have a proof or may yet be given one.                *)
Keys == DOMAIN proofs \cup {m.key : m \in plan \cup requests \cup merges}

FitInv ==
  /\ closed => last > 0
  /\ \A e \in Ends : e > 0 => Keys \subseteq Nodes(e)

(* A step of the planner is a step of Prover or none.                      *)
LEMMA PlannerSteps == [PNext]_plannerVars => [Next]_vars
BY DEF PNext, Analyse, PlannedRequest, Others, Next, vars, plannerVars

(* Prover's results hold however the merges are chosen.                    *)
THEOREM PlannerImplementsProver == PSpec => Spec
<1>1. PInit => Init
  BY DEF PInit
<1> QED
  BY <1>1, PlannerSteps, PTL DEF PSpec, Spec

(* Where the calculation of Prover promises what the app instance relies   *)
(* on, the planner's does.                                                 *)
THEOREM PlannerImplementsCalculation == PSpec => ImplementsCalculation
BY PlannerImplementsProver, Implementation, PTL

LEMMA SequencesAreNodes ==
  ASSUME NEW s \in 1..MaxSequence, NEW e \in 1..MaxSequence, s <= e
  PROVE  <<s, s>> \in Nodes(e)
<1> DEFINE a == s - 1
<1>1. a \in Nat /\ a + 1 = s
  OBVIOUS
<1>2. Pow2[0] = 1 /\ 0 \in 0..MaxSequence
  BY PowersOfTwo, ProverAssumption
<1>3. Multiple(a, Pow2[0])
  <2>1. a = a * 1
    BY <1>1
  <2> QED
    BY <1>1, <1>2, <2>1 DEF Multiple
<1> HIDE DEF a
<1>4. Chunk(a, 0) \in Nodes(e)
  BY <1>1, <1>2, <1>3, ChunksAreNodes
<1>5. Chunk(a, 0) = <<s, s>>
  BY <1>1, <1>2 DEF Chunk
<1> QED
  BY <1>4, <1>5

(* A bottom-up search finds merges of chunks of the block.                 *)
LEMMA BottomUpFindsNodes ==
  ASSUME NEW P, NEW l, Good(P, l), NEW m \in BottomUp(P),
         NEW e \in 1..MaxSequence, l <= e, l \in Nat
  PROVE  m.key \in Nodes(e)
<1>1. PICK k \in DOMAIN P :
        /\ Length(k) \in Levels /\ Aligned(k)
        /\ Ready(P, k, Next2(k))
        /\ m = MergeOf(k, Next2(k))
  BY DEF BottomUp
<1>2. k \in Interval /\ Next2(k) \in DOMAIN P
  BY <1>1 DEF Good, Ready
<1>3. Next2(k)[2] <= l
  BY <1>2 DEF Good
<1>4. PICK h \in 0..MaxSequence : Length(k) = Pow2[h]
  BY <1>1 DEF Levels, Powers
<1> DEFINE a == k[1] - 1
<1>5. /\ k[1] \in Nat /\ k[2] \in Nat /\ k[1] >= 1 /\ k[1] <= k[2]
      /\ Length(k) = k[2] - k[1] + 1 /\ Length(k) \in Nat
  BY <1>2, Lengths, ProverAssumption DEF Length
<1>6. a \in Nat /\ k[1] = a + 1
  BY <1>5
<1>7. Next2(k)[2] = a + 2 * Length(k)
  BY <1>5 DEF Next2
<1>8. a % (2 * Length(k)) = 0 /\ 2 * Length(k) \in Nat \ {0}
  BY <1>1, <1>5 DEF Aligned
<1>9. m.key = <<a + 1, a + 2 * Length(k)>>
  BY <1>1, <1>6, <1>7 DEF MergeOf
<1> HIDE DEF a
<1>10. h # MaxSequence
  <2>1. MaxSequence \in Nat /\ MaxSequence < Pow2[MaxSequence]
    BY PowersOfTwo, ProverAssumption
  <2>2. Length(k) < MaxSequence
    BY <1>3, <1>5, <1>6, <1>7, <2>1
  <2>3. ASSUME h = MaxSequence PROVE FALSE
    <3>1. Length(k) = Pow2[MaxSequence]
      BY <1>4, <2>3
    <3> QED
      BY <1>5, <2>1, <2>2, <3>1
  <2> QED
    BY <2>3
<1>11. h + 1 \in 1..MaxSequence /\ (h + 1) - 1 = h /\ h + 1 \in 0..MaxSequence
  BY <1>10, ProverAssumption
<1>12. Pow2[h + 1] = 2 * Length(k)
  BY <1>4, <1>11, PowersOfTwo
<1>13. Multiple(a, 2 * Length(k))
  <2> DEFINE d == 2 * Length(k)
  <2>1. d \in Nat \ {0} /\ a % d = 0
    BY <1>8
  <2> HIDE DEF d
  <2>2. a = d * (a \div d) + (a % d) /\ a \div d \in Nat
    BY <1>6, <2>1
  <2>3. a = (a \div d) * d
    BY <1>6, <2>1, <2>2
  <2>4. Multiple(a, d)
    BY <2>2, <2>3 DEF Multiple
  <2> QED
    BY <2>4 DEF d
<1>14. a + Pow2[h + 1] <= e
  BY <1>3, <1>5, <1>6, <1>7, <1>12
<1>15. Chunk(a, h + 1) \in Nodes(e)
  BY <1>6, <1>11, <1>12, <1>13, <1>14, ChunksAreNodes
<1> QED
  BY <1>9, <1>12, <1>15 DEF Chunk
(* What the steps of Prover do to the keys of the table.                   *)
LEMMA KeysOfSteps ==
  /\ \A m \in Merges : StartProving(m) => DOMAIN proofs' = DOMAIN proofs \cup {m.key}
  /\ \A k, parts : Submit(k, parts) => DOMAIN proofs' = DOMAIN proofs \cup {k}
  /\ \A k : Reject(k) => DOMAIN proofs' = DOMAIN proofs
  /\ Close => DOMAIN proofs' = DOMAIN proofs
<1>1. \A P, S, status : DOMAIN Mark(P, S, status) = DOMAIN P
  BY DEF Mark
<1>2. \A P, k, proof : DOMAIN Put(P, k, proof) = DOMAIN P \cup {k}
  BY DEF Put
<1>3. ASSUME NEW m \in Merges, StartProving(m)
      PROVE  DOMAIN proofs' = DOMAIN proofs \cup {m.key}
  <2>1. proofs' = WithReserved(WithStarted(m), m)
    BY <1>3 DEF StartProving
  <2>2. DOMAIN WithReserved(WithStarted(m), m) = DOMAIN WithStarted(m)
    BY <1>1, Zenon DEF WithReserved
  <2>3. DOMAIN WithStarted(m) = DOMAIN Put(proofs, m.key, Started(m.parts))
    BY <1>1, Zenon DEF WithStarted
  <2>4. DOMAIN Put(proofs, m.key, Started(m.parts)) = DOMAIN proofs \cup {m.key}
    BY <1>2, Zenon
  <2> QED
    BY <2>1, <2>2, <2>3, <2>4
<1>4. ASSUME NEW k, NEW parts, Submit(k, parts)
      PROVE  DOMAIN proofs' = DOMAIN proofs \cup {k}
  <2>1. proofs' = Mark(Put(proofs, k, Submitted(parts)), parts, "Used")
    BY <1>4 DEF Submit
  <2>2. DOMAIN Mark(Put(proofs, k, Submitted(parts)), parts, "Used")
        = DOMAIN Put(proofs, k, Submitted(parts))
    BY <1>1, Zenon
  <2>3. DOMAIN Put(proofs, k, Submitted(parts)) = DOMAIN proofs \cup {k}
    BY <1>2, Zenon
  <2> QED
    BY <2>1, <2>2, <2>3
<1>5. \A k : Reject(k) => DOMAIN proofs' = DOMAIN proofs
  BY <1>1 DEF Reject
<1>6. Close => DOMAIN proofs' = DOMAIN proofs
  BY <1>1 DEF Close
<1> QED
  BY <1>3, <1>4, <1>5, <1>6

LEMMA InitFitInv == PInit => FitInv
<1> SUFFICES ASSUME PInit PROVE FitInv
  OBVIOUS
<1>1. Keys = {} /\ closed = FALSE
  BY DEF PInit, Init, Keys
<1> QED
  BY <1>1 DEF FitInv

(* A step that leaves the block alone, or narrows where it may end, and    *)
(* adds only nodes.                                                        *)
LEMMA StepFits ==
  ASSUME FitInv, closed' => last' > 0, Ends' \subseteq Ends,
         \A e \in Ends' : e > 0 => Keys' \subseteq Keys \cup Nodes(e)
  PROVE  FitInv'
BY DEF FitInv, Nodes

LEMMA EndsAreEnds ==
  ASSUME IInv, NEW e \in Ends, e > 0
  PROVE  e \in 1..MaxSequence /\ last <= e /\ last \in Nat
BY ProverAssumption DEF Ends, IInv

LEMMA NextFitInv == IInv /\ FitInv /\ [PNext]_plannerVars => FitInv'
<1> SUFFICES ASSUME IInv, FitInv, [PNext]_plannerVars PROVE FitInv'
  OBVIOUS
<1>1. CASE UNCHANGED <<last, closed>> /\ Keys' \subseteq Keys
  <2>1. Ends' = Ends
    BY <1>1 DEF Ends
  <2> QED
    BY <1>1, <2>1, StepFits DEF FitInv
<1>2. CASE Analyse
  <2>1. UNCHANGED <<proofs, last, closed, requests, merges>>
    BY <1>2 DEF Analyse, vars
  <2>2. PICK seen \in {closed, FALSE} :
          plan' = plan \cup (IF seen THEN TopDown(proofs) ELSE BottomUp(proofs))
    BY <1>2 DEF Analyse
  <2>3. Ends' = Ends /\ Good(proofs, last) /\ (closed => last > 0)
    BY <2>1 DEF Ends, IInv, FitInv
  <2>4. ASSUME NEW e \in Ends, e > 0 PROVE Keys' \subseteq Keys \cup Nodes(e)
    <3>1. e \in 1..MaxSequence /\ last <= e /\ last \in Nat
      BY <2>4, EndsAreEnds
    <3>2. CASE seen
      <4>1. closed /\ e = last /\ Block = <<1, e>>
        BY <2>2, <2>4, <3>2 DEF Ends, Block
      <4>2. \A m \in TopDown(proofs) : m.key \in Nodes(e)
        BY <3>1, <4>1, TopDownFindsNodes
      <4> QED
        BY <2>1, <2>2, <3>2, <4>2 DEF Keys
    <3>3. CASE ~seen
      <4>1. \A m \in BottomUp(proofs) : m.key \in Nodes(e)
        BY <2>3, <3>1, BottomUpFindsNodes
      <4> QED
        BY <2>1, <2>2, <3>3, <4>1 DEF Keys
    <3> QED
      BY <3>2, <3>3
  <2> QED
    BY <2>1, <2>3, <2>4, StepFits
<1>3. ASSUME NEW m \in Merges, PlannedRequest(m) PROVE FitInv'
  <2>1. UNCHANGED <<last, closed>> /\ Keys' \subseteq Keys
    BY <1>3 DEF PlannedRequest, Request, Keys
  <2> QED
    BY <1>1, <2>1
<1>4. CASE NextSequence /\ UNCHANGED plan
  <2>1. Keys' = Keys
    BY <1>4 DEF NextSequence, Keys
  <2>2. Ends' \subseteq Ends
    BY <1>4, ProverAssumption DEF NextSequence, Ends, IInv
  <2>3. ~closed'
    BY <1>4 DEF NextSequence
  <2> QED
    BY <2>1, <2>2, <2>3, StepFits
<1>5. CASE Close /\ UNCHANGED plan
  <2>1. Keys' = Keys
    BY <1>5, KeysOfSteps DEF Close, Keys
  <2>2. Ends' \subseteq Ends /\ last' > 0
    BY <1>5, ProverAssumption DEF Close, Ends, IInv
  <2> QED
    BY <2>1, <2>2, StepFits
<1>6. ASSUME NEW m \in Merges, StartProving(m), UNCHANGED plan PROVE FitInv'
  <2>1. m.key \in Keys
    BY <1>6 DEF StartProving, Keys
  <2>2. UNCHANGED <<last, closed, requests>> /\ merges' = merges \cup {m}
    BY <1>6 DEF StartProving
  <2>3. Keys' \subseteq Keys
    BY <1>6, <2>1, <2>2, KeysOfSteps DEF Keys
  <2> QED
    BY <1>1, <2>2, <2>3
<1>7. ASSUME NEW m \in Merges, SubmitMerge(m), UNCHANGED plan PROVE FitInv'
  <2>1. Submit(m.key, m.parts) /\ m.key \in Keys
    BY <1>7 DEF SubmitMerge, Keys
  <2>2. UNCHANGED <<last, closed, requests, merges>>
    BY <2>1 DEF Submit
  <2>3. Keys' \subseteq Keys
    BY <1>7, <2>1, <2>2, KeysOfSteps DEF Keys
  <2> QED
    BY <1>1, <2>2, <2>3
<1>8. ASSUME NEW s \in 1..MaxSequence, SubmitSequence(s), UNCHANGED plan PROVE FitInv'
  <2>1. Submit(<<s, s>>, {}) /\ s <= last
    BY <1>8 DEF SubmitSequence
  <2>2. UNCHANGED <<last, closed, requests, merges>>
    BY <2>1 DEF Submit
  <2>3. Keys' = Keys \cup {<<s, s>>}
    BY <1>8, <2>1, <2>2, KeysOfSteps DEF Keys
  <2>4. ASSUME NEW e \in Ends, e > 0 PROVE <<s, s>> \in Nodes(e)
    BY <2>1, <2>4, EndsAreEnds, SequencesAreNodes
  <2>5. Ends' = Ends
    BY <2>2 DEF Ends
  <2> QED
    BY <2>2, <2>3, <2>4, <2>5, StepFits DEF FitInv
<1>9. ASSUME NEW k \in Interval, Reject(k), UNCHANGED plan PROVE FitInv'
  <2>1. UNCHANGED <<last, closed, requests, merges>>
    BY <1>9 DEF Reject
  <2>2. Keys' = Keys
    BY <1>9, <2>1, KeysOfSteps DEF Keys
  <2> QED
    BY <1>1, <2>1, <2>2
<1>10. CASE (Tick /\ UNCHANGED plan) \/ UNCHANGED plannerVars
  <2>1. UNCHANGED <<proofs, last, closed, requests, merges, plan>>
    BY <1>10 DEF Tick, plannerVars
  <2>2. Keys' = Keys
    BY <2>1 DEF Keys
  <2> QED
    BY <1>1, <2>1, <2>2
<1> QED
  BY <1>2, <1>3, <1>4, <1>5, <1>6, <1>7, <1>8, <1>9, <1>10 DEF PNext, Others

LEMMA PlannerInvariant == PSpec => [](IInv /\ FitInv)
<1>1. PSpec => []IInv
  BY PlannerImplementsProver, Invariant, PTL
<1> QED
  BY <1>1, InitFitInv, NextFitInv, PTL DEF PSpec

(* Whoever started it and whenever, before or after the block was closed,  *)
(* every proof is a node of the tree of the block, wherever the block may  *)
(* yet end.                                                                *)
THEOREM ProofsAlwaysFitTheTree == PSpec => []ProofsFitTheTree
<1>1. FitInv => ProofsFitTheTree
  BY DEF FitInv, ProofsFitTheTree, Ends, Keys
<1> QED
  BY <1>1, PlannerInvariant, PTL

(* When all that is there is done or timed out, the search goes down to a  *)
(* range without a proof whose halves have theirs: a merge that the checks *)
(* let through.                                                            *)
LEMMA SearchGoesOn ==
  ASSUME IInv, last > 0, Block \notin DOMAIN proofs,
         \A s \in 1..last : Done(<<s, s>>),
         \A k \in DOMAIN proofs :
           Done(k) /\ (proofs[k].status # "Calculated" => Stale(proofs, k))
  PROVE  \E m \in TopDown(proofs) : CanRequest(m)
<1>1. PICK f : IsFind(proofs, f) /\ TopDown(proofs) = f[Block]
  BY TopDownSearches
<1>2. /\ DOMAIN f = Interval
      /\ \A k \in Interval :
           f[k] = IF k \in DOMAIN proofs \/ Length(k) = 1 THEN {}
                  ELSE {m \in {MergeOf(Left(k), Right(k))} : Ready(proofs, Left(k), Right(k))}
                       \cup f[Left(k)] \cup f[Right(k)]
  BY <1>1 DEF IsFind
<1> DEFINE N == MaxSequence
           Found(k) == \E m \in f[k] : CanRequest(m)
           S == {n \in 0..N : \A k \in Interval :
                   Length(k) <= n /\ k[2] <= last /\ k \notin DOMAIN proofs => Found(k)}
<1>3. N \in Nat /\ last \in 1..MaxSequence
  BY ProverAssumption DEF IInv
<1>4. 0 \in S
  BY <1>3, Lengths
<1>5. ASSUME NEW n \in 0..(N - 1), n \in S PROVE n + 1 \in S
  <2>1. ASSUME NEW k \in Interval, Length(k) <= n + 1, k[2] <= last, k \notin DOMAIN proofs
        PROVE  Found(k)
    <3>1. Length(k) # 1
      <4>1. k = <<k[1], k[2]>> /\ k[1] \in 1..MaxSequence /\ k[2] \in 1..MaxSequence
            /\ Length(k) = k[2] - k[1] + 1
        BY <2>1, Lengths DEF Length
      <4>2. CASE Length(k) = 1
        <5>1. k[1] = k[2] /\ k[2] \in 1..last
          BY <1>3, <2>1, <4>1, <4>2
        <5>2. k = <<k[2], k[2]>>
          BY <4>1, <5>1
        <5>3. Done(k)
          BY <5>1, <5>2
        <5> QED
          BY <2>1, <5>3 DEF Done
      <4> QED
        BY <4>2
    <3> DEFINE l == Left(k)
               r == Right(k)
    <3>2. /\ l \in Interval /\ r \in Interval
          /\ Length(l) < Length(k) /\ Length(r) < Length(k)
          /\ l[2] <= k[2] /\ r[2] = k[2]
          /\ MergeOf(l, r).key = k /\ MergeOf(l, r).parts = {l, r}
      BY <3>1, RangesSplit
    <3>3. f[k] = {m \in {MergeOf(l, r)} : Ready(proofs, l, r)} \cup f[l] \cup f[r]
      BY <1>2, <2>1, <3>1
    <3> HIDE DEF l, r
    <3>4. Length(l) <= n /\ Length(r) <= n /\ l[2] <= last /\ r[2] <= last
      BY <1>3, <2>1, <3>2, Lengths
    <3>5. CASE l \notin DOMAIN proofs
      <4>1. Found(l)
        BY <1>5, <3>2, <3>4, <3>5
      <4> QED
        BY <3>3, <4>1
    <3>6. CASE r \notin DOMAIN proofs
      <4>1. Found(r)
        BY <1>5, <3>2, <3>4, <3>6
      <4> QED
        BY <3>3, <4>1
    <3>7. CASE l \in DOMAIN proofs /\ r \in DOMAIN proofs
      <4>1. \A p \in {l, r} : Done(p) /\ (proofs[p].status # "Calculated" => Stale(proofs, p))
        BY <3>7
      <4>2. Ready(proofs, l, r)
        BY <3>7, <4>1 DEF Ready, Free, Done
      <4>3. CanRequest(MergeOf(l, r))
        BY <2>1, <3>2, <3>7, <4>1 DEF CanRequest, Available, Done
      <4> QED
        BY <3>3, <4>2, <4>3
    <3> QED
      BY <3>5, <3>6, <3>7
  <2>2. n + 1 \in 0..N
    BY <1>3
  <2> HIDE DEF Found
  <2> QED
    BY <2>1, <2>2
<1> HIDE DEF N, S, Found
<1>6. \A n \in 0..N : n \in S
  BY <1>3, <1>4, <1>5, BoundedInduction
<1>7. N \in S /\ Block \in Interval /\ Block[2] = last /\ Length(Block) <= N
  <2>1. Block \in Interval /\ Block[2] = last
    BY <1>3, ProverAssumption DEF Block, Interval
  <2> QED
    BY <1>3, <1>6, <2>1, Lengths DEF N
<1>8. Found(Block)
  BY <1>3, <1>7 DEF S
<1> QED
  BY <1>1, <1>8 DEF Found

(* A closed block whose sequences are all proved, with nothing under way   *)
(* and nothing held that has not timed out, has a merge that the planner   *)
(* finds and the checks let through: the calculation cannot get stuck      *)
(* there, however the proofs came about.                                   *)
THEOREM PlannerIsNeverStuck == PSpec => []NeverStuck
<1>1. ASSUME IInv, FitInv PROVE NeverStuck
  <2>1. NoFullProofIsMissed /\ (closed => last > 0)
    BY <1>1 DEF IInv, FullProof, NoFullProofIsMissed, FitInv
  <2>2. ASSUME closed, ~finished, \A k \in DOMAIN proofs : Done(k)
        PROVE  Block \notin DOMAIN proofs
    BY <2>1, <2>2 DEF NoFullProofIsMissed, Done
  <2> QED
    BY <1>1, <2>1, <2>2, SearchGoesOn DEF NeverStuck
<1> QED
  BY <1>1, PlannerInvariant, PTL
=============================================================================
