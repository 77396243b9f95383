---------------------------- MODULE MergePlanner ----------------------------
(***************************************************************************)
(* The choice of merges (merge.rs: find_all_proofs_to_merge and what it    *)
(* calls) over the proof calculation of Prover.  While a block is open its *)
(* proofs are merged bottom-up, in aligned chunks of twice the length;     *)
(* once its end is known, top-down along the halves of its range.  A       *)
(* coordinator plans from one reading of the table, its knowledge of the   *)
(* end of the block being older still, and then tries its plan, merge by   *)
(* merge, against fresh readings (Request of Prover).  Any number of       *)
(* coordinators do so, so `plan` is what one of them may still try.        *)
(***************************************************************************)
EXTENDS Prover

VARIABLE plan

plannerVars == <<proofs, last, closed, finished, requests, merges, now, plan>>

Length(k) == k[2] - k[1] + 1

(* Powers of two, as many as can matter to MaxSequence.                    *)
Pow2[n \in 0..MaxSequence] == IF n = 0 THEN 1 ELSE 2 * Pow2[n - 1]

Powers == {Pow2[n] : n \in 0..MaxSequence}

(* `while level <= 256`, the chunk lengths of the bottom-up search.        *)
Levels == {p \in Powers : p <= 256}

-----------------------------------------------------------------------------
(* The tree of a range.                                                    *)

(* largest_power_of_two_below; half of a power of two is the same number.  *)
PowerBelow(n) == CHOOSE p \in Powers : p < n /\ n <= 2 * p

(* find_binary_split_point: the first sequence of the right half.          *)
SplitPoint(k) == k[1] + PowerBelow(Length(k))

Left(k) == <<k[1], SplitPoint(k) - 1>>
Right(k) == <<SplitPoint(k), k[2]>>

(* is_proof_available.                                                     *)
Free(P, k) ==
  \/ P[k].status = "Calculated"
  \/ P[k].status \in {"Reserved", "Used"} /\ Stale(P, k)

(* is_proof_active_or_completed.                                           *)
Active(P, k) ==
  \/ P[k].status \in {"Calculated", "Used", "Reserved"}
  \/ P[k].status = "Started" /\ ~Stale(P, k)

MergeOf(j, k) == [key |-> <<j[1], k[2]>>, parts |-> {j, k}]

(* Both proofs of a merge are there and available.                         *)
Ready(P, j, k) == {j, k} \subseteq DOMAIN P /\ Free(P, j) /\ Free(P, k)

(* Slip: when the left half has a proof, the right one is not looked at.   *)
TopDownOneSide(P) ==
  LET find[k \in Interval] ==
        IF k \in DOMAIN P \/ Length(k) = 1 THEN {}
        ELSE {m \in {MergeOf(Left(k), Right(k))} : Ready(P, Left(k), Right(k))}
             \cup find[Left(k)]
  IN  find[Block]

(* The end is known: walk down from the whole block as long as the range   *)
(* has no proof of its own, of whatever status.                            *)
TopDown(P) ==
  LET find[k \in Interval] ==
        IF k \in DOMAIN P \/ Length(k) = 1 THEN {}
        ELSE {m \in {MergeOf(Left(k), Right(k))} : Ready(P, Left(k), Right(k))}
             \cup find[Left(k)] \cup find[Right(k)]
  IN  find[Block]

Next2(k) == <<k[2] + 1, k[2] + Length(k)>>

(* Slip: chunks start at multiples of their own length.                    *)
AlignedToItself(k) == (k[1] - 1) % Length(k) = 0

(* A chunk is the left one of a pair.                                      *)
Aligned(k) == (k[1] - 1) % (2 * Length(k)) = 0

(* The end is unknown: pairs of aligned chunks of one length, unless their *)
(* merge is under way or done.                                             *)
BottomUp(P) ==
  {MergeOf(k, Next2(k)) : k \in
     {j \in DOMAIN P :
        /\ Length(j) \in Levels /\ Aligned(j)
        /\ Ready(P, j, Next2(j))
        /\ LET both == <<j[1], Next2(j)[2]>>
           IN  both \in DOMAIN P => ~Active(P, both)}}

-----------------------------------------------------------------------------
PInit == Init /\ plan = {}

(* analyze_and_create_merge_jobs_with_blockchain_data: the end of the      *)
(* block as an earlier reading had it, the proofs as they are.             *)
Analyse ==
  \E seen \in {closed, FALSE} :
    /\ plan' = plan \cup (IF seen THEN TopDown(proofs) ELSE BottomUp(proofs))
    /\ UNCHANGED vars

(* create_merge_job.                                                       *)
PlannedRequest(m) == m \in plan /\ Request(m) /\ UNCHANGED plan

(* All the rest of Prover, as it is.                                       *)
Others ==
  /\ \/ NextSequence \/ Close
     \/ \E m \in Merges : StartProving(m) \/ SubmitMerge(m)
     \/ \E s \in 1..MaxSequence : SubmitSequence(s)
     \/ \E k \in Interval : Reject(k)
     \/ Tick
  /\ UNCHANGED plan

PNext == Analyse \/ (\E m \in Merges : PlannedRequest(m)) \/ Others

PSpec == PInit /\ [][PNext]_plannerVars

-----------------------------------------------------------------------------
(* Properties.                                                             *)

(* The nodes of the tree that proves the sequences 1..e.                   *)
Nodes(e) ==
  LET below[k \in Interval] ==
        {k} \cup IF Length(k) = 1 THEN {} ELSE below[Left(k)] \cup below[Right(k)]
  IN  below[<<1, e>>]

(* Every proof that was started, by whatever coordinator, before or after  *)
(* the block was closed, is a node of the tree of the block, wherever the  *)
(* block may yet end: no merge is wasted and none splits a node.           *)
ProofsFitTheTree ==
  \A e \in IF closed THEN {last} ELSE last..MaxSequence :
    e > 0 => DOMAIN proofs \subseteq Nodes(e)

(* A closed block is never stuck: when every sequence has its proof, no    *)
(* merge is under way or rejected, and what is held has timed out, there   *)
(* is a merge that the planner finds and the checks let through.           *)
Done(k) == k \in DOMAIN proofs /\ proofs[k].status \in {"Calculated", "Used", "Reserved"}

NeverStuck ==
  /\ closed /\ ~finished
  /\ \A s \in 1..last : Done(<<s, s>>)
  /\ \A k \in DOMAIN proofs : Done(k) /\ (proofs[k].status # "Calculated" => Stale(proofs, k))
  => \E m \in TopDown(proofs) : CanRequest(m)

(* merge.rs:1049: "Already rejected, can try again".                       *)
RejectedMergesAreTriedAgain ==
  \A m \in Merges :
    /\ closed /\ ~finished
    /\ m.key \in DOMAIN proofs /\ proofs[m.key].status = "Rejected"
    /\ m.parts = {Left(m.key), Right(m.key)}
    /\ \A p \in m.parts : p \in DOMAIN proofs /\ proofs[p].status = "Calculated"
    => m \in TopDown(proofs)
=============================================================================
