------------------------------- MODULE Prover -------------------------------
(***************************************************************************)
(* The proof calculation of one block (prover.move) and the coordinators   *)
(* that merge its proofs (create_merge_job in merge.rs).  A proof covers   *)
(* an interval of the block's sequences; a merge proves an interval out of *)
(* two adjacent ones.  Coordinators decide on a merge from a reading of    *)
(* the chain, queue it, and the call runs later, perhaps more than once.   *)
(*                                                                         *)
(* Sequences are counted from the block's start_sequence, 1.  Of a proof's *)
(* content only its presence (da_hash) is kept; the user, the prover and   *)
(* rejected_count are read by no function.                                 *)
(***************************************************************************)
EXTENDS Integers, FiniteSets

CONSTANTS
  MaxSequence,     \* bound on the sequences of the block
  MaxNow,          \* bound on the clock
  Timeout          \* PROOF_TIMEOUT_MS

ASSUME ProverAssumption ==
  MaxSequence \in Nat \ {0} /\ MaxNow \in Nat /\ Timeout \in Nat

VARIABLES
  proofs,          \* interval -> proof: a VecMap, so a partial function
  last,            \* the last sequence so far
  closed,          \* end_sequence is set (to last)
  finished,        \* is_finished
  requests,        \* merges that coordinators decided on and may execute
  merges,          \* merges with a job, whose agent may submit its proof
  now

vars == <<proofs, last, closed, finished, requests, merges, now>>

Interval == {k \in (1..MaxSequence) \X (1..MaxSequence) : k[1] <= k[2]}
Split(k, m) == {<<k[1], m>>, <<m + 1, k[2]>>}

Status == {"Started", "Calculated", "Rejected", "Reserved", "Used"}

Proof == [status: Status, data: BOOLEAN, stamp: 0..MaxNow,
          parts: SUBSET Interval]

Merges ==
  UNION {{[key |-> k, parts |-> Split(k, m)] : m \in k[1]..(k[2] - 1)} :
           k \in Interval}

Block == <<1, last>>

(* Slip: a block that is still open passes for closed.                     *)
IsFullProof(k) == k = Block

IsBlockProof(k) == closed /\ k = Block

-----------------------------------------------------------------------------
(* Operators on a table of proofs P.                                       *)

Stale(P, k) == now > P[k].stamp + Timeout

Put(P, k, proof) ==
  [j \in DOMAIN P \cup {k} |-> IF j = k THEN proof ELSE P[j]]

Mark(P, S, status) ==
  [j \in DOMAIN P |-> IF j \in S
                      THEN [P[j] EXCEPT !.status = status, !.stamp = now]
                      ELSE P[j]]

Submitted(parts) ==
  [status |-> "Calculated", data |-> TRUE, stamp |-> now, parts |-> parts]

Started(parts) ==
  [status |-> "Started", data |-> FALSE, stamp |-> now, parts |-> parts]

(* A proof may be reserved for the merge of k.                             *)
Reservable(P, k, p) ==
  /\ p \in DOMAIN P
  /\ \/ P[p].status = "Calculated"
     \/ Stale(P, p)
     \/ IsBlockProof(k) /\ P[p].status \in {"Used", "Reserved"}

(* A proof that is there starts again when rejected or stale; only for a   *)
(* new one are the parts looked at.                                        *)
StartAccepted(m) ==
  IF m.key \in DOMAIN proofs
  THEN proofs[m.key].status = "Rejected" \/ Stale(proofs, m.key)
  ELSE \A p \in m.parts : Reservable(proofs, m.key, p)

(* A restart gives back the parts of the earlier attempt.                  *)
WithStarted(m) ==
  LET old == IF m.key \in DOMAIN proofs THEN proofs[m.key].parts ELSE {}
  IN  Mark(Put(proofs, m.key, Started(m.parts)), old, "Calculated")

(* The event of a reservation borrows the part's da_hash.                  *)
HaveData(P, S) == \A p \in S : p \in DOMAIN P /\ P[p].data

(* reserve_proof leaves alone what it cannot reserve, and its answer is    *)
(* not looked at.                                                          *)
WithReserved(P, m) ==
  Mark(P, {p \in m.parts : Reservable(P, m.key, p)}, "Reserved")

(* use_proof.                                                              *)
Usable(P, p) ==
  p \in DOMAIN P /\ P[p].status \notin {"Rejected", "Started"}

-----------------------------------------------------------------------------
Init ==
  /\ proofs = [k \in {} |-> Submitted({})]
  /\ last = 0
  /\ closed = FALSE
  /\ finished = FALSE
  /\ requests = {}
  /\ merges = {}
  /\ now = 0

(* The app instance: a sequence is added, the block is closed.             *)
NextSequence ==
  /\ ~closed
  /\ last < MaxSequence
  /\ last' = last + 1
  /\ UNCHANGED <<proofs, closed, finished, requests, merges, now>>

(* Slip: the last sequence is left out of the search.                      *)
AllButLastAtHand ==
  /\ <<1, last - 1>> \in DOMAIN proofs
  /\ proofs[<<1, last - 1>>].status = "Calculated"
  /\ proofs[<<1, last - 1>>].data

FullProofAtHand ==
  /\ Block \in DOMAIN proofs
  /\ proofs[Block].status = "Calculated"
  /\ proofs[Block].data

Close ==
  /\ ~closed
  /\ last > 0
  /\ closed' = TRUE
  /\ finished' = FullProofAtHand
  /\ proofs' = IF FullProofAtHand THEN Mark(proofs, {Block}, "Used")
               ELSE proofs
  /\ UNCHANGED <<last, requests, merges, now>>

(* A coordinator decides on a merge: by a fresh reading, the combined      *)
(* proof is absent or rejected and both parts can be reserved.  What it    *)
(* saw in an earlier reading (that the calculation is not finished, which  *)
(* merge comes next in the binary tree) may be out of date by then, and    *)
(* its search for a pending job of the same merge is left out: it may      *)
(* decide on any merge that passes.                                        *)
Available(k, p) ==
  /\ p \in DOMAIN proofs
  /\ \/ proofs[p].status = "Calculated"
     \/ /\ proofs[p].status \in {"Used", "Reserved"}
        /\ Stale(proofs, p) \/ IsBlockProof(k)

CanRequest(m) ==
  /\ m.key \in DOMAIN proofs => proofs[m.key].status = "Rejected"
  /\ \A p \in m.parts : Available(m.key, p)

Request(m) ==
  /\ m \notin requests
  /\ CanRequest(m)
  /\ requests' = requests \cup {m}
  /\ UNCHANGED <<proofs, last, closed, finished, merges, now>>

(* Slip: a reservation without data goes through.                          *)
NeverAborts(m) == FALSE

(* The queued call; an aborted one changes nothing.                        *)
StartAborts(m) == ~HaveData(WithStarted(m), m.parts)

StartProving(m) ==
  /\ m \in requests
  /\ StartAccepted(m)
  /\ ~StartAborts(m)
  /\ proofs' = WithReserved(WithStarted(m), m)
  /\ merges' = merges \cup {m}
  /\ UNCHANGED <<last, closed, finished, requests, now>>

(* An agent submits the proof of a sequence, or of a merge it has a job    *)
(* for: late, and again when the job is retried.                           *)
Submit(k, parts) ==
  LET P == Put(proofs, k, Submitted(parts)) IN
  /\ \A p \in parts : Usable(P, p)
  /\ HaveData(P, parts)
  /\ proofs' = Mark(P, parts, "Used")
  /\ finished' = (finished \/ IsBlockProof(k))
  /\ UNCHANGED <<last, closed, requests, merges, now>>

SubmitSequence(s) == s <= last /\ Submit(<<s, s>>, {})

SubmitMerge(m) == m \in merges /\ Submit(m.key, m.parts)

(* An agent rejects a proof: its parts are given back.                     *)
Reject(k) ==
  /\ k \in DOMAIN proofs
  /\ proofs[k].parts \subseteq DOMAIN proofs
  /\ proofs' = Mark([proofs EXCEPT ![k].status = "Rejected"],
                    proofs[k].parts, "Calculated")
  /\ UNCHANGED <<last, closed, finished, requests, merges, now>>

Tick ==
  /\ now < MaxNow
  /\ now' = now + 1
  /\ UNCHANGED <<proofs, last, closed, finished, requests, merges>>

Next ==
  \/ NextSequence \/ Close
  \/ \E m \in Merges : Request(m) \/ StartProving(m) \/ SubmitMerge(m)
  \/ \E s \in 1..MaxSequence : SubmitSequence(s)
  \/ \E k \in Interval : Reject(k)
  \/ Tick

Spec == Init /\ [][Next]_vars

-----------------------------------------------------------------------------
(* Properties.                                                             *)

(* The variables have their types; the parts of a proof split it.          *)
TypeOK ==
  /\ DOMAIN proofs \subseteq Interval
  /\ proofs \in [DOMAIN proofs -> Proof]
  /\ \A k \in DOMAIN proofs :
       proofs[k].parts = {} \/ [key |-> k, parts |-> proofs[k].parts] \in Merges
  /\ last \in 0..MaxSequence
  /\ closed \in BOOLEAN
  /\ finished \in BOOLEAN
  /\ requests \subseteq Merges
  /\ merges \subseteq Merges
  /\ now \in 0..MaxNow

(* A proof held by a merge, waiting for it or consumed by it, has its data *)
(* available, whatever was rejected, restarted or given back in between.   *)
HeldProofsHaveData ==
  \A k \in DOMAIN proofs :
    proofs[k].status \in {"Reserved", "Used"} => proofs[k].data

(* A closed block that is not finished has no full proof that is done or   *)
(* held: none slips by between the submission and the closing.             *)
NoFullProofIsMissed ==
  closed /\ ~finished /\ Block \in DOMAIN proofs
    => proofs[Block].status \in {"Started", "Rejected"}

(* The calculation keeps what the app instance relies on.                  *)
Calc == [phase |-> IF closed THEN "closed" ELSE "open", length |-> last,
         full |-> FullProofAtHand, finished |-> finished]

Abstract == INSTANCE Calculation WITH calc <- Calc

ImplementsCalculation == Abstract!Spec
=============================================================================
