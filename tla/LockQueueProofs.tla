-------------------------- MODULE LockQueueProofs --------------------------
(***************************************************************************)
(* The properties of LockQueue for any objects, requests and bundles: an   *)
(* inductive invariant that ties the rows, the calls and the old reads of  *)
(* the transactions and of the sweep together, and what follows from it.   *)
(***************************************************************************)
EXTENDS LockQueue, WellFoundedInduction, TLAPS

(* A set of naturals has a least member.                                   *)
LEMMA LeastMember ==
  ASSUME NEW S \in SUBSET Nat, S # {}
  PROVE  \E m \in S : \A n \in S : m <= n
<1> DEFINE Less == OpToRel(<, Nat)
<1>1. IsWellFoundedOn(Less, Nat)
  BY NatLessThanWellFounded
<1>2. \A x, y \in Nat : <<y, x>> \in Less <=> y < x
  BY DEF OpToRel
<1> HIDE DEF Less
<1>3. PICK x \in S : \A y \in S : ~ (<<y, x>> \in Less)
  BY ONLY <1>1, WFMin, S \subseteq Nat, S # {}
<1>4. ASSUME NEW y \in S PROVE x <= y
  <2>1. ~ (<<y, x>> \in Less) /\ x \in Nat /\ y \in Nat
    BY <1>3
  <2>2. ~ (y < x)
    BY <1>2, <2>1
  <2> QED
    BY <2>1, <2>2
<1> QED
  BY <1>4

-----------------------------------------------------------------------------
(* A row and the call that queued it.                                      *)
RowAgrees(o, r) ==
  LET s == rows[o][r].status IN
  /\ s # "NONE" => o \in Wants[r] /\ rows[o][r].queued_at = call[r].now
  /\ s = "NONE" /\ o \in Wants[r] =>
       call[r].at \in {"idle", "queueing", "refused", "cut_off"}
  /\ s = "WAITING" => call[r].at # "held"
  /\ s \in {"GRANTED", "LAPSED", "EXPIRED"} => call[r].at = "held"
  /\ s = "RELEASED" => release[r].at # "none"
  /\ call[r].at \in {"idle", "refused"} => s = "NONE"

CallAgrees(r) ==
  /\ bundle[r] = "NONE" <=> call[r].at = "idle"
  /\ bundle[r] = "GRANTED" => call[r].at = "held"
  /\ release[r].at # "none" => bundle[r] # "NONE"

(* A row somebody read as lapsed never holds its object again.             *)
Ended(p) ==
  /\ call[p[2]].at = "held"
  /\ rows[p[1]][p[2]].status \in {"LAPSED", "EXPIRED", "RELEASED"}

OldReadsAgree ==
  /\ \A p \in sweep : Ended(p)
  /\ \A r \in Request : \A p \in snapshot[r].lapsed : Ended(p)

Whole(r) ==
  call[r].at = "held" /\ release[r].at = "none" =>
    \/ \A o \in Wants[r] : Holds(r, o)
    \/ \A o \in Wants[r] : ~Holds(r, o)

(* Whatever a request saw when it was decided on had not come before it.   *)
SawNoneBefore(r) ==
  call[r].at \in {"granting", "held"} =>
    \A o \in Wants[r] : \A q \in snapshot[r].seen[o] :
      call[q].at # "idle" /\ call[r].now <= call[q].now

IInv ==
  /\ TypeOK
  /\ \A r \in Request, o \in Object : RowAgrees(o, r)
  /\ \A r \in Request : CallAgrees(r)
  /\ OldReadsAgree
  /\ \A r \in Request : Whole(r)
  /\ \A r \in Request : SawNoneBefore(r)

-----------------------------------------------------------------------------
(* What the bundles are.                                                   *)
LEMMA WantsType ==
  ASSUME NEW r \in Request
  PROVE  Wants[r] \subseteq Object /\ Wants[r] # {}
BY LockAssumption

(* A transaction's decision: whatever is valid has not come before it.     *)
LEMMA DecidedFirst ==
  ASSUME IInv, NEW r \in Request, CanAcquireAll(r),
         NEW o \in Wants[r], NEW q \in ValidLocks(o)
  PROVE  call[q].at # "idle" /\ call[r].now <= call[q].now
<1>1. o \in Object /\ q \in Request /\ r \in Request
  BY WantsType DEF ValidLocks
<1>2. rows[o][q].status # "NONE" /\ call[q].at # "idle"
  BY <1>1 DEF ValidLocks, IInv, RowAgrees
<1>3. MayHead(r, o) /\ ValidLocks(o) # {}
  BY DEF CanAcquireAll
<1>4. r \in ValidLocks(o) /\ rows[o][r].queued_at <= rows[o][q].queued_at
  BY <1>3 DEF MayHead
<1>5. rows[o][r].queued_at = call[r].now /\ rows[o][q].queued_at = call[q].now
  BY <1>1, <1>2, <1>4 DEF ValidLocks, IInv, RowAgrees
<1> QED
  BY <1>2, <1>4, <1>5

LEMMA InitEstablishes == Init => IInv
<1> SUFFICES ASSUME Init PROVE IInv
  OBVIOUS
<1> USE DEF Init, NoRow, NoSnapshot
<1>1. TypeOK
  BY DEF TypeOK, Row, RowStatus, BundleStatus, Place
<1>2. \A r \in Request, o \in Object : RowAgrees(o, r)
  BY WantsType DEF RowAgrees
<1>3. \A r \in Request : CallAgrees(r) /\ Whole(r) /\ SawNoneBefore(r)
  BY DEF CallAgrees, Whole, SawNoneBefore
<1>4. OldReadsAgree
  BY DEF OldReadsAgree
<1> QED
  BY <1>1, <1>2, <1>3, <1>4 DEF IInv

-----------------------------------------------------------------------------
(* Steps of request_locks.                                                 *)

LEMMA Request_locksKeeps ==
  ASSUME IInv, NEW r \in Request, Request_locks(r)
  PROVE  IInv'
<1> USE DEF Request_locks
<1>0. PICK t \in {clock, clock + 1} :
        call' = [call EXCEPT ![r] = [at |-> "queueing", now |-> t]] /\ clock' = t
  OBVIOUS
<1>t. t \in Nat
  BY DEF IInv, TypeOK
<1>1. TypeOK'
  BY <1>0, <1>t DEF IInv, TypeOK, BundleStatus, Place
<1>c. \A q \in Request : call'[q] = IF q = r THEN [at |-> "queueing", now |-> t] ELSE call[q]
  BY <1>0 DEF IInv, TypeOK
<1>2. ASSUME NEW q \in Request, NEW o \in Object PROVE RowAgrees(o, q)'
  <2>1. RowAgrees(o, q)
    BY DEF IInv
  <2> QED
    BY <1>c, <2>1 DEF RowAgrees
<1>3. ASSUME NEW q \in Request PROVE CallAgrees(q)'
  <2>1. CallAgrees(q)
    BY DEF IInv
  <2> QED
    BY <1>c, <2>1 DEF CallAgrees, IInv, TypeOK
<1>4. OldReadsAgree'
  BY <1>c DEF OldReadsAgree, Ended, IInv, TypeOK
<1>5. ASSUME NEW q \in Request PROVE Whole(q)'
  <2>1. Whole(q)
    BY DEF IInv
  <2> QED
    BY <1>c, <2>1 DEF Whole, Holds
<1>6. ASSUME NEW q \in Request PROVE SawNoneBefore(q)'
  <2>1. SawNoneBefore(q) /\ \A o \in Wants[q] : snapshot[q].seen[o] \subseteq Request
    BY WantsType DEF IInv, TypeOK
  <2> QED
    BY <1>c, <2>1 DEF SawNoneBefore
<1> QED
  BY <1>1, <1>2, <1>3, <1>4, <1>5, <1>6 DEF IInv

(* Steps that move one call and touch nothing the others refer to.         *)
LEMMA QueueKeeps ==
  ASSUME IInv, NEW r \in Request, Queue(r)
  PROVE  IInv'
<1> USE DEF Queue, Goes, Unqueued, QueuedAt
<1>0. PICK o \in Wants[r] :
        /\ rows[o][r].status = "NONE"
        /\ rows' = [rows EXCEPT ![o][r] = [status |-> "WAITING", queued_at |-> call[r].now]]
        /\ call' = [call EXCEPT ![r].at = IF Unqueued(r) = {o} THEN "polling" ELSE "queueing"]
  OBVIOUS
<1>w. o \in Object /\ r \in Request
  BY WantsType
<1>c. /\ \A q \in Request : q # r => call'[q] = call[q]
      /\ call'[r].now = call[r].now
      /\ call'[r].at = IF Unqueued(r) = {o} THEN "polling" ELSE "queueing"
  BY <1>0 DEF IInv, TypeOK
<1>r. \A p \in Object, q \in Request :
        rows'[p][q] = IF p = o /\ q = r
                      THEN [status |-> "WAITING", queued_at |-> call[r].now] ELSE rows[p][q]
  BY <1>0, <1>w DEF IInv, TypeOK
<1>1. TypeOK'
  <2>1. rows' \in [Object -> [Request -> Row]]
    BY <1>0, <1>w DEF IInv, TypeOK, Row, RowStatus
  <2> QED
    BY <1>0, <2>1 DEF IInv, TypeOK, Place
<1>2. ASSUME NEW q \in Request, NEW p \in Object PROVE RowAgrees(p, q)'
  <2>1. RowAgrees(p, q)
    BY DEF IInv
  <2>2. CASE q # r
    BY <1>c, <1>r, <2>1, <2>2 DEF RowAgrees
  <2>3. CASE q = r /\ p = o
    BY <1>0, <1>c, <1>r, <2>3 DEF RowAgrees
  <2>4. CASE q = r /\ p # o
    <3>1. rows'[p][q] = rows[p][q]
      BY <1>r, <2>4
    <3>2. rows[p][q].status = "NONE" /\ p \in Wants[q] => call'[r].at = "queueing"
      BY <1>c, <2>4
    <3> QED
      BY <1>c, <2>1, <2>4, <3>1, <3>2 DEF RowAgrees
  <2> QED
    BY <2>2, <2>3, <2>4
<1>3. ASSUME NEW q \in Request PROVE CallAgrees(q)'
  <2>1. CallAgrees(q)
    BY DEF IInv
  <2> QED
    BY <1>c, <2>1 DEF CallAgrees
<1>4. OldReadsAgree'
  <2>1. ASSUME NEW p \in Object \X Request, Ended(p) PROVE Ended(p)'
    <3>1. p[2] # r
      BY <2>1 DEF Ended
    <3> QED
      BY <1>c, <1>r, <2>1, <3>1 DEF Ended
  <2> QED
    BY <2>1 DEF OldReadsAgree, IInv, TypeOK
<1>5. ASSUME NEW q \in Request PROVE Whole(q)'
  <2>1. Whole(q) /\ Wants[q] \subseteq Object
    BY WantsType DEF IInv
  <2> QED
    BY <1>c, <1>r, <2>1 DEF Whole, Holds
<1>6. ASSUME NEW q \in Request PROVE SawNoneBefore(q)'
  <2>1. SawNoneBefore(q) /\ \A p \in Wants[q] : snapshot[q].seen[p] \subseteq Request
    BY WantsType DEF IInv, TypeOK
  <2> QED
    BY <1>c, <2>1 DEF SawNoneBefore
<1> QED
  BY <1>1, <1>2, <1>3, <1>4, <1>5, <1>6 DEF IInv

(* A call that moves on, its rows as they were.                            *)
LEMMA CallMovesOn ==
  ASSUME IInv, NEW r \in Request, rows' = rows, release' = release,
         call[r].at \in {"queueing", "polling", "sleeping", "granting", "timed_out"},
         NEW place \in {"polling", "sleeping", "granting", "timed_out", "cut_off"},
         call[r].at = "queueing" => place = "cut_off",
         Goes(r, place)
  PROVE  /\ \A q \in Request : call'[q] =
              IF q = r THEN [at |-> place, now |-> call[r].now] ELSE call[q]
         /\ call' \in [Request -> [at : Place, now : Nat]]
         /\ \A q \in Request, o \in Object : RowAgrees(o, q)'
         /\ \A q \in Request : Whole(q)'
         /\ \A p \in Object \X Request : Ended(p) => Ended(p)'
<1>c. \A q \in Request : call'[q] =
         IF q = r THEN [at |-> place, now |-> call[r].now] ELSE call[q]
  BY DEF Goes, IInv, TypeOK
<1>1. call' \in [Request -> [at : Place, now : Nat]]
  BY DEF Goes, IInv, TypeOK, Place
<1>2. ASSUME NEW q \in Request, NEW o \in Object PROVE RowAgrees(o, q)'
  <2>1. RowAgrees(o, q)
    BY DEF IInv
  <2> QED
    BY <1>c, <2>1 DEF RowAgrees
<1>3. ASSUME NEW q \in Request PROVE Whole(q)'
  <2>1. Whole(q)
    BY DEF IInv
  <2> QED
    BY <1>c, <2>1 DEF Whole, Holds
<1>4. ASSUME NEW p \in Object \X Request, Ended(p) PROVE Ended(p)'
  BY <1>c, <1>4 DEF Ended
<1> QED
  BY <1>c, <1>1, <1>2, <1>3, <1>4

LEMMA DecideKeeps ==
  ASSUME IInv, NEW r \in Request, Decide(r)
  PROVE  IInv'
<1> USE DEF Decide
<1>0. /\ \A q \in Request : call'[q] =
           IF q = r THEN [at |-> "granting", now |-> call[r].now] ELSE call[q]
      /\ call' \in [Request -> [at : Place, now : Nat]]
      /\ \A q \in Request, o \in Object : RowAgrees(o, q)'
      /\ \A q \in Request : Whole(q)'
      /\ \A p \in Object \X Request : Ended(p) => Ended(p)'
  BY CallMovesOn
<1>s. \A q \in Request : snapshot'[q] =
         IF q = r
         THEN [seen |-> [o \in Object |-> IF o \in Wants[r] THEN ValidLocks(o) ELSE {}],
               lapsed |-> Lapsed]
         ELSE snapshot[q]
  BY DEF IInv, TypeOK
<1>1. TypeOK'
  <2>1. [o \in Object |-> IF o \in Wants[r] THEN ValidLocks(o) ELSE {}]
           \in [Object -> SUBSET Request]
    BY DEF ValidLocks
  <2>2. Lapsed \subseteq Object \X Request
    BY DEF Lapsed
  <2>3. snapshot' \in [Request -> [seen : [Object -> SUBSET Request],
                                   lapsed : SUBSET (Object \X Request)]]
    BY <2>1, <2>2 DEF IInv, TypeOK
  <2> QED
    BY <1>0, <2>3 DEF IInv, TypeOK
<1>2. ASSUME NEW q \in Request PROVE CallAgrees(q)'
  <2>1. CallAgrees(q)
    BY DEF IInv
  <2> QED
    BY <1>0, <2>1 DEF CallAgrees
<1>3. OldReadsAgree'
  <2>1. ASSUME NEW p \in Lapsed PROVE Ended(p)
    <3>1. p[1] \in Object /\ p[2] \in Request /\ rows[p[1]][p[2]].status = "LAPSED"
      BY DEF Lapsed
    <3>2. RowAgrees(p[1], p[2])
      BY <3>1 DEF IInv
    <3> QED
      BY <3>1, <3>2 DEF RowAgrees, Ended
  <2>2. \A q \in Request : \A p \in snapshot'[q].lapsed : p \in Object \X Request /\ Ended(p)
    BY <1>s, <2>1 DEF IInv, TypeOK, OldReadsAgree, Lapsed
  <2>3. \A p \in sweep : p \in Object \X Request /\ Ended(p)
    BY DEF IInv, TypeOK, OldReadsAgree
  <2> QED
    BY <1>0, <2>2, <2>3 DEF OldReadsAgree
<1>4. ASSUME NEW q \in Request PROVE SawNoneBefore(q)'
  <2>1. SawNoneBefore(q) /\ \A o \in Wants[q] : snapshot[q].seen[o] \subseteq Request
    BY WantsType DEF IInv, TypeOK
  <2>2. CASE q # r
    BY <1>0, <1>s, <2>1, <2>2 DEF SawNoneBefore
  <2>3. CASE q = r
    <3>1. ASSUME NEW o \in Wants[r] PROVE snapshot'[r].seen[o] = ValidLocks(o)
      <4>1. o \in Object
        BY WantsType
      <4> DEFINE S == [p \in Object |-> IF p \in Wants[r] THEN ValidLocks(p) ELSE {}]
      <4>2. snapshot'[r] = [seen |-> S, lapsed |-> Lapsed]
        BY <1>s, Zenon
      <4>3. S[o] = ValidLocks(o)
        BY <4>1
      <4> HIDE DEF S
      <4>4. snapshot'[r].seen = S
        BY ONLY <4>2
      <4> QED
        BY ONLY <4>3, <4>4
    <3>2. ASSUME NEW o \in Wants[r], NEW p \in ValidLocks(o)
          PROVE  p \in Request /\ call[p].at # "idle" /\ call[r].now <= call[p].now
      <4>1. CanAcquireAll(r)
        OBVIOUS
      <4>2. p \in Request
        BY DEF ValidLocks
      <4> QED
        BY <4>1, <4>2, DecidedFirst
    <3> QED
      BY <1>0, <2>3, <3>1, <3>2 DEF SawNoneBefore
  <2> QED
    BY <2>2, <2>3
<1> QED
  BY <1>0, <1>1, <1>2, <1>3, <1>4 DEF IInv

(* What the steps that leave the snapshots alone keep of the old reads.    *)
LEMMA OldReadsStay ==
  ASSUME IInv, sweep' \subseteq sweep,
         \A r \in Request : snapshot'[r].lapsed \subseteq snapshot[r].lapsed,
         \A p \in Object \X Request : Ended(p) => Ended(p)'
  PROVE  OldReadsAgree'
BY DEF IInv, TypeOK, OldReadsAgree

LEMMA SawNoneStays ==
  ASSUME IInv, NEW r \in Request,
         \A q \in Request : call'[q].now = call[q].now,
         \A q \in Request : call[q].at # "idle" => call'[q].at # "idle",
         call'[r].at \in {"granting", "held"} => call[r].at \in {"granting", "held"},
         snapshot'[r].seen = snapshot[r].seen
  PROVE  SawNoneBefore(r)'
<1> SUFFICES ASSUME call'[r].at \in {"granting", "held"},
                    NEW o \in Wants[r], NEW q \in snapshot[r].seen[o]
             PROVE  call'[q].at # "idle" /\ call'[r].now <= call'[q].now
  BY DEF SawNoneBefore
<1>1. o \in Object /\ q \in Request
  BY WantsType DEF IInv, TypeOK
<1>2. call[q].at # "idle" /\ call[r].now <= call[q].now
  BY DEF IInv, SawNoneBefore
<1> QED
  BY <1>1, <1>2

(* The steps that only move a call, and tell its bundle a timeout.         *)
LEMMA PollingKeeps ==
  ASSUME IInv, NEW r \in Request,
         \/ Postpone(r) \/ Poll_again(r) \/ Time_out(r) \/ Cut_off(r)
  PROVE  IInv'
<1> USE DEF Postpone, Poll_again, Time_out, Cut_off
<1>1. PICK place \in {"polling", "sleeping", "timed_out", "cut_off"} : Goes(r, place)
  OBVIOUS
<1>2. /\ call[r].at \in {"queueing", "polling", "sleeping", "granting", "timed_out"}
      /\ UNCHANGED <<clock, rows, release, sweep, snapshot>>
      /\ bundle' = bundle \/ bundle' = [bundle EXCEPT ![r] = "TIMEOUT"]
  OBVIOUS
<1>3. call[r].at = "queueing" => Goes(r, "cut_off")
  OBVIOUS
<1>4. PICK at \in {"polling", "sleeping", "timed_out", "cut_off"} :
        Goes(r, at) /\ (call[r].at = "queueing" => at = "cut_off")
  BY <1>1, <1>3
<1> HIDE DEF Postpone, Poll_again, Time_out, Cut_off
<1>0. /\ \A q \in Request : call'[q] =
           IF q = r THEN [at |-> at, now |-> call[r].now] ELSE call[q]
      /\ call' \in [Request -> [at : Place, now : Nat]]
      /\ \A q \in Request, o \in Object : RowAgrees(o, q)'
      /\ \A q \in Request : Whole(q)'
      /\ \A p \in Object \X Request : Ended(p) => Ended(p)'
  <2>1. rows' = rows /\ release' = release
    BY <1>2
  <2>2. /\ at \in {"polling", "sleeping", "granting", "timed_out", "cut_off"}
        /\ call[r].at \in {"queueing", "polling", "sleeping", "granting", "timed_out"}
        /\ call[r].at = "queueing" => at = "cut_off"
        /\ Goes(r, at)
    BY <1>2, <1>4
  <2> QED
    BY <2>1, <2>2, CallMovesOn, Zenon
<1>b. \A q \in Request : bundle'[q] = bundle[q] \/ (q = r /\ bundle'[q] = "TIMEOUT")
  BY <1>2 DEF IInv, TypeOK
<1>5. TypeOK'
  BY <1>0, <1>2 DEF IInv, TypeOK, BundleStatus
<1>6. ASSUME NEW q \in Request PROVE CallAgrees(q)'
  <2>1. CallAgrees(q)
    BY DEF IInv
  <2> QED
    BY <1>0, <1>2, <1>b, <2>1 DEF CallAgrees
<1>7. OldReadsAgree'
  BY <1>0, <1>2, OldReadsStay
<1>8. ASSUME NEW q \in Request PROVE SawNoneBefore(q)'
  BY <1>0, <1>2, SawNoneStays
<1> QED
  BY <1>0, <1>5, <1>6, <1>7, <1>8 DEF IInv

LEMMA GrantKeeps ==
  ASSUME IInv, NEW r \in Request, Grant(r)
  PROVE  IInv'
<1> USE DEF Grant, Goes
<1>c. /\ \A q \in Request : call'[q].now = call[q].now
      /\ \A q \in Request : call'[q].at = IF q = r THEN "held" ELSE call[q].at
  BY DEF IInv, TypeOK
<1>r. \A o \in Object, q \in Request : rows'[o][q] = Committed(r, o, q)
  OBVIOUS
<1>s. /\ \A q \in Request : snapshot'[q].seen = snapshot[q].seen
      /\ \A q \in Request : snapshot'[q].lapsed \subseteq snapshot[q].lapsed
  BY DEF IInv, TypeOK
<1>e. ASSUME NEW o \in Object, NEW q \in Request
      PROVE  /\ rows'[o][q] \in Row
             /\ rows'[o][q].queued_at = rows[o][q].queued_at
             /\ rows'[o][q].status = IF q = r /\ o \in Wants[r] THEN "GRANTED"
                                     ELSE IF <<o, q>> \in snapshot[r].lapsed
                                     THEN "EXPIRED" ELSE rows[o][q].status
  <2>1. rows[o][q] \in Row
    BY DEF IInv, TypeOK
  <2>2. \A K \in Row : \A st \in RowStatus :
          /\ [K EXCEPT !.status = st] \in Row
          /\ [K EXCEPT !.status = st].status = st
          /\ [K EXCEPT !.status = st].queued_at = K.queued_at
    BY DEF Row
  <2>3. "GRANTED" \in RowStatus /\ "EXPIRED" \in RowStatus
    BY DEF RowStatus
  <2>4. rows'[o][q] = Committed(r, o, q)
    BY <1>r
  <2> HIDE DEF Grant
  <2>5. CASE q = r /\ o \in Wants[r]
    BY <2>1, <2>2, <2>3, <2>4, <2>5 DEF Committed
  <2>6. CASE ~ (q = r /\ o \in Wants[r]) /\ <<o, q>> \in snapshot[r].lapsed
    BY <2>1, <2>2, <2>3, <2>4, <2>6 DEF Committed
  <2>7. CASE ~ (q = r /\ o \in Wants[r]) /\ <<o, q>> \notin snapshot[r].lapsed
    BY <2>1, <2>4, <2>7 DEF Committed
  <2> QED
    BY <2>5, <2>6, <2>7
<1>l. \A p \in snapshot[r].lapsed : Ended(p) /\ p[2] # r
  BY DEF IInv, OldReadsAgree, Ended
<1> HIDE DEF Grant, Goes
<1>u. /\ call[r].at = "granting" /\ UNCHANGED <<clock, release, sweep>>
      /\ bundle' = [bundle EXCEPT ![r] = "GRANTED"]
  BY DEF Grant
<1>1. TypeOK'
  <2>1. rows' \in [Object -> [Request -> Row]]
    BY <1>e DEF Grant
  <2>2. call' \in [Request -> [at : Place, now : Nat]]
    BY DEF Grant, Goes, IInv, TypeOK, Place
  <2>3. snapshot' \in [Request -> [seen : [Object -> SUBSET Request],
                                   lapsed : SUBSET (Object \X Request)]]
    <3>1. snapshot[r].seen \in [Object -> SUBSET Request]
      BY DEF IInv, TypeOK
    <3>2. snapshot' = [snapshot EXCEPT ![r].lapsed = {}]
      BY DEF Grant
    <3> QED
      BY <3>1, <3>2 DEF IInv, TypeOK
  <2> QED
    BY <1>u, <2>1, <2>2, <2>3 DEF IInv, TypeOK, BundleStatus
<1>2. ASSUME NEW q \in Request, NEW o \in Object PROVE RowAgrees(o, q)'
  <2>1. RowAgrees(o, q) /\ (q = r /\ o \in Wants[r] => rows[o][q].status # "NONE")
    BY <1>u DEF IInv, RowAgrees
  <2>2. CASE q = r /\ o \in Wants[r]
    <3>1. /\ rows'[o][q].status = "GRANTED" /\ rows'[o][q].queued_at = rows[o][q].queued_at
          /\ call'[q].at = "held" /\ call'[q].now = call[q].now
      BY <1>c, <1>e, <2>2
    <3> QED
      BY <2>1, <2>2, <3>1 DEF RowAgrees
  <2>3. CASE q = r /\ o \notin Wants[r]
    <3>1. /\ rows'[o][q].status = "NONE" /\ rows[o][q].status = "NONE"
          /\ rows'[o][q].queued_at = rows[o][q].queued_at
      BY <1>e, <1>l, <2>1, <2>3 DEF RowAgrees
    <3> QED
      BY <1>c, <1>u, <2>1, <2>3, <3>1 DEF RowAgrees
  <2>4. CASE q # r /\ <<o, q>> \in snapshot[r].lapsed
    <3>1. rows[o][q].status # "NONE"
      BY <1>l, <2>4 DEF Ended
    <3>2. call[q].at = "held"
      BY <1>l, <2>4 DEF Ended
    <3>3. rows'[o][q].status = "EXPIRED" /\ rows'[o][q].queued_at = rows[o][q].queued_at
      BY <1>e, <2>4
    <3> QED
      BY <1>c, <1>u, <2>1, <2>4, <3>1, <3>2, <3>3 DEF RowAgrees
  <2>5. CASE q # r /\ <<o, q>> \notin snapshot[r].lapsed
    BY <1>c, <1>e, <1>u, <2>1, <2>5 DEF RowAgrees
  <2> QED
    BY <2>2, <2>3, <2>4, <2>5
<1>3. ASSUME NEW q \in Request PROVE CallAgrees(q)'
  <2>1. CallAgrees(q)
    BY DEF IInv
  <2> QED
    BY <1>c, <1>u, <2>1 DEF CallAgrees, IInv, TypeOK
<1>4. ASSUME NEW p \in Object \X Request, Ended(p) PROVE Ended(p)'
  <2>1. p[1] \in Object /\ p[2] \in Request /\ p[2] # r
    BY <1>4, <1>u DEF Ended
  <2> QED
    BY <1>4, <1>c, <1>e, <2>1 DEF Ended
<1>5. ASSUME NEW q \in Request PROVE Whole(q)'
  <2>1. Whole(q) /\ Wants[q] \subseteq Object
    BY WantsType DEF IInv
  <2>2. CASE q = r
    BY <1>e, <2>1, <2>2 DEF Whole, Holds
  <2>3. CASE q # r
    <3>1. \A o \in Wants[q] : Holds(q, o)' <=> Holds(q, o)
      <4>1. \A o \in Object : <<o, q>> \in snapshot[r].lapsed => ~Holds(q, o)
        BY <1>l DEF Ended, Holds
      <4> QED
        BY <1>e, <2>1, <2>3, <4>1 DEF Holds
    <3> QED
      BY <1>c, <1>u, <2>1, <2>3, <3>1 DEF Whole
  <2> QED
    BY <2>2, <2>3
<1>6. ASSUME NEW q \in Request PROVE SawNoneBefore(q)'
  BY <1>c, <1>s, <1>u, SawNoneStays
<1>7. OldReadsAgree'
  BY <1>4, <1>s, <1>u, OldReadsStay
<1> QED
  BY <1>1, <1>2, <1>3, <1>5, <1>6, <1>7 DEF IInv

LEMMA RefuseKeeps ==
  ASSUME IInv, NEW r \in Request, Refuse(r)
  PROVE  IInv'
<1>c. /\ \A q \in Request : call'[q].now = call[q].now
      /\ \A q \in Request : call'[q].at = IF q = r THEN "refused" ELSE call[q].at
      /\ call' \in [Request -> [at : Place, now : Nat]]
  BY DEF Refuse, Goes, IInv, TypeOK, Place
<1>r. \A o \in Object, q \in Request : rows'[o][q] = IF q = r THEN NoRow ELSE rows[o][q]
  BY DEF Refuse, IInv, TypeOK
<1>u. call[r].at = "timed_out" /\ UNCHANGED <<clock, bundle, snapshot, release, sweep>>
  BY DEF Refuse
<1>1. TypeOK'
  <2>1. rows' \in [Object -> [Request -> Row]]
    BY DEF Refuse, NoRow, Row, RowStatus, IInv, TypeOK
  <2> QED
    BY <1>c, <1>u, <2>1 DEF IInv, TypeOK
<1>2. ASSUME NEW q \in Request, NEW o \in Object PROVE RowAgrees(o, q)'
  <2>1. RowAgrees(o, q)
    BY DEF IInv
  <2>2. CASE q = r
    <3>1. rows'[o][q].status = "NONE" /\ call'[q].at = "refused"
      BY <1>c, <1>r, <2>2 DEF NoRow
    <3> QED
      BY <3>1 DEF RowAgrees
  <2>3. CASE q # r
    <3>1. rows'[o][q] = rows[o][q]
      BY <1>r, <2>3
    <3> QED
      BY <1>c, <1>u, <2>1, <2>3, <3>1 DEF RowAgrees
  <2> QED
    BY <2>2, <2>3
<1>3. ASSUME NEW q \in Request PROVE CallAgrees(q)'
  <2>1. CallAgrees(q)
    BY DEF IInv
  <2> QED
    BY <1>c, <1>u, <2>1 DEF CallAgrees
<1>4. ASSUME NEW p \in Object \X Request, Ended(p) PROVE Ended(p)'
  <2>1. p[1] \in Object /\ p[2] \in Request /\ p[2] # r
    BY <1>4, <1>u DEF Ended
  <2> QED
    BY <1>4, <1>c, <1>r, <2>1 DEF Ended
<1>5. ASSUME NEW q \in Request PROVE Whole(q)'
  <2>1. Whole(q) /\ Wants[q] \subseteq Object
    BY WantsType DEF IInv
  <2> QED
    BY <1>c, <1>r, <1>u, <2>1 DEF Whole, Holds
<1>6. ASSUME NEW q \in Request PROVE SawNoneBefore(q)'
  BY <1>c, <1>u, SawNoneStays
<1>7. OldReadsAgree'
  BY <1>4, <1>u, OldReadsStay
<1> QED
  BY <1>1, <1>2, <1>3, <1>5, <1>6, <1>7 DEF IInv

-----------------------------------------------------------------------------
(* Steps that end rows.  A row may end in one of these ways while nothing  *)
(* else of its request moves.                                              *)
RowEnds(o, r) ==
  /\ rows'[o][r] \in Row
  /\ rows'[o][r].queued_at = rows[o][r].queued_at
  /\ \/ rows'[o][r].status = rows[o][r].status
     \/ /\ rows[o][r].status = "GRANTED" /\ rows'[o][r].status = "LAPSED"
     \/ /\ Ended(<<o, r>>) /\ rows'[o][r].status = "EXPIRED"
     \/ /\ rows[o][r].status # "NONE" /\ release[r].at # "none"
        /\ rows'[o][r].status = "RELEASED"

LEMMA EndingRowsKeep ==
  ASSUME IInv, call' = call, rows' \in [Object -> [Request -> Row]],
         \A r \in Request, o \in Object : RowEnds(o, r),
         NEW r \in Request, release'[r].at = "none" => release[r].at = "none",
         release[r].at # "none" => release'[r].at # "none"
  PROVE  /\ \A o \in Object : RowAgrees(o, r)'
         /\ \A o \in Object : Ended(<<o, r>>) => Ended(<<o, r>>)'
         /\ release[r].at = "none" =>
              \A o \in Object : ~Holds(r, o) => ~Holds(r, o)'
<1>1. ASSUME NEW o \in Object PROVE RowAgrees(o, r)'
  <2>1. RowAgrees(o, r) /\ RowEnds(o, r)
    BY DEF IInv
  <2>2. CASE rows'[o][r].status = rows[o][r].status
    BY <2>1, <2>2 DEF RowAgrees, RowEnds
  <2>3. CASE rows[o][r].status = "GRANTED" /\ rows'[o][r].status = "LAPSED"
    BY <2>1, <2>3 DEF RowAgrees, RowEnds
  <2>4. CASE Ended(<<o, r>>) /\ rows'[o][r].status = "EXPIRED"
    BY <2>1, <2>4 DEF RowAgrees, RowEnds, Ended
  <2>5. CASE /\ rows[o][r].status # "NONE" /\ release[r].at # "none"
             /\ rows'[o][r].status = "RELEASED"
    BY <2>1, <2>5 DEF RowAgrees, RowEnds
  <2> QED
    BY <2>1, <2>2, <2>3, <2>4, <2>5 DEF RowEnds
<1>2. ASSUME NEW o \in Object, Ended(<<o, r>>) PROVE Ended(<<o, r>>)'
  <2>1. RowEnds(o, r)
    OBVIOUS
  <2> QED
    BY <1>2, <2>1 DEF Ended, RowEnds
<1>3. ASSUME NEW o \in Object, ~Holds(r, o) PROVE ~Holds(r, o)'
  <2>1. RowEnds(o, r)
    OBVIOUS
  <2> QED
    BY <1>3, <2>1 DEF Holds, RowEnds
<1> QED
  BY <1>1, <1>2, <1>3

LEMMA EndingKeeps ==
  ASSUME IInv, TypeOK', call' = call, snapshot' = snapshot,
         \A r \in Request, o \in Object : RowEnds(o, r),
         \A r \in Request : release[r].at # "none" => release'[r].at # "none",
         \A r \in Request : CallAgrees(r)',
         \A p \in sweep' : Ended(p),
         \A r \in Request :
           release'[r].at = "none" /\ (\A o \in Wants[r] : Holds(r, o)) =>
             \/ \A o \in Wants[r] : Holds(r, o)'
             \/ \A o \in Wants[r] : ~Holds(r, o)'
  PROVE  IInv'
<1>1. rows' \in [Object -> [Request -> Row]]
  BY DEF TypeOK
<1>2. ASSUME NEW r \in Request
      PROVE  /\ \A o \in Object : RowAgrees(o, r)'
             /\ \A o \in Object : Ended(<<o, r>>) => Ended(<<o, r>>)'
             /\ release[r].at = "none" =>
                  \A o \in Object : ~Holds(r, o) => ~Holds(r, o)'
  BY <1>1, EndingRowsKeep
<1>3. ASSUME NEW p \in Object \X Request, Ended(p) PROVE Ended(p)'
  <2>1. PICK o \in Object, r \in Request : p = <<o, r>>
    OBVIOUS
  <2> QED
    BY <1>2, <1>3, <2>1
<1>4. OldReadsAgree'
  BY <1>3 DEF OldReadsAgree, IInv, TypeOK
<1>5. ASSUME NEW r \in Request PROVE Whole(r)'
  <2>1. Whole(r) /\ Wants[r] \subseteq Object
    BY WantsType DEF IInv
  <2>2. CASE \A o \in Wants[r] : ~Holds(r, o)
    BY <1>2, <2>1, <2>2 DEF Whole
  <2>3. CASE \A o \in Wants[r] : Holds(r, o)
    BY <2>3 DEF Whole
  <2> QED
    BY <2>1, <2>2, <2>3 DEF Whole
<1>6. ASSUME NEW r \in Request PROVE SawNoneBefore(r)'
  BY SawNoneStays
<1> QED
  BY <1>2, <1>4, <1>5, <1>6 DEF IInv

LEMMA LapseKeeps ==
  ASSUME IInv, NEW r \in Request, Lapse(r)
  PROVE  IInv'
<1>u. UNCHANGED <<clock, bundle, call, snapshot, release, sweep>>
  BY DEF Lapse
<1>1. \A o \in Object, q \in Request : rows[o][q] \in Row
  BY DEF IInv, TypeOK
<1>2. \A K \in Row : /\ [K EXCEPT !.status = "LAPSED"] \in Row
                     /\ [K EXCEPT !.status = "LAPSED"].status = "LAPSED"
                     /\ [K EXCEPT !.status = "LAPSED"].queued_at = K.queued_at
  BY DEF Row, RowStatus
<1>3. ASSUME NEW o \in Object, NEW q \in Request
      PROVE  rows'[o][q] = IF q = r /\ Holds(r, o)
                           THEN [rows[o][q] EXCEPT !.status = "LAPSED"] ELSE rows[o][q]
  <2>1. rows[o] \in [Request -> Row]
    BY DEF IInv, TypeOK
  <2>2. rows'[o] = IF Holds(r, o) THEN [rows[o] EXCEPT ![r].status = "LAPSED"]
                   ELSE rows[o]
    BY DEF Lapse
  <2> QED
    BY <2>1, <2>2
<1>4. TypeOK'
  <2>1. rows' \in [Object -> [Request -> Row]]
    <3>1. ASSUME NEW o \in Object PROVE rows'[o] \in [Request -> Row]
      <4>1. \A q \in Request : rows'[o][q] \in Row
        BY <1>1, <1>2, <1>3
      <4>2. rows[o] \in [Request -> Row]
        BY DEF IInv, TypeOK
      <4> QED
        BY <4>1, <4>2 DEF Lapse
    <3> QED
      BY <3>1 DEF Lapse
  <2> QED
    BY <1>u, <2>1 DEF IInv, TypeOK
<1>5. ASSUME NEW q \in Request, NEW o \in Object PROVE RowEnds(o, q)
  <2>1. CASE q = r /\ Holds(r, o)
    <3>1. rows'[o][q] = [rows[o][q] EXCEPT !.status = "LAPSED"]
      BY <1>3, <2>1
    <3> QED
      BY <1>1, <1>2, <2>1, <3>1 DEF RowEnds, Holds
  <2>2. CASE ~ (q = r /\ Holds(r, o))
    <3>1. rows'[o][q] = rows[o][q]
      BY <1>3, <2>2
    <3> QED
      BY <1>1, <3>1 DEF RowEnds
  <2> QED
    BY <2>1, <2>2
<1>6. ASSUME NEW q \in Request PROVE CallAgrees(q)'
  BY <1>u DEF IInv, CallAgrees
<1>7. ASSUME NEW q \in Request, \A o \in Wants[q] : Holds(q, o)
      PROVE  \/ \A o \in Wants[q] : Holds(q, o)'
             \/ \A o \in Wants[q] : ~Holds(q, o)'
  <2>1. Wants[q] \subseteq Object
    BY WantsType
  <2>2. CASE q = r
    <3>1. ASSUME NEW o \in Wants[q] PROVE ~Holds(q, o)'
      <4>1. rows'[o][q] = [rows[o][q] EXCEPT !.status = "LAPSED"]
        BY <1>3, <1>7, <2>1, <2>2
      <4> QED
        BY <1>1, <1>2, <2>1, <4>1 DEF Holds
    <3> QED
      BY <3>1
  <2>3. CASE q # r
    BY <1>3, <1>7, <2>1, <2>3 DEF Holds
  <2> QED
    BY <2>2, <2>3
<1>8. \A p \in sweep' : Ended(p)
  BY <1>u DEF IInv, OldReadsAgree
<1> QED
  BY <1>u, <1>4, <1>5, <1>6, <1>7, <1>8, EndingKeeps

LEMMA ReleasesKeep ==
  ASSUME IInv, NEW r \in Request, Release_locks(r) \/ Release_bundle(r)
  PROVE  IInv'
<1>u. UNCHANGED <<clock, call, rows, snapshot, sweep>>
  BY DEF Release_locks, Release_bundle
<1>1. /\ release' \in [Request -> [at : {"none", "running", "over"}, left : SUBSET Object]]
      /\ release'[r].at # "none"
      /\ \A q \in Request : q # r => release'[q] = release[q]
  <2>1. CASE Release_locks(r)
    BY <2>1 DEF Release_locks, IInv, TypeOK
  <2>2. CASE Release_bundle(r)
    <3>1. release[r].left \in SUBSET Object
      BY DEF IInv, TypeOK
    <3> QED
      BY <2>2, <3>1 DEF Release_bundle, IInv, TypeOK
  <2> QED
    BY <2>1, <2>2
<1>2. /\ bundle' \in [Request -> BundleStatus]
      /\ bundle[r] # "NONE"
      /\ \A q \in Request : bundle'[q] = bundle[q] \/ (q = r /\ bundle'[q] = "RELEASED")
  <2>1. CASE Release_locks(r)
    BY <2>1 DEF Release_locks, IInv, TypeOK
  <2>2. CASE Release_bundle(r)
    BY <2>2 DEF Release_bundle, IInv, TypeOK, BundleStatus, CallAgrees
  <2> QED
    BY <2>1, <2>2
<1>3. TypeOK'
  BY <1>u, <1>1, <1>2 DEF IInv, TypeOK
<1>4. \A q \in Request, o \in Object : RowEnds(o, q)
  BY <1>u DEF RowEnds, IInv, TypeOK
<1>5. ASSUME NEW q \in Request PROVE CallAgrees(q)'
  <2>1. CallAgrees(q) /\ CallAgrees(r)
    BY DEF IInv
  <2> QED
    BY <1>u, <1>1, <1>2, <2>1 DEF CallAgrees
<1>6. \A p \in sweep' : Ended(p)
  BY <1>u DEF IInv, OldReadsAgree
<1>7. \A q \in Request, o \in Object : Holds(q, o)' <=> Holds(q, o)
  BY <1>u DEF Holds
<1>8. ASSUME NEW q \in Request, \A o \in Wants[q] : Holds(q, o)
      PROVE  \A o \in Wants[q] : Holds(q, o)'
  BY <1>7, <1>8, WantsType
<1>9. \A q \in Request : release[q].at # "none" => release'[q].at # "none"
  BY <1>1
<1> QED
  BY <1>u, <1>3, <1>4, <1>5, <1>6, <1>8, <1>9, EndingKeeps

(* One row takes the status st, all others stay.                           *)
LEMMA OneRowEnds ==
  ASSUME IInv, NEW o \in Object, NEW r \in Request, NEW st \in RowStatus,
         rows' = [rows EXCEPT ![o][r].status = st],
         \/ Ended(<<o, r>>) /\ st = "EXPIRED"
         \/ rows[o][r].status # "NONE" /\ release[r].at # "none" /\ st = "RELEASED"
  PROVE  /\ rows' \in [Object -> [Request -> Row]]
         /\ \A q \in Request, p \in Object : RowEnds(p, q)
         /\ \A q \in Request, p \in Object : q # r \/ p # o => rows'[p][q] = rows[p][q]
<1>1. \A q \in Request, p \in Object : rows[p][q] \in Row
  BY DEF IInv, TypeOK
<1>2. /\ \A q \in Request, p \in Object : q # r \/ p # o => rows'[p][q] = rows[p][q]
      /\ rows'[o][r] = [rows[o][r] EXCEPT !.status = st]
  BY DEF IInv, TypeOK
<1>3. rows'[o][r] \in Row /\ rows'[o][r].status = st
      /\ rows'[o][r].queued_at = rows[o][r].queued_at
  BY <1>1, <1>2 DEF Row
<1>4. rows' \in [Object -> [Request -> Row]]
  <2>1. rows[o] \in [Request -> Row] /\ rows \in [Object -> [Request -> Row]]
    BY DEF IInv, TypeOK
  <2>2. rows' = [rows EXCEPT ![o] = [rows[o] EXCEPT ![r] = rows'[o][r]]]
    BY <1>2, <2>1
  <2> QED
    BY <1>3, <2>1, <2>2
<1>5. ASSUME NEW q \in Request, NEW p \in Object PROVE RowEnds(p, q)
  <2>1. CASE q = r /\ p = o
    BY <1>3, <2>1 DEF RowEnds
  <2>2. CASE q # r \/ p # o
    BY <1>1, <1>2, <2>2 DEF RowEnds
  <2> QED
    BY <2>1, <2>2
<1> QED
  BY <1>2, <1>4, <1>5

LEMMA Release_rowKeeps ==
  ASSUME IInv, NEW r \in Request, Release_row(r)
  PROVE  IInv'
<1>u. /\ UNCHANGED <<clock, bundle, call, snapshot, sweep>>
      /\ release[r].at = "running"
  BY DEF Release_row
<1>0. PICK o \in release[r].left :
        IF rows[o][r].status = "NONE"
        THEN /\ release' = [release EXCEPT ![r] = [at |-> "over", left |-> {}]]
             /\ rows' = rows
        ELSE /\ release' = [release EXCEPT ![r].left = @ \ {o}]
             /\ rows' = [rows EXCEPT ![o][r].status = "RELEASED"]
  BY DEF Release_row
<1>1. /\ release' \in [Request -> [at : {"none", "running", "over"}, left : SUBSET Object]]
      /\ release'[r].at # "none"
      /\ \A q \in Request : q # r => release'[q] = release[q]
  <2>1. release[r] \in [at : {"none", "running", "over"}, left : SUBSET Object]
    BY DEF IInv, TypeOK
  <2>2. CASE release' = [release EXCEPT ![r] = [at |-> "over", left |-> {}]]
    BY <2>2 DEF IInv, TypeOK
  <2>3. CASE release' = [release EXCEPT ![r].left = @ \ {o}]
    BY <1>u, <2>1, <2>3 DEF IInv, TypeOK
  <2> QED
    BY <1>0, <2>2, <2>3
<1>2. /\ rows' \in [Object -> [Request -> Row]]
      /\ \A q \in Request, p \in Object : RowEnds(p, q)
      /\ \A q \in Request, p \in Object : q # r => rows'[p][q] = rows[p][q]
  <2>1. CASE rows' = rows
    BY <2>1 DEF RowEnds, IInv, TypeOK
  <2>2. CASE rows[o][r].status # "NONE" /\ rows' = [rows EXCEPT ![o][r].status = "RELEASED"]
    <3>1. o \in Object /\ "RELEASED" \in RowStatus /\ release[r].at # "none"
      BY <1>u DEF IInv, TypeOK, RowStatus
    <3> QED
      BY <2>2, <3>1, OneRowEnds
  <2> QED
    BY <1>0, <2>1, <2>2
<1>3. TypeOK'
  BY <1>u, <1>1, <1>2 DEF IInv, TypeOK
<1>4. ASSUME NEW q \in Request PROVE CallAgrees(q)'
  <2>1. CallAgrees(q)
    BY DEF IInv
  <2> QED
    BY <1>u, <1>1, <2>1 DEF CallAgrees
<1>5. \A p \in sweep' : Ended(p)
  BY <1>u DEF IInv, OldReadsAgree
<1>6. ASSUME NEW q \in Request, release'[q].at = "none", \A p \in Wants[q] : Holds(q, p)
      PROVE  \A p \in Wants[q] : Holds(q, p)'
  <2>1. q # r
    BY <1>1, <1>6
  <2> QED
    BY <1>2, <1>6, <2>1, WantsType DEF Holds
<1>7. \A q \in Request : release[q].at # "none" => release'[q].at # "none"
  BY <1>1
<1> QED
  BY <1>u, <1>2, <1>3, <1>4, <1>5, <1>6, <1>7, EndingKeeps

LEMMA SweepKeeps ==
  ASSUME IInv, Sweep_read \/ Sweep_row
  PROVE  IInv'
<1>u. UNCHANGED <<clock, bundle, call, snapshot, release>>
  BY DEF Sweep_read, Sweep_row
<1>c. ASSUME NEW q \in Request PROVE CallAgrees(q)'
  BY <1>u DEF IInv, CallAgrees
<1>1. CASE Sweep_read
  <2>1. rows' = rows /\ sweep' = Lapsed
    BY <1>1 DEF Sweep_read
  <2>2. ASSUME NEW p \in Lapsed PROVE Ended(p)
    <3>1. p[1] \in Object /\ p[2] \in Request /\ rows[p[1]][p[2]].status = "LAPSED"
      BY DEF Lapsed
    <3>2. RowAgrees(p[1], p[2])
      BY <3>1 DEF IInv
    <3> QED
      BY <3>1, <3>2 DEF RowAgrees, Ended
  <2>3. TypeOK'
    BY <1>u, <2>1 DEF IInv, TypeOK, Lapsed
  <2>4. \A q \in Request, o \in Object : RowEnds(o, q)
    BY <2>1 DEF RowEnds, IInv, TypeOK
  <2>5. ASSUME NEW q \in Request, \A o \in Wants[q] : Holds(q, o)
        PROVE  \A o \in Wants[q] : Holds(q, o)'
    BY <2>1, <2>5 DEF Holds
  <2> QED
    BY <1>u, <1>c, <2>1, <2>2, <2>3, <2>4, <2>5, EndingKeeps
<1>2. CASE Sweep_row
  <2>0. PICK s \in sweep : /\ rows' = [rows EXCEPT ![s[1]][s[2]].status = "EXPIRED"]
                           /\ sweep' = sweep \ {s}
    BY <1>2 DEF Sweep_row
  <2>1. PICK o \in Object, r \in Request : s = <<o, r>>
    BY DEF IInv, TypeOK
  <2>2. Ended(<<o, r>>) /\ \A p \in sweep : Ended(p)
    BY <2>1 DEF IInv, OldReadsAgree
  <2>3. rows' = [rows EXCEPT ![o][r].status = "EXPIRED"] /\ "EXPIRED" \in RowStatus
    BY <2>0, <2>1 DEF RowStatus
  <2>4. /\ rows' \in [Object -> [Request -> Row]]
        /\ \A q \in Request, p \in Object : RowEnds(p, q)
        /\ \A q \in Request, p \in Object : q # r \/ p # o => rows'[p][q] = rows[p][q]
    BY <2>2, <2>3, OneRowEnds
  <2>5. TypeOK'
    BY <1>u, <2>0, <2>4 DEF IInv, TypeOK
  <2>6. ASSUME NEW q \in Request, \A p \in Wants[q] : Holds(q, p)
        PROVE  \A p \in Wants[q] : Holds(q, p)'
    <3>1. ASSUME NEW p \in Wants[q] PROVE Holds(q, p)'
      <4>1. p \in Object /\ (q # r \/ p # o)
        BY <2>2, <2>6, WantsType DEF Holds, Ended
      <4> QED
        BY <2>4, <2>6, <4>1 DEF Holds
    <3> QED
      BY <3>1
  <2>7. \A p \in sweep' : Ended(p)
    BY <2>0, <2>2
  <2> QED
    BY <1>u, <1>c, <2>4, <2>5, <2>6, <2>7, EndingKeeps
<1> QED
  BY <1>1, <1>2

-----------------------------------------------------------------------------
(* The invariant, and what it is for.                                      *)
LEMMA StepKeeps == IInv /\ [Next]_vars => IInv'
<1> SUFFICES ASSUME IInv, [Next]_vars PROVE IInv'
  OBVIOUS
<1>1. ASSUME NEW r \in Request, Call(r) PROVE IInv'
  <2>1. CASE Request_locks(r)
    BY <2>1, Request_locksKeeps
  <2>2. CASE Queue(r)
    BY <2>2, QueueKeeps
  <2>3. CASE Decide(r)
    BY <2>3, DecideKeeps
  <2>4. CASE Postpone(r) \/ Poll_again(r) \/ Time_out(r) \/ Cut_off(r)
    BY <2>4, PollingKeeps
  <2>5. CASE Grant(r)
    BY <2>5, GrantKeeps
  <2>6. CASE Refuse(r)
    BY <2>6, RefuseKeeps
  <2> QED
    BY <1>1, <2>1, <2>2, <2>3, <2>4, <2>5, <2>6 DEF Call
<1>2. ASSUME NEW r \in Request, Ending(r) PROVE IInv'
  BY <1>2, LapseKeeps, ReleasesKeep, Release_rowKeeps DEF Ending
<1>3. CASE Sweep_read \/ Sweep_row
  BY <1>3, SweepKeeps
<1>4. CASE UNCHANGED vars
  BY <1>4 DEF vars, IInv, TypeOK, RowAgrees, CallAgrees, OldReadsAgree, Ended,
              Whole, Holds, SawNoneBefore
<1> QED
  BY <1>1, <1>2, <1>3, <1>4 DEF Next

LEMMA InvariantHolds == Spec => []IInv
BY InitEstablishes, StepKeeps, PTL DEF Spec

(* The variables keep their types.                                         *)
THEOREM TypesAreKept == Spec => []TypeOK
<1>1. IInv => TypeOK
  BY DEF IInv
<1> QED
  BY <1>1, InvariantHolds, PTL

(* A bundle nobody released is held in whole or not at all, whatever the   *)
(* sweep and the other transactions write from their old reads.            *)
THEOREM BundlesStayWhole == Spec => []GrantedBundlesAreWhole
<1>1. IInv => GrantedBundlesAreWhole
  BY DEF IInv, CallAgrees, Whole, GrantedBundlesAreWhole
<1> QED
  BY <1>1, InvariantHolds, PTL

(* Two holders of one object saw each other only if queued_at does not     *)
(* order them.                                                             *)
THEOREM ExclusionOfTheQueued == Spec => []ExclusiveOnceQueued
<1>1. ASSUME IInv, NEW o \in Object, NEW a \in Request, NEW b \in Request,
             Holds(a, o), Holds(b, o),
             a \in snapshot[b].seen[o], b \in snapshot[a].seen[o]
      PROVE  rows[o][a].queued_at = rows[o][b].queued_at
  <2>1. /\ call[a].at = "held" /\ o \in Wants[a] /\ rows[o][a].queued_at = call[a].now
        /\ call[b].at = "held" /\ o \in Wants[b] /\ rows[o][b].queued_at = call[b].now
    BY <1>1 DEF IInv, RowAgrees, Holds
  <2>2. call[a].now <= call[b].now /\ call[b].now <= call[a].now
    BY <1>1, <2>1 DEF IInv, SawNoneBefore
  <2>3. call[a].now \in Nat /\ call[b].now \in Nat
    BY <1>1 DEF IInv, TypeOK
  <2> QED
    BY <2>1, <2>2, <2>3
<1>2. IInv => ExclusiveOnceQueued
  BY <1>1 DEF ExclusiveOnceQueued
<1> QED
  BY <1>2, InvariantHolds, PTL

(* Requests never wait for each other in a circle: the one whose `now` is  *)
(* the least heads every queue it is in.                                   *)
THEOREM NobodyWaitsInACircle == Spec => []NoCircularWait
<1>1. ASSUME IInv,
             \E r \in Request : Waiting(r),
             \A r \in Request : ~Waiting(r) => call[r].at \in {"idle", "held", "refused"},
             \A r \in Request : Waiting(r) => release[r].at = "none",
             \A r \in Request, o \in Object : ~Holds(r, o)
      PROVE  \E r \in Request : Waiting(r) /\ CanAcquireAll(r)
  <2> DEFINE Times == {call[r].now : r \in {q \in Request : Waiting(q)}}
  <2>1. Times \in SUBSET Nat /\ Times # {}
    BY <1>1 DEF IInv, TypeOK
  <2>2. PICK m \in Times : \A n \in Times : m <= n
    BY <2>1, LeastMember
  <2>3. PICK r \in Request : Waiting(r) /\ call[r].now = m
    OBVIOUS
  <2>4. ASSUME NEW q \in Request, Waiting(q) PROVE call[r].now <= call[q].now
    BY <2>2, <2>3, <2>4
  <2> HIDE DEF Times
  <2>5. ASSUME NEW o \in Wants[r] PROVE MayHead(r, o)
    <3>0. o \in Object
      BY WantsType
    <3>1. rows[o][r].status = "WAITING" /\ rows[o][r].queued_at = call[r].now
      <4>1. RowAgrees(o, r) /\ ~Holds(r, o) /\ release[r].at = "none"
            /\ rows[o][r].status \in RowStatus
        BY <1>1, <2>3, <3>0 DEF IInv, TypeOK, Row
      <4> QED
        BY <2>3, <4>1 DEF RowAgrees, Waiting, RowStatus, Holds
    <3>2. ASSUME NEW q \in ValidLocks(o)
          PROVE  rows[o][r].queued_at <= rows[o][q].queued_at
      <4>1. q \in Request /\ rows[o][q].status = "WAITING"
        BY <1>1, <3>0 DEF ValidLocks, Holds
      <4>2. RowAgrees(o, q)
        BY <1>1, <3>0, <4>1 DEF IInv
      <4>3. Waiting(q) /\ rows[o][q].queued_at = call[q].now
        BY <1>1, <4>1, <4>2 DEF RowAgrees
      <4> QED
        BY <2>4, <3>1, <4>1, <4>3
    <3> QED
      BY <3>1, <3>2 DEF MayHead, ValidLocks
  <2> QED
    BY <2>3, <2>5 DEF CanAcquireAll
<1>2. IInv => NoCircularWait
  BY <1>1 DEF NoCircularWait
<1> QED
  BY <1>2, InvariantHolds, PTL
=============================================================================
