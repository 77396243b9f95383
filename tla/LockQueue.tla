----------------------------- MODULE LockQueue -----------------------------
(***************************************************************************)
(* Object locks of the state service: request_locks queues one row per     *)
(* object of a bundle and polls until the bundle heads every queue, then   *)
(* grants all rows in one database transaction; release_locks and a        *)
(* background sweep end the rows one by one.  A transaction reads from the *)
(* snapshot of its first read (InnoDB, repeatable read) and its writes     *)
(* appear at its commit, so the decision and the grant are two steps.      *)
(***************************************************************************)
EXTENDS Integers, FiniteSets

CONSTANTS
  Object,          \* object ids; numbers, in the order request_locks sorts them
  Request,         \* request ids: one call of request_locks each
  Wants,           \* the objects each request asks for
  MaxFailures      \* bound on calls of request_locks that are cut off

ASSUME LockAssumption ==
  /\ Object \subseteq Nat /\ IsFiniteSet(Object)
  /\ IsFiniteSet(Request)
  /\ Wants \in [Request -> (SUBSET Object) \ {{}}]
  /\ MaxFailures \in Nat

VARIABLES
  clock,           \* time as request_locks reads it: equal readings happen
  rows,            \* object_lock_queue, by object and request
  bundle,          \* lock_request_bundle: the status of each request
  call,            \* per request: where its request_locks is, and its `now`
  snapshot,        \* what the transaction that granted, or will, has read
  release,         \* per request: its release_locks call, and the rows left
  sweep            \* rows the background task has read and not yet written

vars == <<clock, rows, bundle, call, snapshot, release, sweep>>

(* "NONE": no row.  "LAPSED": GRANTED in the table, lease_until has passed. *)
RowStatus == {"NONE", "WAITING", "GRANTED", "LAPSED", "EXPIRED", "RELEASED"}
BundleStatus == {"NONE", "ACQUIRING", "GRANTED", "TIMEOUT", "RELEASED"}
Place == {"idle", "queueing", "polling", "sleeping", "granting", "timed_out",
          "held", "refused", "cut_off"}

NoRow == [status |-> "NONE", queued_at |-> 0]
NoSnapshot == [seen |-> [o \in Object |-> {}], lapsed |-> {}]

Init ==
  /\ clock = 0
  /\ rows = [o \in Object |-> [r \in Request |-> NoRow]]
  /\ bundle = [r \in Request |-> "NONE"]
  /\ call = [r \in Request |-> [at |-> "idle", now |-> 0]]
  /\ snapshot = [r \in Request |-> NoSnapshot]
  /\ release = [r \in Request |-> [at |-> "none", left |-> {}]]
  /\ sweep = {}

Goes(r, place) == call' = [call EXCEPT ![r].at = place]
-----------------------------------------------------------------------------
(* The queue of an object.                                                 *)

Holds(r, o) == rows[o][r].status = "GRANTED"

ValidLocks(o) ==
  {r \in Request : rows[o][r].status \in {"WAITING", "GRANTED"}}

(* Slip: only the rows that wait are ordered, holders are passed over.      *)
MayHeadBesideHolders(r, o) ==
  \/ ValidLocks(o) = {}
  \/ /\ r \in ValidLocks(o)
     /\ \A q \in ValidLocks(o) :
          ~Holds(q, o) => rows[o][r].queued_at <= rows[o][q].queued_at

(* Rows come ordered by queued_at alone: of equal ones either may be first.*)
MayHead(r, o) ==
  \/ ValidLocks(o) = {}
  \/ /\ r \in ValidLocks(o)
     /\ \A q \in ValidLocks(o) : rows[o][r].queued_at <= rows[o][q].queued_at

MayFollow(r, o) ==
  /\ ValidLocks(o) # {}
  /\ r \in ValidLocks(o) =>
       \E q \in ValidLocks(o) \ {r} : rows[o][q].queued_at <= rows[o][r].queued_at

Lapsed ==
  {p \in Object \X Request : rows[p[1]][p[2]].status = "LAPSED"}

-----------------------------------------------------------------------------
(* request_locks                                                           *)

Request_locks(r) ==
  /\ call[r].at = "idle"
  /\ \E t \in {clock, clock + 1} :
       /\ clock' = t
       /\ call' = [call EXCEPT ![r] = [at |-> "queueing", now |-> t]]
  /\ bundle' = [bundle EXCEPT ![r] = "ACQUIRING"]
  /\ UNCHANGED <<rows, snapshot, release, sweep>>

Unqueued(r) == {o \in Wants[r] : rows[o][r].status = "NONE"}

(* Slip: every row takes a time of its own, that of its insert.            *)
QueuedAtTheInsert(r) ==
  clock + Cardinality({p \in Object \X Request : rows[p[1]][p[2]].status # "NONE"})

QueuedAt(r) == call[r].now

(* The next row, in the order of the objects; the last one starts polling. *)
Queue(r) ==
  /\ call[r].at = "queueing"
  /\ \E o \in Unqueued(r) :
       /\ \A p \in Unqueued(r) : o <= p
       /\ rows' = [rows EXCEPT ![o][r] =
                      [status |-> "WAITING", queued_at |-> QueuedAt(r)]]
       /\ Goes(r, IF Unqueued(r) = {o} THEN "polling" ELSE "queueing")
  /\ UNCHANGED <<clock, bundle, snapshot, release, sweep>>

CanAcquireAll(r) == \A o \in Wants[r] : MayHead(r, o)

(* attempt_acquire_bundle: the transaction's reads, and what it decides.   *)
Decide(r) ==
  /\ call[r].at = "polling"
  /\ CanAcquireAll(r)
  /\ snapshot' = [snapshot EXCEPT ![r] =
       [seen |-> [o \in Object |-> IF o \in Wants[r] THEN ValidLocks(o) ELSE {}],
        lapsed |-> Lapsed]]
  /\ Goes(r, "granting")
  /\ UNCHANGED <<clock, rows, bundle, release, sweep>>

Postpone(r) ==
  /\ call[r].at = "polling"
  /\ \E o \in Wants[r] : MayFollow(r, o)
  /\ Goes(r, "sleeping")
  /\ UNCHANGED <<clock, rows, bundle, snapshot, release, sweep>>

(* What the commit writes over the row of q: lapsed leases the snapshot    *)
(* showed end, and the rows of r are granted whatever has become of them.  *)
Committed(r, o, q) ==
  IF q = r /\ o \in Wants[r]
  THEN [rows[o][q] EXCEPT !.status = "GRANTED"]
  ELSE IF <<o, q>> \in snapshot[r].lapsed
       THEN [rows[o][q] EXCEPT !.status = "EXPIRED"]
       ELSE rows[o][q]

Grant(r) ==
  /\ call[r].at = "granting"
  /\ rows' = [o \in Object |-> [q \in Request |-> Committed(r, o, q)]]
  /\ bundle' = [bundle EXCEPT ![r] = "GRANTED"]
  /\ snapshot' = [snapshot EXCEPT ![r].lapsed = {}]
  /\ Goes(r, "held")
  /\ UNCHANGED <<clock, release, sweep>>

Poll_again(r) ==
  /\ call[r].at = "sleeping"
  /\ Goes(r, "polling")
  /\ UNCHANGED <<clock, rows, bundle, snapshot, release, sweep>>

Time_out(r) ==
  /\ call[r].at = "sleeping"
  /\ bundle' = [bundle EXCEPT ![r] = "TIMEOUT"]
  /\ Goes(r, "timed_out")
  /\ UNCHANGED <<clock, rows, snapshot, release, sweep>>

Refuse(r) ==
  /\ call[r].at = "timed_out"
  /\ rows' = [o \in Object |-> [rows[o] EXCEPT ![r] = NoRow]]
  /\ Goes(r, "refused")
  /\ UNCHANGED <<clock, bundle, snapshot, release, sweep>>

(* A database error, a restart of the service or a caller that goes away   *)
(* ends the call where it is: nothing takes its rows out of the queues.    *)
Cut_off(r) ==
  /\ call[r].at \in {"queueing", "polling", "sleeping", "granting", "timed_out"}
  /\ Cardinality({q \in Request : call[q].at = "cut_off"}) < MaxFailures
  /\ Goes(r, "cut_off")
  /\ UNCHANGED <<clock, rows, bundle, snapshot, release, sweep>>

-----------------------------------------------------------------------------
(* The lease, release_locks and the background sweep.                      *)

(* Slip: every row of a grant gets a lease_until of its own.               *)
LapseRow(r) ==
  /\ \E o \in Object :
       Holds(r, o) /\ rows' = [rows EXCEPT ![o][r].status = "LAPSED"]
  /\ UNCHANGED <<clock, bundle, call, snapshot, release, sweep>>

(* LOCK_TTL_SECONDS have passed: all rows of a grant share lease_until.    *)
Lapse(r) ==
  /\ \E o \in Object : Holds(r, o)
  /\ rows' = [o \in Object |->
                IF Holds(r, o) THEN [rows[o] EXCEPT ![r].status = "LAPSED"] ELSE rows[o]]
  /\ UNCHANGED <<clock, bundle, call, snapshot, release, sweep>>

(* Anyone may call it, at any time after the bundle has been recorded.     *)
(* Bound: one call for each request.                                       *)
Release_locks(r) ==
  /\ bundle[r] # "NONE"
  /\ release[r].at = "none"
  /\ release' = [release EXCEPT ![r] =
       [at |-> "running", left |-> {o \in Object : rows[o][r].status # "NONE"}]]
  /\ UNCHANGED <<clock, rows, bundle, call, snapshot, sweep>>

(* Rows end one by one; a row deleted in between ends the call instead.    *)
Release_row(r) ==
  /\ release[r].at = "running"
  /\ \E o \in release[r].left :
       IF rows[o][r].status = "NONE"
       THEN /\ release' = [release EXCEPT ![r] = [at |-> "over", left |-> {}]]
            /\ UNCHANGED rows
       ELSE /\ release' = [release EXCEPT ![r].left = @ \ {o}]
            /\ rows' = [rows EXCEPT ![o][r].status = "RELEASED"]
  /\ UNCHANGED <<clock, bundle, call, snapshot, sweep>>

Release_bundle(r) ==
  /\ release[r].at = "running" /\ release[r].left = {}
  /\ bundle' = [bundle EXCEPT ![r] = "RELEASED"]
  /\ release' = [release EXCEPT ![r].at = "over"]
  /\ UNCHANGED <<clock, rows, call, snapshot, sweep>>

(* cleanup_expired_locks: one read, then one write per row it returned.    *)
Sweep_read ==
  /\ sweep = {} /\ Lapsed # {}
  /\ sweep' = Lapsed
  /\ UNCHANGED <<clock, rows, bundle, call, snapshot, release>>

Sweep_row ==
  /\ \E p \in sweep :
       /\ rows' = [rows EXCEPT ![p[1]][p[2]].status = "EXPIRED"]
       /\ sweep' = sweep \ {p}
  /\ UNCHANGED <<clock, bundle, call, snapshot, release>>
-----------------------------------------------------------------------------
Call(r) ==
  \/ Request_locks(r) \/ Queue(r) \/ Decide(r) \/ Postpone(r) \/ Grant(r)
  \/ Poll_again(r) \/ Time_out(r) \/ Refuse(r) \/ Cut_off(r)

Ending(r) == Lapse(r) \/ Release_locks(r) \/ Release_row(r) \/ Release_bundle(r)

Next ==
  \/ \E r \in Request : Call(r) \/ Ending(r)
  \/ Sweep_read \/ Sweep_row

Spec == Init /\ [][Next]_vars
-----------------------------------------------------------------------------
(* Types of the variables.                                                 *)
Row == [status : RowStatus, queued_at : Nat]

TypeOK ==
  /\ clock \in Nat
  /\ rows \in [Object -> [Request -> Row]]
  /\ bundle \in [Request -> BundleStatus]
  /\ call \in [Request -> [at : Place, now : Nat]]
  /\ snapshot \in [Request -> [seen : [Object -> SUBSET Request],
                               lapsed : SUBSET (Object \X Request)]]
  /\ release \in [Request -> [at : {"none", "running", "over"}, left : SUBSET Object]]
  /\ sweep \subseteq Object \X Request

(* A granted bundle that nobody has asked to release holds all of its      *)
(* objects or none: neither the sweep, which writes rows one by one from   *)
(* an old read, nor another transaction ends a part of it.                 *)
GrantedBundlesAreWhole ==
  \A r \in Request :
    bundle[r] = "GRANTED" /\ release[r].at = "none" =>
      \/ \A o \in Wants[r] : Holds(r, o)
      \/ \A o \in Wants[r] : ~Holds(r, o)

(* Two requests hold one object only when one of them entered the queue    *)
(* after the other had read it, or both carry the same queued_at: what the *)
(* order by queued_at alone is worth, with rows that appear after their    *)
(* time stamp was taken and a decision that commits later.                 *)
ExclusiveOnceQueued ==
  \A o \in Object : \A a, b \in Request :
    /\ a # b /\ Holds(a, o) /\ Holds(b, o)
    /\ a \in snapshot[b].seen[o] /\ b \in snapshot[a].seen[o]
    => rows[o][a].queued_at = rows[o][b].queued_at

(* Requests never wait for each other in a circle: when no call is under   *)
(* way elsewhere, none was cut off and nothing is held, some request that  *)
(* waits may be granted.  One `now` for all rows of a bundle orders them.  *)
(* A request that was released while it waits is no part of this: rows it  *)
(* queued after the release stand in the way of others until its timeout.  *)
Waiting(r) == call[r].at \in {"polling", "sleeping"}

NoCircularWait ==
  /\ \E r \in Request : Waiting(r)
  /\ \A r \in Request : ~Waiting(r) => call[r].at \in {"idle", "held", "refused"}
  /\ \A r \in Request : Waiting(r) => release[r].at = "none"
  /\ \A r \in Request, o \in Object : ~Holds(r, o)
  => \E r \in Request : Waiting(r) /\ CanAcquireAll(r)

=============================================================================
