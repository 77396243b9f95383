------------------------------ MODULE JobStore ------------------------------
(***************************************************************************)
(* The job table of one app instance: the Move object Jobs and the package *)
(* functions of move/coordination/sources/jobs.move, each as an operator   *)
(* from the table before the call to the table after it.                   *)
(*                                                                         *)
(* A job keeps what the functions branch on: its agent method (one value   *)
(* for the developer/agent/method triple of the pending index), status,    *)
(* attempts, interval and next scheduled time.  Payload, sequences, names, *)
(* events and log entries are left out.  Times are counted in minutes.     *)
(***************************************************************************)
EXTENDS Integers, FiniteSets

CONSTANTS
  Method,         \* developer/agent/agent_method triples
  None,           \* the Option value `none`
  MinInterval,    \* MIN_INTERVAL_MS
  RetryInterval,  \* RETRY_INTERVAL_MS
  U8Max           \* largest u8: attempts and max_attempts are u8

ASSUME NoneAssumption == None \notin Nat
ASSUME IntervalAssumption ==
  /\ MinInterval \in Nat \ {0}
  /\ RetryInterval \in Nat
  /\ RetryInterval >= MinInterval
ASSUME U8Assumption == U8Max \in Nat \ {0}

Option(S) == S \cup {None}
Status == {"Pending", "Running", "Failed"}

(* endedAt is updated_at as the end of a run leaves it on a periodic job,  *)
(* None before the first: no function reads the other updates of the field.*)
Job == [method: Method, status: Status, attempts: 0..U8Max,
        interval: Option(Nat), nextAt: Option(Nat), endedAt: Option(Nat)]

(* The empty job table that create_jobs returns.                           *)
EmptyJobs(maxAttempts) ==
  [table |-> [s \in {} |-> None], failedCount |-> 0, failedIndex |-> {},
   pending |-> {}, pendingCount |-> 0, index |-> [m \in Method |-> {}],
   next |-> 1, maxAttempts |-> maxAttempts]

JobExists(J, s) == s \in DOMAIN J.table
HasStatus(J, s, status) == JobExists(J, s) /\ J.table[s].status = status
IsPeriodic(job) == job.interval # None

PutJob(J, s, job) ==
  [J EXCEPT !.table = [t \in DOMAIN J.table \cup {s} |->
                         IF t = s THEN job ELSE J.table[t]]]

DropJobs(J, S) ==
  [J EXCEPT !.table = [t \in DOMAIN J.table \ S |-> J.table[t]]]

(* add_pending_job: set and count only when absent, the index always.  Its *)
(* assertion that the job is Pending holds at every call: the callers set  *)
(* the status just before.                                                 *)
AddPending(J, s) ==
  [J EXCEPT !.pending = @ \cup {s},
            !.pendingCount = IF s \in J.pending THEN @ ELSE @ + 1,
            !.index[J.table[s].method] = @ \cup {s}]

(* remove_pending_job: tolerant of a job that is not pending.              *)
RemovePending(J, s) ==
  IF s \notin J.pending THEN J
  ELSE [J EXCEPT !.pending = @ \ {s},
                 !.pendingCount = @ - 1,
                 !.index[J.table[s].method] = @ \ {s}]

-----------------------------------------------------------------------------
(* create_job: a periodic job needs at least the minimum interval, but     *)
(* nothing requires its first scheduled time.                              *)
CanCreate(interval) == interval # None => interval >= MinInterval

CreateJob(J, m, interval, nextAt) ==
  LET job == [method |-> m, status |-> "Pending", attempts |-> 0,
              interval |-> interval, nextAt |-> nextAt, endedAt |-> None]
  IN  [AddPending(PutJob(J, J.next, job), J.next) EXCEPT !.next = @ + 1]

(* start_job: a periodic job must be due.  Borrowing an absent scheduled   *)
(* time aborts the transaction.                                            *)
StartAborts(J, s) ==
  /\ HasStatus(J, s, "Pending")
  /\ IsPeriodic(J.table[s])
  /\ J.table[s].nextAt = None

CanStart(J, s, now) ==
  /\ HasStatus(J, s, "Pending")
  /\ IsPeriodic(J.table[s]) =>
       J.table[s].nextAt # None /\ now >= J.table[s].nextAt

StartJob(J, s) ==
  LET job == [J.table[s] EXCEPT !.status = "Running", !.attempts = @ + 1]
  IN  RemovePending(PutJob(J, s, job), s)

(* complete_job and fail_job act on Running jobs only.                     *)
CanFinish(J, s) == HasStatus(J, s, "Running")

(* Slip: the next slot is due at once.                                     *)
RescheduleAtOnce(J, s, now) ==
  LET job == [J.table[s] EXCEPT !.status = "Pending", !.attempts = 0,
                                !.nextAt = now, !.endedAt = now]
  IN  AddPending(PutJob(J, s, job), s)

(* A periodic job gets a fresh attempt budget and its next slot.           *)
Reschedule(J, s, now) ==
  LET job == [J.table[s] EXCEPT !.status = "Pending", !.attempts = 0,
                                !.nextAt = now + J.table[s].interval,
                                !.endedAt = now]
  IN  AddPending(PutJob(J, s, job), s)

(* A failed run with attempts left: pending again, after the retry delay.  *)
Retry(J, s, now) ==
  LET job == [J.table[s] EXCEPT !.status = "Pending",
                                !.nextAt = now + RetryInterval,
                                !.endedAt = IF IsPeriodic(J.table[s])
                                            THEN now ELSE None]
  IN  AddPending(PutJob(J, s, job), s)

(* A one-time job out of attempts stays in the table, indexed as failed.   *)
MarkFailed(J, s) ==
  [PutJob(J, s, [J.table[s] EXCEPT !.status = "Failed"])
     EXCEPT !.failedCount = @ + 1, !.failedIndex = @ \cup {s}]

CompleteJob(J, s, now) ==
  IF IsPeriodic(J.table[s]) THEN Reschedule(J, s, now) ELSE DropJobs(J, {s})

(* Slip: one attempt too many.                                             *)
FailJobLate(J, s, now) ==
  IF J.table[s].attempts <= J.maxAttempts THEN Retry(J, s, now)
  ELSE IF IsPeriodic(J.table[s]) THEN Reschedule(J, s, now)
  ELSE MarkFailed(J, s)

FailJob(J, s, now) ==
  IF J.table[s].attempts < J.maxAttempts THEN Retry(J, s, now)
  ELSE IF IsPeriodic(J.table[s]) THEN Reschedule(J, s, now)
  ELSE MarkFailed(J, s)

-----------------------------------------------------------------------------
(* restart_failed_jobs and remove_failed_jobs take the named jobs that the *)
(* failed index holds; both assert that the table still has them.          *)
Named(J, S) == S \cap J.failedIndex
FailedJobsAbort(J, S) == \E s \in Named(J, S) : ~JobExists(J, s)

(* Slip: the index is cleared, the count stays.                            *)
ForgetIndexOnly(J, R) == [J EXCEPT !.failedIndex = @ \ R]

ForgetFailed(J, R) ==
  [J EXCEPT !.failedCount = @ - Cardinality(R), !.failedIndex = @ \ R]

RestartFailedJobs(J, S) ==
  LET R == Named(J, S)
      restarted(job) == [job EXCEPT !.status = "Pending", !.attempts = 0,
                                    !.nextAt = None]
  IN  [ForgetFailed(J, R) EXCEPT
         !.table = [t \in DOMAIN J.table |->
                      IF t \in R THEN restarted(J.table[t]) ELSE J.table[t]],
         !.pending = @ \cup R,
         !.pendingCount = @ + Cardinality(R \ J.pending),
         !.index = [m \in Method |->
                      J.index[m] \cup {s \in R : J.table[s].method = m}]]

RemoveFailedJobs(J, S) ==
  LET R == Named(J, S) IN DropJobs(ForgetFailed(J, R), R)

(* Slip: a pending job is dropped without leaving the pending set.         *)
TerminateTableOnly(J, s) == DropJobs(J, {s})

(* terminate_job: any status; the failed count and index stay as they are. *)
TerminateJob(J, s) == DropJobs(RemovePending(J, s), {s})

UpdateMaxAttempts(J, n) == [J EXCEPT !.maxAttempts = n]

-----------------------------------------------------------------------------
(* What every caller relies on, as one predicate of the table.             *)

JobsType(J) ==
  /\ J \in [table: {J.table}, failedCount: Nat, failedIndex: SUBSET Nat,
            pending: SUBSET Nat, pendingCount: Nat,
            index: [Method -> SUBSET Nat], next: Nat \ {0},
            maxAttempts: 0..U8Max]
  /\ J.table \in [DOMAIN J.table -> Job]

(* Sequences are handed out once, in order.                                *)
SequencesBelowNext(J) ==
  /\ DOMAIN J.table \subseteq 1..(J.next - 1)
  /\ J.failedIndex \subseteq 1..(J.next - 1)

(* The pending set, its counter and the per-method index all say which     *)
(* jobs of the table are Pending.                                          *)
PendingIsIndexed(J) ==
  /\ J.pending = {s \in DOMAIN J.table : J.table[s].status = "Pending"}
  /\ J.pendingCount = Cardinality(J.pending)
  /\ \A m \in Method :
       J.index[m] = {s \in J.pending : J.table[s].method = m}

(* The failed index holds every Failed job, and of the jobs the table      *)
(* still has, only those.                                                  *)
FailedIsIndexed(J) ==
  /\ J.failedCount = Cardinality(J.failedIndex)
  /\ J.failedIndex \cap DOMAIN J.table
       = {s \in DOMAIN J.table : J.table[s].status = "Failed"}

(* A pending job can be started once more within a u8, and a job that runs *)
(* has used an attempt.                                                    *)
AttemptsFit(J) ==
  \A s \in DOMAIN J.table :
    /\ J.table[s].status = "Pending" => J.table[s].attempts < U8Max
    /\ J.table[s].status = "Running" => J.table[s].attempts > 0

(* A periodic job never ends up Failed, and after a run its next slot lies *)
(* at least the minimum interval after the end of that run.                *)
PeriodicJobsKeepTheirSlot(J) ==
  \A s \in DOMAIN J.table :
    LET job == J.table[s] IN
    IsPeriodic(job) =>
      /\ job.status # "Failed"
      /\ job.interval >= MinInterval
      /\ job.status = "Pending" /\ job.endedAt # None =>
           /\ job.nextAt # None
           /\ job.nextAt >= job.endedAt + MinInterval

JobsInv(J) ==
  /\ JobsType(J)
  /\ SequencesBelowNext(J)
  /\ PendingIsIndexed(J)
  /\ FailedIsIndexed(J)
  /\ AttemptsFit(J)
  /\ PeriodicJobsKeepTheirSlot(J)
=============================================================================
