----------------------------- MODULE JobsProofs -----------------------------
(***************************************************************************)
(* The properties of JobStore, Jobs and AppJobs for every set of methods   *)
(* and chains, every bound and every budget.                               *)
(*                                                                         *)
(*   1. Every operation of the job table preserves JobsInv.                *)
(*   2. An inductive invariant of Jobs, the safety properties that follow  *)
(*      from it, and the refinement of JobLifecycle.                       *)
(*   3. AppJobs moves the job table as Jobs does, and between calls the    *)
(*      settlement jobs of the table are the ones the chains refer to.     *)
(***************************************************************************)
EXTENDS AppJobs, FiniteSetTheorems, TLAPS

-----------------------------------------------------------------------------
(* 1. The job table.                                                       *)

(* The index sets of a table are finite, so their sizes can be counted.    *)
LEMMA IndexesAreFinite ==
  ASSUME NEW J, JobsInv(J)
  PROVE  /\ IsFiniteSet(J.pending)
         /\ IsFiniteSet(J.failedIndex)
<1>1. IsFiniteSet(1..(J.next - 1))
  <2>1. 1 \in Int /\ J.next - 1 \in Int
    BY DEF JobsInv, JobsType
  <2> QED
    BY <2>1, FS_Interval
<1>2. J.pending \subseteq 1..(J.next - 1)
  BY DEF JobsInv, PendingIsIndexed, SequencesBelowNext
<1>3. J.failedIndex \subseteq 1..(J.next - 1)
  BY DEF JobsInv, SequencesBelowNext
<1> QED
  BY <1>1, <1>2, <1>3, FS_Subset

(* create_jobs returns a table in which nothing is pending or failed.      *)
LEMMA EmptyJobsInv ==
  ASSUME NEW n \in 0..U8Max
  PROVE  JobsInv(EmptyJobs(n))
<1> DEFINE J == EmptyJobs(n)
<1>1. DOMAIN J.table = {}
  BY DEF EmptyJobs
<1>2. JobsType(J)
  BY <1>1, U8Assumption DEF EmptyJobs, JobsType
<1>3. SequencesBelowNext(J)
  BY DEF EmptyJobs, SequencesBelowNext
<1>4. PendingIsIndexed(J)
  BY <1>1, FS_EmptySet DEF EmptyJobs, PendingIsIndexed
<1>5. FailedIsIndexed(J)
  BY <1>1, FS_EmptySet DEF EmptyJobs, FailedIsIndexed
<1>6. AttemptsFit(J) /\ PeriodicJobsKeepTheirSlot(J)
  BY <1>1 DEF AttemptsFit, PeriodicJobsKeepTheirSlot
<1> QED
  BY <1>2, <1>3, <1>4, <1>5, <1>6 DEF JobsInv

(* A job that was neither Pending nor Failed, or was not in the table at   *)
(* all, becomes Pending and is filed under its method.                     *)
LEMMA FilePending ==
  ASSUME NEW J, JobsInv(J), NEW job \in Job, NEW s \in 1..(J.next - 1),
         s \in DOMAIN J.table,
         J.table[s].status = "Running",
         job.status = "Pending", job.method = J.table[s].method,
         job.attempts < U8Max,
         IsPeriodic(job) =>
           /\ job.interval >= MinInterval
           /\ job.endedAt # None =>
                job.nextAt # None /\ job.nextAt >= job.endedAt + MinInterval
  PROVE  JobsInv(AddPending(PutJob(J, s, job), s))
<1> DEFINE K == AddPending(PutJob(J, s, job), s)
<1> USE DEF JobsInv
<1>1. s \notin J.pending
  BY DEF PendingIsIndexed
<1>2. /\ K.table = [t \in DOMAIN J.table |-> IF t = s THEN job ELSE J.table[t]]
      /\ K.failedCount = J.failedCount
      /\ K.failedIndex = J.failedIndex
      /\ K.pending = J.pending \cup {s}
      /\ K.pendingCount = J.pendingCount + 1
      /\ K.index = [J.index EXCEPT ![job.method] = @ \cup {s}]
      /\ K.next = J.next
      /\ K.maxAttempts = J.maxAttempts
  BY <1>1 DEF AddPending, PutJob, JobsType
<1>3. K \in [table: {K.table}, failedCount: Nat, failedIndex: SUBSET Nat,
             pending: SUBSET Nat, pendingCount: Nat,
             index: [Method -> SUBSET Nat], next: Nat \ {0},
             maxAttempts: 0..U8Max]
  <2>1. job.method \in Method /\ s \in Nat
    BY DEF Job, JobsType
  <2>2. [J.index EXCEPT ![job.method] = @ \cup {s}] \in [Method -> SUBSET Nat]
    BY <2>1 DEF JobsType
  <2>3. J.pending \cup {s} \in SUBSET Nat /\ J.pendingCount + 1 \in Nat
    BY <2>1 DEF JobsType
  <2>4. K = [J EXCEPT !.table = K.table, !.pending = K.pending,
                      !.pendingCount = K.pendingCount, !.index = K.index]
    BY DEF AddPending, PutJob, JobsType
  <2> HIDE DEF K
  <2> QED
    BY <1>2, <2>2, <2>3, <2>4 DEF JobsType
<1> HIDE DEF K
<1>4. JobsType(K)
  BY <1>2, <1>3 DEF JobsType, Job
<1>5. SequencesBelowNext(K)
  BY <1>2 DEF SequencesBelowNext
<1>6. PendingIsIndexed(K)
  <2>1. K.pending = {t \in DOMAIN K.table : K.table[t].status = "Pending"}
    BY <1>2 DEF PendingIsIndexed
  <2>2. K.pendingCount = Cardinality(K.pending)
    <3>1. IsFiniteSet(J.pending)
      BY IndexesAreFinite
    <3>2. Cardinality(J.pending \cup {s}) = Cardinality(J.pending) + 1
      BY <1>1, <3>1, FS_AddElement
    <3> QED
      BY <1>2, <3>2 DEF PendingIsIndexed
  <2>3. \A m \in Method :
          K.index[m] = {t \in K.pending : K.table[t].method = m}
    BY <1>1, <1>2 DEF PendingIsIndexed, JobsType, Job
  <2> QED
    BY <2>1, <2>2, <2>3 DEF PendingIsIndexed
<1>7. FailedIsIndexed(K)
  BY <1>2 DEF FailedIsIndexed
<1>8. AttemptsFit(K)
  BY <1>2 DEF AttemptsFit
<1>9. PeriodicJobsKeepTheirSlot(K)
  BY <1>2 DEF PeriodicJobsKeepTheirSlot, IsPeriodic
<1> QED
  BY <1>4, <1>5, <1>6, <1>7, <1>8, <1>9 DEF K

(* A job record stays one when the fields that the operations write are    *)
(* given values of their types.                                            *)
LEMMA UpdatedJob ==
  ASSUME NEW job \in Job, NEW status \in Status, NEW attempts \in 0..U8Max,
         NEW nextAt \in Option(Nat), NEW endedAt \in Option(Nat)
  PROVE  /\ [job EXCEPT !.status = status, !.attempts = attempts,
                        !.nextAt = nextAt, !.endedAt = endedAt] \in Job
         /\ [job EXCEPT !.status = status, !.nextAt = nextAt,
                        !.endedAt = endedAt] \in Job
         /\ [job EXCEPT !.status = status, !.attempts = attempts] \in Job
         /\ [job EXCEPT !.status = status, !.attempts = attempts,
                        !.nextAt = nextAt] \in Job
         /\ [job EXCEPT !.status = status] \in Job
BY DEF Job

(* complete_job on a periodic job, and fail_job on one out of attempts.    *)
LEMMA RescheduleInv ==
  ASSUME NEW J, JobsInv(J), NEW s, NEW time \in Nat,
         CanFinish(J, s), IsPeriodic(J.table[s])
  PROVE  JobsInv(Reschedule(J, s, time))
<1> DEFINE job == [J.table[s] EXCEPT !.status = "Pending", !.attempts = 0,
                                     !.nextAt = time + J.table[s].interval,
                                     !.endedAt = time]
<1> USE DEF JobsInv, CanFinish, HasStatus, JobExists, IsPeriodic
<1>1. s \in 1..(J.next - 1)
  BY DEF SequencesBelowNext
<1>2. J.table[s] \in Job /\ J.table[s].interval \in Nat
  BY DEF JobsType, Job, Option
<1>3. J.table[s].interval >= MinInterval
  BY DEF PeriodicJobsKeepTheirSlot
<1>4. job \in Job
  <2>1. /\ 0 \in 0..U8Max /\ "Pending" \in Status
        /\ time + J.table[s].interval \in Option(Nat) /\ time \in Option(Nat)
    BY <1>2, U8Assumption DEF Status, Option
  <2> QED
    BY <1>2, <2>1, UpdatedJob
<1>5. /\ job.status = "Pending" /\ job.method = J.table[s].method
      /\ job.attempts = 0 /\ job.interval = J.table[s].interval
      /\ job.nextAt = time + J.table[s].interval /\ job.endedAt = time
  BY <1>2 DEF Job
<1>6. /\ job.attempts < U8Max
      /\ job.nextAt # None /\ job.nextAt >= job.endedAt + MinInterval
  BY <1>2, <1>3, <1>5, NoneAssumption, IntervalAssumption, U8Assumption
<1> HIDE DEF job
<1>7. JobsInv(AddPending(PutJob(J, s, job), s))
  BY <1>1, <1>3, <1>4, <1>5, <1>6, FilePending
<1> QED
  BY <1>7 DEF Reschedule, job

(* fail_job with attempts left.                                            *)
LEMMA RetryInv ==
  ASSUME NEW J, JobsInv(J), NEW s, NEW time \in Nat,
         CanFinish(J, s), J.table[s].attempts < J.maxAttempts
  PROVE  JobsInv(Retry(J, s, time))
<1> DEFINE job == [J.table[s] EXCEPT !.status = "Pending",
                                     !.nextAt = time + RetryInterval,
                                     !.endedAt = IF IsPeriodic(J.table[s])
                                                 THEN time ELSE None]
<1> USE DEF JobsInv, CanFinish, HasStatus, JobExists
<1>1. s \in 1..(J.next - 1)
  BY DEF SequencesBelowNext
<1>2. J.table[s] \in Job
  BY DEF JobsType
<1>3. job \in Job
  <2>1. /\ "Pending" \in Status /\ time + RetryInterval \in Option(Nat)
        /\ (IF IsPeriodic(J.table[s]) THEN time ELSE None) \in Option(Nat)
    BY IntervalAssumption DEF Status, Option
  <2> QED
    BY <1>2, <2>1 DEF Job
<1>4. /\ job.status = "Pending" /\ job.method = J.table[s].method
      /\ job.attempts = J.table[s].attempts
      /\ job.interval = J.table[s].interval
      /\ job.nextAt = time + RetryInterval
      /\ job.endedAt = IF IsPeriodic(J.table[s]) THEN time ELSE None
  BY <1>2 DEF Job
<1>5. job.attempts < U8Max
  <2>1. J.table[s].attempts \in 0..U8Max /\ J.maxAttempts \in 0..U8Max
    BY <1>2 DEF JobsType, Job
  <2> QED
    BY <1>4, <2>1, U8Assumption
<1>6. IsPeriodic(job) =>
        /\ job.interval >= MinInterval
        /\ job.nextAt # None /\ job.nextAt >= job.endedAt + MinInterval
  BY <1>4, NoneAssumption, IntervalAssumption
     DEF PeriodicJobsKeepTheirSlot, IsPeriodic
<1> HIDE DEF job
<1>7. JobsInv(AddPending(PutJob(J, s, job), s))
  BY <1>1, <1>3, <1>4, <1>5, <1>6, FilePending
<1> QED
  BY <1>7 DEF Retry, job

(* create_job takes the next sequence, which neither the table nor any     *)
(* index has seen.                                                         *)
LEMMA CreateJobInv ==
  ASSUME NEW J, JobsInv(J), NEW m \in Method,
         NEW interval \in Option(Nat), NEW nextAt \in Option(Nat),
         CanCreate(interval)
  PROVE  JobsInv(CreateJob(J, m, interval, nextAt))
<1> DEFINE job == [method |-> m, status |-> "Pending", attempts |-> 0,
                   interval |-> interval, nextAt |-> nextAt,
                   endedAt |-> None]
           s == J.next
           K == CreateJob(J, m, interval, nextAt)
<1> USE DEF JobsInv
<1>1. s \notin DOMAIN J.table /\ s \notin J.pending /\ s \notin J.failedIndex
      /\ s \in Nat \ {0}
  BY DEF JobsType, SequencesBelowNext, PendingIsIndexed
<1>2. job \in Job
  BY U8Assumption DEF Job, Status, Option
<1>3. /\ K.table = [t \in DOMAIN J.table \cup {s} |->
                      IF t = s THEN job ELSE J.table[t]]
      /\ K.failedCount = J.failedCount
      /\ K.failedIndex = J.failedIndex
      /\ K.pending = J.pending \cup {s}
      /\ K.pendingCount = J.pendingCount + 1
      /\ K.index = [J.index EXCEPT ![m] = @ \cup {s}]
      /\ K.next = J.next + 1
      /\ K.maxAttempts = J.maxAttempts
  BY <1>1 DEF CreateJob, AddPending, PutJob, JobsType
<1>4. K = [J EXCEPT !.table = K.table, !.pending = K.pending,
                    !.pendingCount = K.pendingCount, !.index = K.index,
                    !.next = K.next]
  BY DEF CreateJob, AddPending, PutJob, JobsType
<1> HIDE DEF K, job
<1>5. JobsType(K)
  <2>1. K.table \in [DOMAIN K.table -> Job]
    BY <1>2, <1>3 DEF JobsType
  <2>2. [J.index EXCEPT ![m] = @ \cup {s}] \in [Method -> SUBSET Nat]
    BY <1>1 DEF JobsType
  <2>3. /\ J.pending \cup {s} \in SUBSET Nat
        /\ J.pendingCount + 1 \in Nat /\ J.next + 1 \in Nat \ {0}
    BY <1>1 DEF JobsType
  <2> QED
    BY <1>3, <1>4, <2>1, <2>2, <2>3 DEF JobsType
<1>6. SequencesBelowNext(K)
  BY <1>1, <1>3 DEF SequencesBelowNext, JobsType
<1>7. PendingIsIndexed(K)
  <2>1. K.pending = {t \in DOMAIN K.table : K.table[t].status = "Pending"}
    BY <1>1, <1>3 DEF PendingIsIndexed, job
  <2>2. K.pendingCount = Cardinality(K.pending)
    <3>1. IsFiniteSet(J.pending)
      BY IndexesAreFinite
    <3>2. Cardinality(J.pending \cup {s}) = Cardinality(J.pending) + 1
      BY <1>1, <3>1, FS_AddElement
    <3> QED
      BY <1>3, <3>2 DEF PendingIsIndexed
  <2>3. \A n \in Method :
          K.index[n] = {t \in K.pending : K.table[t].method = n}
    BY <1>1, <1>3 DEF PendingIsIndexed, JobsType, job
  <2> QED
    BY <2>1, <2>2, <2>3 DEF PendingIsIndexed
<1>8. FailedIsIndexed(K)
  BY <1>1, <1>3 DEF FailedIsIndexed, job
<1>9. AttemptsFit(K)
  BY <1>1, <1>3, U8Assumption DEF AttemptsFit, job
<1>10. PeriodicJobsKeepTheirSlot(K)
  BY <1>1, <1>3 DEF PeriodicJobsKeepTheirSlot, IsPeriodic, CanCreate, job
<1> QED
  BY <1>5, <1>6, <1>7, <1>8, <1>9, <1>10 DEF K

(* start_job: a Pending job leaves the pending set and its index.          *)
LEMMA StartJobInv ==
  ASSUME NEW J, JobsInv(J), NEW s, HasStatus(J, s, "Pending")
  PROVE  JobsInv(StartJob(J, s))
<1> DEFINE job == [J.table[s] EXCEPT !.status = "Running", !.attempts = @ + 1]
           m == J.table[s].method
           K == StartJob(J, s)
<1> USE DEF JobsInv, HasStatus, JobExists
<1>1. s \in J.pending /\ s \in DOMAIN J.table
  BY DEF PendingIsIndexed
<1>2. J.table[s] \in Job /\ J.table[s].attempts < U8Max
  BY DEF JobsType, AttemptsFit
<1>3. /\ job \in Job /\ job.status = "Running" /\ job.method = m
      /\ job.attempts = J.table[s].attempts + 1
      /\ job.interval = J.table[s].interval
  <2>1. J.table[s].attempts \in 0..U8Max
    BY <1>2 DEF Job
  <2>2. J.table[s].attempts + 1 \in 0..U8Max /\ "Running" \in Status
    BY <1>2, <2>1, U8Assumption DEF Status
  <2>3. job \in Job
    BY <1>2, <2>2 DEF Job
  <2> QED
    BY <1>2, <2>3 DEF Job
<1>4. /\ K.table = [t \in DOMAIN J.table |-> IF t = s THEN job ELSE J.table[t]]
      /\ K.failedCount = J.failedCount
      /\ K.failedIndex = J.failedIndex
      /\ K.pending = J.pending \ {s}
      /\ K.pendingCount = J.pendingCount - 1
      /\ K.index = [J.index EXCEPT ![m] = @ \ {s}]
      /\ K.next = J.next
      /\ K.maxAttempts = J.maxAttempts
  BY <1>1, <1>3 DEF StartJob, RemovePending, PutJob, JobsType
<1>5. K = [J EXCEPT !.table = K.table, !.pending = K.pending,
                    !.pendingCount = K.pendingCount, !.index = K.index]
  BY <1>1 DEF StartJob, RemovePending, PutJob, JobsType
<1> HIDE DEF K, job
<1>6. J.pendingCount - 1 = Cardinality(J.pending \ {s})
      /\ J.pendingCount - 1 \in Nat
  <2>1. IsFiniteSet(J.pending)
    BY IndexesAreFinite
  <2>2. /\ IsFiniteSet(J.pending \ {s})
        /\ Cardinality(J.pending \ {s}) = J.pendingCount - 1
    BY <1>1, <2>1, FS_RemoveElement DEF PendingIsIndexed
  <2>3. Cardinality(J.pending \ {s}) \in Nat
    BY <2>2, FS_CardinalityType
  <2> QED
    BY <2>2, <2>3
<1>7. JobsType(K)
  <2>1. K.table \in [DOMAIN K.table -> Job]
    BY <1>3, <1>4 DEF JobsType
  <2>2. [J.index EXCEPT ![m] = @ \ {s}] \in [Method -> SUBSET Nat]
    BY <1>2 DEF JobsType, Job
  <2>3. J.pending \ {s} \in SUBSET Nat
    BY DEF JobsType
  <2> QED
    BY <1>4, <1>5, <1>6, <2>1, <2>2, <2>3 DEF JobsType
<1>8. SequencesBelowNext(K)
  BY <1>4 DEF SequencesBelowNext
<1>9. PendingIsIndexed(K)
  <2>1. K.pending = {t \in DOMAIN K.table : K.table[t].status = "Pending"}
    BY <1>3, <1>4 DEF PendingIsIndexed
  <2>2. \A n \in Method :
          K.index[n] = {t \in K.pending : K.table[t].method = n}
    BY <1>1, <1>2, <1>4 DEF PendingIsIndexed, JobsType
  <2> QED
    BY <1>4, <1>6, <2>1, <2>2 DEF PendingIsIndexed
<1>10. FailedIsIndexed(K)
  BY <1>3, <1>4 DEF FailedIsIndexed
<1>11. AttemptsFit(K)
  BY <1>2, <1>3, <1>4 DEF AttemptsFit, Job
<1>12. PeriodicJobsKeepTheirSlot(K)
  BY <1>3, <1>4 DEF PeriodicJobsKeepTheirSlot, IsPeriodic
<1> QED
  BY <1>7, <1>8, <1>9, <1>10, <1>11, <1>12 DEF K

(* fail_job on a one-time job out of attempts: its key is new to the       *)
(* failed index.                                                           *)
LEMMA MarkFailedInv ==
  ASSUME NEW J, JobsInv(J), NEW s, CanFinish(J, s), ~IsPeriodic(J.table[s])
  PROVE  /\ s \notin J.failedIndex
         /\ JobsInv(MarkFailed(J, s))
<1> DEFINE job == [J.table[s] EXCEPT !.status = "Failed"]
           K == MarkFailed(J, s)
<1> USE DEF JobsInv, CanFinish, HasStatus, JobExists
<1>1. s \in DOMAIN J.table /\ s \notin J.pending /\ s \notin J.failedIndex
  BY DEF PendingIsIndexed, FailedIsIndexed
<1>2. J.table[s] \in Job /\ s \in 1..(J.next - 1)
  BY DEF JobsType, SequencesBelowNext
<1>3. /\ job \in Job /\ job.status = "Failed"
      /\ job.interval = J.table[s].interval
      /\ job.method = J.table[s].method
  BY <1>2 DEF Job, Status
<1>4. /\ K.table = [t \in DOMAIN J.table |-> IF t = s THEN job ELSE J.table[t]]
      /\ K.failedCount = J.failedCount + 1
      /\ K.failedIndex = J.failedIndex \cup {s}
      /\ K.pending = J.pending
      /\ K.pendingCount = J.pendingCount
      /\ K.index = J.index
      /\ K.next = J.next
      /\ K.maxAttempts = J.maxAttempts
  BY <1>1 DEF MarkFailed, PutJob, JobsType
<1>5. K = [J EXCEPT !.table = K.table, !.failedCount = K.failedCount,
                    !.failedIndex = K.failedIndex]
  BY DEF MarkFailed, PutJob, JobsType
<1> HIDE DEF K, job
<1>6. JobsType(K)
  <2>1. K.table \in [DOMAIN K.table -> Job]
    BY <1>3, <1>4 DEF JobsType
  <2>2. J.failedIndex \cup {s} \in SUBSET Nat /\ J.failedCount + 1 \in Nat
    BY <1>2 DEF JobsType
  <2> QED
    BY <1>4, <1>5, <2>1, <2>2 DEF JobsType
<1>7. SequencesBelowNext(K)
  BY <1>2, <1>4 DEF SequencesBelowNext
<1>8. PendingIsIndexed(K)
  BY <1>1, <1>3, <1>4 DEF PendingIsIndexed
<1>9. FailedIsIndexed(K)
  <2>1. K.failedCount = Cardinality(K.failedIndex)
    <3>1. IsFiniteSet(J.failedIndex)
      BY IndexesAreFinite
    <3>2. Cardinality(J.failedIndex \cup {s}) = Cardinality(J.failedIndex) + 1
      BY <1>1, <3>1, FS_AddElement
    <3> QED
      BY <1>4, <3>2 DEF FailedIsIndexed
  <2>2. K.failedIndex \cap DOMAIN K.table
          = {t \in DOMAIN K.table : K.table[t].status = "Failed"}
    BY <1>1, <1>3, <1>4 DEF FailedIsIndexed
  <2> QED
    BY <2>1, <2>2 DEF FailedIsIndexed
<1>10. AttemptsFit(K)
  BY <1>3, <1>4 DEF AttemptsFit
<1>11. PeriodicJobsKeepTheirSlot(K)
  BY <1>3, <1>4 DEF PeriodicJobsKeepTheirSlot, IsPeriodic
<1> QED
  BY <1>1, <1>6, <1>7, <1>8, <1>9, <1>10, <1>11 DEF K

(* A job leaves the table after it has left the pending set, wherever it   *)
(* stands in the failed index.                                             *)
LEMMA DropJobsInv ==
  ASSUME NEW J, JobsInv(J), NEW S, S \cap J.pending = {}
  PROVE  JobsInv(DropJobs(J, S))
<1> DEFINE K == DropJobs(J, S)
<1> USE DEF JobsInv
<1>1. /\ K.table = [t \in DOMAIN J.table \ S |-> J.table[t]]
      /\ K.failedCount = J.failedCount
      /\ K.failedIndex = J.failedIndex
      /\ K.pending = J.pending
      /\ K.pendingCount = J.pendingCount
      /\ K.index = J.index
      /\ K.next = J.next
      /\ K.maxAttempts = J.maxAttempts
  BY DEF DropJobs, JobsType
<1>2. K = [J EXCEPT !.table = K.table]
  BY DEF DropJobs, JobsType
<1> HIDE DEF K
<1>3. JobsType(K)
  BY <1>1, <1>2 DEF JobsType
<1>4. SequencesBelowNext(K)
  BY <1>1 DEF SequencesBelowNext
<1>5. PendingIsIndexed(K)
  BY <1>1 DEF PendingIsIndexed
<1>6. FailedIsIndexed(K)
  BY <1>1 DEF FailedIsIndexed
<1>7. AttemptsFit(K) /\ PeriodicJobsKeepTheirSlot(K)
  BY <1>1 DEF AttemptsFit, PeriodicJobsKeepTheirSlot, IsPeriodic
<1> QED
  BY <1>3, <1>4, <1>5, <1>6, <1>7 DEF K

(* complete_job and fail_job, whatever the job's kind and budget.          *)
LEMMA FinishInv ==
  ASSUME NEW J, JobsInv(J), NEW s, NEW time \in Nat, CanFinish(J, s)
  PROVE  /\ JobsInv(CompleteJob(J, s, time))
         /\ JobsInv(FailJob(J, s, time))
<1>1. {s} \cap J.pending = {}
  BY DEF JobsInv, PendingIsIndexed, CanFinish, HasStatus
<1>2. JobsInv(CompleteJob(J, s, time))
  BY <1>1, RescheduleInv, DropJobsInv DEF CompleteJob
<1>3. JobsInv(FailJob(J, s, time))
  BY RetryInv, RescheduleInv, MarkFailedInv DEF FailJob
<1> QED
  BY <1>2, <1>3

(* terminate_job in any status; a Failed job leaves its key in the failed  *)
(* index behind, which JobsInv allows.                                     *)
LEMMA TerminateJobInv ==
  ASSUME NEW J, JobsInv(J), NEW s, JobExists(J, s)
  PROVE  JobsInv(TerminateJob(J, s))
<1>1. CASE s \notin J.pending
  BY <1>1, DropJobsInv DEF TerminateJob, RemovePending
<1>2. CASE s \in J.pending
  <2> DEFINE m == J.table[s].method
             K == TerminateJob(J, s)
  <2> USE DEF JobsInv, JobExists
  <2>1. J.table[s] \in Job /\ J.table[s].status = "Pending"
    BY <1>2 DEF JobsType, PendingIsIndexed
  <2>2. /\ K.table = [t \in DOMAIN J.table \ {s} |-> J.table[t]]
        /\ K.failedCount = J.failedCount
        /\ K.failedIndex = J.failedIndex
        /\ K.pending = J.pending \ {s}
        /\ K.pendingCount = J.pendingCount - 1
        /\ K.index = [J.index EXCEPT ![m] = @ \ {s}]
        /\ K.next = J.next
        /\ K.maxAttempts = J.maxAttempts
    BY <1>2 DEF TerminateJob, RemovePending, DropJobs, JobsType
  <2>3. K = [J EXCEPT !.table = K.table, !.pending = K.pending,
                      !.pendingCount = K.pendingCount, !.index = K.index]
    BY <1>2 DEF TerminateJob, RemovePending, DropJobs, JobsType
  <2> HIDE DEF K
  <2>4. J.pendingCount - 1 = Cardinality(J.pending \ {s})
        /\ J.pendingCount - 1 \in Nat
    <3>1. IsFiniteSet(J.pending)
      BY IndexesAreFinite
    <3>2. /\ IsFiniteSet(J.pending \ {s})
          /\ Cardinality(J.pending \ {s}) = J.pendingCount - 1
      BY <1>2, <3>1, FS_RemoveElement DEF PendingIsIndexed
    <3>3. Cardinality(J.pending \ {s}) \in Nat
      BY <3>2, FS_CardinalityType
    <3> QED
      BY <3>2, <3>3
  <2>5. JobsType(K)
    <3>1. K.table \in [DOMAIN K.table -> Job]
      BY <2>2 DEF JobsType
    <3>2. [J.index EXCEPT ![m] = @ \ {s}] \in [Method -> SUBSET Nat]
      BY <2>1 DEF JobsType, Job
    <3>3. J.pending \ {s} \in SUBSET Nat
      BY DEF JobsType
    <3> QED
      BY <2>2, <2>3, <2>4, <3>1, <3>2, <3>3 DEF JobsType
  <2>6. SequencesBelowNext(K)
    BY <2>2 DEF SequencesBelowNext
  <2>7. PendingIsIndexed(K)
    <3>1. K.pending = {t \in DOMAIN K.table : K.table[t].status = "Pending"}
      BY <2>2 DEF PendingIsIndexed
    <3>2. \A n \in Method :
            K.index[n] = {t \in K.pending : K.table[t].method = n}
      BY <1>2, <2>1, <2>2 DEF PendingIsIndexed, JobsType
    <3> QED
      BY <2>2, <2>4, <3>1, <3>2 DEF PendingIsIndexed
  <2>8. FailedIsIndexed(K)
    BY <2>1, <2>2 DEF FailedIsIndexed
  <2>9. AttemptsFit(K) /\ PeriodicJobsKeepTheirSlot(K)
    BY <2>2 DEF AttemptsFit, PeriodicJobsKeepTheirSlot, IsPeriodic
  <2> QED
    BY <2>5, <2>6, <2>7, <2>8, <2>9 DEF K
<1> QED
  BY <1>1, <1>2

(* Taking failed jobs off the failed index takes their number off the      *)
(* counter, which stays a natural number.                                  *)
LEMMA ForgetFailedCounts ==
  ASSUME NEW J, JobsInv(J), NEW R \in SUBSET J.failedIndex
  PROVE  /\ J.failedCount - Cardinality(R) \in Nat
         /\ J.failedCount - Cardinality(R) = Cardinality(J.failedIndex \ R)
<1>1. IsFiniteSet(J.failedIndex)
  BY IndexesAreFinite
<1>2. J.failedIndex \cap R = R
  OBVIOUS
<1>3. /\ IsFiniteSet(J.failedIndex \ R)
      /\ Cardinality(J.failedIndex \ R) = J.failedCount - Cardinality(R)
  <2>1. /\ IsFiniteSet(J.failedIndex \ R)
        /\ Cardinality(J.failedIndex \ R)
             = Cardinality(J.failedIndex) - Cardinality(J.failedIndex \cap R)
    BY <1>1, FS_Difference
  <2>2. Cardinality(J.failedIndex \cap R) = Cardinality(R)
    BY <1>2
  <2> QED
    BY <2>1, <2>2 DEF JobsInv, FailedIsIndexed
<1>4. Cardinality(J.failedIndex \ R) \in Nat
  BY <1>3, FS_CardinalityType
<1> QED
  BY <1>3, <1>4

(* remove_failed_jobs, when its assertion holds.                           *)
LEMMA RemoveFailedJobsInv ==
  ASSUME NEW J, JobsInv(J), NEW S, ~FailedJobsAbort(J, S)
  PROVE  JobsInv(RemoveFailedJobs(J, S))
<1> DEFINE R == Named(J, S)
           K == RemoveFailedJobs(J, S)
<1> USE DEF JobsInv
<1>1. /\ R \subseteq J.failedIndex /\ R \subseteq DOMAIN J.table
      /\ R \cap J.pending = {}
      /\ \A s \in R : J.table[s].status = "Failed"
  BY DEF Named, FailedJobsAbort, JobExists, FailedIsIndexed, PendingIsIndexed
<1>2. /\ K.table = [t \in DOMAIN J.table \ R |-> J.table[t]]
      /\ K.failedCount = J.failedCount - Cardinality(R)
      /\ K.failedIndex = J.failedIndex \ R
      /\ K.pending = J.pending
      /\ K.pendingCount = J.pendingCount
      /\ K.index = J.index
      /\ K.next = J.next
      /\ K.maxAttempts = J.maxAttempts
  BY DEF RemoveFailedJobs, ForgetFailed, DropJobs, JobsType
<1>3. K = [J EXCEPT !.table = K.table, !.failedCount = K.failedCount,
                    !.failedIndex = K.failedIndex]
  BY DEF RemoveFailedJobs, ForgetFailed, DropJobs, JobsType
<1> HIDE DEF K, R
<1>4. J.failedCount - Cardinality(R) \in Nat
      /\ J.failedCount - Cardinality(R) = Cardinality(J.failedIndex \ R)
  BY <1>1, ForgetFailedCounts
<1>5. JobsType(K)
  <2>1. K.table \in [DOMAIN K.table -> Job] /\ J.failedIndex \ R \in SUBSET Nat
    BY <1>2 DEF JobsType
  <2> QED
    BY <1>2, <1>3, <1>4, <2>1 DEF JobsType
<1>6. SequencesBelowNext(K)
  BY <1>2 DEF SequencesBelowNext
<1>7. PendingIsIndexed(K)
  BY <1>1, <1>2 DEF PendingIsIndexed
<1>8. FailedIsIndexed(K)
  <2>1. K.failedIndex \cap DOMAIN K.table
          = {t \in DOMAIN K.table : K.table[t].status = "Failed"}
    BY <1>2 DEF FailedIsIndexed
  <2> QED
    BY <1>2, <1>4, <2>1 DEF FailedIsIndexed
<1>9. AttemptsFit(K) /\ PeriodicJobsKeepTheirSlot(K)
  BY <1>2 DEF AttemptsFit, PeriodicJobsKeepTheirSlot, IsPeriodic
<1> QED
  BY <1>5, <1>6, <1>7, <1>8, <1>9 DEF K

(* restart_failed_jobs, when its assertion holds: the restarted jobs move  *)
(* from the failed index to the pending set, each filed under its method.  *)
LEMMA RestartFailedJobsInv ==
  ASSUME NEW J, JobsInv(J), NEW S, ~FailedJobsAbort(J, S)
  PROVE  JobsInv(RestartFailedJobs(J, S))
<1> DEFINE R == Named(J, S)
           K == RestartFailedJobs(J, S)
           restarted(job) == [job EXCEPT !.status = "Pending", !.attempts = 0,
                                         !.nextAt = None]
<1> USE DEF JobsInv
<1>1. /\ R \subseteq J.failedIndex /\ R \subseteq DOMAIN J.table
      /\ R \cap J.pending = {}
      /\ \A s \in R : J.table[s].status = "Failed"
  BY DEF Named, FailedJobsAbort, JobExists, FailedIsIndexed, PendingIsIndexed
<1>2. R \ J.pending = R
  BY <1>1
<1>3. /\ K.table = [t \in DOMAIN J.table |->
                      IF t \in R THEN restarted(J.table[t]) ELSE J.table[t]]
      /\ K.failedCount = J.failedCount - Cardinality(R)
      /\ K.failedIndex = J.failedIndex \ R
      /\ K.pending = J.pending \cup R
      /\ K.pendingCount = J.pendingCount + Cardinality(R)
      /\ K.index = [m \in Method |->
                      J.index[m] \cup {s \in R : J.table[s].method = m}]
      /\ K.next = J.next
      /\ K.maxAttempts = J.maxAttempts
  BY <1>2 DEF RestartFailedJobs, ForgetFailed, JobsType
<1>4. K = [J EXCEPT !.table = K.table, !.failedCount = K.failedCount,
                    !.failedIndex = K.failedIndex, !.pending = K.pending,
                    !.pendingCount = K.pendingCount, !.index = K.index]
  BY DEF RestartFailedJobs, ForgetFailed, JobsType
<1>5. \A t \in R :
        /\ restarted(J.table[t]) \in Job
        /\ restarted(J.table[t]).status = "Pending"
        /\ restarted(J.table[t]).attempts = 0
        /\ restarted(J.table[t]).method = J.table[t].method
        /\ restarted(J.table[t]).interval = J.table[t].interval
  <2> SUFFICES ASSUME NEW job \in Job
               PROVE  /\ restarted(job) \in Job
                      /\ restarted(job).status = "Pending"
                      /\ restarted(job).attempts = 0
                      /\ restarted(job).method = job.method
                      /\ restarted(job).interval = job.interval
    BY <1>1 DEF JobsType
  <2>1. 0 \in 0..U8Max /\ "Pending" \in Status /\ None \in Option(Nat)
    BY U8Assumption DEF Status, Option
  <2> QED
    BY <2>1 DEF Job
<1> HIDE DEF K, R, restarted
<1>6. /\ J.failedCount - Cardinality(R) \in Nat
      /\ J.failedCount - Cardinality(R) = Cardinality(J.failedIndex \ R)
  BY <1>1, ForgetFailedCounts
<1>7. /\ J.pendingCount + Cardinality(R) = Cardinality(J.pending \cup R)
      /\ J.pendingCount + Cardinality(R) \in Nat
  <2>1. IsFiniteSet(J.pending) /\ IsFiniteSet(R)
    BY <1>1, IndexesAreFinite, FS_Subset
  <2>2. Cardinality(J.pending \cap R) = 0
    <3>1. J.pending \cap R = {}
      BY <1>1
    <3> QED
      BY <3>1, FS_EmptySet
  <2>3. /\ Cardinality(J.pending) \in Nat /\ Cardinality(R) \in Nat
    BY <2>1, FS_CardinalityType
  <2>4. Cardinality(J.pending \cup R) = Cardinality(J.pending)
          + Cardinality(R) - Cardinality(J.pending \cap R)
    BY <2>1, FS_Union
  <2> QED
    BY <2>2, <2>3, <2>4 DEF PendingIsIndexed
<1>8. JobsType(K)
  <2>1. K.table \in [DOMAIN K.table -> Job]
    BY <1>3, <1>5 DEF JobsType
  <2>2. /\ J.failedIndex \ R \in SUBSET Nat
        /\ J.pending \cup R \in SUBSET Nat
    BY <1>1 DEF JobsType
  <2>3. [m \in Method |-> J.index[m] \cup {s \in R : J.table[s].method = m}]
          \in [Method -> SUBSET Nat]
    BY <1>1, <2>2 DEF JobsType
  <2> QED
    BY <1>3, <1>4, <1>6, <1>7, <2>1, <2>2, <2>3 DEF JobsType
<1>9. SequencesBelowNext(K)
  BY <1>3 DEF SequencesBelowNext
<1>10. PendingIsIndexed(K)
  <2>1. K.pending = {t \in DOMAIN K.table : K.table[t].status = "Pending"}
    BY <1>1, <1>3, <1>5 DEF PendingIsIndexed
  <2>2. \A m \in Method :
          K.index[m] = {t \in K.pending : K.table[t].method = m}
    <3> SUFFICES ASSUME NEW m \in Method
                 PROVE  K.index[m] = {t \in K.pending : K.table[t].method = m}
      OBVIOUS
    <3>1. \A t \in K.pending : t \in DOMAIN J.table
                               /\ K.table[t].method = J.table[t].method
      BY <1>1, <1>3, <1>5 DEF PendingIsIndexed
    <3>2. K.index[m] = {t \in J.pending : J.table[t].method = m}
                         \cup {s \in R : J.table[s].method = m}
      BY <1>3 DEF PendingIsIndexed
    <3> QED
      BY <1>3, <3>1, <3>2
  <2> QED
    BY <1>3, <1>7, <2>1, <2>2 DEF PendingIsIndexed
<1>11. FailedIsIndexed(K)
  <2>1. K.failedIndex \cap DOMAIN K.table
          = {t \in DOMAIN K.table : K.table[t].status = "Failed"}
    BY <1>1, <1>3, <1>5 DEF FailedIsIndexed
  <2> QED
    BY <1>3, <1>6, <2>1 DEF FailedIsIndexed
<1>12. AttemptsFit(K)
  BY <1>3, <1>5, U8Assumption DEF AttemptsFit
<1>13. PeriodicJobsKeepTheirSlot(K)
  <2>1. \A t \in R : ~IsPeriodic(J.table[t])
    BY <1>1 DEF PeriodicJobsKeepTheirSlot
  <2> QED
    BY <1>3, <1>5, <2>1 DEF PeriodicJobsKeepTheirSlot, IsPeriodic
<1> QED
  BY <1>8, <1>9, <1>10, <1>11, <1>12, <1>13 DEF K

(* update_max_attempts changes nothing the invariant relates to the table. *)
LEMMA UpdateMaxAttemptsInv ==
  ASSUME NEW J, JobsInv(J), NEW n \in 0..U8Max
  PROVE  JobsInv(UpdateMaxAttempts(J, n))
BY DEF UpdateMaxAttempts, JobsInv, JobsType, SequencesBelowNext,
       PendingIsIndexed, FailedIsIndexed, AttemptsFit,
       PeriodicJobsKeepTheirSlot

-----------------------------------------------------------------------------
(* 2. Calls, calls that fail, and the life of a job.                       *)

(* What the running call has done to each job so far is one move of        *)
(* JobLifecycle away from the table the call started from.                 *)
Evolved(A, B) ==
  \A s \in Sequence :
    \/ LifeOf(B, s) = LifeOf(A, s)
    \/ <<LifeOf(A, s), LifeOf(B, s)>> \in Lifecycle!CallMoves

(* Before the first start of a multicall, the jobs that run are jobs that  *)
(* ran when the call began.                                                *)
RunsAreOld(A, B) ==
  \A s \in Sequence : LifeOf(B, s) = "Running" => LifeOf(A, s) = "Running"

CallInv ==
  /\ ops \in Seq(Op)
  /\ InPhaseOrder(ops)
  /\ ops = <<>> => jobs = committed
  /\ jobs.next = committed.next
  /\ jobs.next <= MaxJobs + 1
  /\ Evolved(committed, jobs)
  /\ ops # <<>> /\ Phase[Head(ops).kind] <= 2 => RunsAreOld(committed, jobs)

MemoryInv ==
  /\ memory \in [available: Nat, left: Nat, used: Nat]
  /\ memory.available = memory.left + memory.used

IInv ==
  /\ JobsInv(jobs)
  /\ JobsInv(committed)
  /\ CallInv
  /\ MemoryInv
  /\ now \in Nat

-----------------------------------------------------------------------------
(* What each operation does to the lives of the jobs.                      *)

(* complete_job and fail_job end a run.                                    *)
LEMMA LifeAfterFinish ==
  ASSUME NEW J, JobsInv(J), NEW s, NEW n \in Nat, CanFinish(J, s),
         NEW K \in {CompleteJob(J, s, n), FailJob(J, s, n)}
  PROVE  /\ K.next = J.next
         /\ \A t : t # s => LifeOf(K, t) = LifeOf(J, t)
         /\ LifeOf(J, s) = "Running"
         /\ LifeOf(K, s) \in {"Pending", "Failed", "Gone"}
<1> USE DEF CanFinish, HasStatus, JobExists
<1>1. J.table[s] \in Job /\ s \in DOMAIN J.table /\ LifeOf(J, s) = "Running"
  BY DEF JobsInv, JobsType, LifeOf
<1>2. ASSUME K = Reschedule(J, s, n)
      PROVE  /\ K.next = J.next
             /\ \A t : LifeOf(K, t) = IF t = s THEN "Pending" ELSE LifeOf(J, t)
  <2> DEFINE job == [J.table[s] EXCEPT !.status = "Pending", !.attempts = 0,
                                       !.nextAt = n + J.table[s].interval,
                                       !.endedAt = n]
  <2>1. /\ K.next = J.next
        /\ K.table = [t \in DOMAIN J.table |->
                        IF t = s THEN job ELSE J.table[t]]
    BY <1>1, <1>2 DEF Reschedule, AddPending, PutJob, JobsInv, JobsType
  <2>2. job.status = "Pending"
    BY <1>1 DEF Job
  <2> HIDE DEF job
  <2> QED
    BY <1>1, <2>1, <2>2 DEF LifeOf
<1>3. ASSUME K = Retry(J, s, n)
      PROVE  /\ K.next = J.next
             /\ \A t : LifeOf(K, t) = IF t = s THEN "Pending" ELSE LifeOf(J, t)
  <2> DEFINE job == [J.table[s] EXCEPT !.status = "Pending",
                                       !.nextAt = n + RetryInterval,
                                       !.endedAt = IF IsPeriodic(J.table[s])
                                                   THEN n ELSE None]
  <2>1. /\ K.next = J.next
        /\ K.table = [t \in DOMAIN J.table |->
                        IF t = s THEN job ELSE J.table[t]]
    BY <1>1, <1>3 DEF Retry, AddPending, PutJob, JobsInv, JobsType
  <2>2. job.status = "Pending"
    BY <1>1 DEF Job
  <2> HIDE DEF job
  <2> QED
    BY <1>1, <2>1, <2>2 DEF LifeOf
<1>4. ASSUME K = MarkFailed(J, s)
      PROVE  /\ K.next = J.next
             /\ \A t : LifeOf(K, t) = IF t = s THEN "Failed" ELSE LifeOf(J, t)
  <2> DEFINE job == [J.table[s] EXCEPT !.status = "Failed"]
  <2>1. /\ K.next = J.next
        /\ K.table = [t \in DOMAIN J.table |->
                        IF t = s THEN job ELSE J.table[t]]
    BY <1>1, <1>4 DEF MarkFailed, PutJob, JobsInv, JobsType
  <2>2. job.status = "Failed"
    BY <1>1 DEF Job
  <2> HIDE DEF job
  <2> QED
    BY <1>1, <2>1, <2>2 DEF LifeOf
<1>5. ASSUME K = DropJobs(J, {s})
      PROVE  /\ K.next = J.next
             /\ \A t : LifeOf(K, t) = IF t = s THEN "Gone" ELSE LifeOf(J, t)
  <2>1. /\ K.next = J.next
        /\ K.table = [t \in DOMAIN J.table \ {s} |-> J.table[t]]
    BY <1>5 DEF DropJobs, JobsInv, JobsType
  <2>2. s < J.next
    BY <1>1 DEF JobsInv, JobsType, SequencesBelowNext
  <2> QED
    BY <1>1, <2>1, <2>2 DEF LifeOf
<1>6. \/ K = Reschedule(J, s, n) \/ K = Retry(J, s, n)
      \/ K = MarkFailed(J, s) \/ K = DropJobs(J, {s})
  BY DEF CompleteJob, FailJob
<1> QED
  BY <1>1, <1>2, <1>3, <1>4, <1>5, <1>6

(* start_job begins one.                                                   *)
LEMMA LifeAfterStart ==
  ASSUME NEW J, JobsInv(J), NEW s, HasStatus(J, s, "Pending"),
         NEW K, K = StartJob(J, s)
  PROVE  /\ K.next = J.next
         /\ LifeOf(J, s) = "Pending"
         /\ \A t : LifeOf(K, t) = IF t = s THEN "Running" ELSE LifeOf(J, t)
<1> DEFINE job == [J.table[s] EXCEPT !.status = "Running", !.attempts = @ + 1]
<1> USE DEF HasStatus, JobExists
<1>1. J.table[s] \in Job /\ s \in DOMAIN J.table /\ LifeOf(J, s) = "Pending"
  BY DEF JobsInv, JobsType, LifeOf
<1>2. /\ K.next = J.next
      /\ K.table = [t \in DOMAIN J.table |->
                      IF t = s THEN job ELSE J.table[t]]
  BY <1>1 DEF StartJob, RemovePending, PutJob, JobsInv, JobsType
<1>3. job.status = "Running"
  BY <1>1 DEF Job
<1> HIDE DEF job
<1> QED
  BY <1>1, <1>2, <1>3 DEF LifeOf

(* terminate_job ends the job itself.                                      *)
LEMMA LifeAfterTerminate ==
  ASSUME NEW J, JobsInv(J), NEW s, JobExists(J, s),
         NEW K, K = TerminateJob(J, s)
  PROVE  /\ K.next = J.next
         /\ LifeOf(J, s) \in {"Pending", "Running", "Failed"}
         /\ \A t : LifeOf(K, t) = IF t = s THEN "Gone" ELSE LifeOf(J, t)
<1>1. J.table[s] \in Job /\ s \in DOMAIN J.table
  BY DEF JobsInv, JobsType, JobExists
<1>2. LifeOf(J, s) \in {"Pending", "Running", "Failed"}
  BY <1>1 DEF LifeOf, JobExists, Job, Status
<1>3. /\ K.next = J.next
      /\ K.table = [t \in DOMAIN J.table \ {s} |-> J.table[t]]
  BY <1>1 DEF TerminateJob, RemovePending, DropJobs, JobsInv, JobsType
<1>4. s < J.next
  BY <1>1 DEF JobsInv, JobsType, SequencesBelowNext
<1> QED
  BY <1>1, <1>2, <1>3, <1>4 DEF LifeOf, JobExists

(* create_job gives birth to the next sequence.                            *)
LEMMA LifeAfterCreate ==
  ASSUME NEW J, JobsInv(J), NEW m \in Method, NEW interval, NEW nextAt,
         NEW K, K = CreateJob(J, m, interval, nextAt)
  PROVE  /\ K.next = J.next + 1
         /\ \A t \in Nat : LifeOf(K, t) =
              IF t = J.next THEN "Pending" ELSE LifeOf(J, t)
<1> DEFINE job == [method |-> m, status |-> "Pending", attempts |-> 0,
                   interval |-> interval, nextAt |-> nextAt,
                   endedAt |-> None]
<1>1. /\ K.next = J.next + 1
      /\ K.table = [t \in DOMAIN J.table \cup {J.next} |->
                      IF t = J.next THEN job ELSE J.table[t]]
  BY DEF CreateJob, AddPending, PutJob, JobsInv, JobsType
<1>2. J.next \in Nat /\ job.status = "Pending"
  BY DEF JobsInv, JobsType
<1> HIDE DEF job
<1> QED
  BY <1>1, <1>2 DEF LifeOf, JobExists

(* restart_failed_jobs and remove_failed_jobs take failed jobs only.       *)
LEMMA LifeAfterFailedJobs ==
  ASSUME NEW J, JobsInv(J), NEW S, ~FailedJobsAbort(J, S)
  PROVE  /\ \A s \in Named(J, S) : LifeOf(J, s) = "Failed"
         /\ RestartFailedJobs(J, S).next = J.next
         /\ \A t : LifeOf(RestartFailedJobs(J, S), t) =
              IF t \in Named(J, S) THEN "Pending" ELSE LifeOf(J, t)
         /\ RemoveFailedJobs(J, S).next = J.next
         /\ \A t : LifeOf(RemoveFailedJobs(J, S), t) =
              IF t \in Named(J, S) THEN "Gone" ELSE LifeOf(J, t)
<1> DEFINE R == Named(J, S)
           P == RestartFailedJobs(J, S)
           Q == RemoveFailedJobs(J, S)
           restarted(job) == [job EXCEPT !.status = "Pending", !.attempts = 0,
                                         !.nextAt = None]
<1>1. /\ R \in SUBSET DOMAIN J.table
      /\ \A s \in R : J.table[s] \in Job /\ J.table[s].status = "Failed"
  BY DEF Named, FailedJobsAbort, JobExists, JobsInv, JobsType, FailedIsIndexed
<1>2. /\ P.next = J.next
      /\ P.table = [t \in DOMAIN J.table |->
                      IF t \in R THEN restarted(J.table[t]) ELSE J.table[t]]
  BY DEF RestartFailedJobs, ForgetFailed, JobsInv, JobsType
<1>3. /\ Q.next = J.next
      /\ Q.table = [t \in DOMAIN J.table \ R |-> J.table[t]]
  BY DEF RemoveFailedJobs, ForgetFailed, DropJobs, JobsInv, JobsType
<1>4. \A s \in R : restarted(J.table[s]).status = "Pending"
  BY <1>1 DEF Job
<1> HIDE DEF R, P, Q, restarted
<1>5. \A s \in R : LifeOf(J, s) = "Failed"
  BY <1>1 DEF LifeOf, JobExists
<1>6. \A t : LifeOf(P, t) = IF t \in R THEN "Pending" ELSE LifeOf(J, t)
  BY <1>1, <1>2, <1>4 DEF LifeOf, JobExists
<1>7. \A t : LifeOf(Q, t) = IF t \in R THEN "Gone" ELSE LifeOf(J, t)
  <2>1. \A t \in R : t < J.next
    BY <1>1 DEF JobsInv, JobsType, SequencesBelowNext
  <2> QED
    BY <1>1, <1>3, <2>1 DEF LifeOf, JobExists
<1> QED
  BY <1>2, <1>3, <1>5, <1>6, <1>7 DEF R, P, Q

-----------------------------------------------------------------------------
(* One operation of a multicall keeps every job one move away from the     *)
(* table the call started from, thanks to the order of the operations.     *)

LEMMA FinishEvolves ==
  ASSUME NEW A, NEW J, NEW K, NEW s, Evolved(A, J), RunsAreOld(A, J),
         LifeOf(J, s) = "Running",
         LifeOf(K, s) \in {"Pending", "Failed", "Gone"},
         \A t : t # s => LifeOf(K, t) = LifeOf(J, t)
  PROVE  Evolved(A, K) /\ RunsAreOld(A, K)
BY DEF Evolved, RunsAreOld, Lifecycle!CallMoves

LEMMA TerminateEvolves ==
  ASSUME NEW A, NEW J, NEW K, NEW s, Evolved(A, J),
         LifeOf(J, s) \in {"Pending", "Running", "Failed"},
         \A t : LifeOf(K, t) = IF t = s THEN "Gone" ELSE LifeOf(J, t)
  PROVE  Evolved(A, K)
BY DEF Evolved, Lifecycle!CallMoves

LEMMA StartEvolves ==
  ASSUME NEW A, NEW J, NEW K, NEW s, Evolved(A, J),
         LifeOf(J, s) = "Pending",
         \A t : LifeOf(K, t) = IF t = s THEN "Running" ELSE LifeOf(J, t)
  PROVE  Evolved(A, K)
BY DEF Evolved, Lifecycle!CallMoves

(* The rest of a multicall is in phase order, and none of it belongs to an *)
(* earlier phase than the operation before it.                             *)
LEMMA RestInPhaseOrder ==
  ASSUME NEW b \in Seq(Op), b # <<>>, InPhaseOrder(b)
  PROVE  /\ Tail(b) \in Seq(Op)
         /\ Head(b) \in Op
         /\ InPhaseOrder(Tail(b))
         /\ Tail(b) # <<>> => Phase[Head(b).kind] <= Phase[Head(Tail(b)).kind]
<1>1. /\ Tail(b) \in Seq(Op) /\ Head(b) \in Op /\ Head(b) = b[1]
      /\ Len(Tail(b)) = Len(b) - 1 /\ Len(b) \in Nat \ {0}
      /\ \A i \in 1..Len(Tail(b)) : Tail(b)[i] = b[i + 1]
  OBVIOUS
<1>2. InPhaseOrder(Tail(b))
  <2> SUFFICES ASSUME NEW i \in 1..Len(Tail(b)), NEW j \in 1..Len(Tail(b)),
                      i < j
               PROVE  Phase[Tail(b)[i].kind] <= Phase[Tail(b)[j].kind]
    BY DEF InPhaseOrder
  <2>1. i + 1 \in 1..Len(b) /\ j + 1 \in 1..Len(b) /\ i + 1 < j + 1
    BY <1>1
  <2> QED
    BY <1>1, <2>1 DEF InPhaseOrder
<1>3. Tail(b) # <<>> => Phase[Head(b).kind] <= Phase[Head(Tail(b)).kind]
  <2> SUFFICES ASSUME Tail(b) # <<>>
               PROVE  Phase[b[1].kind] <= Phase[Head(Tail(b)).kind]
    BY <1>1
  <2>1. Head(Tail(b)) = b[2] /\ 1 \in 1..Len(b) /\ 2 \in 1..Len(b)
    <3>1. Len(Tail(b)) # 0 /\ Head(Tail(b)) = Tail(b)[1]
      BY <1>1
    <3> QED
      BY <1>1, <3>1
  <2> QED
    BY <2>1 DEF InPhaseOrder
<1> QED
  BY <1>1, <1>2, <1>3

LEMMA PhaseValues ==
  /\ Phase["complete"] = 1 /\ Phase["fail"] = 2
  /\ Phase["terminate"] = 3 /\ Phase["start"] = 4
  /\ \A op \in Op : Phase[op.kind] \in Nat
<1>1. /\ Phase["complete"] = 1 /\ Phase["fail"] = 2
      /\ Phase["terminate"] = 3 /\ Phase["start"] = 4
  BY DEF Phase
<1>2. \A op \in Op : op.kind \in Kind
  BY DEF Op
<1>3. \A k \in Kind : Phase[k] \in Nat
  BY <1>1 DEF Kind
<1> QED
  BY <1>1, <1>2, <1>3

-----------------------------------------------------------------------------
(* The two shapes of a step that changes the table.                        *)

LEMMA CallStep ==
  ASSUME IInv, NEW J, JobsInv(J), J.next <= MaxJobs + 1, Call(J)
  PROVE  IInv'
<1>1. /\ jobs' = J /\ committed' = J /\ ops' = <<>>
      /\ memory' = memory /\ now' = now
  BY DEF Call, Idle
<1>2. CallInv'
  BY <1>1 DEF CallInv, Evolved, InPhaseOrder, IInv
<1>3. MemoryInv'
  BY <1>1 DEF MemoryInv, IInv
<1> QED
  BY <1>1, <1>2, <1>3 DEF IInv

LEMMA ProcessStep ==
  ASSUME IInv, ops # <<>>, NEW J, JobsInv(J), J.next = jobs.next,
         Process(J), Evolved(committed, J),
         Phase[Head(ops).kind] <= 2 => RunsAreOld(committed, J),
         MemoryInv'
  PROVE  IInv' /\ Evolved(committed, jobs')
<1>1. /\ jobs' = J /\ ops' = Tail(ops) /\ now' = now
      /\ committed' = IF Tail(ops) = <<>> THEN J ELSE committed
  BY DEF Process
<1>2. /\ Tail(ops) \in Seq(Op) /\ Head(ops) \in Op
      /\ InPhaseOrder(Tail(ops))
      /\ Tail(ops) # <<>> =>
           Phase[Head(ops).kind] <= Phase[Head(Tail(ops)).kind]
  BY RestInPhaseOrder DEF IInv, CallInv
<1>3. CallInv'
  <2>1. CASE Tail(ops) = <<>>
    BY <1>1, <1>2, <2>1 DEF IInv, CallInv, Evolved
  <2>2. CASE Tail(ops) # <<>>
    <3>1. Phase[Head(Tail(ops)).kind] <= 2 => RunsAreOld(committed, J)
      <4>1. Head(Tail(ops)) \in Op
        BY <1>2, <2>2
      <4>2. Phase[Head(ops).kind] \in Nat /\ Phase[Head(Tail(ops)).kind] \in Nat
        BY <1>2, <4>1, PhaseValues
      <4> QED
        BY <1>2, <2>2, <4>2
    <3> QED
      BY <1>1, <1>2, <2>2, <3>1 DEF IInv, CallInv
  <2> QED
    BY <2>1, <2>2
<1> QED
  BY <1>1, <1>3 DEF IInv

-----------------------------------------------------------------------------
(* IInv is an invariant of Jobs.                                           *)

LEMMA InitIInv == Init => IInv
<1> SUFFICES ASSUME Init PROVE IInv
  OBVIOUS
<1>1. PICK n \in MaxAttempts : jobs = EmptyJobs(n)
  BY DEF Init
<1>2. JobsInv(jobs) /\ committed = jobs /\ jobs.next = 1
  BY <1>1, EmptyJobsInv, BoundsAssumption DEF Init, EmptyJobs
<1>3. CallInv
  BY <1>2, BoundsAssumption DEF Init, CallInv, InPhaseOrder, Evolved
<1> QED
  BY <1>2, <1>3 DEF Init, IInv, MemoryInv, NoMemory

LEMMA CallsKeepIInv ==
  ASSUME IInv
  PROVE  /\ \A m \in Method, i \in Intervals, d \in StartTimes :
              Create(m, i, d) => IInv'
         /\ \A S \in SUBSET Sequence : Restart(S) \/ Remove(S) => IInv'
         /\ \A n \in MaxAttempts : SetMaxAttempts(n) => IInv'
<1> USE DEF IInv
<1>1. jobs.next \in Nat /\ jobs.next <= MaxJobs + 1
  BY DEF JobsInv, JobsType, CallInv
<1>2. ASSUME NEW m \in Method, NEW i \in Intervals, NEW d \in StartTimes,
             Create(m, i, d)
      PROVE  IInv'
  <2> DEFINE at == IF d = None THEN None ELSE now + d
             J == CreateJob(jobs, m, i, at)
  <2>1. at \in Option(Nat) /\ i \in Option(Nat) /\ CanCreate(i)
    BY <1>2, BoundsAssumption DEF Option, Create
  <2>2. JobsInv(J)
    BY <2>1, CreateJobInv
  <2>3. J.next = jobs.next + 1
    BY LifeAfterCreate
  <2>4. Call(J) /\ jobs.next <= MaxJobs
    BY <1>2 DEF Create
  <2> HIDE DEF J
  <2> QED
    BY <1>1, <2>2, <2>3, <2>4, CallStep, BoundsAssumption
<1>3. ASSUME NEW S \in SUBSET Sequence, Restart(S)
      PROVE  IInv'
  BY <1>1, <1>3, RestartFailedJobsInv, LifeAfterFailedJobs, CallStep DEF Restart
<1>4. ASSUME NEW S \in SUBSET Sequence, Remove(S)
      PROVE  IInv'
  BY <1>1, <1>4, RemoveFailedJobsInv, LifeAfterFailedJobs, CallStep DEF Remove
<1>5. ASSUME NEW n \in MaxAttempts, SetMaxAttempts(n)
      PROVE  IInv'
  <2> DEFINE J == UpdateMaxAttempts(jobs, n)
  <2>1. JobsInv(J)
    BY UpdateMaxAttemptsInv, BoundsAssumption
  <2>2. J.next = jobs.next
    BY DEF UpdateMaxAttempts, JobsInv, JobsType
  <2>3. Call(J)
    BY <1>5 DEF SetMaxAttempts
  <2> HIDE DEF J
  <2> QED
    BY <1>1, <2>1, <2>2, <2>3, CallStep
<1> QED
  BY <1>2, <1>3, <1>4, <1>5

LEMMA OperationsKeepIInv ==
  ASSUME IInv, Complete \/ Fail \/ Terminate \/ Start \/ SkipStart \/ Abort
  PROVE  IInv' /\ Evolved(committed, jobs')
<1> DEFINE s == Head(ops).seq
<1> USE DEF IInv
<1>0. ops # <<>> => Head(ops) \in Op
  BY DEF CallInv
<1>1. UNCHANGED memory => MemoryInv'
  BY DEF MemoryInv
<1>2. ASSUME ops # <<>>, Head(ops).kind \in {"complete", "fail"},
             CanFinish(jobs, s),
             NEW J \in {CompleteJob(jobs, s, now), FailJob(jobs, s, now)},
             Process(J), UNCHANGED memory
      PROVE  IInv' /\ Evolved(committed, jobs')
  <2>1. JobsInv(J)
    BY <1>2, FinishInv
  <2>2. RunsAreOld(committed, jobs) /\ Evolved(committed, jobs)
    BY <1>2, PhaseValues DEF CallInv
  <2>3. J.next = jobs.next
    BY <1>2, LifeAfterFinish
  <2>4. Evolved(committed, J) /\ RunsAreOld(committed, J)
    <3>1. /\ \A t : t # s => LifeOf(J, t) = LifeOf(jobs, t)
          /\ LifeOf(jobs, s) = "Running"
          /\ LifeOf(J, s) \in {"Pending", "Failed", "Gone"}
      BY <1>2, LifeAfterFinish
    <3> QED
      BY <2>2, <3>1, FinishEvolves
  <2> QED
    BY <1>1, <1>2, <2>1, <2>3, <2>4, ProcessStep
<1>3. ASSUME ops # <<>>, Process(jobs), UNCHANGED memory
      PROVE  IInv' /\ Evolved(committed, jobs')
  BY <1>1, <1>3, ProcessStep DEF CallInv
<1>4. CASE Complete
  BY <1>2, <1>3, <1>4 DEF Complete, Current
<1>5. CASE Fail
  BY <1>2, <1>3, <1>5 DEF Fail, Current
<1>6. CASE Terminate
  <2>1. CASE ~JobExists(jobs, s)
    BY <1>3, <1>6, <2>1 DEF Terminate, Current
  <2>2. CASE JobExists(jobs, s)
    <3> DEFINE J == TerminateJob(jobs, s)
    <3>1. Process(J) /\ UNCHANGED memory /\ ops # <<>>
          /\ Head(ops).kind = "terminate"
      BY <1>6, <2>2 DEF Terminate, Current
    <3>2. JobsInv(J)
      BY <2>2, TerminateJobInv
    <3>3. /\ J.next = jobs.next
          /\ LifeOf(jobs, s) \in {"Pending", "Running", "Failed"}
          /\ \A t : LifeOf(J, t) = IF t = s THEN "Gone" ELSE LifeOf(jobs, t)
      BY <2>2, LifeAfterTerminate
    <3> HIDE DEF J
    <3>4. Evolved(committed, J)
      BY <3>3, TerminateEvolves DEF CallInv
    <3>5. ~(Phase[Head(ops).kind] <= 2)
      BY <3>1, PhaseValues
    <3> QED
      BY <1>1, <3>1, <3>2, <3>3, <3>4, <3>5, ProcessStep
  <2> QED
    BY <2>1, <2>2
<1>7. CASE Start
  <2> DEFINE J == StartJob(jobs, s)
  <2>1. /\ Process(J) /\ ops # <<>> /\ Head(ops).kind = "start"
        /\ HasStatus(jobs, s, "Pending") /\ memory.left >= Head(ops).mem
        /\ memory' = [memory EXCEPT !.left = @ - Head(ops).mem,
                                     !.used = @ + Head(ops).mem]
    BY <1>7 DEF Start, Current, StartTakes, Affordable, CanStart
  <2>2. JobsInv(J)
    BY <2>1, StartJobInv
  <2>3. /\ J.next = jobs.next
        /\ LifeOf(jobs, s) = "Pending"
        /\ \A t : LifeOf(J, t) = IF t = s THEN "Running" ELSE LifeOf(jobs, t)
    BY <2>1, LifeAfterStart
  <2> HIDE DEF J
  <2>4. Evolved(committed, J)
    BY <2>3, StartEvolves DEF CallInv
  <2>5. ~(Phase[Head(ops).kind] <= 2)
    BY <2>1, PhaseValues
  <2>6. MemoryInv'
    <3>1. Head(ops).mem \in Nat
      BY <1>0, <2>1, BoundsAssumption DEF Op
    <3>2. memory.left - Head(ops).mem \in Nat
      BY <2>1, <3>1 DEF MemoryInv
    <3>3. /\ memory'.available = memory.available
          /\ memory'.left = memory.left - Head(ops).mem
          /\ memory'.used = memory.used + Head(ops).mem
      BY <2>1 DEF MemoryInv
    <3>4. memory.used + Head(ops).mem \in Nat /\ memory.available \in Nat
      BY <3>1 DEF MemoryInv
    <3>5. memory' \in [available: Nat, left: Nat, used: Nat]
      <4> HIDE DEF s
      <4>1. memory' = [available |-> memory.available,
                       left |-> memory.left - Head(ops).mem,
                       used |-> memory.used + Head(ops).mem]
        BY <2>1 DEF MemoryInv
      <4> QED
        BY <3>2, <3>4, <4>1
    <3>6. memory.available =
            (memory.left - Head(ops).mem) + (memory.used + Head(ops).mem)
      <4>1. /\ memory.left \in Nat /\ memory.used \in Nat
            /\ memory.available = memory.left + memory.used
        BY DEF MemoryInv
      <4> QED
        BY <3>1, <4>1
    <3> QED
      BY <3>3, <3>5, <3>6 DEF MemoryInv
  <2> QED
    BY <2>1, <2>2, <2>3, <2>4, <2>5, <2>6, ProcessStep
<1>8. CASE SkipStart
  BY <1>3, <1>8 DEF SkipStart, Current
<1>9. CASE Abort
  <2>1. /\ jobs' = committed /\ committed' = committed /\ ops' = <<>>
        /\ memory' = memory /\ now' = now
    BY <1>9 DEF Abort
  <2>2. CallInv'
    BY <2>1 DEF CallInv, Evolved, InPhaseOrder
  <2>3. Evolved(committed, jobs')
    BY <2>1 DEF Evolved
  <2> QED
    BY <1>1, <2>1, <2>2, <2>3
<1> QED
  BY <1>4, <1>5, <1>6, <1>7, <1>8, <1>9

LEMMA BatchesAreOrdered ==
  ASSUME NEW b \in Batches
  PROVE  b \in Seq(Op) /\ InPhaseOrder(b) /\ b # <<>>
BY BoundsAssumption DEF Batches

LEMMA NextKeepsIInv == IInv /\ [Next]_vars => IInv'
<1> SUFFICES ASSUME IInv, [Next]_vars PROVE IInv'
  OBVIOUS
<1>1. ASSUME NEW b \in Batches, NEW a \in Memory, BeginBatch(b, a)
      PROVE  IInv'
  <2>1. /\ jobs' = jobs /\ committed' = committed /\ now' = now
        /\ ops' = b /\ ops = <<>> /\ jobs = committed
        /\ memory' = [available |-> a, left |-> a, used |-> 0]
    BY <1>1 DEF BeginBatch, Idle, IInv, CallInv
  <2>2. CallInv'
    BY <2>1, BatchesAreOrdered DEF IInv, CallInv, Evolved, RunsAreOld
  <2>3. MemoryInv'
    BY <2>1, BoundsAssumption DEF MemoryInv
  <2> QED
    BY <2>1, <2>2, <2>3 DEF IInv
<1>2. CASE Tick
  BY <1>2 DEF Tick, Idle, IInv, CallInv, MemoryInv, Evolved, RunsAreOld
<1>3. CASE UNCHANGED vars
  BY <1>3 DEF vars, IInv, CallInv, MemoryInv, Evolved, RunsAreOld
<1> QED
  BY <1>1, <1>2, <1>3, CallsKeepIInv, OperationsKeepIInv DEF Next

(* IInv holds in every state of Jobs.                                      *)
THEOREM Invariance == Spec => []IInv
BY InitIInv, NextKeepsIInv, PTL DEF Spec

-----------------------------------------------------------------------------
(* The properties of Jobs, for every value of its constants.               *)

(* The variables of Jobs keep their types.                                 *)
THEOREM TypeCorrect == Spec => []TypeOK
<1>1. IInv => TypeOK
  BY DEF IInv, JobsInv, CallInv, MemoryInv, TypeOK
<1> QED
  BY <1>1, Invariance, PTL

(* The pending set, counter and index always agree with the statuses.      *)
THEOREM PendingAlwaysAgrees == Spec => []PendingAgrees
<1>1. IInv => PendingAgrees
  BY DEF IInv, JobsInv, PendingAgrees
<1> QED
  BY <1>1, Invariance, PTL

(* The failed index and counter always agree with each other and with the  *)
(* jobs the table still has.                                               *)
THEOREM FailedAlwaysAgrees == Spec => []FailedAgrees
<1>1. IInv => FailedAgrees
  BY DEF IInv, JobsInv, FailedAgrees
<1> QED
  BY <1>1, Invariance, PTL

(* No sequence of calls makes start_job overflow the attempts of a job.    *)
THEOREM AttemptsAlwaysFit == Spec => []AttemptsNeverOverflow
<1>1. IInv => AttemptsNeverOverflow
  BY DEF IInv, JobsInv, AttemptsNeverOverflow
<1> QED
  BY <1>1, Invariance, PTL

(* A multicall never starts more than the memory it was given.             *)
THEOREM MemoryAlwaysSuffices == Spec => []MemoryBudget
<1>1. IInv => MemoryBudget
  BY DEF IInv, MemoryInv, MemoryBudget
<1> QED
  BY <1>1, Invariance, PTL

-----------------------------------------------------------------------------
(* The spacing of periodic runs.  An abort may bring back a run that the   *)
(* call had ended, so the runs of both tables must have begun in time.     *)

RunsSpaced(J, n) ==
  \A s \in DOMAIN J.table :
    /\ J.table[s].status = "Running"
    /\ IsPeriodic(J.table[s])
    /\ J.table[s].endedAt # None
    => n >= J.table[s].endedAt + MinInterval

SpacedInv == RunsSpaced(jobs, now) /\ RunsSpaced(committed, now)

(* Every job that runs in K runs in J, unchanged.                          *)
NoNewRuns(J, K) ==
  \A t \in DOMAIN K.table :
    K.table[t].status = "Running" =>
      t \in DOMAIN J.table /\ K.table[t] = J.table[t]

LEMMA FinishStartsNothing ==
  ASSUME NEW J, JobsInv(J), NEW s, NEW n \in Nat, CanFinish(J, s),
         NEW K \in {CompleteJob(J, s, n), FailJob(J, s, n)}
  PROVE  NoNewRuns(J, K)
<1> USE DEF CanFinish, HasStatus, JobExists
<1>1. J.table[s] \in Job /\ s \in DOMAIN J.table
  BY DEF JobsInv, JobsType
<1>2. CASE K = Reschedule(J, s, n)
  <2> DEFINE job == [J.table[s] EXCEPT !.status = "Pending", !.attempts = 0,
                                       !.nextAt = n + J.table[s].interval,
                                       !.endedAt = n]
  <2>1. job.status = "Pending"
    BY <1>1 DEF Job
  <2>2. K.table = [t \in DOMAIN J.table \cup {s} |->
                     IF t = s THEN job ELSE J.table[t]]
    BY <1>1, <1>2 DEF Reschedule, AddPending, PutJob, JobsInv, JobsType
  <2> HIDE DEF job
  <2> QED
    BY <1>1, <2>1, <2>2 DEF NoNewRuns
<1>3. CASE K = Retry(J, s, n)
  <2> DEFINE job == [J.table[s] EXCEPT !.status = "Pending",
                                       !.nextAt = n + RetryInterval,
                                       !.endedAt = IF IsPeriodic(J.table[s])
                                                   THEN n ELSE None]
  <2>1. job.status = "Pending"
    BY <1>1 DEF Job
  <2>2. K.table = [t \in DOMAIN J.table \cup {s} |->
                     IF t = s THEN job ELSE J.table[t]]
    BY <1>1, <1>3 DEF Retry, AddPending, PutJob, JobsInv, JobsType
  <2> HIDE DEF job
  <2> QED
    BY <1>1, <2>1, <2>2 DEF NoNewRuns
<1>4. CASE K = MarkFailed(J, s)
  <2> DEFINE job == [J.table[s] EXCEPT !.status = "Failed"]
  <2>1. job.status = "Failed"
    BY <1>1 DEF Job
  <2>2. K.table = [t \in DOMAIN J.table \cup {s} |->
                     IF t = s THEN job ELSE J.table[t]]
    BY <1>1, <1>4 DEF MarkFailed, PutJob, JobsInv, JobsType
  <2> HIDE DEF job
  <2> QED
    BY <1>1, <2>1, <2>2 DEF NoNewRuns
<1>5. CASE K = DropJobs(J, {s})
  <2>1. K.table = [t \in DOMAIN J.table \ {s} |-> J.table[t]]
    BY <1>5 DEF DropJobs, JobsInv, JobsType
  <2> QED
    BY <2>1 DEF NoNewRuns
<1> QED
  BY <1>2, <1>3, <1>4, <1>5 DEF CompleteJob, FailJob

LEMMA TerminateStartsNothing ==
  ASSUME NEW J, JobsInv(J), NEW s, JobExists(J, s)
  PROVE  NoNewRuns(J, TerminateJob(J, s))
<1>1. TerminateJob(J, s).table = [t \in DOMAIN J.table \ {s} |-> J.table[t]]
  BY DEF TerminateJob, RemovePending, DropJobs, JobsInv, JobsType
<1> QED
  BY <1>1 DEF NoNewRuns

LEMMA CreateStartsNothing ==
  ASSUME NEW J, JobsInv(J), NEW m \in Method, NEW interval, NEW nextAt
  PROVE  NoNewRuns(J, CreateJob(J, m, interval, nextAt))
<1> DEFINE job == [method |-> m, status |-> "Pending", attempts |-> 0,
                   interval |-> interval, nextAt |-> nextAt,
                   endedAt |-> None]
           K == CreateJob(J, m, interval, nextAt)
<1>1. K.table = [t \in DOMAIN J.table \cup {J.next} |->
                   IF t = J.next THEN job ELSE J.table[t]]
  BY DEF CreateJob, AddPending, PutJob, JobsInv, JobsType
<1>2. job.status = "Pending"
  OBVIOUS
<1> HIDE DEF job, K
<1>3. NoNewRuns(J, K)
  BY <1>1, <1>2 DEF NoNewRuns
<1> QED
  BY <1>3 DEF K

LEMMA FailedJobsStartNothing ==
  ASSUME NEW J, JobsInv(J), NEW S, ~FailedJobsAbort(J, S)
  PROVE  /\ NoNewRuns(J, RestartFailedJobs(J, S))
         /\ NoNewRuns(J, RemoveFailedJobs(J, S))
<1> DEFINE R == Named(J, S)
           P == RestartFailedJobs(J, S)
           Q == RemoveFailedJobs(J, S)
           restarted(job) == [job EXCEPT !.status = "Pending", !.attempts = 0,
                                         !.nextAt = None]
<1>1. \A s \in R : s \in DOMAIN J.table /\ J.table[s] \in Job
  BY DEF Named, FailedJobsAbort, JobExists, JobsInv, JobsType
<1>2. P.table = [t \in DOMAIN J.table |->
                   IF t \in R THEN restarted(J.table[t]) ELSE J.table[t]]
  BY DEF RestartFailedJobs, ForgetFailed, JobsInv, JobsType
<1>3. Q.table = [t \in DOMAIN J.table \ R |-> J.table[t]]
  BY DEF RemoveFailedJobs, ForgetFailed, DropJobs, JobsInv, JobsType
<1>4. \A s \in R : restarted(J.table[s]).status = "Pending"
  BY <1>1 DEF Job
<1> HIDE DEF R, P, Q, restarted
<1>5. NoNewRuns(J, P)
  BY <1>2, <1>4 DEF NoNewRuns
<1>6. NoNewRuns(J, Q)
  BY <1>3 DEF NoNewRuns
<1> QED
  BY <1>5, <1>6 DEF P, Q

(* Every step but Start and Abort starts nothing.                          *)
LEMMA OtherStepsStartNothing ==
  ASSUME IInv, [Next]_vars, ~Start, ~Abort
  PROVE  NoNewRuns(jobs, jobs')
<1> USE DEF IInv
<1>1. ASSUME jobs' = jobs PROVE NoNewRuns(jobs, jobs')
  BY <1>1 DEF NoNewRuns
<1>2. ASSUME NEW m \in Method, NEW i \in Intervals, NEW d \in StartTimes,
             Create(m, i, d)
      PROVE  NoNewRuns(jobs, jobs')
  BY <1>2, CreateStartsNothing DEF Create, Call
<1>3. ASSUME NEW S \in SUBSET Sequence, Restart(S) \/ Remove(S)
      PROVE  NoNewRuns(jobs, jobs')
  BY <1>3, FailedJobsStartNothing DEF Restart, Remove, Call
<1>4. ASSUME NEW n \in MaxAttempts, SetMaxAttempts(n)
      PROVE  NoNewRuns(jobs, jobs')
  <2>1. jobs'.table = jobs.table
    BY <1>4 DEF SetMaxAttempts, UpdateMaxAttempts, Call, JobsInv, JobsType
  <2> QED
    BY <2>1 DEF NoNewRuns
<1>5. CASE Complete
  BY <1>1, <1>5, FinishStartsNothing DEF Complete, Process
<1>6. CASE Fail
  BY <1>1, <1>6, FinishStartsNothing DEF Fail, Process
<1>7. CASE Terminate
  BY <1>1, <1>7, TerminateStartsNothing DEF Terminate, Process
<1>8. ASSUME NEW b \in Batches, NEW a \in Memory, BeginBatch(b, a)
      PROVE  NoNewRuns(jobs, jobs')
  BY <1>1, <1>8 DEF BeginBatch
<1>9. CASE SkipStart \/ Tick \/ UNCHANGED vars
  BY <1>1, <1>9 DEF SkipStart, Process, Tick, vars
<1> QED
  BY <1>2, <1>3, <1>4, <1>5, <1>6, <1>7, <1>8, <1>9 DEF Next

(* start_job leaves the other jobs alone, and the interval and the end of  *)
(* the last run of its own.                                                *)
LEMMA StartedTable ==
  ASSUME NEW J, JobsInv(J), NEW s, HasStatus(J, s, "Pending"),
         NEW K, K = StartJob(J, s)
  PROVE  /\ DOMAIN K.table = DOMAIN J.table
         /\ \A t \in DOMAIN J.table : t # s => K.table[t] = J.table[t]
         /\ K.table[s].interval = J.table[s].interval
         /\ K.table[s].endedAt = J.table[s].endedAt
<1> DEFINE job == [J.table[s] EXCEPT !.status = "Running", !.attempts = @ + 1]
<1> USE DEF HasStatus, JobExists
<1>1. J.table[s] \in Job /\ s \in DOMAIN J.table
  BY DEF JobsInv, JobsType
<1>2. K.table = [t \in DOMAIN J.table |->
                   IF t = s THEN job ELSE J.table[t]]
  BY <1>1 DEF StartJob, RemovePending, PutJob, JobsInv, JobsType
<1>3. job.interval = J.table[s].interval /\ job.endedAt = J.table[s].endedAt
  BY <1>1 DEF Job
<1> HIDE DEF job
<1> QED
  BY <1>1, <1>2, <1>3

(* start_job starts a periodic job at its slot or later.                   *)
LEMMA StartIsSpaced ==
  ASSUME IInv, NEW s, CanStart(jobs, s, now),
         IsPeriodic(jobs.table[s]), jobs.table[s].endedAt # None
  PROVE  now >= jobs.table[s].endedAt + MinInterval
<1>1. /\ s \in DOMAIN jobs.table
      /\ now >= jobs.table[s].nextAt
      /\ jobs.table[s].nextAt # None
      /\ jobs.table[s].nextAt >= jobs.table[s].endedAt + MinInterval
  BY DEF CanStart, HasStatus, JobExists, IInv, JobsInv,
         PeriodicJobsKeepTheirSlot
<1>2. /\ jobs.table[s].nextAt \in Nat /\ jobs.table[s].endedAt \in Nat
      /\ now \in Nat /\ MinInterval \in Nat
  BY <1>1, IntervalAssumption DEF Job, Option, IInv, JobsInv, JobsType
<1> QED
  BY <1>1, <1>2

LEMMA StartStep ==
  ASSUME IInv, Start
  PROVE  /\ now' = now
         /\ CanStart(jobs, Head(ops).seq, now)
         /\ HasStatus(jobs, Head(ops).seq, "Pending")
         /\ jobs' = StartJob(jobs, Head(ops).seq)
BY DEF Start, StartTakes, Process, CanStart

LEMMA SpacedStep == IInv /\ SpacedInv /\ [Next]_vars => SpacedInv'
<1> SUFFICES ASSUME IInv, SpacedInv, [Next]_vars
             PROVE  SpacedInv'
  OBVIOUS
<1>1. now' = now \/ (now' = now + 1 /\ jobs' = jobs /\ committed' = committed)
  BY DEF Next, Create, Restart, Remove, SetMaxAttempts, Call, BeginBatch,
         Complete, Fail, Terminate, Start, SkipStart, Process, Abort, Tick, vars
<1>2. ASSUME NEW J \in {jobs, committed}
      PROVE  RunsSpaced(J, now')
  <2> SUFFICES ASSUME NEW s \in DOMAIN J.table, IsPeriodic(J.table[s]),
                      J.table[s].status = "Running", J.table[s].endedAt # None
               PROVE  now' >= J.table[s].endedAt + MinInterval
    BY DEF RunsSpaced
  <2>1. now >= J.table[s].endedAt + MinInterval
    BY DEF SpacedInv, RunsSpaced
  <2>2. J.table[s].endedAt \in Nat
    BY DEF IInv, JobsInv, JobsType, Job, Option
  <2> QED
    BY <1>1, <2>1, <2>2, IntervalAssumption DEF IInv
<1>3. RunsSpaced(jobs', now')
  <2>1. CASE Start
    <3> DEFINE s == Head(ops).seq
    <3> SUFFICES ASSUME NEW t \in DOMAIN jobs'.table,
                        jobs'.table[t].status = "Running",
                        IsPeriodic(jobs'.table[t]),
                        jobs'.table[t].endedAt # None
                 PROVE  now' >= jobs'.table[t].endedAt + MinInterval
      BY DEF RunsSpaced
    <3>1. /\ DOMAIN jobs'.table = DOMAIN jobs.table
          /\ \A u \in DOMAIN jobs.table : u # s => jobs'.table[u] = jobs.table[u]
          /\ jobs'.table[s].interval = jobs.table[s].interval
          /\ jobs'.table[s].endedAt = jobs.table[s].endedAt
      BY <2>1, StartStep, StartedTable DEF IInv
    <3>2. CASE t = s
      BY <2>1, <3>1, <3>2, StartStep, StartIsSpaced DEF IsPeriodic
    <3>3. CASE t # s
      BY <2>1, <3>1, <3>3, StartStep DEF SpacedInv, RunsSpaced
    <3> QED
      BY <3>2, <3>3
  <2>2. CASE Abort
    BY <1>2, <2>2 DEF Abort
  <2>3. CASE ~Start /\ ~Abort
    BY <1>2, <2>3, OtherStepsStartNothing DEF NoNewRuns, RunsSpaced
  <2> QED
    BY <2>1, <2>2, <2>3
<1>4. committed' = jobs' \/ committed' = committed
  BY DEF Next, Create, Restart, Remove, SetMaxAttempts, Call, BeginBatch,
         Complete, Fail, Terminate, Start, SkipStart, Process, Abort, Tick, vars
<1> QED
  BY <1>2, <1>3, <1>4 DEF SpacedInv

(* After a run of a periodic job, in whatever way it ended, the next run   *)
(* does not start before the minimum interval has passed.                  *)
THEOREM PeriodicRunsAreSpaced == Spec => PeriodicSpacing
<1>1. Init => SpacedInv
  <2> SUFFICES ASSUME Init PROVE SpacedInv
    OBVIOUS
  <2>1. PICK n \in MaxAttempts : jobs = EmptyJobs(n) /\ committed = jobs
    BY DEF Init
  <2>2. DOMAIN jobs.table = {}
    BY <2>1 DEF EmptyJobs
  <2> QED
    BY <2>1, <2>2 DEF SpacedInv, RunsSpaced
<1>2. IInv /\ SpacedInv /\ [Next]_vars =>
        [\A s \in DOMAIN jobs.table \cap DOMAIN jobs'.table :
           StartsPeriodic(s) => now >= jobs.table[s].endedAt + MinInterval]_vars
  <2> SUFFICES ASSUME IInv, SpacedInv, [Next]_vars,
                      NEW s \in DOMAIN jobs.table \cap DOMAIN jobs'.table,
                      StartsPeriodic(s)
               PROVE  now >= jobs.table[s].endedAt + MinInterval
    OBVIOUS
  <2> USE DEF StartsPeriodic, HasStatus
  <2>1. CASE Start
    <3>1. /\ \A u \in DOMAIN jobs.table :
               u # Head(ops).seq => jobs'.table[u] = jobs.table[u]
          /\ jobs'.table[Head(ops).seq].interval
               = jobs.table[Head(ops).seq].interval
      BY <2>1, StartStep, StartedTable DEF IInv
    <3>2. s = Head(ops).seq
      BY <3>1
    <3> QED
      BY <2>1, <3>1, <3>2, StartStep, StartIsSpaced DEF IsPeriodic
  <2>2. CASE Abort
    BY <2>2 DEF Abort, SpacedInv, RunsSpaced
  <2>3. CASE ~Start /\ ~Abort
    BY <2>3, OtherStepsStartNothing DEF NoNewRuns
  <2> QED
    BY <2>1, <2>2, <2>3
<1> QED
  BY <1>1, <1>2, SpacedStep, Invariance, PTL DEF Spec, PeriodicSpacing

-----------------------------------------------------------------------------
(* The refinement of JobLifecycle.                                         *)

LivesOf(J) == [s \in Sequence |-> LifeOf(J, s)]

LEMMA LivesType ==
  ASSUME NEW J, JobsInv(J)
  PROVE  LivesOf(J) \in [Sequence -> Lifecycle!Life]
<1>1. \A s \in DOMAIN J.table :
        J.table[s].status \in {"Pending", "Running", "Failed"}
  BY DEF JobsInv, JobsType, Job, Status
<1> QED
  BY <1>1 DEF LivesOf, LifeOf, JobExists, Lifecycle!Life

(* Jobs that are one move away from where they were make a Call.           *)
LEMMA EvolvedIsCall ==
  ASSUME JobsInv(committed'), Evolved(committed, committed')
  PROVE  Lifecycle!Call
<1>1. LivesOf(committed') \in [Sequence -> Lifecycle!Life]
  BY LivesType
<1> QED
  BY <1>1 DEF Evolved, LivesOf, Lifecycle!Call, Lifecycle!Moves

LEMMA CreateIsCreate ==
  ASSUME IInv, NEW m \in Method, NEW i \in Intervals, NEW d \in StartTimes,
         Create(m, i, d)
  PROVE  Lifecycle!Create
<1> DEFINE at == IF d = None THEN None ELSE now + d
           n == committed.next
<1>1. /\ committed' = CreateJob(committed, m, i, at)
      /\ JobsInv(committed) /\ n \in Sequence
  BY BoundsAssumption
     DEF Create, Call, Idle, IInv, CallInv, JobsInv, JobsType, Sequence
<1>2. \A t \in Nat : LifeOf(committed', t) =
                       IF t = n THEN "Pending" ELSE LifeOf(committed, t)
  BY <1>1, LifeAfterCreate
<1>3. LifeOf(committed, n) = "Unborn"
  BY <1>1 DEF LifeOf, JobExists, JobsInv, JobsType, SequencesBelowNext
<1>4. \A t \in Sequence : t < n => LifeOf(committed, t) # "Unborn"
  BY <1>1 DEF LifeOf, JobExists, JobsInv, JobsType, Job, Status
<1>5. Sequence \subseteq Nat
  BY BoundsAssumption DEF Sequence
<1>6. [s \in Sequence |-> LifeOf(committed', s)] =
        [[s \in Sequence |-> LifeOf(committed, s)] EXCEPT ![n] = "Pending"]
  BY <1>1, <1>2, <1>5
<1> HIDE DEF n
<1> QED
  BY <1>1, <1>3, <1>4, <1>6 DEF Lifecycle!Create

LEMMA StepIsLifecycleStep ==
  IInv /\ [Next]_vars => [Lifecycle!Next]_(LivesOf(committed))
<1> SUFFICES ASSUME IInv, [Next]_vars, LivesOf(committed') # LivesOf(committed)
             PROVE  Lifecycle!Next
  BY DEF LivesOf
<1>1. JobsInv(committed) /\ JobsInv(committed')
  <2>1. IInv'
    BY NextKeepsIInv
  <2> QED
    BY <2>1 DEF IInv
<1>2. committed' # committed
  OBVIOUS
<1>3. ASSUME NEW m \in Method, NEW i \in Intervals, NEW d \in StartTimes,
             Create(m, i, d)
      PROVE  Lifecycle!Next
  BY <1>3, CreateIsCreate DEF Lifecycle!Next
<1>4. ASSUME NEW S \in SUBSET Sequence, Restart(S)
      PROVE  Lifecycle!Next
  <2>1. /\ committed' = RestartFailedJobs(committed, S)
        /\ ~FailedJobsAbort(committed, S)
    BY <1>4 DEF Restart, Call, Idle, IInv, CallInv
  <2>2. /\ \A s \in Named(committed, S) : LifeOf(committed, s) = "Failed"
        /\ \A t : LifeOf(committed', t) = IF t \in Named(committed, S)
                                        THEN "Pending" ELSE LifeOf(committed, t)
    BY <1>1, <2>1, LifeAfterFailedJobs
  <2>3. LivesOf(committed') \in [Sequence -> Lifecycle!Life]
    BY <1>1, LivesType
  <2> QED
    BY <2>2, <2>3
       DEF LivesOf, Lifecycle!Next, Lifecycle!Restart, Lifecycle!Moves
<1>5. ASSUME NEW S \in SUBSET Sequence, Remove(S)
      PROVE  Lifecycle!Next
  <2>1. /\ committed' = RemoveFailedJobs(committed, S)
        /\ ~FailedJobsAbort(committed, S)
    BY <1>5 DEF Remove, Call, Idle, IInv, CallInv
  <2>2. /\ \A s \in Named(committed, S) : LifeOf(committed, s) = "Failed"
        /\ \A t : LifeOf(committed', t) = IF t \in Named(committed, S)
                                        THEN "Gone" ELSE LifeOf(committed, t)
    BY <1>1, <2>1, LifeAfterFailedJobs
  <2>3. Evolved(committed, committed')
    BY <2>2 DEF Evolved, Lifecycle!CallMoves
  <2> QED
    BY <1>1, <2>3, EvolvedIsCall DEF Lifecycle!Next
<1>6. ASSUME NEW n \in MaxAttempts, SetMaxAttempts(n)
      PROVE  Lifecycle!Next
  <2>1. committed' = UpdateMaxAttempts(committed, n)
    BY <1>6 DEF SetMaxAttempts, Call, Idle, IInv, CallInv
  <2>2. committed'.table = committed.table /\ committed'.next = committed.next
    BY <1>1, <2>1 DEF UpdateMaxAttempts, JobsInv, JobsType
  <2> QED
    BY <2>2 DEF LivesOf, LifeOf, JobExists
<1>7. CASE Complete \/ Fail \/ Terminate \/ Start \/ SkipStart
  <2>1. committed' = jobs'
    BY <1>2, <1>7 DEF Complete, Fail, Terminate, Start, SkipStart, Process
  <2>2. Evolved(committed, jobs')
    BY <1>7, OperationsKeepIInv
  <2>3. Evolved(committed, committed')
    BY <2>1, <2>2 DEF Evolved
  <2> QED
    BY <1>1, <2>3, EvolvedIsCall DEF Lifecycle!Next
<1>8. ASSUME NEW b \in Batches, NEW a \in Memory, BeginBatch(b, a)
      PROVE  Lifecycle!Next
  BY <1>2, <1>8 DEF BeginBatch
<1>9. CASE Abort \/ Tick \/ UNCHANGED vars
  BY <1>2, <1>9 DEF Abort, Tick, vars
<1> QED
  BY <1>3, <1>4, <1>5, <1>6, <1>7, <1>8, <1>9 DEF Next

(* Between calls the jobs live as JobLifecycle says, for every number of   *)
(* jobs, every batch and every budget.                                     *)
THEOREM Implementation == Spec => ImplementsLifecycle
<1>1. Init => Lifecycle!Init
  <2> SUFFICES ASSUME Init PROVE Lifecycle!Init
    OBVIOUS
  <2>1. PICK n \in MaxAttempts : committed = EmptyJobs(n)
    BY DEF Init
  <2>2. committed.next = 1 /\ DOMAIN committed.table = {}
    BY <2>1 DEF EmptyJobs
  <2>3. \A s \in Sequence : LifeOf(committed, s) = "Unborn"
    BY <2>2, BoundsAssumption DEF LifeOf, JobExists, Sequence
  <2> QED
    BY <2>3 DEF Lifecycle!Init
<1>2. IInv /\ [Next]_vars => [Lifecycle!Next]_([s \in Sequence |-> LifeOf(committed, s)])
  BY StepIsLifecycleStep DEF LivesOf
<1> QED
  BY <1>1, <1>2, Invariance, PTL DEF Spec, ImplementsLifecycle, Lifecycle!Spec

-----------------------------------------------------------------------------
(* 3. The references of the chains.                                        *)

(* The running multicall has yet to terminate this job.                    *)
ToTerminate(s) ==
  \E i \in 1..Len(ops) : ops[i].kind = "terminate" /\ ops[i].seq = s

(* A settlement job of the table the call works on is referred to, or the  *)
(* call has cleared its reference and will terminate it.                   *)
ReferencedOrEnding ==
  \A s \in DOMAIN jobs.table :
    chainOf[s] # None => refs[chainOf[s]] = s \/ ToTerminate(s)

PointHome(R) == \A c \in Chain : R[c] # None => chainOf[R[c]] = c

RefsType(R) == R \in [Chain -> Sequence \cup {None}]

AppInv ==
  /\ RefsType(refs) /\ RefsType(committedRefs)
  /\ chainOf \in [Sequence -> Chain \cup {None}]
  /\ ops = <<>> => refs = committedRefs
  /\ PointHome(refs) /\ PointHome(committedRefs)
  /\ \A s \in Sequence : s >= jobs.next => chainOf[s] = None
  /\ ReferencedOrEnding
  /\ LiveSettlementJobIsReferenced

-----------------------------------------------------------------------------
(* AppJobs implements Jobs.                                                *)

LEMMA AppStepIsJobsStep ==
  ASSUME [AppNext]_appVars
  PROVE  [Next]_vars
<1>1. ASSUME NEW s \in Sequence, BeginTerminate(s)
      PROVE  Next
  <2> DEFINE op == [kind |-> "terminate", seq |-> s, mem |-> 0]
             b == <<op>>
  <2>1. PICK a \in Memory : BeginBatch(b, a)
    BY <1>1 DEF BeginTerminate
  <2>2. op \in Op
    BY DEF Op, Kind
  <2>3. b \in Batches
    <3>1. 1 \in 1..MaxBatch
      BY AppAssumption, BoundsAssumption
    <3>2. b \in UNION {[1..n -> Op] : n \in 1..MaxBatch}
      BY <2>2, <3>1
    <3>3. InPhaseOrder(b)
      BY DEF InPhaseOrder
    <3>4. \A i \in DOMAIN b : b[i].kind # "start" => b[i].mem = 0
      BY <2>2
    <3> QED
      BY <3>2, <3>3, <3>4 DEF Batches
  <2> QED
    BY <2>1, <2>3 DEF Next
<1>2. ASSUME NEW b \in Batches, NEW a \in Memory, BeginAppBatch(b, a)
      PROVE  Next
  BY <1>2 DEF BeginAppBatch, Next
<1>3. ASSUME NEW m \in Method, NEW i \in Intervals, NEW d \in StartTimes,
             NEW c \in Chain \cup {None}, CreateAppJob(m, i, d, c)
      PROVE  Next
  BY <1>3 DEF CreateAppJob, Next
<1>4. CASE AppOperation
  BY <1>4 DEF AppOperation, Next
<1>5. CASE AppAbort \/ AppCall
  BY <1>5 DEF AppAbort, AppCall, Next
<1>6. CASE ValidateSettlementJobs \/ UNCHANGED appVars
  BY <1>6 DEF ValidateSettlementJobs, appVars, vars
<1> QED
  BY <1>1, <1>2, <1>3, <1>4, <1>5, <1>6 DEF AppNext

(* Under the calls of an app instance the job table keeps all it keeps     *)
(* under the calls of Jobs.                                                *)
THEOREM AppImplementsJobs == AppSpec => Spec
<1>1. AppInit => Init
  BY DEF AppInit
<1>2. [AppNext]_appVars => [Next]_vars
  BY AppStepIsJobsStep
<1> QED
  BY <1>1, <1>2, PTL DEF AppSpec, Spec

-----------------------------------------------------------------------------
(* What the functions of the table do to its domain.                       *)

LEMMA DomainAfterFinish ==
  ASSUME NEW J, JobsInv(J), NEW s, NEW n \in Nat, CanFinish(J, s),
         NEW K \in {CompleteJob(J, s, n), FailJob(J, s, n)}
  PROVE  DOMAIN K.table \subseteq DOMAIN J.table
<1>1. s \in DOMAIN J.table
  BY DEF CanFinish, HasStatus, JobExists
<1>2. DOMAIN Reschedule(J, s, n).table = DOMAIN J.table
  BY <1>1 DEF Reschedule, AddPending, PutJob, JobsInv, JobsType
<1>3. DOMAIN Retry(J, s, n).table = DOMAIN J.table
  BY <1>1 DEF Retry, AddPending, PutJob, JobsInv, JobsType
<1>4. DOMAIN MarkFailed(J, s).table = DOMAIN J.table
  BY <1>1 DEF MarkFailed, PutJob, JobsInv, JobsType
<1>5. DOMAIN DropJobs(J, {s}).table = DOMAIN J.table \ {s}
  BY DEF DropJobs, JobsInv, JobsType
<1> QED
  BY <1>2, <1>3, <1>4, <1>5 DEF CompleteJob, FailJob

LEMMA DomainAfterTerminate ==
  ASSUME NEW J, JobsInv(J), NEW s
  PROVE  DOMAIN TerminateJob(J, s).table = DOMAIN J.table \ {s}
BY DEF TerminateJob, RemovePending, DropJobs, JobsInv, JobsType

LEMMA DomainAfterCreate ==
  ASSUME NEW J, JobsInv(J), NEW m, NEW interval, NEW nextAt
  PROVE  /\ DOMAIN CreateJob(J, m, interval, nextAt).table = DOMAIN J.table \cup {J.next}
         /\ CreateJob(J, m, interval, nextAt).next = J.next + 1
BY DEF CreateJob, AddPending, PutJob, JobsInv, JobsType

LEMMA DomainAfterFailedJobs ==
  ASSUME NEW J, JobsInv(J), NEW S
  PROVE  /\ DOMAIN RestartFailedJobs(J, S).table = DOMAIN J.table
         /\ DOMAIN RemoveFailedJobs(J, S).table \subseteq DOMAIN J.table
         /\ RestartFailedJobs(J, S).next = J.next
         /\ RemoveFailedJobs(J, S).next = J.next
BY DEF RestartFailedJobs, RemoveFailedJobs, ForgetFailed, DropJobs, JobsInv, JobsType

(* Sequences of the table have been handed out and are below the bound.    *)
LEMMA TableIsBounded ==
  ASSUME IInv
  PROVE  /\ DOMAIN jobs.table \subseteq Sequence
         /\ DOMAIN committed.table \subseteq Sequence
         /\ \A s \in DOMAIN jobs.table : s < jobs.next
         /\ jobs.next \in Nat \ {0}
         /\ MaxJobs \in Nat
<1>1. /\ DOMAIN jobs.table \subseteq 1..(jobs.next - 1)
      /\ DOMAIN committed.table \subseteq 1..(jobs.next - 1)
      /\ jobs.next \in Nat \ {0}
  BY DEF IInv, CallInv, JobsInv, SequencesBelowNext, JobsType
<1>2. jobs.next <= MaxJobs + 1 /\ MaxJobs \in Nat
  BY BoundsAssumption DEF IInv, CallInv
<1> QED
  BY <1>1, <1>2 DEF Sequence

-----------------------------------------------------------------------------
LEMMA InitAppInv == AppInit => AppInv
<1> SUFFICES ASSUME AppInit PROVE AppInv
  OBVIOUS
<1>1. /\ refs = [c \in Chain |-> None] /\ committedRefs = refs
      /\ chainOf = [s \in Sequence |-> None]
      /\ DOMAIN jobs.table = {} /\ committed = jobs
  BY DEF AppInit, Init, EmptyJobs
<1> QED
  BY <1>1 DEF AppInv, RefsType, PointHome, ReferencedOrEnding,
              LiveSettlementJobIsReferenced

(* create_app_job: a chain that gets a job had none.                       *)
LEMMA CreateKeepsAppInv ==
  ASSUME IInv, AppInv, NEW m \in Method, NEW i \in Intervals, NEW d \in StartTimes,
         NEW chain \in Chain \cup {None}, CreateAppJob(m, i, d, chain)
  PROVE  AppInv'
<1> DEFINE n == jobs.next
<1>1. /\ ops = <<>> /\ ops' = <<>> /\ committed' = jobs'
      /\ DOMAIN jobs'.table = DOMAIN jobs.table \cup {n} /\ jobs'.next = n + 1
      /\ n <= MaxJobs
  BY DomainAfterCreate DEF CreateAppJob, Create, Call, Idle, IInv
<1>2. /\ n \in Sequence /\ n \notin DOMAIN jobs.table /\ DOMAIN jobs.table \subseteq Sequence
      /\ n \in Nat /\ chainOf[n] = None /\ MaxJobs \in Nat
  BY <1>1, TableIsBounded DEF AppInv, Sequence
<1>3. CASE chain = None
  <2>1. refs' = refs /\ committedRefs' = committedRefs /\ chainOf' = chainOf
    BY <1>3 DEF CreateAppJob
  <2>2. ReferencedOrEnding' /\ LiveSettlementJobIsReferenced'
    BY <1>1, <1>2, <2>1
       DEF AppInv, ReferencedOrEnding, LiveSettlementJobIsReferenced, ToTerminate
  <2>3. \A s \in Sequence : s >= n + 1 => chainOf[s] = None
    BY <1>2 DEF AppInv, Sequence
  <2> QED
    BY <1>1, <2>1, <2>2, <2>3 DEF AppInv, RefsType, PointHome
<1>4. CASE chain \in Chain
  <2>1. /\ refs' = [refs EXCEPT ![chain] = n] /\ committedRefs' = refs'
        /\ chainOf' = [chainOf EXCEPT ![n] = chain]
        /\ refs[chain] = None
    BY <1>4, AppAssumption DEF CreateAppJob, SetRefs, ChainIsFree
  <2>2. /\ RefsType(refs') /\ chainOf' \in [Sequence -> Chain \cup {None}]
        /\ chainOf'[n] = chain /\ refs'[chain] = n
        /\ \A s \in Sequence \ {n} : chainOf'[s] = chainOf[s]
        /\ \A c \in Chain \ {chain} : refs'[c] = refs[c]
    BY <1>2, <1>4, <2>1 DEF AppInv, RefsType
  <2>3. PointHome(refs)'
    <3> SUFFICES ASSUME NEW c \in Chain, refs'[c] # None
                 PROVE  chainOf'[refs'[c]] = c
      BY DEF PointHome
    <3>1. CASE c = chain
      BY <2>2, <3>1
    <3>2. CASE c # chain
      BY <1>2, <1>4, <2>2, <3>2, AppAssumption DEF AppInv, RefsType, PointHome
    <3> QED
      BY <3>1, <3>2
  <2>4. \A s \in DOMAIN jobs'.table : chainOf'[s] # None => refs'[chainOf'[s]] = s
    <3> SUFFICES ASSUME NEW s \in DOMAIN jobs.table, s # n, chainOf[s] # None
                 PROVE  refs'[chainOf[s]] = s
      BY <1>1, <1>2, <2>2
    <3>1. refs[chainOf[s]] = s /\ chainOf[s] \in Chain
      BY <1>1, <1>2 DEF AppInv, ReferencedOrEnding, ToTerminate
    <3>2. s # None
      BY <1>2, NoneAssumption DEF Sequence
    <3> QED
      BY <2>1, <2>2, <3>1, <3>2
  <2>5. \A s \in Sequence : s >= n + 1 => chainOf'[s] = None
    BY <1>2, <2>2 DEF AppInv, Sequence
  <2>6. ReferencedOrEnding' /\ LiveSettlementJobIsReferenced'
    BY <1>1, <2>1, <2>4 DEF ReferencedOrEnding, LiveSettlementJobIsReferenced
  <2>7. PointHome(committedRefs)' /\ RefsType(committedRefs')
    BY <2>1, <2>2, <2>3 DEF PointHome
  <2> QED
    BY <1>1, <2>1, <2>2, <2>3, <2>5, <2>6, <2>7 DEF AppInv
<1> QED
  BY <1>3, <1>4

(* A batch clears the references of what it is to terminate.               *)
LEMMA BeginKeepsAppInv ==
  ASSUME IInv, AppInv, NEW b \in Seq(Op), NEW a, BeginBatch(b, a), b # <<>>,
         refs' = ClearRefs(Terminated(b)),
         UNCHANGED <<committedRefs, chainOf>>
  PROVE  AppInv'
<1>1. /\ ops = <<>> /\ ops' = b /\ jobs' = jobs /\ committed' = committed
      /\ committedRefs' = committedRefs /\ chainOf' = chainOf
  BY DEF BeginBatch, Idle
<1>2. \A c \in Chain : refs'[c] = IF refs[c] \in Terminated(b) THEN None ELSE refs[c]
  BY DEF ClearRefs
<1>3. RefsType(refs') /\ PointHome(refs)'
  BY <1>1, <1>2 DEF AppInv, RefsType, PointHome, ClearRefs
<1>4. ReferencedOrEnding'
  <2> SUFFICES ASSUME NEW s \in DOMAIN jobs.table, chainOf[s] # None
               PROVE  refs'[chainOf[s]] = s \/ ToTerminate(s)'
    BY <1>1 DEF ReferencedOrEnding
  <2>1. refs[chainOf[s]] = s /\ chainOf[s] \in Chain
    BY <1>1, TableIsBounded DEF AppInv, ReferencedOrEnding, ToTerminate
  <2>2. CASE s \in Terminated(b)
    <3>1. PICK j \in DOMAIN b : b[j].kind = "terminate" /\ b[j].seq = s
      BY <2>2 DEF Terminated
    <3> QED
      BY <1>1, <3>1 DEF ToTerminate
  <2>3. CASE s \notin Terminated(b)
    BY <1>2, <2>1, <2>3
  <2> QED
    BY <2>2, <2>3
<1> QED
  BY <1>1, <1>3, <1>4 DEF AppInv, RefsType, PointHome, LiveSettlementJobIsReferenced

(* An operation removes no job but its own; the last one ends the call.    *)
LEMMA ProcessKeepsAppInv ==
  ASSUME IInv, AppInv, ops # <<>>, NEW J, Process(J), J.next = jobs.next,
         DOMAIN J.table \subseteq DOMAIN jobs.table,
         Head(ops).kind = "terminate" => Head(ops).seq \notin DOMAIN J.table,
         committedRefs' = IF ops' = <<>> THEN refs ELSE committedRefs,
         UNCHANGED <<refs, chainOf>>
  PROVE  AppInv'
<1>1. /\ jobs' = J /\ ops' = Tail(ops) /\ refs' = refs /\ chainOf' = chainOf
      /\ committed' = IF ops' = <<>> THEN J ELSE committed
  BY DEF Process
<1>2. /\ ops \in Seq(Op) /\ Len(ops) \in Nat \ {0} /\ Head(ops) = ops[1]
      /\ Len(Tail(ops)) = Len(ops) - 1
      /\ \A i \in 1..Len(Tail(ops)) : Tail(ops)[i] = ops[i + 1]
  BY DEF IInv, CallInv
<1>3. ReferencedOrEnding'
  <2> SUFFICES ASSUME NEW s \in DOMAIN J.table, chainOf[s] # None, ToTerminate(s)
               PROVE  ToTerminate(s)'
    BY <1>1 DEF AppInv, ReferencedOrEnding
  <2>1. PICK i \in 1..Len(ops) : ops[i].kind = "terminate" /\ ops[i].seq = s
    BY DEF ToTerminate
  <2>2. i # 1
    BY <1>2, <2>1
  <2>3. i - 1 \in 1..Len(Tail(ops)) /\ Tail(ops)[i - 1] = ops[i]
    BY <1>2, <2>2
  <2> QED
    BY <1>1, <2>1, <2>3 DEF ToTerminate
<1>4. LiveSettlementJobIsReferenced'
  <2>1. CASE ops' = <<>>
    <3>1. committed' = J /\ committedRefs' = refs
      BY <1>1, <2>1
    <3>2. \A s : ~ToTerminate(s)'
      BY <2>1 DEF ToTerminate
    <3> QED
      BY <1>1, <1>3, <3>1, <3>2 DEF ReferencedOrEnding, LiveSettlementJobIsReferenced
  <2>2. CASE ops' # <<>>
    BY <1>1, <2>2 DEF AppInv, LiveSettlementJobIsReferenced
  <2> QED
    BY <2>1, <2>2
<1> QED
  BY <1>1, <1>3, <1>4 DEF AppInv, RefsType, PointHome

LEMMA OperationsKeepAppInv ==
  ASSUME IInv, AppInv, AppOperation
  PROVE  AppInv'
<1> DEFINE s == Head(ops).seq
<1> USE DEF IInv
<1>1. /\ committedRefs' = IF ops' = <<>> THEN refs ELSE committedRefs
      /\ UNCHANGED <<refs, chainOf>>
  BY DEF AppOperation
<1>2. CASE Complete
  <2> DEFINE J == IF CanFinish(jobs, s) THEN CompleteJob(jobs, s, now) ELSE jobs
  <2>1. Process(J) /\ ops # <<>> /\ Head(ops).kind # "terminate"
    BY <1>2 DEF Complete, Current
  <2>2. J.next = jobs.next /\ DOMAIN J.table \subseteq DOMAIN jobs.table
    BY LifeAfterFinish, DomainAfterFinish
  <2> HIDE DEF J
  <2> QED
    BY <1>1, <2>1, <2>2, ProcessKeepsAppInv
<1>3. CASE Fail
  <2> DEFINE J == IF CanFinish(jobs, s) THEN FailJob(jobs, s, now) ELSE jobs
  <2>1. Process(J) /\ ops # <<>> /\ Head(ops).kind # "terminate"
    BY <1>3 DEF Fail, Current
  <2>2. J.next = jobs.next /\ DOMAIN J.table \subseteq DOMAIN jobs.table
    BY LifeAfterFinish, DomainAfterFinish
  <2> HIDE DEF J
  <2> QED
    BY <1>1, <2>1, <2>2, ProcessKeepsAppInv
<1>4. CASE Terminate
  <2> DEFINE J == IF JobExists(jobs, s) THEN TerminateJob(jobs, s) ELSE jobs
  <2>1. Process(J) /\ ops # <<>>
    BY <1>4 DEF Terminate, Current
  <2>2. /\ J.next = jobs.next /\ DOMAIN J.table \subseteq DOMAIN jobs.table
        /\ s \notin DOMAIN J.table
    BY LifeAfterTerminate, DomainAfterTerminate DEF JobExists
  <2> HIDE DEF J
  <2> QED
    BY <1>1, <2>1, <2>2, ProcessKeepsAppInv
<1>5. CASE Start
  <2> DEFINE J == StartJob(jobs, s)
  <2>1. Process(J) /\ ops # <<>> /\ Head(ops).kind # "terminate"
    BY <1>5 DEF Start, Current
  <2>2. J.next = jobs.next /\ DOMAIN J.table \subseteq DOMAIN jobs.table
    BY <1>5, StartStep, LifeAfterStart, StartedTable
  <2> HIDE DEF J
  <2> QED
    BY <1>1, <2>1, <2>2, ProcessKeepsAppInv
<1>6. CASE SkipStart
  <2>1. Process(jobs) /\ ops # <<>> /\ Head(ops).kind # "terminate"
    BY <1>6 DEF SkipStart, Current
  <2> QED
    BY <1>1, <2>1, ProcessKeepsAppInv
<1> QED
  BY <1>2, <1>3, <1>4, <1>5, <1>6 DEF AppOperation

(* A call that removes jobs at most, between other calls.                  *)
LEMMA CallsKeepAppInv ==
  ASSUME IInv, AppInv, AppCall
  PROVE  AppInv'
<1>1. UNCHANGED <<refs, committedRefs, chainOf>>
  BY DEF AppCall
<1>2. ASSUME NEW J, Call(J), J.next = jobs.next, DOMAIN J.table \subseteq DOMAIN jobs.table
      PROVE  AppInv'
  <2>1. jobs' = J /\ committed' = J /\ ops = <<>> /\ ops' = <<>>
    BY <1>2 DEF Call, Idle
  <2>2. \A s \in DOMAIN J.table : chainOf[s] # None => refs[chainOf[s]] = s
    BY <1>2, <2>1 DEF AppInv, ReferencedOrEnding, ToTerminate
  <2>3. refs = committedRefs
    BY <2>1 DEF AppInv
  <2> QED
    BY <1>1, <1>2, <2>1, <2>2, <2>3
       DEF AppInv, RefsType, PointHome, ReferencedOrEnding, LiveSettlementJobIsReferenced
<1>3. ASSUME NEW S \in SUBSET Sequence, Restart(S) \/ Remove(S)
      PROVE  AppInv'
  BY <1>2, <1>3, DomainAfterFailedJobs DEF Restart, Remove, IInv
<1>4. ASSUME NEW n \in MaxAttempts, SetMaxAttempts(n)
      PROVE  AppInv'
  <2>1. /\ UpdateMaxAttempts(jobs, n).table = jobs.table
        /\ UpdateMaxAttempts(jobs, n).next = jobs.next
    BY DEF UpdateMaxAttempts, IInv, JobsInv, JobsType
  <2> QED
    BY <1>2, <1>4, <2>1 DEF SetMaxAttempts
<1>5. CASE Tick
  BY <1>1, <1>5
     DEF Tick, AppInv, RefsType, PointHome, ReferencedOrEnding, ToTerminate,
         LiveSettlementJobIsReferenced
<1> QED
  BY <1>3, <1>4, <1>5 DEF AppCall

(* An abort brings back the table and the references of the last call.     *)
LEMMA AbortKeepsAppInv ==
  ASSUME IInv, AppInv, AppAbort
  PROVE  AppInv'
<1>1. /\ jobs' = committed /\ committed' = committed /\ ops' = <<>>
      /\ refs' = committedRefs /\ committedRefs' = committedRefs /\ chainOf' = chainOf
      /\ jobs'.next = jobs.next
  BY DEF AppAbort, Abort, SetRefs, IInv, CallInv
<1>2. ReferencedOrEnding' /\ LiveSettlementJobIsReferenced'
  BY <1>1 DEF AppInv, LiveSettlementJobIsReferenced, ReferencedOrEnding
<1> QED
  BY <1>1, <1>2 DEF AppInv, RefsType, PointHome

(* A reference without a job is cleared; the others stay.                  *)
LEMMA ValidateKeepsAppInv ==
  ASSUME IInv, AppInv, ValidateSettlementJobs
  PROVE  AppInv'
<1>1. /\ ops = <<>> /\ ops' = ops /\ jobs' = jobs /\ committed' = committed
      /\ refs' = [c \in Chain |-> IF IsOrphan(c) THEN None ELSE refs[c]]
      /\ committedRefs' = refs' /\ chainOf' = chainOf
  BY DEF ValidateSettlementJobs, Idle, SetRefs, vars
<1>2. \A s \in DOMAIN jobs.table : chainOf[s] # None => refs'[chainOf[s]] = s
  <2> SUFFICES ASSUME NEW s \in DOMAIN jobs.table, chainOf[s] # None
               PROVE  refs'[chainOf[s]] = s
    OBVIOUS
  <2>1. refs[chainOf[s]] = s /\ chainOf[s] \in Chain
    BY <1>1, TableIsBounded DEF AppInv, ReferencedOrEnding, ToTerminate
  <2> QED
    BY <1>1, <2>1 DEF IsOrphan, JobExists
<1>3. RefsType(refs') /\ PointHome(refs)'
  BY <1>1 DEF AppInv, RefsType, PointHome
<1>4. ReferencedOrEnding' /\ LiveSettlementJobIsReferenced'
  <2>1. committed = jobs
    BY <1>1 DEF IInv, CallInv
  <2> QED
    BY <1>1, <1>2, <2>1 DEF ReferencedOrEnding, LiveSettlementJobIsReferenced
<1>5. PointHome(committedRefs)'
  BY <1>1, <1>3 DEF PointHome
<1> QED
  BY <1>1, <1>3, <1>4, <1>5 DEF AppInv

LEMMA NextKeepsAppInv == IInv /\ AppInv /\ [AppNext]_appVars => AppInv'
<1> SUFFICES ASSUME IInv, AppInv, [AppNext]_appVars PROVE AppInv'
  OBVIOUS
<1>1. ASSUME NEW b \in Batches, NEW a \in Memory, BeginAppBatch(b, a)
      PROVE  AppInv'
  BY <1>1, BatchesAreOrdered, BeginKeepsAppInv DEF BeginAppBatch
<1>2. ASSUME NEW s \in Sequence, BeginTerminate(s)
      PROVE  AppInv'
  <2> DEFINE op == [kind |-> "terminate", seq |-> s, mem |-> 0]
             b == <<op>>
  <2>1. PICK a \in Memory : BeginBatch(b, a)
    BY <1>2 DEF BeginTerminate
  <2>2. op \in Op
    BY DEF Op, Kind
  <2>3. b \in Seq(Op) /\ b # <<>>
    BY <2>2
  <2>4. Terminated(b) = {s}
    BY DEF Terminated
  <2> QED
    BY <1>2, <2>1, <2>3, <2>4, BeginKeepsAppInv DEF BeginTerminate
<1>3. CASE UNCHANGED appVars
  BY <1>3
     DEF appVars, AppInv, RefsType, PointHome, ReferencedOrEnding, ToTerminate,
         LiveSettlementJobIsReferenced
<1> QED
  BY <1>1, <1>2, <1>3, CreateKeepsAppInv, OperationsKeepAppInv, CallsKeepAppInv,
     AbortKeepsAppInv, ValidateKeepsAppInv DEF AppNext

(* AppInv holds in every state of AppJobs.                                 *)
THEOREM AppInvariance == AppSpec => []AppInv
<1>1. AppSpec => []IInv
  BY AppImplementsJobs, Invariance, PTL
<1> QED
  BY <1>1, InitAppInv, NextKeepsAppInv, PTL DEF AppSpec

(* No chain ever has two settlement jobs, nor one it does not know of.     *)
THEOREM SettlementJobsAreReferenced == AppSpec => []LiveSettlementJobIsReferenced
<1>1. AppInv => LiveSettlementJobIsReferenced
  BY DEF AppInv
<1> QED
  BY <1>1, AppInvariance, PTL

(* No two chains refer to one job.                                         *)
THEOREM ReferencesAlwaysPointHome == AppSpec => []ReferencesPointHome
<1>1. AppInv => ReferencesPointHome
  BY DEF AppInv, PointHome, ReferencesPointHome
<1> QED
  BY <1>1, AppInvariance, PTL
=============================================================================
