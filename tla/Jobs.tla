-------------------------------- MODULE Jobs --------------------------------
(***************************************************************************)
(* The job table under the calls its app instance receives.  A call runs   *)
(* to its end or aborts and leaves no trace, so `committed` is the table   *)
(* that other transactions and the coordinators read, and `jobs` the one   *)
(* the running call works on; they differ only inside a multicall.  A call *)
(* of complete_job, fail_job, terminate_job or start_job alone is a batch  *)
(* of one.                                                                 *)
(***************************************************************************)
EXTENDS JobStore, Sequences

CONSTANTS
  MaxJobs,         \* bound: job sequences 1..MaxJobs are created
  MaxNow,          \* bound on the clock
  Intervals,       \* interval_ms arguments of create_job
  StartTimes,      \* next_scheduled_at arguments, relative to now
  MaxAttempts,     \* max_attempts values
  Memory,          \* available and required memory values
  MaxBatch         \* bound on the operations of one multicall

ASSUME BoundsAssumption ==
  /\ MaxJobs \in Nat /\ MaxNow \in Nat /\ MaxBatch \in Nat
  /\ Intervals \subseteq Option(Nat) /\ StartTimes \subseteq Option(Nat)
  /\ MaxAttempts \subseteq 0..U8Max
  /\ Memory \subseteq Nat

VARIABLES
  jobs,            \* the table the running call works on
  committed,       \* the table after the last call that succeeded
  ops,             \* operations the running multicall has still to process
  memory,          \* the running multicall's memory: available, left, used
  now              \* the clock of the chain

vars == <<jobs, committed, ops, memory, now>>

Sequence == 1..MaxJobs

Kind == {"complete", "fail", "terminate", "start"}
Op == [kind: Kind, seq: Sequence, mem: Memory \cup {0}]

(* Slip: the starts come first.                                            *)
StartsFirst == [start |-> 1, complete |-> 2, fail |-> 3, terminate |-> 4]

(* multicall_job_operations takes one list of jobs per kind and processes  *)
(* the lists in this order.                                                *)
Phase == [complete |-> 1, fail |-> 2, terminate |-> 3, start |-> 4]

InPhaseOrder(batch) ==
  \A i, j \in 1..Len(batch) :
    i < j => Phase[batch[i].kind] <= Phase[batch[j].kind]

Batches ==
  {b \in UNION {[1..n -> Op] : n \in 1..MaxBatch} :
     /\ InPhaseOrder(b)
     /\ \A i \in DOMAIN b : b[i].kind # "start" => b[i].mem = 0}

NoMemory == [available |-> 0, left |-> 0, used |-> 0]

Idle == ops = <<>>

-----------------------------------------------------------------------------
Init ==
  /\ \E n \in MaxAttempts : jobs = EmptyJobs(n)
  /\ committed = jobs
  /\ ops = <<>>
  /\ memory = NoMemory
  /\ now = 0

(* A call that changes the table in one go.                                *)
Call(J) ==
  /\ Idle
  /\ jobs' = J
  /\ committed' = J
  /\ UNCHANGED <<ops, memory, now>>

Create(m, interval, delay) ==
  /\ jobs.next <= MaxJobs
  /\ CanCreate(interval)
  /\ Call(CreateJob(jobs, m, interval,
                    IF delay = None THEN None ELSE now + delay))

Restart(S) == ~FailedJobsAbort(jobs, S) /\ Call(RestartFailedJobs(jobs, S))
Remove(S) == ~FailedJobsAbort(jobs, S) /\ Call(RemoveFailedJobs(jobs, S))
SetMaxAttempts(n) == Call(UpdateMaxAttempts(jobs, n))

BeginBatch(batch, available) ==
  /\ Idle
  /\ ops' = batch
  /\ memory' = [available |-> available, left |-> available, used |-> 0]
  /\ UNCHANGED <<jobs, committed, now>>

(* The next operation is of this kind, and the table after it is J; the    *)
(* last operation ends the call.                                           *)
Current(kind) == ops # <<>> /\ Head(ops).kind = kind
Process(J) ==
  /\ jobs' = J
  /\ ops' = Tail(ops)
  /\ committed' = IF Tail(ops) = <<>> THEN J ELSE committed
  /\ UNCHANGED now

(* An operation that finds its job absent or in another status returns     *)
(* false and the batch goes on.                                            *)
Complete ==
  LET s == Head(ops).seq IN
  /\ Current("complete")
  /\ Process(IF CanFinish(jobs, s) THEN CompleteJob(jobs, s, now) ELSE jobs)
  /\ UNCHANGED memory

Fail ==
  LET s == Head(ops).seq IN
  /\ Current("fail")
  /\ Process(IF CanFinish(jobs, s) THEN FailJob(jobs, s, now) ELSE jobs)
  /\ UNCHANGED memory

Terminate ==
  LET s == Head(ops).seq IN
  /\ Current("terminate")
  /\ Process(IF JobExists(jobs, s) THEN TerminateJob(jobs, s) ELSE jobs)
  /\ UNCHANGED memory

(* Memory is checked before the job is looked at and deducted only when it *)
(* starts.                                                                 *)
Affordable(op) == memory.left >= op.mem

(* Slip: the memory is not compared.                                       *)
StartTakesAnyway(op) == CanStart(jobs, op.seq, now)

StartTakes(op) == Affordable(op) /\ CanStart(jobs, op.seq, now)

Start ==
  /\ Current("start")
  /\ StartTakes(Head(ops))
  /\ Process(StartJob(jobs, Head(ops).seq))
  /\ memory' = [memory EXCEPT !.left = @ - Head(ops).mem,
                              !.used = @ + Head(ops).mem]

SkipStart ==
  /\ Current("start")
  /\ ~StartTakes(Head(ops))
  /\ ~(Affordable(Head(ops)) /\ StartAborts(jobs, Head(ops).seq))
  /\ Process(jobs)
  /\ UNCHANGED memory

(* An aborted call undoes what its earlier operations did.                 *)
Abort ==
  /\ Current("start")
  /\ Affordable(Head(ops))
  /\ StartAborts(jobs, Head(ops).seq)
  /\ jobs' = committed
  /\ ops' = <<>>
  /\ UNCHANGED <<committed, memory, now>>

Tick == Idle /\ now < MaxNow /\ now' = now + 1
             /\ UNCHANGED <<jobs, committed, ops, memory>>

Next ==
  \/ \E m \in Method, i \in Intervals, d \in StartTimes : Create(m, i, d)
  \/ \E S \in SUBSET Sequence : Restart(S)
  \/ \E S \in SUBSET Sequence : Remove(S)
  \/ \E n \in MaxAttempts : SetMaxAttempts(n)
  \/ \E b \in Batches, a \in Memory : BeginBatch(b, a)
  \/ Complete \/ Fail \/ Terminate \/ Start \/ SkipStart \/ Abort
  \/ Tick

Spec == Init /\ [][Next]_vars

-----------------------------------------------------------------------------
(* Properties.                                                             *)

(* The variables have their types, in and between calls.                   *)
TypeOK ==
  /\ JobsType(jobs)
  /\ JobsType(committed)
  /\ ops \in Seq(Op)
  /\ memory \in [available: Nat, left: Nat, used: Nat]
  /\ now \in Nat

(* The pending set, its counter and the developer/agent/method index agree *)
(* with the statuses in the table after every operation: coordinators find *)
(* work through the index alone, so a job missing from it is never run and *)
(* a job left in it is fetched for ever.                                   *)
PendingAgrees == PendingIsIndexed(jobs)

(* The failed index holds every Failed job and the counter its size, so a  *)
(* restart misses none, the insertion of fail_job never meets its own key  *)
(* and the counter never runs below zero.                                  *)
FailedAgrees == FailedIsIndexed(jobs)

(* start_job's attempts + 1 fits a u8 whatever max_attempts was when the   *)
(* earlier attempts were made.  Nothing calls update_max_attempts today:   *)
(* this is what a caller of it may rely on.                                *)
AttemptsNeverOverflow == AttemptsFit(jobs)

(* multicall_job_operations starts jobs only within the memory it is given *)
(* and never subtracts more than is left, whatever starts fail in between. *)
MemoryBudget ==
  /\ memory.used <= memory.available
  /\ memory.left = memory.available - memory.used

(* A periodic job that has run is not started again before the minimum     *)
(* interval has passed since the end of that run, whether the run was      *)
(* completed, retried or given up, in the same call or in a later one.  A  *)
(* start leaves endedAt alone; an abort that takes the end of a run back   *)
(* does not.                                                               *)
StartsPeriodic(s) ==
  /\ HasStatus(jobs, s, "Pending")
  /\ jobs'.table[s].status = "Running"
  /\ jobs'.table[s].endedAt = jobs.table[s].endedAt
  /\ IsPeriodic(jobs'.table[s])
  /\ jobs.table[s].endedAt # None

PeriodicSpacing ==
  [][\A s \in DOMAIN jobs.table \cap DOMAIN jobs'.table :
       StartsPeriodic(s) => now >= jobs.table[s].endedAt + MinInterval]_vars

(* Readers between calls see every job live the life of JobLifecycle: the  *)
(* order of a multicall lets no job start and fail unseen, no sequence is  *)
(* handed out twice and an aborted call leaves no trace.                   *)
LifeOf(J, s) ==
  IF JobExists(J, s) THEN J.table[s].status
  ELSE IF s < J.next THEN "Gone" ELSE "Unborn"

Lifecycle == INSTANCE JobLifecycle
               WITH life <- [s \in Sequence |-> LifeOf(committed, s)]

ImplementsLifecycle == Lifecycle!Spec

(* restart_failed_jobs and remove_failed_jobs assert that every job of the *)
(* failed index is in the table (jobs.move:595 and :660).                  *)
FailedIndexRefersToJobs == jobs.failedIndex \subseteq DOMAIN jobs.table
=============================================================================
