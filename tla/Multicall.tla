----------------------------- MODULE Multicall -----------------------------
(***************************************************************************)
(* How a coordinator talks to the job tables: its tasks leave requests in  *)
(* a queue per app instance, one task packs them into batches, each batch  *)
(* is one transaction, and the jobs it started go to a buffer from which   *)
(* containers are launched.  The chain is seen through the life of each    *)
(* job (module Jobs has the table); other coordinators act on it too.      *)
(* A transaction may fail, may execute without the coordinator learning    *)
(* of it, and may execute twice; the coordinator may crash between steps.  *)
(***************************************************************************)
EXTENDS Integers, Sequences, FiniteSets

CONSTANTS
  App,             \* app instances the coordinator serves
  MaxSequence,     \* bound: job sequences 1..MaxSequence in every app
  MaxOps,          \* MAX_OPERATIONS_PER_MULTICALL
  MaxAttempts,     \* runs of a job before it is Failed
  MaxAsked,        \* bound on requests from agents and the application
  MaxFaults        \* bound on failed transactions, reads, replies and crashes

ASSUME MulticallAssumption ==
  /\ IsFiniteSet(App)
  /\ MaxSequence \in Nat \ {0} /\ MaxOps \in Nat \ {0}
  /\ MaxAttempts \in Nat \ {0} /\ MaxAsked \in Nat
  /\ MaxFaults \in Nat

Sequence == 1..MaxSequence
Job == App \X Sequence

VARIABLES
  chain,           \* per job: its status, its runs, and whether this run is
                   \* `ours`: started here and not yet given to a container
  requests,        \* per app instance: what waits for a batch
  batch,           \* the cycle in progress: its phase and what it has taken
  buffer,          \* per job: entries that wait for a container
  asked,           \* requests so far from agents and the application
  faults           \* failures so far

outside == <<asked, faults>>
vars == <<chain, requests, batch, buffer, outside>>

(* "Over": completed, terminated, or failed with no attempts left.         *)
Status == {"Unborn", "Pending", "Running", "Over"}

(* `work` stands for merges, proofs and state updates, none of which this  *)
(* module tells apart.  Starts are sorted when they are taken, so only     *)
(* their number matters.                                                   *)
NoOps == [work |-> 0, complete |-> <<>>, fail |-> <<>>, terminate |-> <<>>,
          start |-> [s \in Sequence |-> 0], create |-> 0]

(* How many there are, f[i] of each i.                                     *)
Total(f) == Cardinality(UNION {{i} \X (1..f[i]) : i \in DOMAIN f})

Size(o) ==
  o.work + Len(o.complete) + Len(o.fail) + Len(o.terminate)
    + Total(o.start) + o.create

Occurrences(list, s) == Cardinality({i \in DOMAIN list : list[i] = s})
In(list, s) == Occurrences(list, s) > 0

Idle == [phase |-> "idle", apps |-> <<>>, next |-> 1, limit |-> MaxOps,
         count |-> 0, ops |-> [a \in App |-> NoOps], started |-> {}]

-----------------------------------------------------------------------------
Init ==
  /\ chain = [j \in Job |-> [status |-> "Unborn", runs |-> 0, ours |-> FALSE]]
  /\ requests = [a \in App |-> NoOps]
  /\ batch = Idle
  /\ buffer = [j \in Job |-> 0]
  /\ asked = 0
  /\ faults = 0

Fault == faults < MaxFaults /\ faults' = faults + 1

(* The job's app instance numbers its jobs in order.                       *)
NextUnborn(a, n) ==
  {s \in Sequence :
     /\ chain[<<a, s>>].status = "Unborn"
     /\ Cardinality({t \in 1..(s - 1) : chain[<<a, t>>].status = "Unborn"}) < n}

-----------------------------------------------------------------------------
(* The chain, without this coordinator.                                    *)

JobCreated(a) ==
  /\ NextUnborn(a, 1) # {}
  /\ \E s \in NextUnborn(a, 1) : chain' = [chain EXCEPT ![<<a, s>>].status = "Pending"]
  /\ UNCHANGED <<requests, batch, buffer, outside>>

Started(c, ours) ==
  [status |-> "Running", runs |-> c.runs + 1, ours |-> ours]

(* A failed run is repeated while attempts are left.                       *)
FailedRun(c) ==
  [c EXCEPT !.status = IF c.runs < MaxAttempts THEN "Pending" ELSE "Over",
            !.ours = FALSE]

Removed(c) == [c EXCEPT !.status = "Over", !.ours = FALSE]

(* Another coordinator starts jobs, and ends runs: the table does not say  *)
(* who runs a job.                                                         *)
PeerActs(j) ==
  LET c == chain[j] IN
  /\ \/ c.status = "Pending" /\ chain' = [chain EXCEPT ![j] = Started(c, FALSE)]
     \/ c.status = "Running" /\ chain' = [chain EXCEPT ![j] = Removed(c)]
     \/ c.status = "Running" /\ chain' = [chain EXCEPT ![j] = FailedRun(c)]
  /\ UNCHANGED <<requests, batch, buffer, outside>>

-----------------------------------------------------------------------------
(* Requests.                                                               *)

Queue(R) ==
  /\ requests' = R
  /\ UNCHANGED <<chain, batch, buffer, faults>>

Ask(R) ==
  /\ asked < MaxAsked
  /\ asked' = asked + 1
  /\ Queue(R)

(* add_start_job_request replaces an equal request.                        *)
AddStart(R, j) ==
  [R EXCEPT ![j[1]].start[j[2]] = IF @ = 0 THEN 1 ELSE @]

(* add_fail_job_request replaces an equal request.                         *)
AddFail(R, j) ==
  IF In(R[j[1]].fail, j[2]) THEN R
  ELSE [R EXCEPT ![j[1]].fail = Append(@, j[2])]

(* An agent reports the end of its run, which the chain may have ended and *)
(* started anew long ago.                                                  *)
CompleteJob(j) ==
  /\ chain[j].runs > 0
  /\ Ask([requests EXCEPT ![j[1]].complete = Append(@, j[2])])

FailJob(j) ==
  /\ chain[j].runs > 0
  /\ Ask(AddFail(requests, j))

TerminateJob(j) ==
  /\ chain[j].runs > 0
  /\ Ask([requests EXCEPT ![j[1]].terminate = Append(@, j[2])])

(* Proofs, merges and state updates, and requests for new jobs.            *)
SubmitWork(a) == Ask([requests EXCEPT ![a].work = @ + 1])

CreateJob(a) ==
  /\ requests[a].create < Cardinality(NextUnborn(a, MaxSequence))
  /\ Ask([requests EXCEPT ![a].create = @ + 1])

(* Reconciliation fails jobs that have run for too long, whoever runs them. *)
Reconcile(j) ==
  /\ chain[j].status = "Running"
  /\ Queue(AddFail(requests, j))
  /\ UNCHANGED asked

(* The searcher queues what it has read to be pending; by the time of the  *)
(* batch the job may have been started or ended by others.                 *)
QueueStart(j) ==
  /\ chain[j].status = "Pending"
  /\ Queue(AddStart(requests, j))
  /\ UNCHANGED asked

-----------------------------------------------------------------------------
(* A cycle: the app instances with requests, in the order of a hash map,   *)
(* fill a batch.  The list of app instances stays for the whole cycle.     *)

(* Slip: app instances that only have jobs to fail are not pending.        *)
HasMoreThanFails(o) == Size([o EXCEPT !.fail = <<>>]) > 0

(* Slip: app instances that only have jobs to start are not pending.       *)
HasMoreThanStarts(o) == Size([o EXCEPT !.start = NoOps.start]) > 0

HasRequests(o) == Size(o) > 0

BeginCycle ==
  /\ batch.phase = "idle"
  /\ LET asking == {a \in App : HasRequests(requests[a])} IN
     /\ asking # {}
     /\ \E order \in [1..Cardinality(asking) -> asking] :
          /\ \A a \in asking : \E i \in DOMAIN order : order[i] = a
          /\ batch' = [Idle EXCEPT !.phase = "filling", !.apps = order]
  /\ UNCHANGED <<chain, requests, buffer, outside>>

Least(x, y) == IF x < y THEN x ELSE y
First(list, n) == SubSeq(list, 1, Least(n, Len(list)))
Rest(list, n) == SubSeq(list, Least(n, Len(list)) + 1, Len(list))

(* What reading a job before its start may find, besides its status.       *)
Reading == {"ok", "orphan", "failed", "appFailed"}

CanStart(a, reading, s) ==
  reading[s] = "ok" /\ chain[<<a, s>>].status = "Pending"

(* The starts in the order of their sequences: those before s come first.  *)
StartsBefore(a, reading, s) ==
  Total([t \in Sequence |->
           IF t < s /\ CanStart(a, reading, t) THEN requests[a].start[t] ELSE 0])

(* The sequences, f[s] times each, in their order.                         *)
Ascending(f) ==
  {list \in [1..Total(f) -> Sequence] :
     /\ \A s \in Sequence : Occurrences(list, s) = f[s]
     /\ \A i, j \in DOMAIN list : i < j => list[i] <= list[j]}

(* current_operation_count is what the batch has taken.                    *)
Room == batch.limit - batch.count

(* take_partial_multicall_operations for the next app instance.  A start   *)
(* that is no longer pending is dropped, as is one whose app instance could *)
(* not be read; one whose job could not be read is kept, and so are those  *)
(* the batch had no room for.  An orphaned settlement job is terminated.   *)
Take(reading) ==
  LET a == batch.apps[batch.next]
      r == requests[a]
      room == Room
      n == [work      |-> room,
            complete  |-> room - Least(room, r.work),
            fail      |-> room - Least(room, r.work + Len(r.complete)),
            terminate |-> room - Least(room, r.work + Len(r.complete)
                                               + Len(r.fail)),
            start     |-> room - Least(room, r.work + Len(r.complete)
                                               + Len(r.fail) + Len(r.terminate))]
      reached(s) == StartsBefore(a, reading, s) < n.start
      starts == [s \in Sequence |->
                   IF CanStart(a, reading, s) /\ reached(s)
                   THEN Least(r.start[s], n.start - StartsBefore(a, reading, s))
                   ELSE 0]
      kept == [s \in Sequence |->
                 IF CanStart(a, reading, s) \/ ~reached(s) THEN r.start[s] - starts[s]
                 ELSE IF reading[s] = "failed" THEN r.start[s] ELSE 0]
      orphans == [s \in Sequence |->
                    IF reached(s) /\ reading[s] = "orphan"
                       /\ chain[<<a, s>>].status = "Pending"
                    THEN r.start[s] ELSE 0]
      taken == [work |-> Least(n.work, r.work),
                complete |-> First(r.complete, n.complete),
                fail |-> First(r.fail, n.fail),
                terminate |-> First(r.terminate, n.terminate),
                start |-> starts,
                create |-> Least(n.start - Total(starts), r.create)]
  IN
  /\ batch.phase = "filling" /\ batch.next <= Len(batch.apps) /\ room > 0
  /\ batch' = [batch EXCEPT
       !.next = @ + 1, !.count = @ + Size(taken), !.ops[a] = taken]
  /\ \E ended \in Ascending(orphans) :
       requests' = [requests EXCEPT
         ![a] = [work |-> r.work - taken.work,
                 complete |-> Rest(r.complete, n.complete),
                 fail |-> Rest(r.fail, n.fail),
                 terminate |-> Rest(r.terminate, n.terminate) \o ended,
                 start |-> kept,
                 create |-> r.create - taken.create]]
  /\ UNCHANGED <<chain, buffer, asked>>

TakeNext ==
  \/ Take([s \in Sequence |-> "ok"]) /\ UNCHANGED faults
  \/ \E s \in Sequence, what \in Reading \ {"ok"} :
       /\ batch.next <= Len(batch.apps) /\ requests[batch.apps[batch.next]].start[s] > 0
       /\ Take([[t \in Sequence |-> "ok"] EXCEPT ![s] = what])
       /\ Fault

(* The batch is full or no app instance is left; an empty one is not sent. *)
Send ==
  /\ batch.phase = "filling"
  /\ batch.next > Len(batch.apps) \/ Room = 0
  /\ batch' = IF batch.count = 0 THEN Idle ELSE [batch EXCEPT !.phase = "sent"]
  /\ UNCHANGED <<chain, requests, buffer, outside>>

-----------------------------------------------------------------------------
(* The transaction: per app instance, completes, fails, terminates, starts *)
(* in this order, then new jobs.  `refused` are starts for which the chain *)
(* finds too little memory.                                                *)

AfterEnds(o, s, c) ==
  LET completed == IF In(o.complete, s) /\ c.status = "Running" THEN Removed(c) ELSE c
      failed == IF In(o.fail, s) /\ completed.status = "Running"
                THEN FailedRun(completed) ELSE completed
  IN  IF In(o.terminate, s) /\ failed.status # "Unborn" THEN Removed(failed) ELSE failed

(* Slip: a job is started whatever its status.                             *)
StartsUnchecked(refused) ==
  {j \in Job \ refused : batch.ops[j[1]].start[j[2]] > 0}

Starts(refused) ==
  {j \in Job \ refused :
     /\ batch.ops[j[1]].start[j[2]] > 0
     /\ AfterEnds(batch.ops[j[1]], j[2], chain[j]).status = "Pending"}

AfterBatch(before, refused) ==
  [j \in Job |->
     LET o == batch.ops[j[1]]
         c == AfterEnds(o, j[2], before[j])
     IN  IF j \in Starts(refused) THEN Started(c, TRUE)
         ELSE IF j[2] \in NextUnborn(j[1], o.create)
         THEN [c EXCEPT !.status = "Pending"] ELSE c]

(* The coordinator will not learn which jobs the batch has started.        *)
LostStarts ==
  [j \in Job |-> IF j \in batch.started THEN [chain[j] EXCEPT !.ours = FALSE]
                 ELSE chain[j]]

(* The client repeats a transaction whose first answer it could not read;  *)
(* the results it then gets are those of the last execution.               *)
Execute(refused) ==
  /\ batch.phase \in {"sent", "executed"}
  /\ chain' = AfterBatch(LostStarts, refused)
  /\ batch' = [batch EXCEPT !.phase = "executed", !.started = Starts(refused)]
  /\ IF batch.phase = "sent" /\ refused = {} THEN UNCHANGED faults ELSE Fault
  /\ UNCHANGED <<requests, buffer, asked>>

(* Slip: when several app instances start the same sequence, one is kept.  *)
NewEntriesOnce ==
  [j \in Job |->
     IF j \in batch.started /\ \A i \in batch.started : i[2] = j[2] => i = j
     THEN batch.ops[j[1]].start[j[2]] ELSE 0]

(* The events name started jobs by their sequence alone; every start taken *)
(* with a sequence that some app instance has started goes to the buffer.  *)
NewEntries ==
  [j \in Job |->
     IF \E i \in batch.started : i[2] = j[2] THEN batch.ops[j[1]].start[j[2]] ELSE 0]

Answered ==
  /\ batch.phase = "executed"
  /\ buffer' = [j \in Job |-> buffer[j] + NewEntries[j]]
  /\ batch' = Idle
  /\ UNCHANGED <<chain, requests, outside>>

(* The transaction succeeded but its events could not be fetched.          *)
AnsweredWithoutEvents ==
  /\ batch.phase = "executed"
  /\ batch' = Idle
  /\ chain' = LostStarts
  /\ Fault
  /\ UNCHANGED <<requests, buffer, asked>>

-----------------------------------------------------------------------------
(* Slip: work that was tried before is skipped, as a comment says of       *)
(* proofs that were tried five times.                                      *)
ReturnSkippingWork(R, o) ==
  [work |-> R.work,
   complete |-> R.complete \o o.complete,
   fail |-> R.fail \o o.fail, terminate |-> R.terminate \o o.terminate,
   start |-> [s \in Sequence |-> R.start[s] + o.start[s]],
   create |-> R.create]

(* return_operations_to_queue: nothing is compared with what has come in   *)
(* since, and requests for new jobs are not put back.  "Skip if we've      *)
(* exceeded max retries", it says of proofs (state.rs:1551), but it only   *)
(* logs an error, and puts every proof back.                               *)
Return(R, o) ==
  [work |-> R.work + o.work,
   complete |-> R.complete \o o.complete,
   fail |-> R.fail \o o.fail, terminate |-> R.terminate \o o.terminate,
   start |-> [s \in Sequence |-> R.start[s] + o.start[s]],
   create |-> R.create]

Half(n) == IF n > 1 THEN n \div 2 ELSE 1

(* An error, whether or not the transaction was executed.  The cycle tries *)
(* again with half the operations and gives up after a batch of one.       *)
Error ==
  /\ batch.phase \in {"sent", "executed"}
  /\ requests' = [a \in App |-> Return(requests[a], batch.ops[a])]
  /\ batch' = IF batch.limit = 1 THEN Idle
              ELSE [Idle EXCEPT !.phase = "filling", !.apps = batch.apps,
                                !.limit = Half(batch.limit)]
  /\ chain' = LostStarts
  /\ Fault
  /\ UNCHANGED <<buffer, asked>>

(* The docker processor or an agent takes an entry out of the buffer.      *)
HandOver(j) ==
  /\ buffer[j] > 0
  /\ buffer' = [buffer EXCEPT ![j] = @ - 1]
  /\ chain' = [chain EXCEPT ![j].ours = FALSE]
  /\ UNCHANGED <<requests, batch, outside>>

(* Nothing is persisted; a transaction on its way may still be executed.   *)
Crash ==
  /\ batch # Idle \/ (\E a \in App : requests[a] # NoOps) \/ (\E j \in Job : buffer[j] > 0)
  /\ Fault
  /\ \/ chain' = [j \in Job |-> [chain[j] EXCEPT !.ours = FALSE]]
     \/ /\ batch.phase = "sent"
        /\ chain' = [j \in Job |-> [AfterBatch(chain, {})[j] EXCEPT !.ours = FALSE]]
  /\ requests' = [a \in App |-> NoOps]
  /\ batch' = Idle
  /\ buffer' = [j \in Job |-> 0]
  /\ UNCHANGED asked

-----------------------------------------------------------------------------
Cycle ==
  \/ BeginCycle
  \/ TakeNext
  \/ Send
  \/ Execute({})
  \/ Answered

Next ==
  \/ Cycle
  \/ \E a \in App : JobCreated(a) \/ SubmitWork(a) \/ CreateJob(a)
  \/ \E j \in Job :
       PeerActs(j) \/ CompleteJob(j) \/ FailJob(j) \/ TerminateJob(j)
         \/ Reconcile(j) \/ QueueStart(j) \/ HandOver(j)
  \/ \E refused \in SUBSET Job : refused # {} /\ refused \subseteq Starts({}) /\ Execute(refused)
  \/ AnsweredWithoutEvents
  \/ Error
  \/ Crash

(* The loops of the multicall processor, the searcher and reconciliation   *)
(* run for ever, and a transaction is eventually answered.                 *)
Fairness ==
  /\ WF_vars(Cycle)
  /\ \A j \in Job : WF_vars(QueueStart(j)) /\ WF_vars(Reconcile(j))

Spec == Init /\ [][Next]_vars
FairSpec == Spec /\ Fairness
-----------------------------------------------------------------------------
Ops ==
  [work: Nat, complete: Seq(Sequence), fail: Seq(Sequence),
   terminate: Seq(Sequence), start: [Sequence -> Nat], create: Nat]

(* Types; only a running job is anybody's run.                             *)
TypeOK ==
  /\ chain \in [Job -> [status: Status, runs: 0..MaxAttempts, ours: BOOLEAN]]
  /\ \A j \in Job : chain[j].ours => chain[j].status = "Running"
  /\ requests \in [App -> Ops]
  /\ batch.phase \in {"idle", "filling", "sent", "executed"}
  /\ batch.apps \in Seq(App) /\ batch.next \in 1..(Len(batch.apps) + 1)
  /\ batch.limit \in 1..MaxOps
  /\ batch.ops \in [App -> Ops] /\ batch.started \subseteq Job
  /\ buffer \in [Job -> Nat]
  /\ asked \in 0..MaxAsked /\ faults \in 0..MaxFaults

(* Every run this coordinator started is known to it: the job waits in the *)
(* buffer or is in the batch being answered, unless the run has been handed *)
(* on, or its start was lost with an answer or in a crash.                 *)
StartedJobsAreFollowed ==
  \A j \in Job :
    chain[j].status = "Running" /\ chain[j].ours =>
      buffer[j] > 0 \/ j \in batch.started

Amount(o, kind) == IF kind \in {"work", "create"} THEN o[kind] ELSE Len(o[kind])
Held(a, kind) == Amount(requests[a], kind) + Amount(batch.ops[a], kind)

(* Requests leave the coordinator only with a transaction that was         *)
(* executed, and then only those in it, or in a crash.                     *)
LeaveExecuted(kind) ==
  \A a \in App :
    \/ Held(a, kind)' >= Held(a, kind)
    \/ /\ batch' = Idle /\ requests' = [b \in App |-> NoOps] /\ faults' # faults
       /\ \A j \in Job : buffer'[j] = 0
    \/ /\ batch.phase = "executed" /\ batch'.phase = "idle"
       /\ Amount(requests'[a], kind) >= Amount(requests[a], kind)

(* No proof, merge, completion, failure or termination is lost between the *)
(* queue, the batches, the retries with smaller batches and the returns    *)
(* from them, whatever is queued meanwhile.  This is what the code does: a *)
(* comment on Return would skip a proof after five retries.                *)
RequestsAreKept ==
  [][\A kind \in {"work", "complete", "fail", "terminate"} : LeaveExecuted(kind)]_vars

(* No job is Running for ever: reconciliation asks for its failure, and    *)
(* the request gets through retries, smaller batches and competing app     *)
(* instances once the failures stop.                                       *)
RunsEnd == \A j \in Job : chain[j].status = "Running" ~> chain[j].status # "Running"

(* A pending job is found, queued and started, by us or by others, once    *)
(* the failures stop.                                                      *)
PendingJobsStart ==
  \A j \in Job : chain[j].status = "Pending" ~> chain[j].status # "Pending"
=============================================================================
