------------------------------ MODULE Settling ------------------------------
(***************************************************************************)
(* How coordinators keep one app instance settled.  A coordinator tracks   *)
(* the instance from the first JobCreated event it sees.  While it does,   *)
(* its loops read the instance and analyse the reading: they ask for a     *)
(* settlement job for every chain that is behind and terminate the jobs of *)
(* the others.  The searcher starts pending jobs, reconciliation fails     *)
(* those that run too long, and a check between two searches forgets the   *)
(* instance when nothing is left to do.  Every reading is older than what  *)
(* is done with it, and several coordinators work on one instance.         *)
(*                                                                         *)
(* The job table and the references to settlement jobs are module          *)
(* AppJobs's and change here as its calls do; one ordinary job at a time   *)
(* stands for the jobs that prove the sequences of the open block.         *)
(***************************************************************************)
EXTENDS Integers, FiniteSets

CONSTANTS
  Chain,           \* settlement chains of the instance
  Coordinator,
  Loop,            \* the loops that analyse, the searcher's one among them
  Searcher,
  MaxJobs,         \* bound on ordinary jobs
  MaxStale,        \* bound on what the failed counter is too high by
  MaxFaults        \* bound on failures of calls, agents and coordinators

ASSUME SettlingAssumption ==
  /\ IsFiniteSet(Chain) /\ Chain # {} /\ IsFiniteSet(Coordinator) /\ IsFiniteSet(Loop)
  /\ Searcher \in Loop /\ "none" \notin Coordinator
  /\ MaxJobs \in Nat /\ MaxStale \in Nat /\ MaxFaults \in Nat

VARIABLES
  open,            \* sequences were processed since the last proved block
  proved,          \* last_proved_block_number
  settled,         \* per chain: last_settled_block_number
  work,            \* the ordinary job
  job,             \* per chain: its settlement job
  created,         \* ordinary jobs created so far
  stale,           \* by how much failed_jobs_count is too high
  due,             \* per coordinator: an event it has not handled
  tracked,         \* per coordinator: does it track the instance
  queue,           \* per coordinator: chains it asks a settlement job for
  analysis,        \* per coordinator and loop: its reading, or what is left
  check,           \* per coordinator: how far the check for removal is
  faults           \* failures so far

instance == <<open, proved, settled, work, job, created, stale>>
coordinators == <<due, tracked, queue, analysis, check>>
vars == <<instance, coordinators, faults>>

Idle == [at |-> "idle"]
NoWork == [at |-> "none", block |-> FALSE]
NoJob == [at |-> "none", id |-> 0]

(* A job is none, pending, run by a container of a coordinator, or running *)
(* without one ("orphan").                                                 *)
Where == {"none", "pending", "orphan"} \cup Coordinator
Live(j) == j.at # "none"
Running(j) == j.at \notin {"none", "pending"}

(* settlement_job of each chain, 0 for none.  A settlement job is periodic *)
(* and leaves the table only when it is terminated.                        *)
Refs == [c \in Chain |-> job[c].id]

(* The instance's last_settled_block_number, the lowest of its chains, is  *)
(* its last_proved_block_number.                                           *)
CaughtUp == \A c \in Chain : settled[c] = proved

(* The current block is the one after the last proved and has no sequence, *)
(* and every proved block is settled.                                      *)
NothingToDo == ~open /\ CaughtUp

Fault == faults < MaxFaults /\ faults' = faults + 1

-----------------------------------------------------------------------------
Init ==
  /\ open = FALSE /\ proved = 0
  /\ settled = [c \in Chain |-> 0]
  /\ work = NoWork
  /\ job = [c \in Chain |-> NoJob]
  /\ created = 0
  /\ stale \in 0..MaxStale
  /\ due = [k \in Coordinator |-> FALSE]
  /\ tracked = [k \in Coordinator |-> FALSE]
  /\ queue = [k \in Coordinator |-> {}]
  /\ analysis = [k \in Coordinator |-> [l \in Loop |-> Idle]]
  /\ check = [k \in Coordinator |-> Idle]
  /\ faults = 0

Announce == due' = [k \in Coordinator |-> TRUE]

-----------------------------------------------------------------------------
(* The instance and its agents.                                            *)

(* The app creates a job, for a sequence of a new block or for no block.   *)
CreateWork(forBlock) ==
  /\ created < MaxJobs /\ ~Live(work)
  /\ work' = [at |-> "pending", block |-> forBlock]
  /\ open' = (open \/ forBlock)
  /\ created' = created + 1
  /\ Announce
  /\ UNCHANGED <<proved, settled, job, stale, tracked, queue, analysis, check, faults>>

(* A job that runs beside it and is ended elsewhere leaves its event.      *)
CreateOther ==
  /\ created < MaxJobs /\ Live(work)
  /\ created' = created + 1
  /\ Announce
  /\ UNCHANGED <<open, proved, settled, work, job, stale, tracked, queue, analysis, check, faults>>

(* start_job, asked for by the searcher of a coordinator that tracks the   *)
(* instance.                                                               *)
StartWork(k) ==
  /\ tracked[k] /\ work.at = "pending"
  /\ work' = [work EXCEPT !.at = k]
  /\ UNCHANGED <<open, proved, settled, job, created, stale, coordinators, faults>>

(* Of several settlement jobs a search starts the oldest; here any.        *)
Start(k, c) ==
  /\ tracked[k] /\ job[c].at = "pending"
  /\ job' = [job EXCEPT ![c].at = k]
  /\ UNCHANGED <<open, proved, settled, work, created, stale, coordinators, faults>>

(* submit_proof with the proof of the whole block.                         *)
Prove ==
  /\ work.at \in Coordinator /\ work.block /\ open
  /\ proved' = proved + 1
  /\ open' = FALSE
  /\ UNCHANGED <<settled, work, job, created, stale, coordinators, faults>>

(* A settlement transaction is included: update_block_settlement_tx_...    *)
Settle(c) ==
  /\ job[c].at \in Coordinator /\ settled[c] < proved
  /\ settled' = [settled EXCEPT ![c] = @ + 1]
  /\ UNCHANGED <<open, proved, work, job, created, stale, coordinators, faults>>

(* complete_job: an ordinary job goes, a periodic one is pending again.    *)
CompleteWork ==
  /\ work.at \in Coordinator /\ (work.block => ~open)
  /\ work' = NoWork
  /\ UNCHANGED <<open, proved, settled, job, created, stale, coordinators, faults>>

Complete(c) ==
  /\ job[c].at \in Coordinator /\ settled[c] = proved
  /\ job' = [job EXCEPT ![c].at = "pending"]
  /\ UNCHANGED <<open, proved, settled, work, created, stale, coordinators, faults>>

(* fail_job, by an agent, or by a reconciliation that takes the job for    *)
(* stuck: a job with attempts left, or a periodic one, is pending again.   *)
FailWork ==
  /\ work.at \in Coordinator /\ Fault
  /\ work' = [work EXCEPT !.at = "pending"]
  /\ UNCHANGED <<open, proved, settled, job, created, stale, coordinators>>

Fail(c) ==
  /\ job[c].at \in Coordinator /\ Fault
  /\ job' = [job EXCEPT ![c].at = "pending"]
  /\ UNCHANGED <<open, proved, settled, work, created, stale, coordinators>>

(* reconcile_layer goes over the instances a coordinator tracks; a job     *)
(* without a container is stuck indeed.                                    *)
ReconcileWork(k) ==
  /\ tracked[k] /\ work.at = "orphan"
  /\ work' = [work EXCEPT !.at = "pending"]
  /\ UNCHANGED <<open, proved, settled, job, created, stale, coordinators, faults>>

Reconcile(k, c) ==
  /\ tracked[k] /\ job[c].at = "orphan"
  /\ job' = [job EXCEPT ![c].at = "pending"]
  /\ UNCHANGED <<open, proved, settled, work, created, stale, coordinators, faults>>

-----------------------------------------------------------------------------
(* The tracker.                                                            *)

(* handle_job_created_event.                                               *)
Deliver(k) ==
  /\ due[k]
  /\ due' = [due EXCEPT ![k] = FALSE]
  /\ tracked' = [tracked EXCEPT ![k] = TRUE]
  /\ UNCHANGED <<instance, queue, analysis, check, faults>>

(* The event stream breaks and is opened again, past the event.            *)
LoseEvent(k) ==
  /\ due[k] /\ Fault
  /\ due' = [due EXCEPT ![k] = FALSE]
  /\ UNCHANGED <<instance, tracked, queue, analysis, check>>

(* Nothing is persisted, and the containers go with their coordinator.     *)
Abandoned(k, j) == IF j.at = k THEN [j EXCEPT !.at = "orphan"] ELSE j

Crash(k) ==
  /\ Fault
  /\ work' = Abandoned(k, work)
  /\ job' = [c \in Chain |-> Abandoned(k, job[c])]
  /\ due' = [due EXCEPT ![k] = FALSE]
  /\ tracked' = [tracked EXCEPT ![k] = FALSE]
  /\ queue' = [queue EXCEPT ![k] = {}]
  /\ analysis' = [analysis EXCEPT ![k] = [l \in Loop |-> Idle]]
  /\ check' = [check EXCEPT ![k] = Idle]
  /\ UNCHANGED <<open, proved, settled, created, stale>>

-----------------------------------------------------------------------------
(* analyze_proof_completion.                                               *)

(* Slip: blocks that are proved but not settled do not count.              *)
FreshBlock == ~open

ReturnsAtOnce == NothingToDo

(* A loop reads the instance, and returns at once when nothing is to do.   *)
Look(k, l) ==
  /\ tracked[k] /\ analysis[k][l] = Idle
  /\ l = Searcher => check[k] = Idle
  /\ ~ReturnsAtOnce
  /\ analysis' = [analysis EXCEPT ![k][l] =
       [at |-> "looked", proved |-> proved, behind |-> ~CaughtUp, refs |-> Refs]]
  /\ UNCHANGED <<instance, due, tracked, queue, check, faults>>

(* block_needs_settlement, for the blocks of the reading.                  *)
Needs(seen) == {c \in Chain : seen.behind /\ settled[c] < seen.proved}

(* It reads the blocks and what of them is settled, by calls that may fail *)
(* and then count as nothing to settle, and decides.                       *)
Decide(k, l) ==
  LET seen == analysis[k][l] IN
  /\ seen.at = "looked"
  /\ \E needs \in SUBSET Needs(seen) :
       /\ IF needs = Needs(seen) THEN UNCHANGED faults ELSE Fault
       /\ queue' = [queue EXCEPT ![k] = @ \cup {c \in needs : seen.refs[c] = 0}]
       /\ analysis' = [analysis EXCEPT ![k][l] =
            [at |-> "terminating",
             jobs |-> {<<c, seen.refs[c]>> : c \in {d \in Chain \ needs : seen.refs[d] # 0}}]]
  /\ UNCHANGED <<instance, due, tracked, check>>

(* Slip: the reference goes, the job stays.                                *)
ReferenceRemoved(j) == [j EXCEPT !.id = 0]

Removed(j) == NoJob

(* terminate_app_job: by the number read, whatever has become of the job.  *)
Terminate(k, l) ==
  LET mine == analysis[k][l] IN
  /\ mine.at = "terminating"
  /\ IF mine.jobs = {}
       THEN /\ analysis' = [analysis EXCEPT ![k][l] = Idle]
            /\ UNCHANGED <<job, faults>>
       ELSE \E t \in mine.jobs :
              /\ analysis' = [analysis EXCEPT ![k][l].jobs = @ \ {t}]
              /\ \/ /\ job' = IF job[t[1]].id = t[2] THEN [job EXCEPT ![t[1]] = Removed(@)] ELSE job
                    /\ UNCHANGED faults
                 \/ Fault /\ UNCHANGED job
  /\ UNCHANGED <<open, proved, settled, work, created, stale, due, tracked, queue, check>>

(* A number that no reading still holds: numbers are never given twice.    *)
Known(c) ==
  LET reading(k, l) ==
        LET a == analysis[k][l] IN
        CASE a.at = "looked" -> {a.refs[c]}
          [] a.at = "terminating" -> {t[2] : t \in {u \in a.jobs : u[1] = c}}
          [] OTHER -> {}
  IN  UNION {reading(k, l) : k \in Coordinator, l \in Loop}

NewId(c) ==
  LET free == (1..(Cardinality(Coordinator \X Loop) + 1)) \ Known(c)
  IN  CHOOSE n \in free : \A m \in free : n <= m

(* create_app_job in a multicall, refused when the chain has a job.        *)
CreateJob(c) ==
  IF Live(job[c]) THEN UNCHANGED <<job, due>>
  ELSE /\ job' = [job EXCEPT ![c] = [at |-> "pending", id |-> NewId(c)]]
       /\ Announce

SendCreate(k, c) ==
  /\ c \in queue[k]
  /\ queue' = [queue EXCEPT ![k] = @ \ {c}]
  /\ \/ CreateJob(c) /\ UNCHANGED faults
     \/ Fault /\ UNCHANGED <<job, due>>       \* lost with its transaction
  /\ UNCHANGED <<open, proved, settled, work, created, stale, tracked, analysis, check>>

-----------------------------------------------------------------------------
(* can_remove_app_instance, and the removal.                               *)

BeginCheck(k) ==
  /\ tracked[k] /\ check[k] = Idle /\ analysis[k][Searcher] = Idle
  /\ NothingToDo /\ \A c \in Chain : Refs[c] = 0
  /\ check' = [check EXCEPT ![k] = [at |-> "looked", created |-> created, blind |-> FALSE]]
  /\ UNCHANGED <<instance, due, tracked, queue, analysis, faults>>

Count(Q(_)) ==
  Cardinality({c \in Chain : Q(job[c])}) + (IF Q(work) THEN 1 ELSE 0)

Pending(j) == j.at = "pending"

(* get_pending_jobs_count; no answer counts as 0.                          *)
CountPending(k) ==
  /\ check[k].at = "looked"
  /\ \/ /\ check' = [check EXCEPT ![k] = IF Count(Pending) > 0 THEN Idle ELSE [@ EXCEPT !.at = "counted"]]
        /\ UNCHANGED faults
     \/ /\ Fault
        /\ check' = [check EXCEPT ![k].at = "counted", ![k].blind = TRUE]
  /\ UNCHANGED <<instance, due, tracked, queue, analysis>>

(* Slip: no pending job is enough.                                         *)
NoRunningAssumed(total, failed) == TRUE

(* total.saturating_sub(pending + failed) = 0.                             *)
NoRunning(total, failed) == total <= failed

(* get_total_jobs_count and get_failed_jobs_count.                         *)
CountRunning(k) ==
  /\ check[k].at = "counted"
  /\ \/ /\ check' = [check EXCEPT ![k] =
             IF NoRunning(Count(Live), stale) THEN [@ EXCEPT !.at = "verdict"] ELSE Idle]
        /\ UNCHANGED faults
     \/ /\ Fault
        /\ check' = [check EXCEPT ![k].at = "verdict", ![k].blind = TRUE]
  /\ UNCHANGED <<instance, due, tracked, queue, analysis>>

(* The instances are removed when all have been checked.                   *)
Remove(k) ==
  /\ check[k].at = "verdict"
  /\ check' = [check EXCEPT ![k] = Idle]
  /\ tracked' = [tracked EXCEPT ![k] = FALSE]
  /\ UNCHANGED <<instance, due, queue, analysis, faults>>

-----------------------------------------------------------------------------
(* What is done with a job, one thing at a time.                           *)
WorkStep ==
  \/ Prove \/ CompleteWork
  \/ \E k \in Coordinator : StartWork(k) \/ ReconcileWork(k)

JobStep(c) ==
  \/ Settle(c) \/ Complete(c)
  \/ \E k \in Coordinator : Start(k, c) \/ Reconcile(k, c)

AnalysisStep(k, l) == Look(k, l) \/ Decide(k, l) \/ Terminate(k, l)
CheckStep(k) == BeginCheck(k) \/ CountPending(k) \/ CountRunning(k) \/ Remove(k)
SendStep(k) == \E c \in Chain : SendCreate(k, c)

Next ==
  \/ \E forBlock \in BOOLEAN : CreateWork(forBlock)
  \/ CreateOther
  \/ WorkStep \/ FailWork
  \/ \E c \in Chain : JobStep(c) \/ Fail(c)
  \/ \E k \in Coordinator :
       \/ Deliver(k) \/ LoseEvent(k) \/ Crash(k)
       \/ CheckStep(k) \/ SendStep(k)
       \/ \E l \in Loop : AnalysisStep(k, l)

(* The loops of a coordinator run for ever, the searcher's does both its   *)
(* analysis and its check, events arrive, and agents get on with the jobs  *)
(* they have.  Applications owe nothing.                                   *)
Fairness ==
  /\ WF_vars(WorkStep)
  /\ \A c \in Chain : WF_vars(JobStep(c))
  /\ \A k \in Coordinator :
       /\ WF_vars(Deliver(k)) /\ WF_vars(SendStep(k))
       /\ WF_vars(CheckStep(k) \/ AnalysisStep(k, Searcher))
       /\ \A l \in Loop \ {Searcher} : WF_vars(AnalysisStep(k, l))

Spec == Init /\ [][Next]_vars
FairSpec == Spec /\ Fairness

-----------------------------------------------------------------------------
(* Properties.                                                             *)

Reading ==
  [at : {"looked"}, proved : 0..MaxJobs, behind : BOOLEAN, refs : [Chain -> Nat]]
Terminations == [at : {"terminating"}, jobs : SUBSET (Chain \X (Nat \ {0}))]
Checking == [at : {"looked", "counted", "verdict"}, created : 0..MaxJobs, blind : BOOLEAN]

(* Types; a reference and its job come and go together, an open block has  *)
(* a job that works on it, and no loop that is gone holds a reading.       *)
TypeOK ==
  /\ open \in BOOLEAN /\ proved \in 0..MaxJobs
  /\ settled \in [Chain -> 0..MaxJobs]
  /\ \A c \in Chain : settled[c] <= proved
  /\ work \in [at : Where, block : BOOLEAN] /\ (open => Live(work) /\ work.block)
  /\ job \in [Chain -> [at : Where, id : Nat]]
  /\ \A c \in Chain : Live(job[c]) <=> job[c].id # 0
  /\ created \in 0..MaxJobs /\ stale \in 0..MaxStale /\ faults \in 0..MaxFaults
  /\ due \in [Coordinator -> BOOLEAN] /\ tracked \in [Coordinator -> BOOLEAN]
  /\ queue \in [Coordinator -> SUBSET Chain]
  /\ \A k \in Coordinator :
       /\ check[k] = Idle \/ check[k] \in Checking
       /\ \A l \in Loop :
            \/ analysis[k][l] = Idle
            \/ analysis[k][l] \in Reading
            \/ analysis[k][l] \in Terminations

(* What "can be safely removed" (settlement.rs) is worth at the end of the *)
(* check, when its readings are three calls old and agents, applications   *)
(* and other loops have gone on: an instance is forgotten with an          *)
(* unfinished job or an unsettled block only when the application has      *)
(* created a job since, or when a call of the check failed or the failed   *)
(* counter was too high, and hid a running job.                            *)
OnlyNewWorkIsForgotten ==
  \A k \in Coordinator :
    check[k].at = "verdict" /\ check[k].created = created =>
      /\ NothingToDo
      /\ Live(work) => stale > 0 \/ check[k].blind

Tracked == \E k \in Coordinator : tracked[k]

(* Every proved block is settled on every chain as long as some            *)
(* coordinator tracks the instance: a chain that falls behind gets a job,  *)
(* although loops that act on old readings terminate jobs that are needed  *)
(* again, requests for jobs are lost and the coordinator of a running job  *)
(* crashes.                                                                *)
SettledWhileTracked ==
  \A c \in Chain : <>[]Tracked => []<>(settled[c] = proved)

(* "No settlement opportunities for any chain - terminate all existing     *)
(* settlement jobs" (proof.rs:238): while somebody tracks the instance, a  *)
(* chain on which everything is settled does not keep its job for ever.    *)
SettlementJobsEnd ==
  \A c \in Chain : <>[]Tracked => []<>(~Live(job[c]) \/ settled[c] < proved)
=============================================================================
