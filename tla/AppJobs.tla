------------------------------ MODULE AppJobs ------------------------------
(***************************************************************************)
(* The job calls of an app instance (app_instance.move) on top of Jobs: a  *)
(* settlement of the instance refers to the job that settles its chain,    *)
(* and there is to be one such job per chain.  The instance clears the     *)
(* references of the jobs it terminates; jobs that leave the table by      *)
(* other ways leave their reference behind until validate_settlement_jobs  *)
(* is called.                                                              *)
(***************************************************************************)
EXTENDS Jobs

CONSTANT Chain     \* settlement chains of the instance

ASSUME AppAssumption == None \notin Chain /\ MaxBatch > 0

VARIABLES
  refs,            \* chain -> its settlement_job, seen by the running call
  committedRefs,   \* the same after the last call that succeeded
  chainOf          \* history: job sequence -> the chain it was created for

appVars == <<jobs, committed, ops, memory, now, refs, committedRefs, chainOf>>

AppInit ==
  /\ Init
  /\ refs = [c \in Chain |-> None]
  /\ committedRefs = refs
  /\ chainOf = [s \in Sequence |-> None]

SetRefs(R) == refs' = R /\ committedRefs' = R

(* create_app_job: refused before the job is created when the chain has a  *)
(* settlement job.                                                         *)
ChainIsFree(chain) == chain # None => refs[chain] = None

CreateAppJob(m, interval, delay, chain) ==
  /\ ChainIsFree(chain)
  /\ Create(m, interval, delay)
  /\ IF chain = None
     THEN UNCHANGED <<refs, committedRefs, chainOf>>
     ELSE /\ SetRefs([refs EXCEPT ![chain] = jobs.next])
          /\ chainOf' = [chainOf EXCEPT ![jobs.next] = chain]

ClearRefs(S) == [c \in Chain |-> IF refs[c] \in S THEN None ELSE refs[c]]

Terminated(batch) ==
  {batch[i].seq : i \in {j \in DOMAIN batch : batch[j].kind = "terminate"}}

(* multicall_app_job_operations clears the references of all the jobs it   *)
(* is to terminate, there or not, before the first operation.              *)
BeginAppBatch(batch, available) ==
  /\ BeginBatch(batch, available)
  /\ refs' = ClearRefs(Terminated(batch))
  /\ UNCHANGED <<committedRefs, chainOf>>

(* terminate_app_job clears nothing for a job that does not exist; its     *)
(* search stops at the first chain, which is the only one.                 *)
BeginTerminate(s) ==
  /\ JobExists(jobs, s)
  /\ \E a \in Memory :
       BeginBatch(<<[kind |-> "terminate", seq |-> s, mem |-> 0]>>, a)
  /\ refs' = ClearRefs({s})
  /\ UNCHANGED <<committedRefs, chainOf>>

(* Operations of the batch leave the references alone; what the call did   *)
(* to them becomes visible with its end.                                   *)
AppOperation ==
  /\ Complete \/ Fail \/ Terminate \/ Start \/ SkipStart
  /\ committedRefs' = IF ops' = <<>> THEN refs ELSE committedRefs
  /\ UNCHANGED <<refs, chainOf>>

(* Slip: an abort forgets to restore the references.                       *)
AbortTableOnly == Abort /\ SetRefs(refs) /\ UNCHANGED chainOf

AppAbort == Abort /\ SetRefs(committedRefs) /\ UNCHANGED chainOf

(* complete_app_job, fail_app_job and start_app_job are batches of one;    *)
(* update_max_attempts is a function of the package without a caller.      *)
AppCall ==
  /\ \/ \E S \in SUBSET Sequence : Restart(S) \/ Remove(S)
     \/ \E n \in MaxAttempts : SetMaxAttempts(n)
     \/ Tick
  /\ UNCHANGED <<refs, committedRefs, chainOf>>

IsOrphan(c) == refs[c] # None /\ ~JobExists(jobs, refs[c])

ValidateSettlementJobs ==
  /\ Idle
  /\ \E c \in Chain : IsOrphan(c)
  /\ SetRefs([c \in Chain |-> IF IsOrphan(c) THEN None ELSE refs[c]])
  /\ UNCHANGED <<vars, chainOf>>

AppNext ==
  \/ \E m \in Method, i \in Intervals, d \in StartTimes,
        c \in Chain \cup {None} : CreateAppJob(m, i, d, c)
  \/ \E b \in Batches, a \in Memory : BeginAppBatch(b, a)
  \/ \E s \in Sequence : BeginTerminate(s)
  \/ AppOperation \/ AppAbort \/ AppCall
  \/ ValidateSettlementJobs

AppSpec == AppInit /\ [][AppNext]_appVars

-----------------------------------------------------------------------------
(* Properties.                                                             *)

(* Readers between calls find every settlement job that is still in the    *)
(* table referred to by its chain: no chain ever has two, which would      *)
(* settle the same blocks twice, although the reference and the job are    *)
(* removed in different steps of a call that may abort in between.         *)
LiveSettlementJobIsReferenced ==
  \A s \in DOMAIN committed.table :
    chainOf[s] # None => committedRefs[chainOf[s]] = s

(* A chain refers to no job but its own, so no two chains share one and    *)
(* the search of terminate_app_job may stop at the first it finds.         *)
ReferencesPointHome ==
  \A c \in Chain : refs[c] # None => chainOf[refs[c]] = c
=============================================================================
