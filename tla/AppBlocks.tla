----------------------------- MODULE AppBlocks -----------------------------
(***************************************************************************)
(* An app on its instance, as examples/add is: each of its calls commits   *)
(* an action, creates the job that proves it, and increases the sequence,  *)
(* in one transaction.  Module Blocks has the instance's blocks, module    *)
(* AppState its state and rollback records; what ties them together is     *)
(* here: which commitments a block is given, which block a job names, and  *)
(* that a purge reaches the states and the records of the same sequences.  *)
(***************************************************************************)
EXTENDS Blocks, AppState

ASSUME AppBlocksAssumption == MaxAction > MaxSequence

VARIABLES
  lastCommitment,  \* previous_block_actions_state
  ends,            \* per block: its start and end commitments
  jobBlock         \* history: sequence -> the block its job was created for

appVars == <<vars, state, rollback, lastCommitment, ends, jobBlock>>

AppInit ==
  /\ Init
  /\ StateInit
  /\ lastCommitment = Zero
  /\ ends = [n \in {0} |-> [start |-> Zero, end |-> Zero]]
  /\ jobBlock = [s \in {} |-> 0]

(* create_block_internal, if this step has closed a block; the commitment  *)
(* the code calls that of the actions is that of the state.                *)
BlockCommits(commitment) ==
  IF current' = current THEN UNCHANGED <<lastCommitment, ends>>
  ELSE /\ ends' = With(ends, current, [start |-> lastCommitment, end |-> commitment])
       /\ lastCommitment' = commitment

(* Slip: the job is created after the sequence was increased.              *)
BlockOfJobLate == current'

BlockOfJob == current

(* Slip: the block is given the commitment from before the action.         *)
CallIncreasesFirst ==
  /\ CommitAction
  /\ IncreaseSequence
  /\ BlockCommits(state.commitment)
  /\ jobBlock' = IF sequence = 0 THEN jobBlock
                 ELSE With(jobBlock, sequence, BlockOfJob)

(* init_app_with_instance, which creates no job, then add and multiply.    *)
Call ==
  /\ CommitAction
  /\ IncreaseSequence
  /\ BlockCommits(state'.commitment)
  /\ jobBlock' = IF sequence = 0 THEN jobBlock
                 ELSE With(jobBlock, sequence, BlockOfJob)

AppTryCreateBlock ==
  /\ TryCreateBlock
  /\ BlockCommits(state.commitment)
  /\ UNCHANGED <<state, rollback, jobBlock>>

AppTxIncluded(c, n) ==
  /\ TxIncluded(c, n)
  /\ ends' = [m \in DOMAIN blocks' |-> ends[m]]
  /\ UNCHANGED <<state, rollback, lastCommitment, jobBlock>>

(* The records go first; if their list refuses, nothing is purged.         *)
AppPurge(k) ==
  /\ PurgeRecords(PurgeTo(k))
  /\ Purge(k)
  /\ UNCHANGED <<state, lastCommitment, ends, jobBlock>>

(* Everything else leaves the app's state and the commitments alone.       *)
Elsewhere ==
  /\ \/ \E n \in BlockNumber :
          \/ SubmitFull(n) \/ LoseFull(n)
          \/ UpdateStateData(n) \/ UpdateProofData(n)
     \/ \E c \in Chain, n \in BlockNumber : UpdateTxHash(c, n)
     \/ Tick
  /\ UNCHANGED <<state, rollback, lastCommitment, ends, jobBlock>>

AppNext ==
  \/ Call \/ AppTryCreateBlock
  \/ \E c \in Chain, n \in BlockNumber : AppTxIncluded(c, n)
  \/ \E k \in 1..MaxSequence : AppPurge(k)
  \/ Elsewhere

AppSpec == AppInit /\ [][AppNext]_appVars

-----------------------------------------------------------------------------
(* The records left are those of the sequences whose states are left,      *)
(* although records are numbered from 1 and states from 0.                 *)
RecordsOfKeptStates == DOMAIN rollback.records = {s + 1 : s \in states.present}

(* The list of records refuses no purge that the instance would make.      *)
PurgesAreAccepted ==
  \A k \in 1..MaxSequence :
    PurgeTo(k) > purged => PurgeTo(k) \in rollback.start..rollback.end

(* Purges and calls in any order keep states and records in step, and      *)
(* undoing the records, newest first, leads back to the state as it was    *)
(* after any sequence since the last purge.                                *)
RecordsReachTheStates ==
  /\ RecordsOfKeptStates
  /\ PurgesAreAccepted
  /\ \A k \in purged..state.sequence : RolledBack(k) = StateAfter[k]

(* A block commits to the state after its last sequence and starts from    *)
(* the end of the block before it, also when that was deleted meanwhile;   *)
(* the first one starts from zero, whatever sequence 0 has written.        *)
BlocksCommitToTheirEnd ==
  \A n \in DOMAIN blocks \ {0} :
    /\ ends[n].end = Commitment(StateAfter[blocks[n].last + 1])
    /\ ends[n].start = IF n = 1 THEN Zero
                       ELSE Commitment(StateAfter[blocks[n].first])

(* Sequence s belongs to block n: open, closed or deleted.                 *)
BlockHolds(n, s) ==
  \/ n = current /\ s > previous.last
  \/ n \in DOMAIN blocks /\ blocks[n].first <= s /\ s <= blocks[n].last
  \/ n <= settled.block /\ s <= settled.sequence

(* The job of a sequence names the block the sequence ends up in, although *)
(* the job is created before the sequence is, the same call may close the  *)
(* block, and the block may be gone before the job.                        *)
JobsNameTheirBlock == \A s \in DOMAIN jobBlock : BlockHolds(jobBlock[s], s)
=============================================================================
