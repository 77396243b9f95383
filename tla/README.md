# A TLA+ model of the Silvana coordination layer

Silvana runs provable applications. An *app instance* is an object on a
coordination chain (the Move package `move/coordination`). Users add *sequences*
of actions to it; sequences are collected into *blocks*; *agents* prove every
sequence and merge the proofs until one proof covers the block; the block is
then *settled* on one or more settlement chains. The work is cut into *jobs* on
the chain. *Coordinators* (`crates/coordinator`) watch the chain, start jobs,
run agents in containers and report the results, and several of them work on
the same instance without talking to each other.

This directory specifies in TLA+ the contract side of that system, the queue
through which a coordinator talks to it, what a coordinator does with the jobs it
has started, how it plans merges and keeps an instance settled, the object locks
of the state service and the indexed Merkle map whose proofs the applications
verify. TLC checks all of it; TLAPS proves the contract side, the locks, the map,
the containers and the check that forgets an instance correct.

## 1. Inventory

| Part | State | Operations | What makes it correct |
|---|---|---|---|
| Job table, `jobs.move` | the table of jobs, the pending set with its counter and its developer/agent/method index, the failed index with its counter, `next_job_sequence`, `max_attempts` | create, start, complete, fail, restart, remove, terminate, multicall | the indexes agree with the statuses; attempts and memory do not overflow; periodic jobs keep their spacing; an aborted call leaves no trace |
| App instance, `app_instance.move`: jobs | per settlement chain the `settlement_job` | `create_app_job`, `terminate_app_job`, the multicall, `validate_settlement_jobs` | one settlement job per chain, found through its reference |
| App instance: blocks | the next sequence, the open block, the tables of blocks and proof calculations, per chain the last settled block and its transactions, sequence states, the frontiers (proved, settled, purged) | `increase_sequence`, `try_create_block`, `submit_proof`, data availability, settlement transactions, `purge` | blocks tile the sequences; nothing goes before every chain has settled it; frontiers agree and never go back |
| Proof calculation, `prover.move` | the proofs of one block by the sequences they cover, `end_sequence`, `is_finished` | `start_proving`, `submit_proof`, `reject_proof`, `set_end_sequence` | held proofs can be used; the full proof is never missed; the calculation finishes once |
| Merge planning, `merge.rs` | none (readings of the chain) | analyse a block, decide on merges, queue them | decisions made from old readings do no harm; all merges belong to one tree, whatever was known of the block's end; a block is never stuck |
| Multicall queue, `state.rs`, `multicall.rs` | request queues per instance, the batch in flight, the buffer of started jobs | queue, take a batch, execute, return after a failure | no operation is lost or harmful when repeated |
| Job searcher and tracker, `job_searcher.rs`, `jobs.rs`, `multi_layer_processor.rs` | instances with jobs, agent-method index, a flag | add on an event, check and remove, fetch pending jobs | an instance with work is visited; only what is done is forgotten |
| Settlement loop, `proof.rs`, `settlement.rs` | none (readings of the chain) | create and terminate settlement jobs | every proved block is settled; jobs that are not needed go |
| Containers, `docker.rs`, `agent.rs`, `grpc.rs`, `job_lock.rs` | jobs by session and by id, locks, running containers | start a container, `get_job`, `complete_job`, `fail_job`, clean up | a start is given to one session only, and somebody ends it; a session leaves nothing behind |
| Reconciliation, `coordinator.rs` | none | fail jobs that run for too long | a Running job does not run for ever |
| State service, `crates/state` | rows of `object_lock_queue` and `lock_request_bundle`; objects with versions | `request_locks`, `release_locks`, the sweep of lapsed leases; single queries | a bundle is held whole or not at all; exclusion; no circular wait; no lost update |
| Indexed Merkle map, `crates/indexed-merkle-map` | sorted leaves, their indices, the nodes of a sparse tree, the root | insert, update, set; proofs and witnesses; their verification | the leaves' links leave no gap; proofs decide membership; a witness takes the old root to the new one |
| Commitments, `move/commitment` | elements of the app's state, its commitment, rollback records | commit an action, purge records | the commitment follows the table; records lead back to every state that is kept; blocks commit to the state at their end |
| Event buffer, `crates/buffer`; coin locks of `crates/sui` | counters, permits, breaker; locks | enqueue and flush; lock and release | accounting; mutual exclusion |

*Interactions.* Coordinators read the chain and send transactions; the chain
executes them one after the other and an aborted transaction changes nothing.
A coordinator's decision is therefore always older than the state its
transaction meets. The job table, the proof calculations and the blocks of one
instance change together in one transaction. Agents act through a coordinator:
they submit proofs and complete or fail their job, late or twice.

*Hard behaviour.* Interleaved decisions of coordinators, late and repeated
submissions, timeouts of five minutes (proofs) and ten minutes (jobs),
multicalls that abort half-way, several settlement chains at different heights,
coordinators that lose their memory, calls of agents that run beside the task of
their container and are cut off at any `await`, database transactions that read
from a snapshot and commit later. `PROJECT.json` lists the hazards, each at
its line with the properties that cover it.

## 2. Modules

| Module | Models |
|---|---|
| `JobStore` | `jobs.move` as operators from the table before a call to the table after it, and the invariant `JobsInv` of a table |
| `Jobs` | the table under calls and multicalls, one operation per step; `committed` is what others read |
| `JobLifecycle` | abstract: the life of each job as readers see it |
| `AppJobs` | `Jobs` with the settlement references of the app instance |
| `Prover` | the proof calculation of one block and the coordinators that merge its proofs |
| `Calculation` | abstract: what a calculation promises to the instance that owns it |
| `Blocks` | blocks, settlement and purge of one instance, over an abstract calculation per block |
| `AppState` | the committed state of an app: commitment by increments, rollback records |
| `AppBlocks` | an app on its instance: `Blocks` with `AppState`, the commitments of blocks and the block each job names |
| `Multicall` | a coordinator's request queues, batches, transactions and buffer of started jobs, with the jobs on the chain and other coordinators |
| `MergePlanner` | the planner's choice of merges, bottom-up and top-down, over the calculation of `Prover` |
| `Settling` | what coordinators do to keep one instance settled: events, tracking, the analysis loops, searches, reconciliation and the check that forgets the instance |
| `Containers` | the docker loop, the task of each container, the calls of its agent, the tables between them, reconciliation and shutdown |
| `LockQueue` | the object locks of the state service, statement by statement |
| `IndexedMap` | the map, its tree, its proofs and witnesses and their verification |
| `KeyValueMap` | abstract: a map from keys to values that refuses what is present, absent or too much |
| `MCAppJobs`, `MCBlocks`, `MCMulticall`, `MCContainers`, `MCLockQueue` | values of the constants and symmetry for TLC |
| `JobsProofs`, `ProverProofs`, `BlocksProofs`, `ContainersProofs`, `SettlingProofs`, `LockQueueProofs`, `IndexedMapProofs`, `MulticallProofs` | the proofs |

`AppJobs` extends `Jobs`, which extends `JobStore`. `Jobs` is shown to implement
`JobLifecycle`. `Prover` and `Blocks` meet in `Calculation`: `Prover` implements
it for one block with all its proofs, and every calculation in `Blocks` is shown
to take only steps of it, so the table of calculations in `Blocks` stands for as
many instances of `Prover`. `AppBlocks` extends `Blocks` and `AppState` and is
shown to implement `Blocks`. `Multicall` sees a job through its life (`chain`:
pending, running, over, and its runs), the abstraction of `jobs.move` that
`JobLifecycle` is too (`TransactionsAreCalls` of `MulticallProofs` proves that its
transactions are calls of `JobLifecycle`); `AfterEnds` and `Starts` are the phases of
one multicall in the order `Jobs` has them. `MergePlanner` extends `Prover` and restricts its
`Request` to merges that some coordinator has planned: `Prover` holds for any
planner, `MergePlanner` says what this one makes of it. `Containers` begins where
`Multicall` ends: a request is executed some time after it was made, and a start
that succeeded is in the buffer. `Settling` has the jobs of `AppJobs` and the
blocks of `Blocks` as far as a coordinator can tell them apart: an open block or
none, how many blocks are proved and settled, one ordinary job and a settlement
job per chain. `IndexedMap` implements `KeyValueMap`.

### State and code

* A job record keeps `status`, `attempts`, `interval_ms` (`interval`),
  `next_scheduled_at` (`nextAt`) and its agent method. `endedAt` is `updated_at`
  as the end of a run leaves it on a periodic job. `table`, `pending`,
  `pendingCount`, `index`, `failedIndex`, `failedCount`, `next` and
  `maxAttempts` are the fields of `Jobs`. `attempts` is a `u8`; its largest
  value is the constant `U8Max`, which the runs set to 2 so that it is reached.
* `multicall_job_operations` takes a list per kind of operation; `Jobs` takes one
  sequence of operations that respects the order of the kinds
  (`InPhaseOrder`), and processes one per step. `memory` is the budget of the
  running call. `Abort` takes the whole call back. A clock tick happens between
  calls only: a transaction has one timestamp.
* In `AppJobs`, `refs` and `committedRefs` are the `settlement_job` fields as the
  running call and as other readers see them. `chainOf` is a history variable.
* In `Prover`, `proofs` is the `VecMap` of proofs. The sequences of a proof form
  an interval, as those of every merge the planner makes do; `requests` are
  merges a coordinator has decided on and `merges` those with a job, whose agent
  may submit at any later time and again.
* In `Blocks`, `chains` is the `settlements` map, `settled`, `lastProved`,
  `purged` and `previous` are the fields of `AppInstance`, `states` the sequence
  state manager. One action is one transaction.
* In `AppState`, `state` is `AppState` of `state.move` and `rollback` the
  `Rollback` in it. A commitment is a sum of digests, each times a power of `r`;
  the model keeps the coefficient of each power and takes a value for its digest.
  The rollback record stands for its hash. The app of `AppBlocks` is
  `examples/add`: `Call` is one of its transactions, `commit_action`,
  `create_app_job` and `increase_sequence` together. `lastCommitment` is
  `previous_block_actions_state`, `ends` the start and end commitments of the
  blocks, `jobBlock` a history of the block each job was created for; how that
  job lives on is `AppJobs`.
* In `Multicall`, `requests` is `multicall_requests`, a record per app instance
  instead of a map entry that comes and goes; `work` counts merges, proofs and
  state updates, which the queue treats alike. `batch` is the local state of
  `execute_multicall_batch`: the app instances of the cycle (`apps`, in the
  order the hash map gave them), how far it is (`next`), its limit, what it has
  taken (`ops`), how much that is (`count`) and, once executed, the starts that
  succeeded (`started`). `Take` is one call of `take_partial_multicall_operations`, which holds the
  queue's lock across its reads of the chain. `Execute` may happen again: the
  client repeats a transaction after a timeout or version conflict. `Error` is
  the branch that returns the operations and halves the limit. `buffer` counts
  the entries of `started_jobs_buffer` per job. `ours` is a history variable: a
  run this coordinator started, was told of and has not handed on.
* In `MergePlanner`, `plan` is what some coordinator has planned and may still
  try: `Analyse` reads the proofs as they are but the end of the block as an
  earlier reading had it, and each merge is tried later against a fresh reading.
  `TopDown` and `BottomUp` are the two searches of `find_all_proofs_to_merge`.
* In `Containers`, a step is what happens under one lock, or one read of the
  chain: `loop` is the docker loop and the entry it holds, `task` the task of a
  session, `call` its agent's call in flight; `session_jobs`, `running_jobs` and
  `session_index` are the maps of `AgentJobDatabase`. A start is a job with its
  attempt, which the code does not have: it tells the runs of one job apart.
  `lost` and `clean` are history variables: starts that a named failure (a search
  that is cut off, a layer that cannot be read, a task without a session) has made nobody's, and sessions
  none of whose calls outlived them or was cut off. `add_session_job` takes two
  locks in a row that nobody can tell apart and is one step.
* In `Settling`, `tracked` is the presence of the instance in
  `app_instances_with_jobs`, `due` a `JobCreatedEvent` that is on its way, `queue`
  the `create_app_jobs` of the multicall queue, which holds one settlement job per
  chain. `analysis` is what a loop (the searcher's or the periodic one) has read
  and what it has still to terminate; `check` is how far `can_remove_app_instance`
  has come. `stale` is by how much `failed_jobs_count` is too high, which
  `terminate_job` can make it; `blind` says that a call of the check failed and
  counted as 0. A job whose coordinator has died is "orphan".
* In `LockQueue`, `rows` is `object_lock_queue`, `bundle` is
  `lock_request_bundle`. A transaction's decision (`Decide`, from its snapshot)
  and its commit (`Grant`) are two steps; `queued_at` is the `now` of the call,
  taken before its rows are inserted. `LAPSED` is a granted row whose lease has
  passed, which the table does not say until the sweep writes it.
* In `IndexedMap`, `sorted_leaves`, `leaf_indices`, `nodes`, `internal_root` and
  `next_index` are the fields of the Rust struct; `witness` is what the last
  operation returned. A hash is the term it was computed from.

### Assumptions about the environment

* Proof data availability of a block is recorded only once its calculation is
  finished. The contract does not enforce this (the admin check is commented
  out in `app_instance.move`); the coordinator calls it with the block's proof.
* Coordinators and chain share the clock in `Prover`; a clock that is off shows
  as a decision from an older reading, which the model allows anyway.
* A call is given arguments of its types. Calls that the contract rejects with an
  assertion before they change anything are not steps.
* In `Multicall` and `Containers` the coordinator's tracker keeps every app
  instance that has jobs (`Settling` says when it does); its reads of the chain see
  the current state, or fail. A job counts as stuck whenever it is Running: the
  ten minutes have passed.
* In `Settling` an agent completes a settlement job when everything proved is
  settled, and an ordinary job that fails runs again: jobs that fail for good and
  the slots of periodic jobs are `Jobs`.
* Hashes do not collide and no leaf or node hashes to zero (`IndexedMap`). A
  tree has at least two levels: `map.rs:34` allows a height of 1, for which the
  root never moves and every proof is refused; it is excluded from all that is
  checked or proved of the map. `WitnessesVerify` is about the witnesses the map
  itself makes; what `ProvableIndexedMerkleMap::insert` makes of any other (it
  computes the root after the low leaf's update, `provable.rs:286`, and compares it
  with nothing) is not looked at.
* The job lock of `job_lock.rs` is always had, since its timeout is 0 seconds
  (`Containers`). A session id is not used twice. An app instance in the
  buffer has a layer.
* The database gives transactions a snapshot at their first read, as InnoDB's
  repeatable read does; a single statement is atomic (`LockQueue`).
* The ids of settlement chains are fixed at creation, as in
  `create_app_instance`; the code has no call that adds one.

## 3. Runs

| Run | Bounds | What it shows |
|---|---|---|
| `jobs` | 2 jobs, 2 methods, 2 chains, clock 0..1, batches of up to 2 operations, intervals none, too short and minimal, first slot none or due, 1 or 2 attempts, `u8` up to 2 | `PendingAgrees`, `FailedAgrees`, `AttemptsNeverOverflow`, `MemoryBudget`, `LiveSettlementJobIsReferenced`, `PeriodicSpacing`, `ImplementsLifecycle` |
| `blocks` | sequences 0..3, 2 chains, clock 0..3, minimum time 0; 3 elements of state, 4 actions that write up to 2 | `BlocksTile`, `TablesHoldTheUnsettled`, `ProvedFrontier`, `SettledIsProved`, `PurgeKeepsTheUnsettled`, `ImplementsCalculations`, `CommitmentIsOfTheState`, `RecordsReachTheStates`, `BlocksCommitToTheirEnd`, `JobsNameTheirBlock` |
| `multicall` | 2 app instances with 1 job each, batches of 2, 1 run per job, 1 request from agents or application (reconciliation and searcher are not bounded), 1 failure or crash | `TypeOK`, `StartedJobsAreFollowed`, `RequestsAreKept` |
| `multicall_live` | the same with batches of 1 and no outside request | `RunsEnd`, `PendingJobsStart` |
| `planner` | blocks of up to 4 sequences, two clock values, timeout 0 | `HeldProofsHaveData`, `NoFullProofIsMissed`, `ProofsFitTheTree`, `NeverStuck`, `ImplementsCalculation` |
| `settling` | 1 chain, 1 coordinator with 2 loops, 2 ordinary jobs, a failed counter that is right or 1 too high, 2 failures | `TypeOK`, `OnlyNewWorkIsForgotten`, `SettledWhileTracked` |
| `containers` | 1 job with 2 runs, 2 sessions, 1 container at a time, 1 retry, 1 cut-off call or a shutdown | `TypeOK`, `StartsAreFollowed`, `EndsLeaveNothing` |
| `locks` | 2 requests for the same 2 objects, 1 cut-off call | `GrantedBundlesAreWhole`, `ExclusiveOnceQueued`, `NoCircularWait` |
| `indexed_map` | 6 keys, 2 values, a tree of 4 leaves | `GapsAreEmpty`, `ProofsDecide`, `WitnessesVerify`, `ImplementsMap` |
| `failed_index`, `stuck_merge`, `idle_settlement` | as above, smaller | a statement of the code's comments or assertions that the code does not keep (section 5) |

What is proved (section 4) has no run where the proof makes one needless: the
types of `Jobs`, `Blocks` and `LockQueue`, `NeverBack` and `RecordsOfKeptStates`.

Why the bounds are enough. *Jobs:* the functions look at one job at a time, so
what two jobs can show is an operation that touches another job's entry, a batch
that names one job twice, two jobs of one or of two methods, and a budget that
serves one of two; two attempts reach both branches of `fail_job` and a limit
that changes between them; clock 0..1 reaches due and one period later. Two chains
have each a settlement job, or one has a second job in line. *Blocks:* four sequences and a minimum time of 0, where one
tick separates blocks, give three blocks and the open one; two chains settle at
different heights, and deletion, purge and further settlement overlap. A tick
stands for more than the minimum time; the strict comparison of the code is kept.
The four actions (`Writes`) add elements, change one, write one twice in a row and
write a zero, which is an element but adds nothing to the commitment; what an
action writes depends on its number only, since neither blocks nor purges look at it.
*Multicall:* two app instances compete for a batch, fill it together, share job
sequences and fail together; a batch of two is halved once and given up at one.
One failure is enough to lose an answer, repeat an execution, return a batch or
crash in any phase; the bound on failures is also what "once the failures stop"
means in the liveness properties. Two requests of one job in a batch come from
reconciliation and agent together.
*Planner:* four sequences give several ways to merge the same interval, and merges
inside merges that share a part; timeout 0 and two clock values give fresh and
stale proofs of each. They have trees of one, two and three levels, and a range of
three, whose split is not in the middle; the bottom-up search makes pairs and a
quad, and every block may be closed between any two of its steps. *Containers:*
two starts of one job are what one can mistake for the other; two sessions hold
them at once, ask at once and end while the other lives; one retry reaches both
the return of an entry and its end, one container reaches the limit; a call that
is cut off during a shutdown is left to the proof, which bounds neither. *Settling:* two jobs prove two blocks, so that a settlement job
may be terminated on a reading of the first and needed for the second, or the
second comes while the check for removal runs; two loops hold two readings, which
is also what several coordinators do to each other, and two failures are enough
to lose a request and an event or to crash and fail. Two coordinators with one
loop each and one failure satisfy the safety properties too (1.4 million states;
too many for the liveness property). *Locks:* two
bundles over the same two objects can each be first in one queue, hold a part,
lapse between decision and commit, and be swept, released or cut off at every
statement; what any number of requests does is proved (section 4). *Map:* keys
below, between and above those in the map, the root leaf, neighbours without a
gap, and a tree that is full.

`CHECK_DEADLOCK FALSE` is set, except for `indexed_map`, because the bounds on
sequences, jobs, starts and the clock end every behaviour of these models; the code has no step it waits for inside a
contract call.

*Fairness.* `FairSpec` of `Multicall` assumes weak fairness of the multicall
cycle (a loop that runs every second), of the searcher for each pending job and
of reconciliation for each running job (loops without end). `Error` has no
fairness and is bounded by `MaxFaults`. Nothing is assumed of agents, of
containers (`HandOver`) or of other coordinators. The liveness found this way
rests on the bounds in one respect: an endless flow of other requests could keep
a job's request out of every batch, since batches are filled in the order of a
hash map and starts come last. `FairSpec` of `Settling` assumes that the loops of a coordinator run for ever,
each with its own fairness, the searcher's loop with one for all it does; that
events arrive and queued requests are sent; and, unlike `Multicall`, that
agents get on with the jobs they have: without that nothing is ever settled. The
failures that `Fault` counts have no fairness and are bounded. The other
specifications state safety only: the contract does nothing on its own.

## 4. Proofs

`JobsProofs` proves of `Jobs`, for every number of jobs, methods, intervals, attempts,
memory values and batch sizes:

* `Invariance`: `Spec => []IInv`, and from it `TypeCorrect`,
  `PendingAlwaysAgrees`, `FailedAlwaysAgrees`, `AttemptsAlwaysFit`,
  `MemoryAlwaysSuffices`;
* `PeriodicRunsAreSpaced`: the action property `PeriodicSpacing`;
* `Implementation`: `Spec => ImplementsLifecycle`, the refinement of
  `JobLifecycle`.

They rest on the assumptions named in the modules: `NoneAssumption`,
`IntervalAssumption` (the retry delay is at least the minimum interval; both are
60 000 ms in the code), `U8Assumption`, `BoundsAssumption`.

*The argument.* `JobsInv` (in `JobStore`) is an invariant of a table;
the first part of `JobsProofs` shows for every function that it takes a table with `JobsInv` to
one with `JobsInv`. That is not enough for a multicall: an abort restores
`committed`, and readers compare `committed` before and after a call of many
operations. `IInv` therefore says `JobsInv` of both tables, that the operations
left are in phase order, that the working table has `Evolved` from the committed
one by moves that one call may make, and that a job which runs in the working
table while operations other than starts remain was Running before the call
(`RunsAreOld`): because starts come last, no run can begin and fail inside one
call. The order of the phases is needed exactly there, and the mutant that puts
the starts first breaks the refinement. `PeriodicSpacing` needs a further
invariant (`SpacedInv`), since an abort may bring an earlier run back.

Its last part proves that the calls of an app instance are calls of `Jobs`
(`AppImplementsJobs`), so that all of the above holds of an instance, and the two
properties of the references. `LiveSettlementJobIsReferenced` speaks of what
readers see; inside a call it is false, since the references go first. The
invariant (`AppInv`) says that a settlement job of the working table is referred
to, or is named by a terminate operation that the call has still to process
(`ReferencedOrEnding`); when the last operation is done nothing is left to be
named, and an abort brings back the references with the table.

`LockQueueProofs` proves the four properties of the run `locks` for any objects,
requests and bundles. The inductive invariant says of every row what its call may
be doing (`RowAgrees`), of every call what its bundle says (`CallAgrees`), that
what a transaction or the sweep has read as lapsed never holds again
(`OldReadsAgree`), and who was in front of whom when a grant was decided. The
argument for `NoCircularWait` takes the waiting request with the least
`queued_at`: all rows of a bundle have the same one, so it heads
every queue it is in.

`IndexedMapProofs` proves all properties of the run `indexed_map`, for every set of
keys and every height but 1, as above. The list part (`ListInv`, `IndexInv`) says that the list is sorted,
starts with the zero leaf, links every leaf to the next one and the last to zero, and
that `leaf_indices` names each leaf once, in the order of insertion; `GapsAreEmpty` and
the refinement of `KeyValueMap` follow. The tree part begins with the equations of its
recursive functions (`Indices`, `TablesUpTo`, `RootClimbs`, `NewLevels`). A leaf
`Holds` in a tree when every node above it is the hash of the two below. `TreeAfter`
says that `update_tree` makes its leaf hold and changes no node off its path, so the
others still hold (`StaysOnPath`: a node off the path has no child on it), and
`RootOnPath` that a leaf which holds climbs to the root. The state of `new` is the
exception the code makes: its levels are one hash behind, no node above the first leaf
is the hash of what is below, and yet its proof is right, because all siblings are
empty (`NewRoot`); `TreeInv` therefore says `Fresh` or `Whole`, and the first operation,
which always changes the first leaf, makes a fresh tree whole. A witness of an insertion
needs two trees: the new leaf's path is that of the tree with the low leaf updated.

`ProverProofs` proves the type invariant of `Prover`, `HeldProofsHaveData`,
`NoFullProofIsMissed` and the refinement of `Calculation`, for every number of
sequences and every timeout, and whatever merges coordinators ask for, hence under
the planner there is, which the run `planner` checks (`PlannerImplementsProver`).
`Good` says of a
table of proofs that its parts split their intervals, that what is held has data
and that no proof reaches past the last sequence; the last is what makes the full
proof vanish when a sequence joins the block. `FullProof` says what the proof of
the whole block can be until the block is finished. It survives the calls on other
proofs because a whole block is no part of a merge within the block
(`BlockIsNoPart`): no reservation, release or use changes it.

The planner's own properties, `ProofsFitTheTree` and `NeverStuck`, follow from the
shape of the tree. `PowerBelowExists` says that `largest_power_of_two_below` finds its
power and `RangesSplit` that a range splits into two shorter ones; by that the
searches, recursive functions on ranges, exist and have their equations (`Gathering`).
A top-down search finds merges of nodes (`TopDownFindsNodes`). That a bottom-up one
does, before anyone knows where the block ends, is the point of the alignment
(`ChunksAreNodes`): a range that starts at a multiple of a power of two at least as
long as itself has halves of that kind (`HalvesAreRegular`), and its split never falls
inside an aligned chunk (`ChunksAreNotSplit`), so the way down from the block passes
through each of them. `FitInv` says so of all keys of the table, the plans, the
requests and the jobs, for every end the block may yet get: plans outlive the reading
they were made from. For `NeverStuck`, the search goes down as long as a half has
no proof; single sequences have one, so it ends at a range whose halves both have
one, done or timed out (`SearchGoesOn`).

`BlocksProofs` proves of `Blocks` the types, `BlocksTile`, `TablesHoldTheUnsettled`,
`ProvedFrontier`, `SettledIsProved`, `PurgeKeepsTheUnsettled` and `NeverBack`, for
every set of chains and every bound. `SettledIsProved` is not inductive: that a
block which has been proved is finished comes from `proofData` being stored with
the finishing proof only, and that all blocks before it are finished from the
exactness of the frontier (`ProofInv`). `BlocksTile` and `NeverBack` need the order
of any two blocks, adjacent or not, and that every closed block has a sequence of
its own (`PlaceInv`), since the clean-up deletes a range of blocks and the ends of
the range have to be compared with blocks in between.
`AppImplementsBlocks` carries all of it over to `AppBlocks`. There
`RecordsFollowStates` says that the rollback list has the records of the sequences
whose states are kept and refuses no purge: the three counters that
`commit_action` compares are the instance's `sequence`, and the list starts behind
`purged` (`RecordInv`). `JobsAlwaysNameTheirBlock` needs that a sequence settled
once stays in or before the settled block when the blocks between are deleted
(`JobInv`).

`Implementation` is the step from `Blocks` to `Calculation`, the abstraction that
`ProverProofs` reaches from below: each action of `Blocks` does to the calculation of
one block what `Calculation` allows, to the next one at most its creation, and the
clean-up deletes a range of calculations that `ProofInv` knows to be finished.

The last part is about the writes of an action, of which there may be any number and
several to one element. `WrittenAll` is a recursive function over them; `Recursion`
gives the function itself, the intermediate drafts, and each fact
about an action is then an induction over its drafts (`Runs`): the commitment is the
commitment of the table (`RunCommits`), the record has per write the value before it
(`RunRecords`), every element outside the record is untouched (`RunWrites`). From
these, undoing an action's record backwards returns every element to the value of its
first write, which is what it was (`ActionReaches`). `StateInv` says that the table
is the state after the last action, `UndoInv` that each kept record leads from the
state after its action to the one before, and `EndsInv` that a closed block commits to
the state after its last sequence and started from the state its first one found
(the first block from zero), with what the open block will start from.

`ContainersProofs` proves the three properties of the run `containers` for any
jobs, sessions, attempts, retries and number of containers. `StartInv` says that a
start has at most one holder, which knows of it only once the chain has come to it,
and has one until its run is over, its end is asked for or it is lost. That is not
inductive by itself: that a start does not change hands twice needs to know what
task, call and tables of one session know of each other (`SessionInv`). Whatever a
call does once its task has stopped concerns lost starts only; a job handed out is
in the index, where the task will look for it when it stops, or the call is about to
put it there; a session that has not begun is in no table, and one that is over has no
call that was not cut off. The proof
splits in two: what a step does to the holders of each start (`Starts`; for all
steps but the execution of a request `StartInv` then follows in one way,
`StartKeeps`), and what it does to its own session, other sessions being `Apart`.

`SettlingProofs` proves `OnlyNewWorkIsForgotten` for any chains, coordinators and
loops and any number of failures. `CheckInv` says that what a check has seen stays
true until the application creates a job: an instance with no open block and
nothing proved and unsettled has no way back to work but a new job, and a job that
has gone stays away. The other loops and coordinators, whose readings are old, only
create and end settlement jobs, which make nothing to settle. `TypeCorrect` needs more
than types: that a job number is free at every creation
(`FewKnown`: a loop that means to terminate holds at most one job of a chain, `OneEach`,
so the old readings hold no more numbers than there are loops), that a settlement job
is referred to exactly while it lives (`JobInv`), and that no more blocks are proved
than jobs were created (`CountInv`).

`MulticallProofs` proves the safety properties of the run `multicall`: its types,
`StartedJobsAreFollowed` and `RequestsAreKept`, for any app instances, sequences, batch
size, attempts and number of requests and failures. Each action is shown once to keep
the invariant and to take no request away (`Keeps`). The invariant says of a job on the
chain that it is ours only while it runs and has an attempt left while it is pending
(`Sound`), and of the batch that an app instance takes its one turn in the order of the
cycle and has nothing in the batch before it (`TakenInTurn`): without that, filling the
batch could overwrite what was taken. What is in the batch is counted, so a batch that
is given up as empty is empty. The job part rests on what a batch does to one job:
completions, failures and terminations in their order leave it sound and nobody's run
ours that was not (`EndsAreSound`), and do not depend on whose it is (`EndsAlike`), so
an execution that is repeated after its first answer was lost starts what it would have
started (`BatchesAreSound`). That `Take` never counts below zero needs that the starts
taken in the order of their sequences fit into the room that is left (`StartsFit`).
`TransactionsAreCalls` ties the module to the job table: seen through the statuses of an
app instance's jobs, each step is a call of `JobLifecycle`, in which each job makes at
most one of the moves a call allows, and the creation of the next jobs in order; a batch
does both in one transaction. So `Multicall` lets the chain do nothing that
`JobLifecycle`, which `Jobs` implements, rules out.

All these rest on `AppAssumption`, `ContainersAssumption`, `SettlingAssumption`,
`LockAssumption`, `MapAssumption`, `MulticallAssumption`,
`ProverAssumption`, `BlocksAssumption`, `AppStateAssumption` and
`AppBlocksAssumption`, which say what the constants are.

Recursive functions are proved about through lemmas on sets and functions, which the
modules that need them state at their beginning: induction over a set of numbers
(`BoundedInduction`, from `LeastMember`), and the existence of a function that follows a
given step (`Recursion`) or looks at smaller arguments only (`FixedPoint`). What needs an
induction theorem with an operator as a parameter, or a `RECURSIVE` operator, stays
out.

Only model-checked: the liveness properties `RunsEnd`, `PendingJobsStart` and
`SettledWhileTracked`; liveness under fairness and `ENABLED` are beyond the prover. Every
other property of a run that passes is proved.

## 5. Where code and comments disagree

Each is a run that TLC must find violated; `PROJECT.json` quotes the lines.

* `failed_index`: terminating a Failed job leaves the failed index and counter
  behind; restarting or removing all failed jobs aborts from then on.
* `stuck_merge`: once the end of a block is known, the planner stops at a range
  that has a proof of any status. A merge that was rejected, which
  `create_merge_job` would try again, is never planned again, and the block is
  never proved. `NeverStuck` says that this, and a merge whose agent died, is the
  only way.
* `idle_settlement`: the analysis returns early for an instance at rest, before it
  terminates the settlement jobs nobody needs; they run every minute, and the
  instance is never forgotten.

Seen while modelling and kept as the code has it, without a run of its own:
`start_job` aborts, with the whole multicall, for a periodic job created without
a first slot (`jobs.move:337`), where its comment promises false; a rejected
proof becomes Calculated again when the proof merged from it is rejected
(`return_proof`, `prover.move:334`), although rejected proofs are said not to be
available (`merge.rs:973`);
`update_app_last_settled_block_number` deletes up to and including the block all
chains have settled, although its comment keeps blocks "from min_settled_block
onwards" (`app_instance.move:736`); `update_block_settlement_tx_hash` after
inclusion writes `included = false` over it; storing a block's state again clears
its proof's availability; a restart gives back parts that another, fresh merge
has reserved; `return_proof` can make a proof Calculated that has no data;
`end_sequence.unwrap_or(0) - start_sequence + 1` (`merge.rs:1220`) underflows for
an open block; `validate_settlement_jobs` has no caller.

Commitments, also without a run:

* A block's `actions_commitment` and `end_actions_commitment` are given the
  commitment of the state (`app_instance.move:398`), not that of the actions.
* The first block starts from a zero commitment, whatever sequence 0 wrote.
* Nothing rolls back ("TODO: implement rollback calls", `state.move:34`): the
  records are kept, and purged, for a caller to come.

Contract and coordinator, also without a run:

* `start_proving` knows that its reservation will succeed (`prover.move:565`), but
  on the restart path nothing has looked at the parts: it fails silently, or
  aborts on a part without data.
* `create_merge_job` leaves a timed-out merge to the contract (`merge.rs:1058`) and
  then asks for rejected ones only.
* `set_block_settlement_tx` is to remove old block settlements
  (`settlement.move:129`); its caller has already moved the counter the loop
  starts from (`app_instance.move:850`), and none is ever removed.
* `return_operations_to_queue` does not put back `create_jobs` (`state.rs:1482`):
  requests for new jobs are lost with a failed transaction.
* `return_operations_to_queue` is to "Skip if we've exceeded max retries" a proof that
  was submitted before (`state.rs:1551`, `MAX_RETRY_COUNT` of 5); it logs an error and
  queues the proof again. The count is looked up among the entries in the queue, which
  the proof has left, and so mostly begins at 1 again. `RequestsAreKept` says what the
  code does: proofs are kept through any number of retries; `ReturnSkippingWork`, which would
  skip them, violates it.
* Started jobs are filtered by sequence alone (`multicall.rs:288`): a start that
  was refused is buffered when another app instance of the batch started the same
  number.

Tracker and settlement loop:

* An instance that "can be safely removed" (`settlement.rs:109`) was so when it was
  read: a job created, and its event handled, before the removal is forgotten until
  the next event. `OnlyNewWorkIsForgotten` has this as its exception.
* The counts of the check are `unwrap_or(0)`: a call that fails says there is no job.
  A failed reading of the blocks makes a loop terminate all settlement jobs.
* The reconciliation at startup "to catch stuck jobs" (`coordinator.rs:166`) goes
  over the instances tracked, and none is yet. `restart_failed_jobs` emits no event.
  After a crash jobs wait for the next event of their instance.

Containers:

* A reconciled job starts again while its first container lives; entries,
  requests and verdicts carry no attempt, so the first one's late verdict ends the
  second run. `get_job` from the buffer does not look whether the job still runs.
* The search of the buffer for an agent's job (`state.rs:1347`) takes everything
  out first: a client that goes away then takes all entries with it, until
  reconciliation.
* The multicall processor exits "only when both multicall operations AND docker
  work are done" (`multicall.rs:41`), but sees neither the entry the docker loop
  holds while it reads the job nor a task that has no agent yet.
* The limit of containers is looked at before the task that counts itself is
  spawned. A wrong image ends the task without failing the job directly; a task that
  gets no coordinator address or no key pair (`docker.rs:314`, `docker.rs:338`) returns
  with its start, which only reconciliation then ends.
* `get_job` in flight across its session's end puts an agent back that nobody
  removes: it counts against the limits and holds up a graceful shutdown.
* `set_current_agent` resets the session's settlement chain (`state.rs:283`), so a
  session locked to one chain may take another's job.
* A `JobLockGuard` releases on drop without asking whether it still owns the lock.

Locks:

* The queue is no FIFO ("Pure FIFO ordering", `state.sql:231`): the time stamp is
  taken before the rows are inserted, so a row can appear in front of one that has
  been granted, head the queue and be granted too: both hold the object.
  `ExclusiveOnceQueued` is what remains true.
* A call that is cut off, or names an object twice (the second insert violates the
  key), leaves WAITING rows that no sweep removes and that everybody behind waits
  for. Rows a request queues after its own release do the same until its timeout.

## 6. Not modelled

Payload, names, descriptions, events and log entries, object ids, the iteration
order of `VecSet` and `VecMap`, `created_at` and the uses of `updated_at` no
function reads, `rejected_count`, CPU figures, metadata and kv entries, the commitment of
the actions (a field that no function compares), `update_state_for_sequence`, pausing and admin checks: no property
here depends on them. The registry and its tables are independent calls without
interaction. The Ethereum contracts are a port of the Move package. Network,
database, storage, key management and generated API crates are I/O; the layers
of `coordination-*` convert between a trait and one back end.

Of the coordinator: jobs started directly on layers without multicall, priorities
of the buffer, secrets, events, force shutdown, `release_job`, the tracker's index
and flag, the block loop (it calls `try_create_block`, an action of `Blocks`, when
it may), the look-ahead over blocks, purging.
Of the state service: the handlers that are single queries; the version check of
`optimistic_update` (`update_object` writes the data after the transaction that
bumps the version); `try_lock_object` and its relatives, which have no caller. Of
the map: serialisation and field arithmetic. The event buffer and the coin locks
of `crates/sui` have not been modelled yet.

## 7. Plan

1. **Buffer**: permits, memory accounting and the circuit breaker of
   `crates/buffer`, under interleaved producers and the flush task.
2. **Versions** of the state service's objects (`update_object`).
3. **Coin locks** of `crates/sui`, which expire and are released without a look at
   their owner.
