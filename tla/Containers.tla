----------------------------- MODULE Containers -----------------------------
(***************************************************************************)
(* What a coordinator does with the jobs it has started.  A start goes     *)
(* into a buffer; the docker loop pops it, reads the job from the chain    *)
(* and spawns a task, which opens a session and keeps a container up for   *)
(* it.  The container asks for its job, takes further starts straight from *)
(* the buffer and reports verdicts, by calls that run beside the task; a   *)
(* table of jobs per session connects the two.  Every lock is held for one *)
(* step only, so any two tasks and calls interleave between them.          *)
(*                                                                         *)
(* The packing of requests into transactions is module Multicall's; here a *)
(* request is executed some time after it was made.                        *)
(***************************************************************************)
EXTENDS Integers, FiniteSets

CONSTANTS
  Job,
  Session,         \* a session serves one container and is never reused
  MaxContainers,   \* MAX_CONCURRENT_AGENT_CONTAINERS
  MaxRetries,      \* MAX_RETRIES
  MaxAttempts,     \* runs of a job before it is failed for good
  MaxStarts,       \* bound on starts of jobs
  MaxCuts          \* bound on calls that are cut off, a shutdown counted as one

ASSUME ContainersAssumption ==
  /\ IsFiniteSet(Job) /\ IsFiniteSet(Session)
  /\ MaxContainers \in Nat \ {0} /\ MaxRetries \in Nat
  /\ MaxAttempts \in Nat \ {0} /\ MaxStarts \in Nat /\ MaxCuts \in Nat

VARIABLES
  chain,           \* per job: its status, and how often it was started
  requests,        \* operations that wait for a multicall
  buffer,          \* started_jobs_buffer
  loop,            \* the docker loop: where it is, the entry it holds
  task,            \* per session: where its task is, the starts it holds,
                   \* and whether its calls all ended before it did
  call,            \* per session: the call in flight, the start it holds
  session_jobs,    \* the job a session's container is to ask for
  running_jobs,    \* jobs handed out, by session
  session_index,   \* the jobs of a session
  current_agents,  \* sessions with an agent
  tracked,         \* containers loading or running
  lost,            \* starts that a failure has made nobody's (history)
  cuts,            \* calls cut off so far
  shutdown,        \* a shutdown was asked for
  quiet            \* checks in a row in which multicall saw no work

database == <<session_jobs, running_jobs, session_index>>
sessions == <<task, call, database, current_agents, tracked>>
history == <<lost, cuts>>
vars == <<chain, requests, buffer, loop, sessions, history, shutdown, quiet>>

Start == [job : Job, attempt : 1..MaxAttempts]
Entry == [start : Start, retry_count : 0..MaxRetries]
Request == [kind : {"start", "complete", "fail", "terminate"}, job : Job]

To(kind, j) == [kind |-> kind, job |-> j]
NoTask == [at |-> "none", held |-> {}, clean |-> TRUE]
NoCall == [at |-> "none", held |-> {}]
IdleLoop == [at |-> "idle", held |-> {}]

Total == Cardinality({p \in Job \X (1..MaxAttempts) : p[2] <= chain[p[1]].attempts})

-----------------------------------------------------------------------------
Init ==
  /\ chain = [j \in Job |-> [status |-> "pending", attempts |-> 0]]
  /\ requests = {}
  /\ buffer = {}
  /\ loop = IdleLoop
  /\ task = [s \in Session |-> NoTask]
  /\ call = [s \in Session |-> NoCall]
  /\ session_jobs = {} /\ running_jobs = {} /\ session_index = {}
  /\ current_agents = {} /\ tracked = {}
  /\ lost = {} /\ cuts = 0
  /\ shutdown = FALSE /\ quiet = 0

-----------------------------------------------------------------------------
(* The chain and the tasks that are not about containers.                  *)

(* The job searcher asks for a pending job, but not once a shutdown began. *)
Search(j) ==
  /\ ~shutdown
  /\ chain[j].status = "pending"
  /\ requests' = requests \union {To("start", j)}
  /\ UNCHANGED <<chain, buffer, loop, sessions, history, shutdown, quiet>>

(* Reconciliation fails a job that has been running for too long, whether  *)
(* or not its container still works on it.                                 *)
FailStuck(j) ==
  /\ ~shutdown
  /\ chain[j].status = "running"
  /\ requests' = requests \union {To("fail", j)}
  /\ UNCHANGED <<chain, buffer, loop, sessions, history, shutdown, quiet>>

Running(j) == chain[j].status = "running"

(* What a request does to its job on the chain; it changes nothing when    *)
(* the job is not in the state it asks for.                                *)
Executed(r) ==
  LET c == chain[r.job] IN
  CASE r.kind = "start" /\ c.status = "pending" ->
         [status |-> "running", attempts |-> c.attempts + 1]
    [] r.kind = "complete" /\ c.status = "running" -> [c EXCEPT !.status = "gone"]
    [] r.kind = "terminate" -> [c EXCEPT !.status = "gone"]
    [] r.kind = "fail" /\ c.status = "running" ->
         [c EXCEPT !.status = IF c.attempts < MaxAttempts THEN "pending" ELSE "gone"]
    [] OTHER -> c

FreshEntries(j) ==
  IF chain'[j].attempts > chain[j].attempts
    THEN {[start |-> [job |-> j, attempt |-> chain'[j].attempts], retry_count |-> 0]}
    ELSE {}

(* Multicall executes a request, and buffers what it started.  Between two *)
(* of its checks for silence it executes nothing.                          *)
Execute(r) ==
  /\ quiet = 0
  /\ r \in requests
  /\ (r.kind = "start") => (Total < MaxStarts)
  /\ requests' = requests \ {r}
  /\ chain' = [chain EXCEPT ![r.job] = Executed(r)]
  /\ buffer' = buffer \union FreshEntries(r.job)
  /\ UNCHANGED <<loop, sessions, history, shutdown, quiet>>

RequestShutdown ==
  /\ ~shutdown
  /\ cuts < MaxCuts
  /\ shutdown' = TRUE
  /\ UNCHANGED <<chain, requests, buffer, loop, sessions, history, quiet>>

(* During a shutdown multicall counts the operations, the buffer and the   *)
(* agents, one after the other, and after a second counts them again; when *)
(* it has seen nothing both times it is completed.                         *)
Completed == 6

Silent(n) ==
  CASE n % 3 = 0 -> requests = {}
    [] n % 3 = 1 -> buffer = {}
    [] n % 3 = 2 -> current_agents = {}

CheckSilence ==
  /\ shutdown
  /\ quiet < Completed
  /\ quiet' = IF Silent(quiet) THEN quiet + 1 ELSE 0
  /\ quiet' # quiet
  /\ UNCHANGED <<chain, requests, buffer, loop, sessions, history, shutdown>>

-----------------------------------------------------------------------------
(* The docker loop.                                                        *)

LoopMoves(at, held) ==
  /\ loop' = [at |-> at, held |-> held]
  /\ UNCHANGED <<chain, call, database, current_agents, tracked, history, shutdown, quiet>>

Pop ==
  /\ loop.at = "idle"
  /\ Cardinality(tracked) < MaxContainers
  /\ \E e \in buffer : buffer' = buffer \ {e} /\ LoopMoves("fetching", {e})
  /\ UNCHANGED <<requests, task>>

(* The job is read from the chain.  A job that no longer runs is passed    *)
(* over; the attempt is not compared.                                      *)
FetchJob(e) ==
  /\ loop.at = "fetching" /\ e \in loop.held
  /\ IF Running(e.start.job) THEN LoopMoves("placing", {e}) ELSE LoopMoves("idle", {})
  /\ UNCHANGED <<requests, buffer, task>>

(* Slip: the retries are counted from one.                                 *)
FetchFailsOnceMore(e) ==
  /\ loop.at = "fetching" /\ e \in loop.held
  /\ LoopMoves("idle", {})
  /\ IF e.retry_count <= MaxRetries
       THEN /\ buffer' = buffer \union {[e EXCEPT !.retry_count = @ + 1]}
            /\ UNCHANGED requests
       ELSE /\ requests' = requests \union {To("fail", e.start.job)}
            /\ UNCHANGED buffer
  /\ UNCHANGED task

(* A failed read is repeated by way of the buffer, and fails the job when  *)
(* the retries are used up.                                                *)
FetchFails(e) ==
  /\ loop.at = "fetching" /\ e \in loop.held
  /\ LoopMoves("idle", {})
  /\ IF e.retry_count + 1 <= MaxRetries
       THEN /\ buffer' = buffer \union {[e EXCEPT !.retry_count = @ + 1]}
            /\ UNCHANGED requests
       ELSE /\ requests' = requests \union {To("fail", e.start.job)}
            /\ UNCHANGED buffer
  /\ UNCHANGED task

(* Its agent method cannot be read, or the machine has no room.            *)
PutBack(e) ==
  /\ loop.at = "placing" /\ e \in loop.held
  /\ buffer' = buffer \union {e}
  /\ LoopMoves("idle", {})
  /\ UNCHANGED <<requests, task>>

(* Room is judged by the agents registered; tasks just spawned are not     *)
(* among them.  The job's lock has always expired, so it is always had.    *)
Spawn(e, s) ==
  /\ loop.at = "placing" /\ e \in loop.held
  /\ Cardinality(current_agents) < MaxContainers
  /\ task[s].at = "none"
  /\ task' = [task EXCEPT ![s].at = "spawned", ![s].held = {e.start}]
  /\ LoopMoves("idle", {})
  /\ UNCHANGED <<requests, buffer>>

LoopExits ==
  /\ loop.at = "idle"
  /\ shutdown /\ quiet = Completed
  /\ buffer = {} /\ tracked = {}
  /\ LoopMoves("gone", {})
  /\ UNCHANGED <<requests, buffer, task>>

DockerLoop ==
  \/ Pop \/ LoopExits
  \/ \E e \in loop.held :
       FetchJob(e) \/ FetchFails(e) \/ PutBack(e) \/ (\E s \in Session : Spawn(e, s))

-----------------------------------------------------------------------------
(* A container's task.                                                     *)

Steps(s, from, to) ==
  /\ task[s].at = from
  /\ task' = [task EXCEPT ![s].at = to]
  /\ UNCHANGED <<chain, buffer, loop, cuts, shutdown, quiet>>

(* The coordinator has no address, or no key pair could be made for the    *)
(* session: the task returns, its start is dropped, and nobody is told.    *)
NoSession(s) ==
  /\ task[s].at = "spawned"
  /\ task' = [task EXCEPT ![s].at = "over", ![s].held = {}]
  /\ lost' = lost \union task[s].held
  /\ UNCHANGED <<chain, requests, buffer, loop, call, database, current_agents, tracked,
                 cuts, shutdown, quiet>>

TrackLoading(s) ==
  /\ Steps(s, "spawned", "tracked")
  /\ tracked' = tracked \union {s}
  /\ UNCHANGED <<requests, call, database, current_agents, lost>>

SetCurrentAgent(s) ==
  /\ Steps(s, "tracked", "fetching")
  /\ current_agents' = current_agents \union {s}
  /\ UNCHANGED <<requests, call, database, tracked, lost>>

(* The app instance cannot be read.                                        *)
TaskFetchFails(s) ==
  /\ Steps(s, "fetching", "failing")
  /\ UNCHANGED <<requests, call, database, current_agents, tracked, lost>>

(* add_session_job: nobody looks between its two tables, the container not *)
(* being up yet.                                                           *)
AddSessionJob(s) ==
  /\ task[s].at = "fetching"
  /\ task' = [task EXCEPT ![s].at = "pulling", ![s].held = {}]
  /\ LET added == {<<s, x>> : x \in task[s].held} IN
     /\ session_jobs' = session_jobs \union added
     /\ session_index' = session_index \union added
  /\ UNCHANGED <<chain, requests, buffer, loop, call, running_jobs, current_agents,
                 tracked, history, shutdown, quiet>>

ContainerUp(s) ==
  /\ Steps(s, "pulling", "up")
  /\ UNCHANGED <<requests, call, database, current_agents, tracked, lost>>

(* The image is not the one that was registered: the task ends without a   *)
(* word about the job, which stays in the table.                           *)
WrongImage(s) ==
  /\ Steps(s, "pulling", "failing")
  /\ lost' = lost \union {p[2] : p \in {q \in session_jobs : q[1] = s}}
  /\ UNCHANGED <<requests, call, database, current_agents, tracked>>

(* Slip: the index is dropped first, so the jobs handed out are not found. *)
FailWaitingDropsIndex(s) ==
  /\ task[s].at \in {"pulling", "up"}
  /\ LET waiting == {p \in session_jobs : p[1] = s} IN
     /\ session_jobs' = session_jobs \ waiting
     /\ task' = [task EXCEPT ![s] = [at |-> "stopping", held |-> {p[2] : p \in waiting},
                                     clean |-> @.clean /\ call[s].at = "none"]]
  /\ session_index' = {p \in session_index : p[1] # s}
  /\ lost' = lost \union call[s].held
  /\ UNCHANGED <<chain, requests, buffer, loop, call, running_jobs,
                 current_agents, tracked, cuts, shutdown, quiet>>

(* The image cannot be pulled, or the container is over: what remains of   *)
(* the session is failed, the job nobody asked for first.                  *)
FailWaiting(s) ==
  /\ task[s].at \in {"pulling", "up"}
  /\ LET waiting == {p \in session_jobs : p[1] = s} IN
     /\ session_jobs' = session_jobs \ waiting
     /\ task' = [task EXCEPT ![s] = [at |-> "stopping", held |-> {p[2] : p \in waiting},
                                     clean |-> @.clean /\ call[s].at = "none"]]
  /\ lost' = lost \union call[s].held
  /\ UNCHANGED <<chain, requests, buffer, loop, call, running_jobs, session_index,
                 current_agents, tracked, cuts, shutdown, quiet>>

(* Then the jobs its index names, if they are still handed out.            *)
FailRunning(s) ==
  /\ task[s].at = "stopping"
  /\ LET found == {p \in session_index : p[1] = s} \intersect running_jobs IN
     /\ running_jobs' = running_jobs \ found
     /\ task' = [task EXCEPT ![s].at = "unindexing", ![s].held = @ \union {p[2] : p \in found}]
  /\ UNCHANGED <<chain, requests, buffer, loop, call, session_jobs, session_index,
                 current_agents, tracked, history, shutdown, quiet>>

DropIndex(s) ==
  /\ Steps(s, "unindexing", "failing")
  /\ session_index' = {p \in session_index : p[1] # s}
  /\ UNCHANGED <<requests, call, session_jobs, running_jobs, current_agents, tracked, lost>>

QueueFail(s) ==
  /\ task[s].at = "failing"
  /\ \E x \in task[s].held :
       /\ requests' = requests \union {To("fail", x.job)}
       /\ task' = [task EXCEPT ![s].held = @ \ {x}]
  /\ UNCHANGED <<chain, buffer, loop, call, database, current_agents, tracked,
                 history, shutdown, quiet>>

ClearAgent(s) ==
  /\ Steps(s, "failing", "untracking")
  /\ task[s].held = {}
  /\ current_agents' = current_agents \ {s}
  /\ UNCHANGED <<requests, call, database, tracked, lost>>

RemoveTracking(s) ==
  /\ Steps(s, "untracking", "over")
  /\ tracked' = tracked \ {s}
  /\ UNCHANGED <<requests, call, database, current_agents, lost>>

Task(s) ==
  \/ NoSession(s) \/ TrackLoading(s) \/ SetCurrentAgent(s)
  \/ TaskFetchFails(s) \/ AddSessionJob(s) \/ ContainerUp(s)
  \/ WrongImage(s) \/ FailWaiting(s) \/ FailRunning(s) \/ DropIndex(s)
  \/ QueueFail(s) \/ ClearAgent(s) \/ RemoveTracking(s)

-----------------------------------------------------------------------------
(* The calls of a container.  One that was begun may end long after its    *)
(* container.                                                              *)

CallMoves(s, from, to, held) ==
  /\ call[s].at = from
  /\ call' = [call EXCEPT ![s] = [at |-> to, held |-> held]]
  /\ UNCHANGED <<chain, loop, shutdown, quiet>>

(* Whatever a call still holds when its session has ended is nobody's.     *)
Late(s) == task[s].at # "up"

GetJob(s) ==
  /\ task[s].at = "up"
  /\ CallMoves(s, "none", "asking", {})
  /\ UNCHANGED <<requests, buffer, task, database, current_agents, tracked, history>>

(* get_ready_job: the session's own job leaves the one table, ...          *)
TakeSessionJob(s) ==
  /\ \/ \E p \in session_jobs :
          /\ p[1] = s
          /\ session_jobs' = session_jobs \ {p}
          /\ CallMoves(s, "asking", "handing", {p[2]})
     \/ /\ \A p \in session_jobs : p[1] # s
        /\ CallMoves(s, "asking", "searching", {})
        /\ UNCHANGED session_jobs
  /\ UNCHANGED <<requests, buffer, task, running_jobs, session_index, current_agents,
                 tracked, history>>

(* ... enters the other, and is the answer, unless it is a settlement job  *)
(* that belongs to no chain: that is terminated, and the search goes on.   *)
HandSessionJob(s) ==
  /\ \/ CallMoves(s, "handing", "none", {})
     \/ CallMoves(s, "handing", "handed", call[s].held)
  /\ running_jobs' = running_jobs \union {<<s, x>> : x \in call[s].held}
  /\ UNCHANGED <<requests, buffer, task, session_jobs, session_index, current_agents,
                 tracked, history>>

RefuseSessionJob(s) ==
  /\ CallMoves(s, "handed", "refusing", call[s].held)
  /\ requests' = requests \union {To("terminate", x.job) : x \in call[s].held}
  /\ UNCHANGED <<buffer, task, database, current_agents, tracked, history>>

RemoveRefused(s) ==
  /\ CallMoves(s, "refusing", "asking", {})
  /\ running_jobs' = running_jobs \ {<<s, x>> : x \in call[s].held}
  /\ UNCHANGED <<requests, buffer, task, session_jobs, session_index, current_agents,
                 tracked, history>>

(* Slip: the start is looked up and left where it is.                      *)
TakeBufferedByPeeking(s) ==
  /\ \/ \E e \in buffer :
          /\ CallMoves(s, "searching", "taken", {e.start})
          /\ lost' = IF Late(s) THEN lost \union {e.start} ELSE lost
     \/ /\ CallMoves(s, "searching", "none", {})
        /\ UNCHANGED lost
  /\ UNCHANGED <<requests, buffer, task, database, current_agents, tracked, cuts>>

(* get_started_job_for_agent: a start for this agent, past the docker loop *)
(* and its limits.                                                         *)
TakeBuffered(s) ==
  /\ \/ \E e \in buffer :
          /\ buffer' = buffer \ {e}
          /\ CallMoves(s, "searching", "taken", {e.start})
          /\ lost' = IF Late(s) THEN lost \union {e.start} ELSE lost
     \/ /\ CallMoves(s, "searching", "none", {})
        /\ UNCHANGED <<buffer, lost>>
  /\ UNCHANGED <<requests, task, database, current_agents, tracked, cuts>>

(* The job read for the second time is not there, or the read fails.       *)
LoseTaken(s) ==
  /\ CallMoves(s, "taken", "none", {})
  /\ lost' = lost \union call[s].held
  /\ UNCHANGED <<requests, buffer, task, database, current_agents, tracked, cuts>>

AddToRunning(s) ==
  /\ CallMoves(s, "taken", "indexing", call[s].held)
  /\ running_jobs' = running_jobs \union {<<s, x>> : x \in call[s].held}
  /\ UNCHANGED <<requests, buffer, task, session_jobs, session_index, current_agents,
                 tracked, history>>

IndexRunning(s) ==
  /\ CallMoves(s, "indexing", "introducing", call[s].held)
  /\ session_index' = session_index \union {<<s, x>> : x \in call[s].held}
  /\ UNCHANGED <<requests, buffer, task, session_jobs, running_jobs, current_agents,
                 tracked, history>>

(* Here a refused settlement job stays among the jobs handed out.          *)
RefuseBuffered(s) ==
  /\ CallMoves(s, "introducing", "none", {})
  /\ requests' = requests \union {To("terminate", x.job) : x \in call[s].held}
  /\ UNCHANGED <<buffer, task, database, current_agents, tracked, history>>

SetAgentOfCall(s) ==
  /\ CallMoves(s, "introducing", "none", {})
  /\ current_agents' = current_agents \union {s}
  /\ UNCHANGED <<requests, buffer, task, database, tracked, history>>

(* A verdict on a job the session was given: the job and, but for a        *)
(* termination, the session's agent are looked up, ...                     *)
Verdict == {"complete", "fail", "terminate"}

Report(s, verdict) ==
  /\ task[s].at = "up"
  /\ verdict # "terminate" => s \in current_agents
  /\ \E p \in running_jobs : p[1] = s /\ CallMoves(s, "none", verdict, {p[2]})
  /\ UNCHANGED <<requests, buffer, task, database, current_agents, tracked, history>>

(* ... the operation is queued, ...                                        *)
QueueVerdict(s, verdict) ==
  /\ CallMoves(s, verdict, "removing", call[s].held)
  /\ requests' = requests \union {To(verdict, x.job) : x \in call[s].held}
  /\ UNCHANGED <<buffer, task, database, current_agents, tracked, history>>

(* ... and the job leaves the table, if it is still there.                 *)
RemoveReported(s) ==
  /\ CallMoves(s, "removing", "none", {})
  /\ running_jobs' = running_jobs \ {<<s, x>> : x \in call[s].held}
  /\ UNCHANGED <<requests, buffer, task, session_jobs, session_index, current_agents,
                 tracked, history>>

(* The server drops the handler of a call whose client is gone, wherever   *)
(* it waits.  A handler that searches holds what it has looked at so far.  *)
CutOff(s) ==
  /\ cuts < MaxCuts /\ (shutdown => cuts + 1 < MaxCuts)
  /\ cuts' = cuts + 1
  /\ call[s].at # "none"
  /\ CallMoves(s, call[s].at, "none", {})
  /\ \E taken \in SUBSET buffer :
       /\ (taken # {}) => (call[s].at = "searching")
       /\ buffer' = buffer \ taken
       /\ lost' = lost \union call[s].held \union {e.start : e \in taken}
  /\ task' = [task EXCEPT ![s].clean = FALSE]
  /\ UNCHANGED <<requests, database, current_agents, tracked>>

Call(s) ==
  \/ GetJob(s) \/ TakeSessionJob(s) \/ HandSessionJob(s) \/ RefuseSessionJob(s) \/ RemoveRefused(s)
  \/ TakeBuffered(s) \/ LoseTaken(s) \/ AddToRunning(s) \/ IndexRunning(s)
  \/ RefuseBuffered(s) \/ SetAgentOfCall(s)
  \/ \E verdict \in Verdict : Report(s, verdict) \/ QueueVerdict(s, verdict)
  \/ RemoveReported(s) \/ CutOff(s)

Next ==
  \/ \E j \in Job : Search(j) \/ FailStuck(j)
  \/ \E r \in requests : Execute(r)
  \/ RequestShutdown \/ CheckSilence
  \/ DockerLoop
  \/ \E s \in Session : Task(s) \/ Call(s)

Spec == Init /\ [][Next]_vars

-----------------------------------------------------------------------------
TaskPlaces == {"none", "spawned", "tracked", "fetching", "pulling", "up",
               "stopping", "unindexing", "failing", "untracking", "over"}
CallPlaces == {"none", "asking", "handing", "handed", "refusing", "searching", "taken",
               "indexing", "introducing", "removing"} \union Verdict

(* Every variable stays in its range: counters do not run past their       *)
(* limits, retries past MaxRetries, and a loop holds at most one entry.    *)
TypeOK ==
  /\ chain \in [Job -> [status : {"pending", "running", "gone"}, attempts : 0..MaxAttempts]]
  /\ requests \subseteq Request
  /\ buffer \subseteq Entry
  /\ loop.at \in {"idle", "fetching", "placing", "gone"}
  /\ loop.held \subseteq Entry
  /\ Cardinality(loop.held) = (IF loop.at \in {"fetching", "placing"} THEN 1 ELSE 0)
  /\ task \in [Session -> [at : TaskPlaces, held : SUBSET Start, clean : BOOLEAN]]
  /\ call \in [Session -> [at : CallPlaces, held : SUBSET Start]]
  /\ \A s \in Session : Cardinality(call[s].held) <= 1
  /\ session_jobs \subseteq Session \X Start
  /\ running_jobs \subseteq Session \X Start
  /\ session_index \subseteq Session \X Start
  /\ current_agents \subseteq Session /\ tracked \subseteq Session
  /\ lost \subseteq Start /\ cuts \in 0..MaxCuts
  /\ shutdown \in BOOLEAN /\ quiet \in 0..Completed

(* Who has start x: entries wait or are held by the loop, tasks hold it    *)
(* before and after it is in the tables, calls between two tables.         *)
Holders(x) ==
       {<<"buffer", e>> : e \in {f \in buffer : f.start = x}}
  \union {<<"loop", e>> : e \in {f \in loop.held : f.start = x}}
  \union {<<"task", s>> : s \in {t \in Session : x \in task[t].held}}
  \union {<<"call", s>> : s \in {t \in Session :
                             call[t].at \in {"handing", "taken"} /\ x \in call[t].held}}
  \union {<<"waiting", p>> : p \in {q \in session_jobs : q[2] = x}}
  \union {<<"running", p>> : p \in {q \in running_jobs : q[2] = x}}

(* However the loop, the tasks and the calls interleave, no start is       *)
(* given to two of them, and a job that still runs on its latest start has *)
(* somebody who will see to it, or its fate is already queued; the only    *)
(* exceptions are the failures that add to `lost`.                         *)
StartsAreFollowed ==
  /\ \A x \in Start : Cardinality(Holders(x)) <= 1
  /\ \A j \in Job :
       LET x == [job |-> j, attempt |-> chain[j].attempts] IN
       Running(j) =>
         \/ x \in lost
         \/ \E r \in requests : r.job = j /\ r.kind # "start"
         \/ \E h \in Holders(x) :
              h[1] \in {"waiting", "running"} => task[h[2][1]].at \notin {"none", "over"}

(* A session whose calls all ended before it did, and none was cut off,    *)
(* leaves nothing in the tables when its task is over: no job, no agent    *)
(* that counts against the limits, no container.                           *)
EndsLeaveNothing ==
  \A s \in Session :
    (task[s].at = "over" /\ task[s].clean) =>
      /\ s \notin current_agents \union tracked
      /\ \A p \in session_jobs \union running_jobs \union session_index :
           p[1] = s => p[2] \in lost

=============================================================================
