-------------------------- MODULE ContainersProofs --------------------------
(***************************************************************************)
(* No start is lost, given away twice or left behind by a session, for any *)
(* jobs, sessions and limits: the three properties of module Containers.   *)
(***************************************************************************)
EXTENDS Containers, FiniteSetTheorems, TLAPS

(* Where everything is, the loop's entry and the calls' starts as at most  *)
(* one each; a job that waits has attempts left.                           *)
TypeInv ==
  /\ chain \in [Job -> [status : {"pending", "running", "gone"}, attempts : 0..MaxAttempts]]
  /\ \A j \in Job : chain[j].status = "pending" => chain[j].attempts < MaxAttempts
  /\ \A j \in Job : chain[j].status = "running" => chain[j].attempts > 0
  /\ requests \subseteq Request
  /\ buffer \subseteq Entry
  /\ \/ loop.at \in {"idle", "gone"} /\ loop.held = {}
     \/ loop.at \in {"fetching", "placing"} /\ \E e \in Entry : loop.held = {e}
  /\ task \in [Session -> [at : TaskPlaces, held : SUBSET Start, clean : BOOLEAN]]
  /\ call \in [Session -> [at : CallPlaces, held : SUBSET Start]]
  /\ \A s \in Session : call[s].held = {} \/ \E x \in Start : call[s].held = {x}
  /\ session_jobs \subseteq Session \X Start
  /\ running_jobs \subseteq Session \X Start
  /\ session_index \subseteq Session \X Start
  /\ current_agents \subseteq Session /\ tracked \subseteq Session
  /\ lost \subseteq Start /\ cuts \in 0..MaxCuts
  /\ shutdown \in BOOLEAN /\ quiet \in 0..Completed

(* The chain has come to this start, ...                                   *)
Known(x) == x.attempt <= chain[x.job].attempts

(* ... and its run is over, or somebody has asked for its end.             *)
SeenTo(x) ==
  \/ ~ (Running(x.job) /\ chain[x.job].attempts = x.attempt)
  \/ \E r \in requests : r.job = x.job /\ r.kind # "start"

(* A start has at most one holder, and one at least until it is seen to.   *)
StartInv(x) ==
  /\ \A g, h \in Holders(x) : g = h
  /\ Holders(x) # {} => Known(x)
  /\ x \in lost \/ SeenTo(x) \/ Holders(x) # {}

Early == {"none", "spawned", "tracked", "fetching", "pulling"}

(* What a session's task, its call and its entries in the tables know of   *)
(* each other.  Whatever a call does once the task has stopped concerns    *)
(* starts that are lost; a job handed out is in the index, where the task  *)
(* will look for it, or its call is about to put it there; a session that  *)
(* has not begun has no agent and no container.                            *)
SessionInv(s) ==
  LET t == task[s].at
      c == call[s]
  IN
  /\ t \in Early => c.at = "none"
  /\ t \in {"none", "pulling", "up"} => task[s].held = {}
  /\ t # "up" => c.held \subseteq lost
  /\ t \notin Early \union {"up"} /\ task[s].clean => c.at = "none"
  /\ t \in {"untracking", "over"} /\ task[s].clean => s \notin current_agents
  /\ t = "over" => s \notin tracked
  /\ t \in {"none", "spawned"} => s \notin current_agents \union tracked
  /\ \A x \in Start :
       /\ <<s, x>> \in session_jobs =>
            x \in lost \/ (t \in {"pulling", "up"} /\ <<s, x>> \in session_index)
       /\ c.at = "handing" /\ x \in c.held => x \in lost \/ <<s, x>> \in session_index
       /\ <<s, x>> \in running_jobs =>
            \/ x \in lost
            \/ /\ t \in {"up", "stopping"}
               /\ \/ <<s, x>> \in session_index
                  \/ t = "up" /\ c.at = "indexing" /\ x \in c.held
       /\ x \in c.held => Known(x) /\ (c.at \in {"removing", "refusing"} => SeenTo(x))
       /\ <<s, x>> \in session_index =>
            /\ t \notin Early \ {"pulling"}
            /\ t = "pulling" => <<s, x>> \in session_jobs
            /\ t \in {"failing", "untracking", "over"} /\ task[s].clean => x \in lost

IInv ==
  /\ TypeInv
  /\ \A x \in Start : StartInv(x)
  /\ \A s \in Session : SessionInv(s)

-----------------------------------------------------------------------------
(* Types.                                                                  *)

LEMMA Limits ==
  /\ MaxRetries \in Nat /\ MaxAttempts \in Nat \ {0} /\ MaxCuts \in Nat
BY ContainersAssumption

LEMMA TaskPlacesAre ==
  {"none", "spawned", "tracked", "fetching", "pulling", "up", "stopping", "unindexing",
   "failing", "untracking", "over"} \subseteq TaskPlaces
BY DEF TaskPlaces

LEMMA TaskUpdate ==
  ASSUME TypeInv, NEW s \in Session, NEW at \in TaskPlaces, NEW held \in SUBSET Start,
         task' = [task EXCEPT ![s].at = at, ![s].held = held]
  PROVE  task' \in [Session -> [at : TaskPlaces, held : SUBSET Start, clean : BOOLEAN]]
<1> DEFINE Tasks == [Session -> [at : TaskPlaces, held : SUBSET Start, clean : BOOLEAN]]
           moved == [task EXCEPT ![s].at = at]
<1>1. moved \in Tasks
  BY DEF TypeInv
<1>2. task' = [moved EXCEPT ![s].held = held]
  OBVIOUS
<1> HIDE DEF moved
<1> QED
  BY <1>1, <1>2

LEMMA StepTypes ==
  ASSUME TypeInv, NEW s \in Session, NEW from, NEW to \in TaskPlaces, Steps(s, from, to)
  PROVE  task' \in [Session -> [at : TaskPlaces, held : SUBSET Start, clean : BOOLEAN]]
BY DEF TypeInv, Steps

LEMMA ChainTypes == ASSUME TypeInv, NEW r, Execute(r) PROVE TypeInv'
<1>1. r \in Request /\ r.job \in Job
  BY DEF Execute, TypeInv, Request
<1>2. /\ chain[r.job].attempts \in 0..MaxAttempts
      /\ chain[r.job].status \in {"pending", "running", "gone"}
      /\ chain[r.job].status = "pending" => chain[r.job].attempts < MaxAttempts
      /\ chain[r.job].status = "running" => chain[r.job].attempts > 0
  BY <1>1 DEF TypeInv
<1>3. /\ Executed(r) \in [status : {"pending", "running", "gone"}, attempts : 0..MaxAttempts]
      /\ Executed(r).status = "pending" => Executed(r).attempts < MaxAttempts
      /\ Executed(r).status = "running" => Executed(r).attempts > 0
  BY <1>1, <1>2, Limits DEF Executed, TypeInv
<1>4. chain' = [chain EXCEPT ![r.job] = Executed(r)]
  BY DEF Execute
<1>5. /\ chain' \in [Job -> [status : {"pending", "running", "gone"}, attempts : 0..MaxAttempts]]
      /\ \A j \in Job : chain'[j].status = "pending" => chain'[j].attempts < MaxAttempts
      /\ \A j \in Job : chain'[j].status = "running" => chain'[j].attempts > 0
  BY <1>1, <1>3, <1>4 DEF TypeInv
<1>6. FreshEntries(r.job) \subseteq Entry
  <2>1. chain'[r.job].attempts \in 0..MaxAttempts
    BY <1>1, <1>5
  <2>2. chain'[r.job].attempts > chain[r.job].attempts => chain'[r.job].attempts \in 1..MaxAttempts
    BY <1>2, <2>1, Limits
  <2> QED
    BY <1>1, <2>2, Limits DEF FreshEntries, Entry, Start
<1>7. requests' \subseteq Request /\ buffer' \subseteq Entry
  BY <1>6 DEF Execute, TypeInv
<1>8. UNCHANGED <<loop, task, call, session_jobs, running_jobs, session_index, current_agents,
                  tracked, lost, cuts, shutdown, quiet>>
  BY DEF Execute, sessions, database, history
<1> QED
  BY <1>5, <1>7, <1>8 DEF TypeInv

LEMMA OutsideTypes ==
  ASSUME TypeInv,
         \/ \E j \in Job : Search(j) \/ FailStuck(j)
         \/ RequestShutdown \/ CheckSilence
  PROVE  TypeInv'
<1>1. \A j \in Job : To("start", j) \in Request /\ To("fail", j) \in Request
  BY DEF To, Request
<1>2. requests' \subseteq Request /\ shutdown' \in BOOLEAN /\ quiet' \in 0..Completed
  <2>1. ASSUME NEW j \in Job, Search(j) \/ FailStuck(j) PROVE <1>2
    BY <1>1, <2>1 DEF TypeInv, Search, FailStuck
  <2>2. CASE RequestShutdown
    BY <2>2 DEF TypeInv, RequestShutdown
  <2>3. CASE CheckSilence
    <3>1. quiet \in 0..Completed /\ quiet < Completed
      BY <2>3 DEF TypeInv, CheckSilence
    <3>2. quiet' = quiet + 1 \/ quiet' = 0
      BY <2>3 DEF CheckSilence
    <3>3. quiet' \in 0..Completed
      BY <3>1, <3>2 DEF Completed
    <3>4. requests' = requests /\ shutdown' = shutdown
      BY <2>3 DEF CheckSilence
    <3> QED
      BY <3>3, <3>4 DEF TypeInv
  <2> QED
    BY <2>1, <2>2, <2>3
<1>3. UNCHANGED <<chain, buffer, loop, task, call, session_jobs, running_jobs, session_index,
                  current_agents, tracked, lost, cuts>>
  BY DEF Search, FailStuck, RequestShutdown, CheckSilence, sessions, database, history
<1> QED
  BY <1>2, <1>3 DEF TypeInv

LEMMA LoopTypes == ASSUME TypeInv, DockerLoop PROVE TypeInv'
<1>1. UNCHANGED <<chain, call, session_jobs, running_jobs, session_index, current_agents,
                  tracked, lost, cuts, shutdown, quiet>>
  BY DEF DockerLoop, Pop, LoopExits, FetchJob, FetchFails, PutBack, Spawn, LoopMoves,
         database, history
<1>2. /\ loop.held \subseteq Entry
      /\ \A e \in Entry : e.start \in Start /\ e.start.job \in Job /\ e.retry_count \in 0..MaxRetries
  BY DEF TypeInv, Entry, Start
<1>3. /\ requests' \subseteq Request
      /\ buffer' \subseteq Entry
      /\ task' \in [Session -> [at : TaskPlaces, held : SUBSET Start, clean : BOOLEAN]]
      /\ \/ loop'.at \in {"idle", "gone"} /\ loop'.held = {}
         \/ loop'.at \in {"fetching", "placing"} /\ \E e \in Entry : loop'.held = {e}
  <2>1. CASE Pop
    BY <1>2, <2>1 DEF Pop, LoopMoves, TypeInv
  <2>2. CASE LoopExits
    BY <2>2 DEF LoopExits, LoopMoves, TypeInv
  <2>3. ASSUME NEW e \in loop.held, FetchJob(e) PROVE <1>3
    BY <1>2, <2>3 DEF FetchJob, LoopMoves, TypeInv
  <2>4. ASSUME NEW e \in loop.held, FetchFails(e) PROVE <1>3
    <3>1. To("fail", e.start.job) \in Request
      BY <1>2 DEF To, Request
    <3>2. e.retry_count + 1 <= MaxRetries => [e EXCEPT !.retry_count = @ + 1] \in Entry
      BY <1>2, Limits DEF Entry
    <3> QED
      BY <2>4, <3>1, <3>2 DEF FetchFails, LoopMoves, TypeInv
  <2>5. ASSUME NEW e \in loop.held, PutBack(e) PROVE <1>3
    BY <1>2, <2>5 DEF PutBack, LoopMoves, TypeInv
  <2>6. ASSUME NEW e \in loop.held, NEW s \in Session, Spawn(e, s) PROVE <1>3
    <3>1. /\ task' = [task EXCEPT ![s].at = "spawned", ![s].held = {e.start}]
          /\ "spawned" \in TaskPlaces /\ {e.start} \in SUBSET Start
      BY <1>2, <2>6, TaskPlacesAre DEF Spawn
    <3>2. task' \in [Session -> [at : TaskPlaces, held : SUBSET Start, clean : BOOLEAN]]
      BY <3>1, TaskUpdate
    <3> QED
      BY <2>6, <3>2 DEF Spawn, LoopMoves, TypeInv
  <2> QED
    BY <2>1, <2>2, <2>3, <2>4, <2>5, <2>6 DEF DockerLoop
<1> QED
  BY <1>1, <1>3 DEF TypeInv

LEMMA TaskTypes == ASSUME TypeInv, NEW s \in Session, Task(s) PROVE TypeInv'
<1>1. UNCHANGED <<chain, buffer, loop, call, cuts, shutdown, quiet>>
  BY DEF Task, NoSession, TrackLoading, SetCurrentAgent, TaskFetchFails, AddSessionJob, ContainerUp,
         WrongImage, FailWaiting, FailRunning, DropIndex, QueueFail, ClearAgent,
         RemoveTracking, Steps, database, history
<1>2. /\ requests' \subseteq Request
      /\ task' \in [Session -> [at : TaskPlaces, held : SUBSET Start, clean : BOOLEAN]]
      /\ session_jobs' \subseteq Session \X Start
      /\ running_jobs' \subseteq Session \X Start
      /\ session_index' \subseteq Session \X Start
      /\ current_agents' \subseteq Session /\ tracked' \subseteq Session
      /\ lost' \subseteq Start
  <2>0. /\ {"tracked", "fetching", "pulling", "up", "unindexing", "failing", "untracking", "over"}
             \subseteq TaskPlaces
        /\ task[s].held \subseteq Start
    BY TaskPlacesAre DEF TypeInv
  <2>1. CASE TrackLoading(s)
    BY <2>0, <2>1, StepTypes DEF TrackLoading, TypeInv, database
  <2>11. CASE NoSession(s)
    <3>1. task' = [task EXCEPT ![s].at = "over", ![s].held = {}]
      BY <2>11 DEF NoSession
    <3>2. "over" \in TaskPlaces /\ {} \in SUBSET Start
      BY <2>0
    <3>3. task' \in [Session -> [at : TaskPlaces, held : SUBSET Start, clean : BOOLEAN]]
      BY <3>1, <3>2, TaskUpdate
    <3> QED
      BY <2>0, <2>11, <3>3 DEF NoSession, TypeInv, database
  <2>2. CASE SetCurrentAgent(s)
    BY <2>0, <2>2, StepTypes DEF SetCurrentAgent, TypeInv, database
  <2>3. CASE TaskFetchFails(s) \/ ContainerUp(s)
    BY <2>0, <2>3, StepTypes DEF TaskFetchFails, ContainerUp, TypeInv, database
  <2>4. CASE AddSessionJob(s)
    <3>1. task' = [task EXCEPT ![s].at = "pulling", ![s].held = {}]
      BY <2>4 DEF AddSessionJob
    <3>2. {<<s, x>> : x \in task[s].held} \subseteq Session \X Start
      BY <2>0
    <3>3. task' \in [Session -> [at : TaskPlaces, held : SUBSET Start, clean : BOOLEAN]]
      <4>1. "pulling" \in TaskPlaces /\ {} \in SUBSET Start
        BY <2>0
      <4> QED
        BY <3>1, <4>1, TaskUpdate
    <3> QED
      BY <2>4, <3>2, <3>3 DEF AddSessionJob, TypeInv, history
  <2>5. CASE FailWaiting(s)
    BY <2>5 DEF FailWaiting, TypeInv, TaskPlaces
  <2>6. CASE FailRunning(s)
    <3> DEFINE found == {p \in session_index : p[1] = s} \intersect running_jobs
    <3>1. task' = [task EXCEPT ![s].at = "unindexing", ![s].held = @ \union {p[2] : p \in found}]
      BY <2>6 DEF FailRunning
    <3>2. {p[2] : p \in found} \subseteq Start
      BY DEF TypeInv
    <3> HIDE DEF found
    <3>3. task' = [task EXCEPT ![s].at = "unindexing",
                               ![s].held = task[s].held \union {p[2] : p \in found}]
      BY <3>1 DEF TypeInv
    <3>4. task[s].held \union {p[2] : p \in found} \in SUBSET Start
      BY <2>0, <3>2
    <3>5. task' \in [Session -> [at : TaskPlaces, held : SUBSET Start, clean : BOOLEAN]]
      BY <2>0, <3>3, <3>4, TaskUpdate
    <3>6. /\ running_jobs' \subseteq running_jobs
          /\ UNCHANGED <<requests, session_jobs, session_index, current_agents, tracked, lost>>
      BY <2>6 DEF FailRunning, history
    <3> QED
      BY <3>5, <3>6 DEF TypeInv
  <2>7. CASE WrongImage(s)
    <3>1. {p[2] : p \in {q \in session_jobs : q[1] = s}} \subseteq Start
      BY DEF TypeInv
    <3> QED
      BY <2>0, <2>7, <3>1, StepTypes DEF WrongImage, TypeInv, database
  <2>8. CASE QueueFail(s)
    BY <2>8 DEF QueueFail, TypeInv, To, Request, Start, database, history
  <2>9. CASE DropIndex(s) \/ ClearAgent(s)
    BY <2>0, <2>9, StepTypes DEF DropIndex, ClearAgent, TypeInv, database
  <2>10. CASE RemoveTracking(s)
    BY <2>0, <2>10, StepTypes DEF RemoveTracking, TypeInv, database
  <2> QED
    BY <2>1, <2>2, <2>3, <2>4, <2>5, <2>6, <2>7, <2>8, <2>9, <2>10, <2>11 DEF Task
<1> QED
  BY <1>1, <1>2 DEF TypeInv

LEMMA CallMoveTypes ==
  ASSUME TypeInv, NEW s \in Session, NEW from, NEW to \in CallPlaces,
         NEW held \in SUBSET Start, CallMoves(s, from, to, held),
         held = {} \/ \E x \in Start : held = {x}
  PROVE  /\ call' \in [Session -> [at : CallPlaces, held : SUBSET Start]]
         /\ \A r \in Session : call'[r].held = {} \/ \E x \in Start : call'[r].held = {x}
<1>1. call' = [call EXCEPT ![s] = [at |-> to, held |-> held]]
  BY DEF CallMoves
<1>2. \A r \in Session : call'[r] = IF r = s THEN [at |-> to, held |-> held] ELSE call[r]
  BY <1>1 DEF TypeInv
<1> QED
  BY <1>1, <1>2 DEF TypeInv

LEMMA CallTypes == ASSUME TypeInv, NEW s \in Session, Call(s) PROVE TypeInv'
<1>1. UNCHANGED <<chain, loop, shutdown, quiet>>
  BY DEF Call, GetJob, TakeSessionJob, HandSessionJob, RefuseSessionJob, RemoveRefused,
         TakeBuffered, LoseTaken, AddToRunning, IndexRunning, RefuseBuffered, SetAgentOfCall,
         Report, QueueVerdict, RemoveReported, CutOff, CallMoves
<1>2. /\ {"none", "asking", "handing", "handed", "refusing", "searching", "taken", "indexing",
           "introducing", "removing"} \subseteq CallPlaces
      /\ Verdict \subseteq CallPlaces
  BY DEF CallPlaces
<1>3. /\ call[s].held \in SUBSET Start
      /\ call[s].held = {} \/ \E x \in Start : call[s].held = {x}
      /\ {} \in SUBSET Start
      /\ \A x \in Start : {x} \in SUBSET Start
      /\ \A x \in Start : x.job \in Job
      /\ \A e \in buffer : e.start \in Start
      /\ \A p \in session_jobs \union running_jobs : p[2] \in Start
  BY DEF TypeInv, Start, Entry
<1>4. {<<s, x>> : x \in call[s].held} \subseteq Session \X Start
  BY <1>3
<1>5. \A kind \in Verdict : {To(kind, x.job) : x \in call[s].held} \subseteq Request
  BY <1>3 DEF To, Request, Verdict
<1> DEFINE Types ==
      /\ requests' \subseteq Request
      /\ buffer' \subseteq Entry
      /\ task' \in [Session -> [at : TaskPlaces, held : SUBSET Start, clean : BOOLEAN]]
      /\ call' \in [Session -> [at : CallPlaces, held : SUBSET Start]]
      /\ \A r \in Session : call'[r].held = {} \/ \E x \in Start : call'[r].held = {x}
      /\ session_jobs' \subseteq Session \X Start
      /\ running_jobs' \subseteq Session \X Start
      /\ session_index' \subseteq Session \X Start
      /\ current_agents' \subseteq Session /\ tracked' \subseteq Session
      /\ lost' \subseteq Start /\ cuts' \in 0..MaxCuts
<1>6. Types
  <2>1. CASE GetJob(s)
    BY <1>2, <1>3, <2>1, CallMoveTypes DEF GetJob, TypeInv, database, history
  <2>2. CASE TakeSessionJob(s)
    BY <1>2, <1>3, <2>2, CallMoveTypes DEF TakeSessionJob, TypeInv, history
  <2>3. CASE HandSessionJob(s)
    BY <1>2, <1>3, <1>4, <2>3, CallMoveTypes DEF HandSessionJob, TypeInv, history
  <2>4. CASE RefuseSessionJob(s)
    BY <1>2, <1>3, <1>5, <2>4, CallMoveTypes DEF RefuseSessionJob, TypeInv, database, history, Verdict
  <2>5. CASE RemoveRefused(s)
    BY <1>2, <1>3, <2>5, CallMoveTypes DEF RemoveRefused, TypeInv, history
  <2>6. CASE TakeBuffered(s)
    BY <1>2, <1>3, <2>6, CallMoveTypes DEF TakeBuffered, TypeInv, database
  <2>7. CASE LoseTaken(s)
    BY <1>2, <1>3, <2>7, CallMoveTypes DEF LoseTaken, TypeInv, database
  <2>8. CASE AddToRunning(s)
    BY <1>2, <1>3, <1>4, <2>8, CallMoveTypes DEF AddToRunning, TypeInv, history
  <2>9. CASE IndexRunning(s)
    BY <1>2, <1>3, <1>4, <2>9, CallMoveTypes DEF IndexRunning, TypeInv, history
  <2>10. CASE RefuseBuffered(s)
    BY <1>2, <1>3, <1>5, <2>10, CallMoveTypes DEF RefuseBuffered, TypeInv, database, history, Verdict
  <2>11. CASE SetAgentOfCall(s)
    BY <1>2, <1>3, <2>11, CallMoveTypes DEF SetAgentOfCall, TypeInv, database, history
  <2>12. ASSUME NEW verdict \in Verdict, Report(s, verdict) PROVE Types
    BY <1>2, <1>3, <2>12, CallMoveTypes DEF Report, TypeInv, database, history
  <2>13. ASSUME NEW verdict \in Verdict, QueueVerdict(s, verdict) PROVE Types
    BY <1>2, <1>3, <1>5, <2>13, CallMoveTypes DEF QueueVerdict, TypeInv, database, history
  <2>14. CASE RemoveReported(s)
    BY <1>2, <1>3, <2>14, CallMoveTypes DEF RemoveReported, TypeInv, history
  <2>15. CASE CutOff(s)
    <3>1. PICK taken \in SUBSET buffer :
            /\ buffer' = buffer \ taken
            /\ lost' = lost \union call[s].held \union {e.start : e \in taken}
      BY <2>15 DEF CutOff
    <3>2. {e.start : e \in taken} \subseteq Start
      BY <1>3
    <3>3. cuts' \in 0..MaxCuts
      BY <2>15, Limits DEF CutOff, TypeInv
    <3>4. CallMoves(s, call[s].at, "none", {})
      BY <2>15 DEF CutOff
    <3>5. task' \in [Session -> [at : TaskPlaces, held : SUBSET Start, clean : BOOLEAN]]
      <4>1. task' = [task EXCEPT ![s].clean = FALSE]
        BY <2>15 DEF CutOff
      <4>2. task[s] \in [at : TaskPlaces, held : SUBSET Start, clean : BOOLEAN]
        BY DEF TypeInv
      <4>3. [task[s] EXCEPT !.clean = FALSE]
              \in [at : TaskPlaces, held : SUBSET Start, clean : BOOLEAN]
        BY <4>2
      <4>4. task' = [task EXCEPT ![s] = [task[s] EXCEPT !.clean = FALSE]]
        BY <4>1 DEF TypeInv
      <4> QED
        BY <4>3, <4>4 DEF TypeInv
    <3>6. /\ call' \in [Session -> [at : CallPlaces, held : SUBSET Start]]
          /\ \A r \in Session : call'[r].held = {} \/ \E x \in Start : call'[r].held = {x}
      BY <1>2, <1>3, <3>4, CallMoveTypes
    <3>7. UNCHANGED <<requests, session_jobs, running_jobs, session_index, current_agents, tracked>>
      BY <2>15 DEF CutOff, database
    <3>8. buffer' \subseteq Entry /\ lost' \subseteq Start
      BY <1>3, <3>1, <3>2 DEF TypeInv
    <3> QED
      BY <3>3, <3>5, <3>6, <3>7, <3>8 DEF TypeInv
  <2> QED
    BY <2>1, <2>2, <2>3, <2>4, <2>5, <2>6, <2>7, <2>8, <2>9, <2>10, <2>11, <2>12, <2>13, <2>14, <2>15
       DEF Call
<1> QED
  BY <1>1, <1>6 DEF TypeInv

LEMMA Types == TypeInv /\ [Next]_vars => TypeInv'
<1> SUFFICES ASSUME TypeInv, [Next]_vars PROVE TypeInv'
  OBVIOUS
<1>1. CASE UNCHANGED vars
  BY <1>1 DEF vars, sessions, database, history, TypeInv
<1> QED
  BY <1>1, ChainTypes, OutsideTypes, LoopTypes, TaskTypes, CallTypes DEF Next

-----------------------------------------------------------------------------
(* Who holds a start.                                                      *)

CallHolds(r, x) == call[r].at \in {"handing", "taken"} /\ x \in call[r].held

Holds(t, v, x) ==
  \/ t = "buffer" /\ v \in buffer /\ v.start = x
  \/ t = "loop" /\ v \in loop.held /\ v.start = x
  \/ t = "task" /\ v \in Session /\ x \in task[v].held
  \/ t = "call" /\ v \in Session /\ CallHolds(v, x)
  \/ t = "waiting" /\ v \in session_jobs /\ v[2] = x
  \/ t = "running" /\ v \in running_jobs /\ v[2] = x

LEMMA HoldersAre ==
  ASSUME NEW x
  PROVE  /\ \A t, v : Holds(t, v, x) => <<t, v>> \in Holders(x)
         /\ \A h \in Holders(x) : \E t, v : h = <<t, v>> /\ Holds(t, v, x)
<1>1. ASSUME NEW t, NEW v, Holds(t, v, x) PROVE <<t, v>> \in Holders(x)
  BY <1>1 DEF Holds, CallHolds, Holders
<1>2. ASSUME NEW h \in Holders(x) PROVE \E t, v : h = <<t, v>> /\ Holds(t, v, x)
  BY <1>2 DEF Holds, CallHolds, Holders
<1> QED
  BY <1>1, <1>2

LEMMA HoldersAreThen ==
  ASSUME NEW x
  PROVE  /\ \A t, v : Holds(t, v, x)' => <<t, v>> \in Holders(x)'
         /\ \A h \in Holders(x)' : \E t, v : h = <<t, v>> /\ Holds(t, v, x)'
<1>1. ASSUME NEW t, NEW v, Holds(t, v, x)' PROVE <<t, v>> \in Holders(x)'
  BY <1>1 DEF Holds, CallHolds, Holders
<1>2. ASSUME NEW h \in Holders(x)' PROVE \E t, v : h = <<t, v>> /\ Holds(t, v, x)'
  BY <1>2 DEF Holds, CallHolds, Holders
<1> QED
  BY <1>1, <1>2

(* The same holders, another holder, or none for a start that nobody needs *)
(* to see to any more.                                                     *)
Same(x) == \A t, v : Holds(t, v, x)' <=> Holds(t, v, x)

Moved(x) ==
  \E t0, v0, t1, v1 :
    /\ Holds(t0, v0, x) /\ Holds(t1, v1, x)'
    /\ \A t, v : Holds(t, v, x)' =>
         \/ Holds(t, v, x) /\ ~ (t = t0 /\ v = v0)
         \/ t = t1 /\ v = v1

Dropped(x) ==
  /\ \A t, v : Holds(t, v, x)' => Holds(t, v, x)
  /\ x \in lost' \/ SeenTo(x)'

(* Requests and losses are added only, except by Execute.                  *)
Adds == UNCHANGED chain /\ requests \subseteq requests' /\ lost \subseteq lost'

LEMMA StaysSeenTo == ASSUME Adds, NEW x, SeenTo(x) PROVE SeenTo(x)'
BY DEF Adds, SeenTo, Running

LEMMA AskedFor ==
  ASSUME NEW x, NEW kind, kind # "start", To(kind, x.job) \in requests'
  PROVE  SeenTo(x)'
<1>1. To(kind, x.job).job = x.job /\ To(kind, x.job).kind # "start"
  BY DEF To
<1> QED
  BY <1>1 DEF SeenTo

(* A start that no place has gained or lost.                               *)
LEMMA SameIf ==
  ASSUME NEW x,
         \A v : v.start = x => (v \in buffer' <=> v \in buffer),
         \A v : v.start = x => (v \in loop'.held <=> v \in loop.held),
         \A r \in Session : x \in task'[r].held <=> x \in task[r].held,
         \A r \in Session : CallHolds(r, x)' <=> CallHolds(r, x),
         \A v : v[2] = x => (v \in session_jobs' <=> v \in session_jobs),
         \A v : v[2] = x => (v \in running_jobs' <=> v \in running_jobs)
  PROVE  Same(x)
BY DEF Same, Holds

(* A call that moves, and what it holds after it.                          *)
LEMMA CallMoved ==
  ASSUME TypeInv, NEW s \in Session, NEW from, NEW to, NEW held, CallMoves(s, from, to, held)
  PROVE  /\ call[s].at = from
         /\ call'[s].at = to /\ call'[s].held = held
         /\ \A r \in Session \ {s} : call'[r] = call[r]
         /\ \A x : CallHolds(s, x)' <=> (to \in {"handing", "taken"} /\ x \in held)
         /\ \A x : \A r \in Session \ {s} : CallHolds(r, x)' <=> CallHolds(r, x)
<1>1. call' = [call EXCEPT ![s] = [at |-> to, held |-> held]] /\ call[s].at = from
  BY DEF CallMoves
<1>2. /\ call'[s].at = to /\ call'[s].held = held
      /\ \A r \in Session \ {s} : call'[r] = call[r]
  BY <1>1 DEF TypeInv
<1> QED
  BY <1>1, <1>2 DEF CallHolds

LEMMA StartKeeps ==
  ASSUME Adds, NEW x, StartInv(x), Same(x) \/ Moved(x) \/ Dropped(x)
  PROVE  StartInv(x)'
<1>1. /\ \A t, v : Holds(t, v, x) => <<t, v>> \in Holders(x)
      /\ \A h \in Holders(x) : \E t, v : h = <<t, v>> /\ Holds(t, v, x)
  BY HoldersAre
<1>2. /\ \A t, v : Holds(t, v, x)' => <<t, v>> \in Holders(x)'
      /\ \A h \in Holders(x)' : \E t, v : h = <<t, v>> /\ Holds(t, v, x)'
  BY HoldersAreThen
<1>3. ASSUME NEW t, NEW v, NEW u, NEW w, Holds(t, v, x), Holds(u, w, x)
      PROVE  t = u /\ v = w
  <2>1. <<t, v>> = <<u, w>>
    BY <1>1, <1>3 DEF StartInv
  <2> QED
    BY <2>1
<1>4. (\E t, v : Holds(t, v, x)) => Known(x)
  BY <1>1 DEF StartInv
<1>5. x \in lost \/ SeenTo(x) \/ \E t, v : Holds(t, v, x)
  BY <1>1 DEF StartInv
<1>6. \A t, v, u, w : Holds(t, v, x)' /\ Holds(u, w, x)' => t = u /\ v = w
  <2>1. CASE Same(x) \/ Dropped(x)
    BY <1>3, <2>1 DEF Same, Dropped
  <2>2. CASE Moved(x)
    BY <1>3, <2>2 DEF Moved
  <2> QED
    BY <2>1, <2>2
<1>7. (\E t, v : Holds(t, v, x)') => Known(x)'
  <2>1. (\E t, v : Holds(t, v, x)') => \E t, v : Holds(t, v, x)
    BY DEF Same, Moved, Dropped
  <2> QED
    BY <1>4, <2>1 DEF Adds, Known
<1>8. x \in lost' \/ SeenTo(x)' \/ \E t, v : Holds(t, v, x)'
  BY <1>5, StaysSeenTo DEF Adds, Same, Moved, Dropped
<1> QED
  BY <1>2, <1>6, <1>7, <1>8 DEF StartInv

-----------------------------------------------------------------------------
(* What each action does to the holders of a start.                        *)

LEMMA LoopAdds == ASSUME DockerLoop PROVE Adds
BY DEF Adds, DockerLoop, Pop, LoopExits, FetchJob, FetchFails, PutBack, Spawn, LoopMoves, history

LEMMA LoopStarts ==
  ASSUME TypeInv, \A s \in Session : SessionInv(s), DockerLoop, NEW x \in Start
  PROVE  Same(x) \/ Moved(x) \/ Dropped(x)
<1>1. UNCHANGED <<chain, call, session_jobs, running_jobs, lost>>
  BY DEF DockerLoop, Pop, LoopExits, FetchJob, FetchFails, PutBack, Spawn, LoopMoves,
         database, history
<1>4. CASE Pop
  <2>1. loop.held = {}
    BY <1>4 DEF Pop, TypeInv
  <2>2. PICK e \in buffer : buffer' = buffer \ {e} /\ loop'.held = {e}
    BY <1>4 DEF Pop, LoopMoves
  <2>3. task' = task
    BY <1>4 DEF Pop
  <2>4. CASE e.start = x
    <3>1. Holds("buffer", e, x) /\ Holds("loop", e, x)'
      BY <2>2, <2>4 DEF Holds, CallHolds
    <3>2. ASSUME NEW t, NEW v, Holds(t, v, x)'
          PROVE  (Holds(t, v, x) /\ ~ (t = "buffer" /\ v = e)) \/ (t = "loop" /\ v = e)
      BY <1>1, <2>2, <2>3, <3>2 DEF Holds, CallHolds
    <3> QED
      BY <3>1, <3>2 DEF Moved
  <2>5. CASE e.start # x
    BY <1>1, <2>1, <2>2, <2>3, <2>5 DEF Same, Holds, CallHolds
  <2> QED
    BY <2>4, <2>5
<1>5. CASE LoopExits
  <2>1. loop.held = {} /\ loop'.held = {} /\ task' = task /\ buffer' = buffer
    BY <1>5 DEF LoopExits, LoopMoves, TypeInv
  <2> QED
    BY <1>1, <2>1 DEF Same, Holds, CallHolds
<1>6. ASSUME NEW e \in loop.held
      PROVE  loop.held = {e} /\ e.start \in Start /\ e \in Entry
  BY <1>6 DEF TypeInv, Entry
<1>7. ASSUME NEW e \in loop.held, FetchJob(e)
      PROVE  Same(x) \/ Dropped(x)
  <2>1. task' = task /\ buffer' = buffer
    BY <1>7 DEF FetchJob
  <2>2. CASE Running(e.start.job)
    <3>1. loop'.held = loop.held
      BY <1>6, <1>7, <2>2 DEF FetchJob, LoopMoves
    <3> QED
      BY <1>1, <2>1, <3>1 DEF Same, Holds, CallHolds
  <2>3. CASE ~Running(e.start.job)
    <3>1. loop'.held = {}
      BY <1>7, <2>3 DEF FetchJob, LoopMoves
    <3>2. e.start = x => SeenTo(x)'
      BY <1>1, <2>3 DEF SeenTo, Running
    <3> QED
      BY <1>1, <1>6, <2>1, <3>1, <3>2 DEF Same, Dropped, Holds, CallHolds
  <2> QED
    BY <2>2, <2>3
<1>8. ASSUME NEW e \in loop.held, FetchFails(e)
      PROVE  Same(x) \/ Moved(x) \/ Dropped(x)
  <2>1. task' = task /\ loop'.held = {} /\ loop.held = {e}
    BY <1>6, <1>8 DEF FetchFails, LoopMoves
  <2>2. CASE e.retry_count + 1 <= MaxRetries
    <3> DEFINE f == [e EXCEPT !.retry_count = @ + 1]
    <3>1. buffer' = buffer \union {f}
      BY <1>8, <2>2 DEF FetchFails
    <3>2. f.start = e.start
      BY <1>6 DEF Entry
    <3> HIDE DEF f
    <3>3. CASE e.start = x
      <4>1. Holds("loop", e, x) /\ Holds("buffer", f, x)'
        BY <3>1, <3>2, <3>3 DEF Holds, CallHolds
      <4>2. ASSUME NEW t, NEW v, Holds(t, v, x)'
            PROVE  (Holds(t, v, x) /\ ~ (t = "loop" /\ v = e)) \/ (t = "buffer" /\ v = f)
        BY <1>1, <2>1, <3>1, <4>2 DEF Holds, CallHolds
      <4> QED
        BY <4>1, <4>2 DEF Moved
    <3>4. CASE e.start # x
      BY <1>1, <2>1, <3>1, <3>2, <3>4 DEF Same, Holds, CallHolds
    <3> QED
      BY <3>3, <3>4
  <2>3. CASE ~ (e.retry_count + 1 <= MaxRetries)
    <3>1. buffer' = buffer /\ requests' = requests \union {To("fail", e.start.job)}
      BY <1>8, <2>3 DEF FetchFails
    <3>2. To("fail", e.start.job) \in requests'
      BY <3>1
    <3>3. e.start = x => SeenTo(x)'
      BY <3>2, AskedFor
    <3> QED
      BY <1>1, <2>1, <3>1, <3>3 DEF Same, Dropped, Holds, CallHolds
  <2> QED
    BY <2>2, <2>3
<1>9. ASSUME NEW e \in loop.held, PutBack(e)
      PROVE  Same(x) \/ Moved(x)
  <2>1. task' = task /\ loop'.held = {} /\ loop.held = {e} /\ buffer' = buffer \union {e}
    BY <1>6, <1>9 DEF PutBack, LoopMoves
  <2>2. CASE e.start = x
    <3>1. Holds("loop", e, x) /\ Holds("buffer", e, x)'
      BY <2>1, <2>2 DEF Holds, CallHolds
    <3>2. ASSUME NEW t, NEW v, Holds(t, v, x)'
          PROVE  (Holds(t, v, x) /\ ~ (t = "loop" /\ v = e)) \/ (t = "buffer" /\ v = e)
      BY <1>1, <2>1, <3>2 DEF Holds, CallHolds
    <3> QED
      BY <3>1, <3>2 DEF Moved
  <2>3. CASE e.start # x
    BY <1>1, <2>1, <2>3 DEF Same, Holds, CallHolds
  <2> QED
    BY <2>2, <2>3
<1>10. ASSUME NEW e \in loop.held, NEW s \in Session, Spawn(e, s)
       PROVE  Same(x) \/ Moved(x)
  <2>0. task[s].held = {}
    BY <1>10 DEF Spawn, SessionInv
  <2>1. loop'.held = {} /\ loop.held = {e} /\ buffer' = buffer
    BY <1>6, <1>10 DEF Spawn, LoopMoves
  <2>2. \A r \in Session : task'[r].held = IF r = s THEN {e.start} ELSE task[r].held
    BY <1>10 DEF Spawn, TypeInv
  <2>3. CASE e.start = x
    <3>1. Holds("loop", e, x) /\ Holds("task", s, x)'
      BY <2>1, <2>2, <2>3 DEF Holds, CallHolds
    <3>2. ASSUME NEW t, NEW v, Holds(t, v, x)'
          PROVE  (Holds(t, v, x) /\ ~ (t = "loop" /\ v = e)) \/ (t = "task" /\ v = s)
      BY <1>1, <2>1, <2>2, <3>2 DEF Holds, CallHolds
    <3> QED
      BY <3>1, <3>2 DEF Moved
  <2>4. CASE e.start # x
    BY <1>1, <2>0, <2>1, <2>2, <2>4 DEF Same, Holds, CallHolds
  <2> QED
    BY <2>3, <2>4
<1> QED
  BY <1>4, <1>5, <1>7, <1>8, <1>9, <1>10 DEF DockerLoop

LEMMA TaskAdds == ASSUME NEW s \in Session, Task(s) PROVE Adds
BY DEF Adds, Task, NoSession, TrackLoading, SetCurrentAgent, TaskFetchFails, AddSessionJob,
       ContainerUp, WrongImage, FailWaiting, FailRunning, DropIndex, QueueFail, ClearAgent,
       RemoveTracking, Steps, history

LEMMA TaskStarts ==
  ASSUME TypeInv, NEW s \in Session, SessionInv(s), Task(s), NEW x \in Start
  PROVE  Same(x) \/ Moved(x) \/ Dropped(x)
<1>1. UNCHANGED <<chain, buffer, loop, call>>
  BY DEF Task, NoSession, TrackLoading, SetCurrentAgent, TaskFetchFails, AddSessionJob, ContainerUp,
         WrongImage, FailWaiting, FailRunning, DropIndex, QueueFail, ClearAgent,
         RemoveTracking, Steps
<1>4. ASSUME NEW from, NEW to, Steps(s, from, to), UNCHANGED <<session_jobs, running_jobs>>
      PROVE  Same(x)
  <2>1. \A r \in Session : task'[r].held = task[r].held
    BY <1>4 DEF Steps, TypeInv
  <2> QED
    BY <1>1, <1>4, <2>1 DEF Same, Holds, CallHolds
<1>5. CASE \/ TrackLoading(s) \/ SetCurrentAgent(s) \/ TaskFetchFails(s) \/ ContainerUp(s)
           \/ WrongImage(s) \/ DropIndex(s) \/ ClearAgent(s) \/ RemoveTracking(s)
  BY <1>4, <1>5 DEF TrackLoading, SetCurrentAgent, TaskFetchFails, ContainerUp, WrongImage,
                         DropIndex, ClearAgent, RemoveTracking, database
<1>6. CASE AddSessionJob(s)
  <2>1. \A r \in Session : task'[r].held = IF r = s THEN {} ELSE task[r].held
    BY <1>6 DEF AddSessionJob, TypeInv
  <2>2. /\ session_jobs' = session_jobs \union {<<s, y>> : y \in task[s].held}
        /\ running_jobs' = running_jobs
    BY <1>6 DEF AddSessionJob
  <2>3. CASE x \in task[s].held
    <3>1. Holds("task", s, x) /\ Holds("waiting", <<s, x>>, x)'
      BY <2>2, <2>3 DEF Holds, CallHolds
    <3>2. ASSUME NEW t, NEW v, Holds(t, v, x)'
          PROVE  (Holds(t, v, x) /\ ~ (t = "task" /\ v = s)) \/ (t = "waiting" /\ v = <<s, x>>)
      BY <1>1, <2>1, <2>2, <3>2 DEF Holds, CallHolds
    <3> QED
      BY <3>1, <3>2 DEF Moved
  <2>4. CASE x \notin task[s].held
    BY <1>1, <2>1, <2>2, <2>4 DEF Same, Holds, CallHolds
  <2> QED
    BY <2>3, <2>4
<1>7. CASE FailWaiting(s)
  <2> DEFINE waiting == {p \in session_jobs : p[1] = s}
  <2>1. task[s].held = {}
    BY <1>7 DEF FailWaiting, SessionInv
  <2>2. /\ \A r \in Session : task'[r].held = IF r = s THEN {p[2] : p \in waiting} ELSE task[r].held
        /\ session_jobs' = session_jobs \ waiting
        /\ running_jobs' = running_jobs
    BY <1>7 DEF FailWaiting, TypeInv
  <2>3. \A p \in session_jobs : p = <<p[1], p[2]>>
    BY DEF TypeInv
  <2>4. /\ \A p \in waiting : p \in session_jobs /\ p = <<s, p[2]>>
        /\ \A p \in session_jobs \ waiting : p[1] # s
    BY <2>3
  <2> HIDE DEF waiting
  <2>5. CASE <<s, x>> \in waiting
    <3>1. Holds("waiting", <<s, x>>, x) /\ Holds("task", s, x)'
      BY <2>2, <2>4, <2>5 DEF Holds, CallHolds
    <3>2. ASSUME NEW t, NEW v, Holds(t, v, x)'
          PROVE  (Holds(t, v, x) /\ ~ (t = "waiting" /\ v = <<s, x>>)) \/ (t = "task" /\ v = s)
      BY <1>1, <2>2, <2>5, <3>2 DEF Holds, CallHolds
    <3> QED
      BY <3>1, <3>2 DEF Moved
  <2>6. CASE <<s, x>> \notin waiting
    <3>1. \A p \in waiting : p[2] # x
      BY <2>4, <2>6
    <3> QED
      <4>1. \A v : v[2] = x => (v \in session_jobs' <=> v \in session_jobs)
        BY <2>2, <3>1
      <4>2. \A r \in Session : x \in task'[r].held <=> x \in task[r].held
        <5>1. x \notin task'[s].held /\ x \notin task[s].held
          <6>1. task'[s].held = {p[2] : p \in waiting}
            BY <2>2
          <6>2. x \notin {p[2] : p \in waiting}
            BY <3>1
          <6> QED
            BY <2>1, <6>1, <6>2
        <5> QED
          BY <2>2, <5>1
      <4>3. \A r \in Session : CallHolds(r, x)' <=> CallHolds(r, x)
        BY <1>1 DEF CallHolds
      <4> QED
        BY <1>1, <2>2, <4>1, <4>2, <4>3, SameIf
  <2> QED
    BY <2>5, <2>6
<1>8. CASE FailRunning(s)
  <2> DEFINE found == {p \in session_index : p[1] = s} \intersect running_jobs
  <2>1. /\ \A r \in Session : task'[r].held = IF r = s THEN task[s].held \union {p[2] : p \in found}
                                               ELSE task[r].held
        /\ running_jobs' = running_jobs \ found
        /\ session_jobs' = session_jobs
    BY <1>8 DEF FailRunning, TypeInv
  <2>2. \A p \in found : p \in running_jobs /\ p = <<s, p[2]>>
    BY DEF TypeInv
  <2> HIDE DEF found
  <2>3. CASE <<s, x>> \in found
    <3>1. Holds("running", <<s, x>>, x) /\ Holds("task", s, x)'
      BY <2>1, <2>2, <2>3 DEF Holds, CallHolds
    <3>2. ASSUME NEW t, NEW v, Holds(t, v, x)'
          PROVE  (Holds(t, v, x) /\ ~ (t = "running" /\ v = <<s, x>>)) \/ (t = "task" /\ v = s)
      BY <1>1, <2>1, <2>3, <3>2 DEF Holds, CallHolds
    <3> QED
      BY <3>1, <3>2 DEF Moved
  <2>4. CASE <<s, x>> \notin found
    <3>1. \A p \in found : p[2] # x
      BY <2>2, <2>4
    <3> QED
      <4>1. \A v : v[2] = x => (v \in running_jobs' <=> v \in running_jobs)
        BY <2>1, <3>1
      <4>2. \A r \in Session : x \in task'[r].held <=> x \in task[r].held
        <5>1. x \in task'[s].held <=> x \in task[s].held
          <6>1. task'[s].held = task[s].held \union {p[2] : p \in found}
            BY <2>1
          <6>2. x \notin {p[2] : p \in found}
            BY <3>1
          <6> QED
            BY <6>1, <6>2
        <5> QED
          BY <2>1, <5>1
      <4>3. \A r \in Session : CallHolds(r, x)' <=> CallHolds(r, x)
        BY <1>1 DEF CallHolds
      <4> QED
        BY <1>1, <2>1, <4>1, <4>2, <4>3, SameIf
  <2> QED
    BY <2>3, <2>4
<1>9. CASE QueueFail(s)
  <2>1. PICK y \in task[s].held :
          /\ requests' = requests \union {To("fail", y.job)}
          /\ task' = [task EXCEPT ![s].held = @ \ {y}]
    BY <1>9 DEF QueueFail
  <2>2. UNCHANGED <<session_jobs, running_jobs>>
    BY <1>9 DEF QueueFail, database
  <2>3. \A r \in Session : task'[r].held = IF r = s THEN task[s].held \ {y} ELSE task[r].held
    BY <2>1 DEF TypeInv
  <2>4. CASE x = y
    <3>1. SeenTo(x)'
      <4>1. To("fail", x.job) \in requests'
        BY <2>1, <2>4
      <4> QED
        BY <4>1, AskedFor
    <3> QED
      BY <1>1, <2>2, <2>3, <3>1 DEF Dropped, Holds, CallHolds
  <2>5. CASE x # y
    BY <1>1, <2>2, <2>3, <2>5 DEF Same, Holds, CallHolds
  <2> QED
    BY <2>4, <2>5
<1>10. CASE NoSession(s)
  <2>1. \A r \in Session : task'[r].held = IF r = s THEN {} ELSE task[r].held
    BY <1>10 DEF NoSession, TypeInv
  <2>2. UNCHANGED <<session_jobs, running_jobs>>
    BY <1>10 DEF NoSession, database
  <2>3. CASE x \in task[s].held
    <3>1. x \in lost'
      BY <1>10, <2>3 DEF NoSession
    <3> QED
      BY <1>1, <2>1, <2>2, <3>1 DEF Dropped, Holds, CallHolds
  <2>4. CASE x \notin task[s].held
    BY <1>1, <2>1, <2>2, <2>4 DEF Same, Holds, CallHolds
  <2> QED
    BY <2>3, <2>4
<1> QED
  BY <1>5, <1>6, <1>7, <1>8, <1>9, <1>10 DEF Task

LEMMA CallAdds == ASSUME NEW s \in Session, Call(s) PROVE Adds
BY DEF Adds, Call, GetJob, TakeSessionJob, HandSessionJob, RefuseSessionJob, RemoveRefused,
       TakeBuffered, LoseTaken, AddToRunning, IndexRunning, RefuseBuffered, SetAgentOfCall,
       Report, QueueVerdict, RemoveReported, CutOff, CallMoves, history

LEMMA CallStarts ==
  ASSUME TypeInv, NEW s \in Session, SessionInv(s), Call(s), NEW x \in Start, StartInv(x)
  PROVE  Same(x) \/ Moved(x) \/ Dropped(x)
<1>1. UNCHANGED <<chain, loop>>
  BY DEF Call, GetJob, TakeSessionJob, HandSessionJob, RefuseSessionJob, RemoveRefused,
         TakeBuffered, LoseTaken, AddToRunning, IndexRunning, RefuseBuffered, SetAgentOfCall,
         Report, QueueVerdict, RemoveReported, CutOff, CallMoves
<1>3. Adds
  BY CallAdds
<1>4. \A r \in Session : task'[r].held = task[r].held
  BY DEF TypeInv, Call, GetJob, TakeSessionJob, HandSessionJob, RefuseSessionJob, RemoveRefused,
         TakeBuffered, LoseTaken, AddToRunning, IndexRunning, RefuseBuffered, SetAgentOfCall,
         Report, QueueVerdict, RemoveReported, CutOff
<1>5. ASSUME NEW from, NEW to, NEW held, CallMoves(s, from, to, held)
      PROVE  /\ call[s].at = from
             /\ \A y : CallHolds(s, y)' <=> (to \in {"handing", "taken"} /\ y \in held)
             /\ \A y : \A r \in Session \ {s} : CallHolds(r, y)' <=> CallHolds(r, y)
  BY <1>5, CallMoved
<1>6. ASSUME NEW from, NEW to, NEW held, CallMoves(s, from, to, held),
             from \notin {"handing", "taken"}, to \notin {"handing", "taken"},
             UNCHANGED <<buffer, session_jobs, running_jobs>>
      PROVE  Same(x)
  <2>1. \A r \in Session : CallHolds(r, x)' <=> CallHolds(r, x)
    BY <1>5, <1>6 DEF CallHolds
  <2> QED
    BY <1>1, <1>4, <1>6, <2>1, SameIf
<1>7. CASE GetJob(s) \/ IndexRunning(s) \/ RefuseBuffered(s) \/ SetAgentOfCall(s)
  BY <1>3, <1>6, <1>7 DEF GetJob, IndexRunning, RefuseBuffered, SetAgentOfCall, database
<1>8. CASE RefuseSessionJob(s)
  BY <1>3, <1>6, <1>8 DEF RefuseSessionJob, database
<1>9. ASSUME NEW verdict \in Verdict, Report(s, verdict) \/ QueueVerdict(s, verdict)
      PROVE  Same(x)
  <2>1. verdict \notin {"handing", "taken"}
    BY DEF Verdict
  <2>2. UNCHANGED <<buffer, session_jobs, running_jobs>>
    BY <1>9 DEF Report, QueueVerdict, database
  <2>3. CASE Report(s, verdict)
    <3>1. PICK p \in running_jobs : CallMoves(s, "none", verdict, {p[2]})
      BY <2>3 DEF Report
    <3> QED
      BY <1>6, <2>1, <2>2, <3>1
  <2>4. CASE QueueVerdict(s, verdict)
    <3>1. CallMoves(s, verdict, "removing", call[s].held)
      BY <2>4 DEF QueueVerdict
    <3> QED
      BY <1>6, <2>1, <2>2, <3>1
  <2> QED
    BY <1>9, <2>3, <2>4
<1>10. CASE TakeSessionJob(s)
  <2>1. buffer' = buffer /\ running_jobs' = running_jobs
    BY <1>10 DEF TakeSessionJob
  <2>2. ASSUME NEW p \in session_jobs, p[1] = s, session_jobs' = session_jobs \ {p},
               CallMoves(s, "asking", "handing", {p[2]})
        PROVE  Same(x) \/ Moved(x)
    <3>1. p = <<s, p[2]>>
      BY <2>2 DEF TypeInv
    <3>2. CASE p[2] = x
      <4>1. Holds("waiting", p, x) /\ Holds("call", s, x)'
        BY <1>5, <2>2, <3>2 DEF Holds
      <4>2. ASSUME NEW t, NEW v, Holds(t, v, x)'
            PROVE  (Holds(t, v, x) /\ ~ (t = "waiting" /\ v = p)) \/ (t = "call" /\ v = s)
        BY <1>1, <1>4, <1>5, <2>1, <2>2, <4>2 DEF Holds
      <4> QED
        BY <4>1, <4>2 DEF Moved
    <3>3. CASE p[2] # x
      <4>1. call[s].at = "asking" /\ ~CallHolds(s, x)'
        BY <1>5, <2>2, <3>3
      <4>2. \A r \in Session : CallHolds(r, x)' <=> CallHolds(r, x)
        BY <1>5, <2>2, <4>1 DEF CallHolds
      <4> QED
        BY <1>1, <1>4, <2>1, <2>2, <3>3, <4>2, SameIf
    <3> QED
      BY <3>2, <3>3
  <2>3. CASE CallMoves(s, "asking", "searching", {}) /\ session_jobs' = session_jobs
    <3>1. \A r \in Session : CallHolds(r, x)' <=> CallHolds(r, x)
      BY <1>5, <2>3 DEF CallHolds
    <3> QED
      BY <1>1, <1>4, <2>1, <2>3, <3>1, SameIf
  <2> QED
    BY <1>3, <1>10, <2>2, <2>3 DEF TakeSessionJob
(* Out of the call's hands and into the table of jobs handed out.          *)
<1>11. ASSUME NEW from \in {"handing", "taken"}, NEW to, to \notin {"handing", "taken"}, NEW held,
              CallMoves(s, from, to, held),
              running_jobs' = running_jobs \union {<<s, y>> : y \in call[s].held},
              UNCHANGED <<buffer, session_jobs>>
       PROVE  Same(x) \/ Moved(x)
  <2>1. CASE x \in call[s].held
    <3>1. Holds("call", s, x) /\ Holds("running", <<s, x>>, x)'
      <4>1. CallHolds(s, x) /\ <<s, x>> \in running_jobs'
        BY <1>5, <1>11, <2>1 DEF CallHolds
      <4> QED
        BY <4>1 DEF Holds
    <3>2. ASSUME NEW t, NEW v, Holds(t, v, x)'
          PROVE  (Holds(t, v, x) /\ ~ (t = "call" /\ v = s)) \/ (t = "running" /\ v = <<s, x>>)
      BY <1>1, <1>4, <1>5, <1>11, <3>2 DEF Holds
    <3> QED
      BY <3>1, <3>2 DEF Moved
  <2>2. CASE x \notin call[s].held
    <3>1. \A r \in Session : CallHolds(r, x)' <=> CallHolds(r, x)
      BY <1>5, <1>11, <2>2 DEF CallHolds
    <3>2. \A v : v[2] = x => (v \in running_jobs' <=> v \in running_jobs)
      BY <1>11, <2>2
    <3> QED
      BY <1>1, <1>4, <1>11, <3>1, <3>2, SameIf
  <2> QED
    BY <2>1, <2>2
<1>12. CASE HandSessionJob(s)
  BY <1>3, <1>11, <1>12 DEF HandSessionJob
<1>13. CASE AddToRunning(s)
  BY <1>3, <1>11, <1>13 DEF AddToRunning
<1>14. CASE TakeBuffered(s)
  <2>1. session_jobs' = session_jobs /\ running_jobs' = running_jobs
    BY <1>14 DEF TakeBuffered, database
  <2>2. ASSUME NEW e \in buffer, buffer' = buffer \ {e},
               CallMoves(s, "searching", "taken", {e.start})
        PROVE  Same(x) \/ Moved(x)
    <3>1. CASE e.start = x
      <4>1. Holds("buffer", e, x) /\ Holds("call", s, x)'
        BY <1>5, <2>2, <3>1 DEF Holds
      <4>2. ASSUME NEW t, NEW v, Holds(t, v, x)'
            PROVE  (Holds(t, v, x) /\ ~ (t = "buffer" /\ v = e)) \/ (t = "call" /\ v = s)
        BY <1>1, <1>4, <1>5, <2>1, <2>2, <4>2 DEF Holds
      <4> QED
        BY <4>1, <4>2 DEF Moved
    <3>2. CASE e.start # x
      <4>1. call[s].at = "searching" /\ ~CallHolds(s, x)'
        BY <1>5, <2>2, <3>2
      <4>2. \A r \in Session : CallHolds(r, x)' <=> CallHolds(r, x)
        BY <1>5, <2>2, <4>1 DEF CallHolds
      <4> QED
        BY <1>1, <1>4, <2>1, <2>2, <3>2, <4>2, SameIf
    <3> QED
      BY <3>1, <3>2
  <2>3. CASE CallMoves(s, "searching", "none", {}) /\ buffer' = buffer
    <3>1. \A r \in Session : CallHolds(r, x)' <=> CallHolds(r, x)
      BY <1>5, <2>3 DEF CallHolds
    <3> QED
      BY <1>1, <1>4, <2>1, <2>3, <3>1, SameIf
  <2> QED
    BY <1>3, <1>14, <2>2, <2>3 DEF TakeBuffered
<1>15. CASE LoseTaken(s)
  <2>1. /\ UNCHANGED <<buffer, session_jobs, running_jobs>>
        /\ lost' = lost \union call[s].held
        /\ CallMoves(s, "taken", "none", {})
    BY <1>15 DEF LoseTaken, database
  <2>2. CASE x \in call[s].held
    <3>1. ASSUME NEW t, NEW v, Holds(t, v, x)' PROVE Holds(t, v, x)
      BY <1>1, <1>4, <1>5, <2>1, <3>1 DEF Holds
    <3> QED
      BY <1>3, <2>1, <2>2, <3>1 DEF Dropped
  <2>3. CASE x \notin call[s].held
    <3>1. \A r \in Session : CallHolds(r, x)' <=> CallHolds(r, x)
      BY <1>5, <2>1, <2>3 DEF CallHolds
    <3> QED
      BY <1>1, <1>4, <2>1, <3>1, SameIf
  <2> QED
    BY <2>2, <2>3
(* Out of the table, when the end of the run has been asked for.           *)
<1>16. ASSUME NEW from \in {"removing", "refusing"}, NEW to \in {"none", "asking"},
              CallMoves(s, from, to, {}),
              running_jobs' = running_jobs \ {<<s, y>> : y \in call[s].held},
              UNCHANGED <<buffer, session_jobs>>
       PROVE  Same(x) \/ Dropped(x)
  <2>1. CASE x \in call[s].held
    <3>1. SeenTo(x)
      BY <1>5, <1>16, <2>1 DEF SessionInv
    <3>2. SeenTo(x)'
      BY <1>3, <3>1, StaysSeenTo
    <3> QED
      BY <1>1, <1>4, <1>5, <1>16, <3>2 DEF Dropped, Holds
  <2>2. CASE x \notin call[s].held
    <3>1. \A r \in Session : CallHolds(r, x)' <=> CallHolds(r, x)
      BY <1>5, <1>16, <2>2 DEF CallHolds
    <3>2. \A v : v[2] = x => (v \in running_jobs' <=> v \in running_jobs)
      BY <1>16, <2>2
    <3> QED
      BY <1>1, <1>4, <1>16, <3>1, <3>2, SameIf
  <2> QED
    BY <2>1, <2>2
<1>17. CASE RemoveRefused(s)
  BY <1>3, <1>16, <1>17 DEF RemoveRefused
<1>18. CASE RemoveReported(s)
  BY <1>3, <1>16, <1>18 DEF RemoveReported
<1>19. CASE CutOff(s)
  <2>1. PICK taken \in SUBSET buffer :
          /\ buffer' = buffer \ taken
          /\ lost' = lost \union call[s].held \union {e.start : e \in taken}
    BY <1>19 DEF CutOff
  <2>2. /\ UNCHANGED <<session_jobs, running_jobs>>
        /\ CallMoves(s, call[s].at, "none", {})
    BY <1>19 DEF CutOff, database
  <2>3. ASSUME NEW t, NEW v, Holds(t, v, x)' PROVE Holds(t, v, x)
    BY <1>1, <1>4, <1>5, <2>1, <2>2, <2>3 DEF Holds
  <2>4. CASE x \in call[s].held \/ \E e \in taken : e.start = x
    BY <1>3, <2>1, <2>3, <2>4 DEF Dropped
  <2>5. CASE x \notin call[s].held /\ \A e \in taken : e.start # x
    <3>1. \A r \in Session : CallHolds(r, x)' <=> CallHolds(r, x)
      BY <1>5, <2>2, <2>5 DEF CallHolds
    <3>2. \A v : v.start = x => (v \in buffer' <=> v \in buffer)
      BY <2>1, <2>5
    <3> QED
      BY <1>1, <1>4, <2>2, <3>1, <3>2, SameIf
  <2> QED
    BY <2>4, <2>5
<1> QED
  BY <1>3, <1>7, <1>8, <1>9, <1>10, <1>12, <1>13, <1>14, <1>15, <1>17, <1>18, <1>19 DEF Call

(* Steps that touch no start.                                              *)
LEMMA OutsideStarts ==
  ASSUME NEW x \in Start,
         \/ \E j \in Job : Search(j) \/ FailStuck(j)
         \/ RequestShutdown \/ CheckSilence
         \/ UNCHANGED vars
  PROVE  Adds /\ Same(x)
<1>1. /\ UNCHANGED <<chain, buffer, loop, task, call, session_jobs, running_jobs, lost>>
      /\ requests \subseteq requests'
  BY DEF Search, FailStuck, RequestShutdown, CheckSilence, vars, sessions, database, history
<1>2. \A r \in Session : CallHolds(r, x)' <=> CallHolds(r, x)
  BY <1>1 DEF CallHolds
<1> QED
  BY <1>1, <1>2, SameIf DEF Adds

(* The chain moves on: a start it has come to stays known, and what is     *)
(* seen to stays so, since only a later attempt can run.                   *)
LEMMA ChainMoves ==
  ASSUME TypeInv, NEW r \in requests, Execute(r), NEW x \in Start
  PROVE  /\ Known(x) => Known(x)'
         /\ chain'[x.job].attempts = x.attempt /\ ~Known(x) =>
              buffer' = buffer \union {[start |-> x, retry_count |-> 0]}
         /\ chain'[x.job].attempts # x.attempt \/ Known(x) =>
              \A e \in buffer' \ buffer : e.start # x
         /\ SeenTo(x) => SeenTo(x)' \/ (chain'[x.job].attempts = x.attempt /\ ~Known(x))
<1>1. /\ r.job \in Job /\ x.job \in Job /\ x.attempt \in 1..MaxAttempts /\ x = [job |-> x.job, attempt |-> x.attempt]
  BY DEF TypeInv, Request, Start
<1>2. /\ \A j \in Job : chain[j].attempts \in Nat
      /\ \A j \in Job : chain[j].status \in {"pending", "running", "gone"}
  BY Limits DEF TypeInv
<1>3. /\ chain' = [chain EXCEPT ![r.job] = Executed(r)]
      /\ requests' = requests \ {r}
      /\ buffer' = buffer \union FreshEntries(r.job)
  BY DEF Execute
<1>4. /\ chain'[r.job] = Executed(r)
      /\ \A j \in Job \ {r.job} : chain'[j] = chain[j]
  BY <1>1, <1>3 DEF TypeInv
<1>5. \/ /\ Executed(r).status = "running" /\ Executed(r).attempts = chain[r.job].attempts + 1
         /\ r.kind = "start" /\ chain[r.job].status = "pending"
      \/ /\ Executed(r).attempts = chain[r.job].attempts
         /\ Executed(r).status = "running" => chain[r.job].status = "running"
         /\ r.kind # "start" => Executed(r).status # "running"
  BY <1>1, <1>2 DEF Executed, TypeInv, Request
<1>6. /\ Known(x) => Known(x)'
  BY <1>1, <1>2, <1>4, <1>5 DEF Known
<1>7. SeenTo(x) => SeenTo(x)' \/ (chain'[x.job].attempts = x.attempt /\ ~Known(x))
  <2> SUFFICES ASSUME SeenTo(x), ~ (chain'[x.job].attempts = x.attempt /\ ~Known(x))
               PROVE  SeenTo(x)'
    OBVIOUS
  <2>1. CASE r.job # x.job
    BY <1>1, <1>3, <1>4, <2>1 DEF SeenTo, Running
  <2>2. CASE r.job = x.job /\ r.kind # "start"
    BY <1>1, <1>2, <1>4, <1>5, <2>2 DEF SeenTo, Running
  <2>3. CASE r.job = x.job /\ r.kind = "start"
    BY <1>1, <1>2, <1>3, <1>4, <1>5, <2>3 DEF SeenTo, Running, Known
  <2> QED
    BY <2>1, <2>2, <2>3
<1>8. chain'[x.job].attempts = x.attempt /\ ~Known(x) =>
        buffer' = buffer \union {[start |-> x, retry_count |-> 0]}
  BY <1>1, <1>2, <1>3, <1>4, <1>5 DEF FreshEntries, Known
<1>9. chain'[x.job].attempts # x.attempt \/ Known(x) =>
        \A e \in buffer' \ buffer : e.start # x
  BY <1>1, <1>2, <1>3, <1>4, <1>5 DEF FreshEntries, Known
<1> QED
  BY <1>6, <1>7, <1>8, <1>9

LEMMA ExecuteStarts ==
  ASSUME TypeInv, NEW r \in requests, Execute(r), NEW x \in Start, StartInv(x)
  PROVE  StartInv(x)'
<1>1. /\ \A t, v : Holds(t, v, x) => <<t, v>> \in Holders(x)
      /\ \A h \in Holders(x) : \E t, v : h = <<t, v>> /\ Holds(t, v, x)
      /\ \A t, v : Holds(t, v, x)' => <<t, v>> \in Holders(x)'
      /\ \A h \in Holders(x)' : \E t, v : h = <<t, v>> /\ Holds(t, v, x)'
  BY HoldersAre, HoldersAreThen
<1>2. UNCHANGED <<loop, task, call, session_jobs, running_jobs, lost>> /\ buffer \subseteq buffer'
  BY DEF Execute, sessions, database, history
<1>3. \A s \in Session : CallHolds(s, x)' <=> CallHolds(s, x)
  BY <1>2 DEF CallHolds
<1>4. CASE chain'[x.job].attempts = x.attempt /\ ~Known(x)
  <2> DEFINE e == [start |-> x, retry_count |-> 0]
  <2>1. buffer' = buffer \union {e}
    BY <1>4, ChainMoves
  <2>2. Holders(x) = {}
    BY <1>4 DEF StartInv
  <2>3. \A t, v : ~Holds(t, v, x)
    BY <1>1, <2>2
  <2>4. e.start = x
    OBVIOUS
  <2> HIDE DEF e
  <2>5. ASSUME NEW t, NEW v, Holds(t, v, x)' PROVE t = "buffer" /\ v = e
    BY <1>2, <1>3, <2>1, <2>3, <2>5 DEF Holds
  <2>6. Holds("buffer", e, x)'
    BY <2>1, <2>4 DEF Holds
  <2>7. Holders(x)' = {<<"buffer", e>>}
    BY <1>1, <2>5, <2>6
  <2>8. Known(x)'
    BY <1>4 DEF Known, TypeInv, Start
  <2> QED
    BY <2>7, <2>8 DEF StartInv
<1>5. CASE ~ (chain'[x.job].attempts = x.attempt /\ ~Known(x))
  <2>1. \A v : v.start = x => (v \in buffer' <=> v \in buffer)
    BY <1>2, <1>5, ChainMoves
  <2>2. Same(x)
    BY <1>2, <1>3, <2>1, SameIf
  <2>3. \A h : h \in Holders(x)' <=> h \in Holders(x)
    BY <1>1, <2>2 DEF Same
  <2>4. Holders(x)' = Holders(x)
    BY <2>3
  <2>5. (SeenTo(x) => SeenTo(x)') /\ (Known(x) => Known(x)')
    BY <1>5, ChainMoves
  <2> QED
    BY <1>2, <2>4, <2>5 DEF StartInv
<1> QED
  BY <1>4, <1>5

LEMMA Starts ==
  ASSUME TypeInv, \A s \in Session : SessionInv(s), [Next]_vars,
         NEW x \in Start, StartInv(x)
  PROVE  StartInv(x)'
<1>1. ASSUME NEW r \in requests, Execute(r) PROVE StartInv(x)'
  BY <1>1, ExecuteStarts
<1>2. CASE \/ \E j \in Job : Search(j) \/ FailStuck(j)
           \/ RequestShutdown \/ CheckSilence
           \/ UNCHANGED vars
  BY <1>2, OutsideStarts, StartKeeps
<1>3. CASE DockerLoop
  BY <1>3, LoopStarts, LoopAdds, StartKeeps
<1>4. ASSUME NEW s \in Session, Task(s) PROVE StartInv(x)'
  BY <1>4, TaskStarts, TaskAdds, StartKeeps
<1>5. ASSUME NEW s \in Session, Call(s) PROVE StartInv(x)'
  BY <1>5, CallStarts, CallAdds, StartKeeps
<1> QED
  BY <1>1, <1>2, <1>3, <1>4, <1>5 DEF Next

-----------------------------------------------------------------------------
(* Sessions.                                                               *)

(* The entries of s in the three tables.                                   *)
SameEntries(s) ==
  \A x \in Start :
    /\ <<s, x>> \in session_jobs' <=> <<s, x>> \in session_jobs
    /\ <<s, x>> \in running_jobs' <=> <<s, x>> \in running_jobs
    /\ <<s, x>> \in session_index' <=> <<s, x>> \in session_index

(* A step that concerns another session, or none.                          *)
LEMMA Apart ==
  ASSUME NEW s \in Session, SessionInv(s), task'[s] = task[s], call'[s] = call[s],
         SameEntries(s), lost \subseteq lost',
         s \in current_agents' <=> s \in current_agents, s \in tracked' <=> s \in tracked,
         \A x \in Start : (Known(x) => Known(x)') /\ (Known(x) /\ SeenTo(x) => SeenTo(x)')
  PROVE  SessionInv(s)'
BY DEF SessionInv, SameEntries

LEMMA AddsKeeps ==
  ASSUME Adds, NEW x
  PROVE  (Known(x) => Known(x)') /\ (Known(x) /\ SeenTo(x) => SeenTo(x)')
<1>1. Known(x) => Known(x)'
  BY DEF Adds, Known
<1> QED
  BY <1>1, StaysSeenTo

LEMMA TaskApart ==
  ASSUME TypeInv, NEW s \in Session, SessionInv(s), NEW r \in Session \ {s}, Task(r), Adds
  PROVE  SessionInv(s)'
<1>1. task'[s] = task[s]
  BY DEF TypeInv, Task, NoSession, TrackLoading, SetCurrentAgent, TaskFetchFails, AddSessionJob,
         ContainerUp, WrongImage, FailWaiting, FailRunning, DropIndex, QueueFail, ClearAgent,
         RemoveTracking, Steps
<1>2. call' = call
  BY DEF Task, NoSession, TrackLoading, SetCurrentAgent, TaskFetchFails, AddSessionJob,
         ContainerUp, WrongImage, FailWaiting, FailRunning, DropIndex, QueueFail, ClearAgent,
         RemoveTracking
<1>3. SameEntries(s)
  BY DEF SameEntries, Task, NoSession, TrackLoading, SetCurrentAgent, TaskFetchFails, AddSessionJob,
         ContainerUp, WrongImage, FailWaiting, FailRunning, DropIndex, QueueFail, ClearAgent,
         RemoveTracking, database
<1>4. (s \in current_agents' <=> s \in current_agents) /\ (s \in tracked' <=> s \in tracked)
  BY DEF Task, NoSession, TrackLoading, SetCurrentAgent, TaskFetchFails, AddSessionJob,
         ContainerUp, WrongImage, FailWaiting, FailRunning, DropIndex, QueueFail, ClearAgent,
         RemoveTracking
<1> QED
  BY <1>1, <1>2, <1>3, <1>4, Apart, AddsKeeps DEF Adds

LEMMA CallApart ==
  ASSUME TypeInv, NEW s \in Session, SessionInv(s), NEW r \in Session \ {s}, Call(r), Adds
  PROVE  SessionInv(s)'
<1>1. call'[s] = call[s]
  BY DEF TypeInv, Call, GetJob, TakeSessionJob, HandSessionJob, RefuseSessionJob, RemoveRefused,
         TakeBuffered, LoseTaken, AddToRunning, IndexRunning, RefuseBuffered, SetAgentOfCall,
         Report, QueueVerdict, RemoveReported, CutOff, CallMoves
<1>2. task'[s] = task[s]
  BY DEF TypeInv, Call, GetJob, TakeSessionJob, HandSessionJob, RefuseSessionJob, RemoveRefused,
         TakeBuffered, LoseTaken, AddToRunning, IndexRunning, RefuseBuffered, SetAgentOfCall,
         Report, QueueVerdict, RemoveReported, CutOff
<1>3. SameEntries(s)
  <2>1. CASE TakeSessionJob(r)
    <3>1. UNCHANGED <<running_jobs, session_index>>
      BY <2>1 DEF TakeSessionJob
    <3>2. session_jobs' = session_jobs \/ \E p \in session_jobs : p[1] = r /\ session_jobs' = session_jobs \ {p}
      BY <2>1 DEF TakeSessionJob
    <3>3. \A x \in Start : <<s, x>>[1] # r
      OBVIOUS
    <3>4. \A x \in Start : <<s, x>> \in session_jobs' <=> <<s, x>> \in session_jobs
      BY <3>2, <3>3
    <3> QED
      BY <3>1, <3>4 DEF SameEntries
  <2>2. CASE HandSessionJob(r) \/ AddToRunning(r)
    BY <2>2 DEF SameEntries, HandSessionJob, AddToRunning
  <2>3. CASE RemoveRefused(r) \/ RemoveReported(r)
    BY <2>3 DEF SameEntries, RemoveRefused, RemoveReported
  <2>4. CASE IndexRunning(r)
    BY <2>4 DEF SameEntries, IndexRunning
  <2>5. CASE ~ (\/ TakeSessionJob(r) \/ HandSessionJob(r) \/ AddToRunning(r) \/ RemoveRefused(r)
                \/ RemoveReported(r) \/ IndexRunning(r))
    <3>1. UNCHANGED <<session_jobs, running_jobs, session_index>>
      BY <2>5 DEF Call, GetJob, RefuseSessionJob, TakeBuffered, LoseTaken, RefuseBuffered,
                  SetAgentOfCall, Report, QueueVerdict, CutOff, database
    <3> QED
      BY <3>1 DEF SameEntries
  <2> QED
    BY <2>1, <2>2, <2>3, <2>4, <2>5
<1>4. (s \in current_agents' <=> s \in current_agents) /\ (s \in tracked' <=> s \in tracked)
  BY DEF Call, GetJob, TakeSessionJob, HandSessionJob, RefuseSessionJob, RemoveRefused,
         TakeBuffered, LoseTaken, AddToRunning, IndexRunning, RefuseBuffered, SetAgentOfCall,
         Report, QueueVerdict, RemoveReported, CutOff
<1> QED
  BY <1>1, <1>2, <1>3, <1>4, Apart, AddsKeeps DEF Adds

LEMMA LoopSessions ==
  ASSUME TypeInv, NEW s \in Session, SessionInv(s), DockerLoop, Adds
  PROVE  SessionInv(s)'
<1>1. UNCHANGED <<call, session_jobs, running_jobs, session_index, current_agents, tracked, lost>>
  BY DEF DockerLoop, Pop, LoopExits, FetchJob, FetchFails, PutBack, Spawn, LoopMoves,
         database, history
<1>2. SameEntries(s)
  BY <1>1 DEF SameEntries
<1>3. CASE task'[s] = task[s]
  BY <1>1, <1>2, <1>3, Apart, AddsKeeps
<1>4. ASSUME NEW e, Spawn(e, s) PROVE SessionInv(s)'
  <2>1. /\ task[s].at = "none" /\ task'[s].at = "spawned"
        /\ call'[s] = call[s]
    BY <1>1, <1>4 DEF Spawn, TypeInv
  <2>2. call[s].at = "none"
    BY <2>1 DEF SessionInv, Early
  <2>3. call[s].held \subseteq lost
    BY <2>1 DEF SessionInv
  <2> QED
    BY <1>1, <2>1, <2>2, <2>3, AddsKeeps DEF SessionInv, Early
<1>5. task'[s] = task[s] \/ \E e : Spawn(e, s)
  BY DEF TypeInv, DockerLoop, Pop, LoopExits, FetchJob, FetchFails, PutBack, Spawn
<1> QED
  BY <1>3, <1>4, <1>5

LEMMA OutsideSessions ==
  ASSUME TypeInv, NEW s \in Session, SessionInv(s),
         \/ \E r \in requests : Execute(r)
         \/ \E j \in Job : Search(j) \/ FailStuck(j)
         \/ RequestShutdown \/ CheckSilence
         \/ UNCHANGED vars
  PROVE  SessionInv(s)'
<1>1. UNCHANGED <<task, call, session_jobs, running_jobs, session_index, current_agents, tracked, lost>>
  BY DEF Execute, Search, FailStuck, RequestShutdown, CheckSilence, vars, sessions, database, history
<1>2. ASSUME NEW x \in Start
      PROVE  (Known(x) => Known(x)') /\ (Known(x) /\ SeenTo(x) => SeenTo(x)')
  <2>1. CASE \E r \in requests : Execute(r)
    BY <2>1, ChainMoves
  <2>2. CASE ~ \E r \in requests : Execute(r)
    BY <2>2, OutsideStarts, AddsKeeps
  <2> QED
    BY <2>1, <2>2
<1>3. SameEntries(s)
  BY <1>1 DEF SameEntries
<1> QED
  BY <1>1, <1>2, <1>3, Apart

LEMMA TaskSessions ==
  ASSUME TypeInv, NEW s \in Session, SessionInv(s), Task(s), Adds
  PROVE  SessionInv(s)'
<1>1. call' = call /\ lost \subseteq lost'
  BY DEF Adds, Task, NoSession, TrackLoading, SetCurrentAgent, TaskFetchFails, AddSessionJob,
         ContainerUp, WrongImage, FailWaiting, FailRunning, DropIndex, QueueFail, ClearAgent,
         RemoveTracking
<1>2. \A x : (Known(x) => Known(x)') /\ (Known(x) /\ SeenTo(x) => SeenTo(x)')
  BY AddsKeeps
<1>3. ASSUME NEW from, NEW to, Steps(s, from, to)
      PROVE  /\ task[s].at = from
             /\ task'[s].at = to /\ task'[s].held = task[s].held /\ task'[s].clean = task[s].clean
  BY <1>3 DEF Steps, TypeInv
<1>4. CASE TrackLoading(s)
  BY <1>1, <1>2, <1>3, <1>4 DEF TrackLoading, SessionInv, Early, database
<1>16. CASE NoSession(s)
  <2>1. /\ task[s].at = "spawned"
        /\ task'[s].at = "over" /\ task'[s].held = {} /\ task'[s].clean = task[s].clean
    BY <1>16 DEF NoSession, TypeInv
  <2>2. UNCHANGED <<session_jobs, running_jobs, session_index, current_agents, tracked>>
    BY <1>16 DEF NoSession, database
  <2> QED
    BY <1>1, <1>2, <2>1, <2>2 DEF SessionInv, Early
<1>5. CASE SetCurrentAgent(s)
  BY <1>1, <1>2, <1>3, <1>5 DEF SetCurrentAgent, SessionInv, Early, database
<1>6. CASE TaskFetchFails(s)
  BY <1>1, <1>2, <1>3, <1>6 DEF TaskFetchFails, SessionInv, Early, database
<1>7. CASE AddSessionJob(s)
  <2>1. /\ task[s].at = "fetching"
        /\ task'[s].at = "pulling" /\ task'[s].held = {} /\ task'[s].clean = task[s].clean
    BY <1>7 DEF AddSessionJob, TypeInv
  <2>2. \A x \in Start :
          /\ <<s, x>> \in session_jobs' <=> <<s, x>> \in session_jobs \/ x \in task[s].held
          /\ <<s, x>> \in session_index' <=> <<s, x>> \in session_index \/ x \in task[s].held
    BY <1>7 DEF AddSessionJob
  <2>3. UNCHANGED <<running_jobs, current_agents, tracked>>
    BY <1>7 DEF AddSessionJob
  <2> QED
    BY <1>1, <1>2, <2>1, <2>2, <2>3 DEF SessionInv, Early
<1>8. CASE ContainerUp(s)
  BY <1>1, <1>2, <1>3, <1>8 DEF ContainerUp, SessionInv, Early, database
<1>9. CASE WrongImage(s)
  <2>1. \A x \in Start : <<s, x>> \in session_jobs => x \in lost'
    BY <1>9 DEF WrongImage
  <2> QED
    BY <1>1, <1>2, <1>3, <1>9, <2>1 DEF WrongImage, SessionInv, Early, database
<1>10. CASE FailWaiting(s)
  <2>1. /\ task[s].at \in {"pulling", "up"}
        /\ task'[s].at = "stopping"
        /\ task'[s].clean => task[s].clean /\ call[s].at = "none"
        /\ lost' = lost \union call[s].held
    BY <1>10 DEF FailWaiting, TypeInv
  <2>2. \A x \in Start : <<s, x>> \notin session_jobs'
    BY <1>10 DEF FailWaiting
  <2>3. UNCHANGED <<running_jobs, session_index, current_agents, tracked>>
    BY <1>10 DEF FailWaiting
  <2> QED
    BY <1>1, <1>2, <2>1, <2>2, <2>3 DEF SessionInv, Early
<1>11. CASE FailRunning(s)
  <2>1. /\ task[s].at = "stopping"
        /\ task'[s].at = "unindexing" /\ task'[s].clean = task[s].clean
    BY <1>11 DEF FailRunning, TypeInv
  <2>2. \A x \in Start :
          <<s, x>> \in running_jobs' => <<s, x>> \in running_jobs /\ <<s, x>> \notin session_index
    BY <1>11 DEF FailRunning
  <2>3. UNCHANGED <<session_jobs, session_index, current_agents, tracked>>
    BY <1>11 DEF FailRunning
  <2> QED
    BY <1>1, <1>2, <2>1, <2>2, <2>3 DEF SessionInv, Early
<1>12. CASE DropIndex(s)
  <2>1. \A x \in Start : <<s, x>> \notin session_index'
    BY <1>12 DEF DropIndex
  <2> QED
    BY <1>1, <1>2, <1>3, <1>12, <2>1 DEF DropIndex, SessionInv, Early
<1>13. CASE QueueFail(s)
  <2>1. task'[s].at = task[s].at /\ task'[s].clean = task[s].clean /\ task[s].at = "failing"
    BY <1>13 DEF QueueFail, TypeInv
  <2>2. UNCHANGED <<session_jobs, running_jobs, session_index, current_agents, tracked>>
    BY <1>13 DEF QueueFail, database
  <2> QED
    BY <1>1, <1>2, <2>1, <2>2 DEF SessionInv, Early
<1>14. CASE ClearAgent(s)
  BY <1>1, <1>2, <1>3, <1>14 DEF ClearAgent, SessionInv, Early, database
<1>15. CASE RemoveTracking(s)
  BY <1>1, <1>2, <1>3, <1>15 DEF RemoveTracking, SessionInv, Early, database
<1> QED
  BY <1>4, <1>5, <1>6, <1>7, <1>8, <1>9, <1>10, <1>11, <1>12, <1>13, <1>14, <1>15,
     <1>16 DEF Task

LEMMA HeldIsKnown == ASSUME NEW x, StartInv(x), NEW t, NEW v, Holds(t, v, x) PROVE Known(x)
BY HoldersAre DEF StartInv

LEMMA CallSessions ==
  ASSUME TypeInv, NEW s \in Session, SessionInv(s), Call(s), Adds,
         \A x \in Start : StartInv(x)
  PROVE  SessionInv(s)'
<1>1. lost \subseteq lost'
  BY DEF Adds
<1>2. \A x : (Known(x) => Known(x)') /\ (Known(x) /\ SeenTo(x) => SeenTo(x)')
  BY AddsKeeps
<1>3. tracked' = tracked
  BY DEF Call, GetJob, TakeSessionJob, HandSessionJob, RefuseSessionJob, RemoveRefused,
         TakeBuffered, LoseTaken, AddToRunning, IndexRunning, RefuseBuffered, SetAgentOfCall,
         Report, QueueVerdict, RemoveReported, CutOff
<1>4. ASSUME NEW from, NEW to, NEW held, CallMoves(s, from, to, held)
      PROVE  call[s].at = from /\ call'[s].at = to /\ call'[s].held = held
  BY <1>4, CallMoved
<1>5. CASE GetJob(s)
  BY <1>1, <1>2, <1>3, <1>4, <1>5 DEF GetJob, SessionInv, Early, database
<1>6. CASE TakeSessionJob(s)
  <2>1. UNCHANGED <<task, running_jobs, session_index, current_agents>>
    BY <1>6 DEF TakeSessionJob
  <2>2. ASSUME NEW p \in session_jobs, p[1] = s, session_jobs' = session_jobs \ {p},
               CallMoves(s, "asking", "handing", {p[2]})
        PROVE  SessionInv(s)'
    <3>1. p = <<s, p[2]>> /\ p[2] \in Start
      BY <2>2 DEF TypeInv
    <3>2. Known(p[2])
      BY <2>2, <3>1, HeldIsKnown DEF Holds
    <3>3. /\ call[s].at = "asking" /\ call'[s].at = "handing" /\ call'[s].held = {p[2]}
      BY <1>4, <2>2
    <3>4. /\ \A x \in Start : <<s, x>> \in session_jobs' => <<s, x>> \in session_jobs
          /\ task[s].at # "pulling"
          /\ p[2] \in lost \/ (task[s].at = "up" /\ <<s, p[2]>> \in session_index)
      BY <2>2, <3>1, <3>3 DEF SessionInv, Early
    <3> QED
      BY <1>1, <1>2, <1>3, <2>1, <3>2, <3>3, <3>4 DEF SessionInv, Early
  <2>3. CASE CallMoves(s, "asking", "searching", {}) /\ session_jobs' = session_jobs
    BY <1>1, <1>2, <1>3, <1>4, <2>1, <2>3 DEF SessionInv, Early
  <2> QED
    BY <1>6, <2>2, <2>3 DEF TakeSessionJob
<1>7. CASE HandSessionJob(s)
  <2>1. UNCHANGED <<task, session_jobs, session_index, current_agents>>
    BY <1>7 DEF HandSessionJob
  <2>2. /\ call[s].at = "handing" /\ call'[s].at \in {"none", "handed"}
        /\ call'[s].held \subseteq call[s].held
    BY <1>4, <1>7 DEF HandSessionJob
  <2>3. \A x \in Start : <<s, x>> \in running_jobs' <=> <<s, x>> \in running_jobs \/ x \in call[s].held
    BY <1>7 DEF HandSessionJob
  <2> QED
    BY <1>1, <1>2, <1>3, <2>1, <2>2, <2>3 DEF SessionInv, Early
<1>8. CASE RefuseSessionJob(s)
  <2>1. UNCHANGED <<task, session_jobs, running_jobs, session_index, current_agents>>
    BY <1>8 DEF RefuseSessionJob, database
  <2>2. call[s].at = "handed" /\ call'[s].at = "refusing" /\ call'[s].held = call[s].held
    BY <1>4, <1>8 DEF RefuseSessionJob
  <2>3. ASSUME NEW x \in call[s].held PROVE SeenTo(x)'
    <3>1. To("terminate", x.job) \in requests'
      BY <1>8 DEF RefuseSessionJob
    <3> QED
      BY <3>1, AskedFor
  <2> QED
    BY <1>1, <1>2, <1>3, <2>1, <2>2, <2>3 DEF SessionInv, Early
<1>9. CASE RemoveRefused(s)
  <2>1. UNCHANGED <<task, session_jobs, session_index, current_agents>> /\ running_jobs' \subseteq running_jobs
    BY <1>9 DEF RemoveRefused
  <2>2. call[s].at = "refusing" /\ call'[s].at = "asking" /\ call'[s].held = {}
    BY <1>4, <1>9 DEF RemoveRefused
  <2> QED
    BY <1>1, <1>2, <1>3, <2>1, <2>2 DEF SessionInv, Early
<1>10. CASE TakeBuffered(s)
  <2>1. UNCHANGED <<task, session_jobs, running_jobs, session_index, current_agents>>
    BY <1>10 DEF TakeBuffered, database
  <2>2. ASSUME NEW e \in buffer, CallMoves(s, "searching", "taken", {e.start}),
               lost' = IF Late(s) THEN lost \union {e.start} ELSE lost
        PROVE  SessionInv(s)'
    <3>1. e.start \in Start
      BY DEF TypeInv, Entry
    <3>2. Known(e.start)
      BY <3>1, HeldIsKnown DEF Holds
    <3>3. call[s].at = "searching" /\ call'[s].at = "taken" /\ call'[s].held = {e.start}
      BY <1>4, <2>2
    <3>4. task[s].at # "up" => e.start \in lost'
      BY <2>2 DEF Late
    <3> QED
      BY <1>1, <1>2, <1>3, <2>1, <3>2, <3>3, <3>4 DEF SessionInv, Early
  <2>3. CASE CallMoves(s, "searching", "none", {})
    BY <1>1, <1>2, <1>3, <1>4, <2>1, <2>3 DEF SessionInv, Early
  <2> QED
    BY <1>10, <2>2, <2>3 DEF TakeBuffered
<1>11. CASE LoseTaken(s)
  BY <1>1, <1>2, <1>3, <1>4, <1>11 DEF LoseTaken, SessionInv, Early, database
<1>12. CASE AddToRunning(s)
  <2>1. UNCHANGED <<task, session_jobs, session_index, current_agents>>
    BY <1>12 DEF AddToRunning
  <2>2. call[s].at = "taken" /\ call'[s].at = "indexing" /\ call'[s].held = call[s].held
    BY <1>4, <1>12 DEF AddToRunning
  <2>3. \A x \in Start : <<s, x>> \in running_jobs' <=> <<s, x>> \in running_jobs \/ x \in call[s].held
    BY <1>12 DEF AddToRunning
  <2> QED
    BY <1>1, <1>2, <1>3, <2>1, <2>2, <2>3 DEF SessionInv, Early
<1>13. CASE IndexRunning(s)
  <2>1. UNCHANGED <<task, session_jobs, running_jobs, current_agents>>
    BY <1>13 DEF IndexRunning
  <2>2. call[s].at = "indexing" /\ call'[s].at = "introducing" /\ call'[s].held = call[s].held
    BY <1>4, <1>13 DEF IndexRunning
  <2>3. \A x \in Start : <<s, x>> \in session_index' <=> <<s, x>> \in session_index \/ x \in call[s].held
    BY <1>13 DEF IndexRunning
  <2> QED
    BY <1>1, <1>2, <1>3, <2>1, <2>2, <2>3 DEF SessionInv, Early
<1>14. CASE RefuseBuffered(s)
  BY <1>1, <1>2, <1>3, <1>4, <1>14 DEF RefuseBuffered, SessionInv, Early, database
<1>15. CASE SetAgentOfCall(s)
  BY <1>1, <1>2, <1>3, <1>4, <1>15 DEF SetAgentOfCall, SessionInv, Early, database
<1>16. ASSUME NEW verdict \in Verdict, Report(s, verdict) PROVE SessionInv(s)'
  <2>1. UNCHANGED <<task, session_jobs, running_jobs, session_index, current_agents>> /\ task[s].at = "up"
    BY <1>16 DEF Report, database
  <2>2. PICK p \in running_jobs : p[1] = s /\ CallMoves(s, "none", verdict, {p[2]})
    BY <1>16 DEF Report
  <2>3. call[s].at = "none" /\ call'[s].at = verdict /\ call'[s].held = {p[2]}
    BY <1>4, <2>2
  <2>4. p[2] \in Start /\ Known(p[2])
    <3>1. p[2] \in Start
      BY DEF TypeInv
    <3> QED
      BY <3>1, HeldIsKnown DEF Holds
  <2> QED
    BY <1>1, <1>2, <1>3, <2>1, <2>3, <2>4 DEF SessionInv, Early, Verdict
<1>17. ASSUME NEW verdict \in Verdict, QueueVerdict(s, verdict) PROVE SessionInv(s)'
  <2>1. UNCHANGED <<task, session_jobs, running_jobs, session_index, current_agents>>
    BY <1>17 DEF QueueVerdict, database
  <2>2. call[s].at = verdict /\ call'[s].at = "removing" /\ call'[s].held = call[s].held
    BY <1>4, <1>17 DEF QueueVerdict
  <2>3. ASSUME NEW x \in call[s].held PROVE SeenTo(x)'
    <3>1. To(verdict, x.job) \in requests' /\ verdict # "start"
      BY <1>17 DEF QueueVerdict, Verdict
    <3> QED
      BY <3>1, AskedFor
  <2> QED
    BY <1>1, <1>2, <1>3, <2>1, <2>2, <2>3 DEF SessionInv, Early, Verdict
<1>18. CASE RemoveReported(s)
  <2>1. UNCHANGED <<task, session_jobs, session_index, current_agents>> /\ running_jobs' \subseteq running_jobs
    BY <1>18 DEF RemoveReported
  <2>2. call[s].at = "removing" /\ call'[s].at = "none" /\ call'[s].held = {}
    BY <1>4, <1>18 DEF RemoveReported
  <2> QED
    BY <1>1, <1>2, <1>3, <2>1, <2>2 DEF SessionInv, Early
<1>19. CASE CutOff(s)
  <2>1. /\ task'[s].at = task[s].at /\ task'[s].held = task[s].held /\ task'[s].clean = FALSE
        /\ UNCHANGED <<session_jobs, running_jobs, session_index, current_agents>>
    BY <1>19 DEF CutOff, TypeInv, database
  <2>2. call[s].at # "none" /\ call'[s].at = "none" /\ call'[s].held = {}
    BY <1>4, <1>19 DEF CutOff
  <2>3. call[s].held \subseteq lost'
    BY <1>19 DEF CutOff
  <2> QED
    BY <1>1, <1>2, <1>3, <2>1, <2>2, <2>3 DEF SessionInv, Early
<1> QED
  BY <1>5, <1>6, <1>7, <1>8, <1>9, <1>10, <1>11, <1>12, <1>13, <1>14, <1>15, <1>16, <1>17,
     <1>18, <1>19 DEF Call

-----------------------------------------------------------------------------
LEMMA Initially == Init => IInv
<1> SUFFICES ASSUME Init PROVE IInv
  OBVIOUS
<1>1. TypeInv
  <2>1. /\ chain \in [Job -> [status : {"pending", "running", "gone"}, attempts : 0..MaxAttempts]]
        /\ \A j \in Job : chain[j].status = "pending" /\ chain[j].attempts = 0
    BY Limits DEF Init
  <2>2. \A j \in Job : /\ chain[j].attempts < MaxAttempts
                       /\ chain[j].status # "running"
    BY <2>1, Limits
  <2>3. task \in [Session -> [at : TaskPlaces, held : SUBSET Start, clean : BOOLEAN]]
    BY DEF Init, NoTask, TaskPlaces
  <2>4. call \in [Session -> [at : CallPlaces, held : SUBSET Start]]
    BY DEF Init, NoCall, CallPlaces
  <2>5. \A s \in Session : call[s].held = {}
    BY DEF Init, NoCall
  <2>6. cuts \in 0..MaxCuts /\ quiet \in 0..Completed
    BY Limits DEF Init, Completed
  <2>7. shutdown \in BOOLEAN
    BY DEF Init
  <2> QED
    BY <2>1, <2>2, <2>3, <2>4, <2>5, <2>6, <2>7 DEF Init, TypeInv, IdleLoop
<1>2. ASSUME NEW x \in Start PROVE StartInv(x)
  <2>1. x.job \in Job
    BY DEF Start
  <2>2. ~Running(x.job)
    BY <2>1 DEF Init, Running
  <2>3. \A t, v : ~Holds(t, v, x)
    BY DEF Init, Holds, CallHolds, NoTask, NoCall, IdleLoop
  <2>4. Holders(x) = {}
    BY <2>3, HoldersAre
  <2> QED
    BY <2>2, <2>4 DEF StartInv, SeenTo
<1>3. ASSUME NEW s \in Session PROVE SessionInv(s)
  BY DEF Init, SessionInv, NoTask, NoCall, Early
<1> QED
  BY <1>1, <1>2, <1>3 DEF IInv

LEMMA Inductive == IInv /\ [Next]_vars => IInv'
<1> SUFFICES ASSUME IInv, [Next]_vars PROVE IInv'
  OBVIOUS
<1>1. /\ TypeInv
      /\ \A x \in Start : StartInv(x)
      /\ \A s \in Session : SessionInv(s)
  BY DEF IInv
<1>2. TypeInv'
  BY <1>1, Types
<1>3. \A x \in Start : StartInv(x)'
  BY <1>1, Starts
<1>4. ASSUME NEW s \in Session PROVE SessionInv(s)'
  <2>1. CASE \/ \E r \in requests : Execute(r)
             \/ \E j \in Job : Search(j) \/ FailStuck(j)
             \/ RequestShutdown \/ CheckSilence
             \/ UNCHANGED vars
    BY <1>1, <2>1, OutsideSessions
  <2>2. CASE DockerLoop
    <3>1. Adds
      BY <2>2, LoopAdds
    <3> QED
      BY <1>1, <2>2, <3>1, LoopSessions
  <2>3. ASSUME NEW r \in Session, Task(r) PROVE SessionInv(s)'
    <3>1. Adds
      BY <2>3, TaskAdds
    <3> QED
      BY <1>1, <2>3, <3>1, TaskSessions, TaskApart
  <2>4. ASSUME NEW r \in Session, Call(r) PROVE SessionInv(s)'
    <3>1. Adds
      BY <2>4, CallAdds
    <3> QED
      BY <1>1, <2>4, <3>1, CallSessions, CallApart
  <2> QED
    BY <2>1, <2>2, <2>3, <2>4 DEF Next
<1> QED
  BY <1>2, <1>3, <1>4 DEF IInv

(* The invariant of every behaviour.                                       *)
THEOREM Invariant == Spec => []IInv
BY Initially, Inductive, PTL DEF Spec

(* Types, retries and the number of entries in hand.                       *)
THEOREM TypeCorrect == Spec => []TypeOK
<1>1. TypeInv => TypeOK
  <2> SUFFICES ASSUME TypeInv PROVE TypeOK
    OBVIOUS
  <2>1. /\ loop.at \in {"idle", "fetching", "placing", "gone"} /\ loop.held \subseteq Entry
        /\ Cardinality(loop.held) = (IF loop.at \in {"fetching", "placing"} THEN 1 ELSE 0)
    <3>1. CASE loop.at \in {"idle", "gone"} /\ loop.held = {}
      BY <3>1, FS_EmptySet
    <3>2. CASE loop.at \in {"fetching", "placing"} /\ \E e \in Entry : loop.held = {e}
      BY <3>2, FS_Singleton
    <3> QED
      BY <3>1, <3>2 DEF TypeInv
  <2>2. ASSUME NEW s \in Session PROVE Cardinality(call[s].held) <= 1
    <3>1. CASE call[s].held = {}
      <4>1. Cardinality(call[s].held) = 0
        BY <3>1, FS_EmptySet
      <4> QED
        BY <4>1
    <3>2. ASSUME NEW x \in Start, call[s].held = {x} PROVE Cardinality(call[s].held) <= 1
      <4>1. Cardinality({x}) = 1
        BY FS_Singleton
      <4> QED
        BY <3>2, <4>1
    <3> QED
      BY <3>1, <3>2 DEF TypeInv
  <2> QED
    BY <2>1, <2>2 DEF TypeInv, TypeOK
<1> QED
  BY <1>1, Invariant, PTL DEF IInv

(* No start is given to two, and none that still runs is forgotten but by  *)
(* the failures named: for any number of jobs, sessions and containers.    *)
THEOREM StartsAreAlwaysFollowed == Spec => []StartsAreFollowed
<1>1. IInv => StartsAreFollowed
  <2> SUFFICES ASSUME IInv PROVE StartsAreFollowed
    OBVIOUS
  <2>1. ASSUME NEW x \in Start PROVE Cardinality(Holders(x)) <= 1
    <3>1. CASE Holders(x) = {}
      BY <3>1, FS_EmptySet
    <3>2. ASSUME NEW h \in Holders(x) PROVE Cardinality(Holders(x)) <= 1
      <4>1. Holders(x) = {h}
        BY <3>2 DEF IInv, StartInv
      <4>2. Cardinality({h}) = 1
        BY FS_Singleton
      <4> QED
        BY <4>1, <4>2
    <3> QED
      BY <3>1, <3>2
  <2>2. ASSUME NEW j \in Job, Running(j),
               [job |-> j, attempt |-> chain[j].attempts] \notin lost,
               ~ \E r \in requests : r.job = j /\ r.kind # "start"
        PROVE  \E h \in Holders([job |-> j, attempt |-> chain[j].attempts]) :
                 h[1] \in {"waiting", "running"} => task[h[2][1]].at \notin {"none", "over"}
    <3> DEFINE x == [job |-> j, attempt |-> chain[j].attempts]
    <3>1. x \in Start /\ x.job = j /\ x.attempt = chain[j].attempts
      BY <2>2, Limits DEF IInv, TypeInv, Running, Start
    <3> HIDE DEF x
    <3>2. ~SeenTo(x)
      BY <2>2, <3>1 DEF SeenTo
    <3>3. x \notin lost
      BY <2>2 DEF x
    <3>4. PICK t, v : Holds(t, v, x) /\ <<t, v>> \in Holders(x)
      BY <3>1, <3>2, <3>3, HoldersAre DEF IInv, StartInv
    <3>5. ASSUME t \in {"waiting", "running"} PROVE task[v[1]].at \notin {"none", "over"}
      <4>1. v \in session_jobs \/ v \in running_jobs
        BY <3>4, <3>5 DEF Holds
      <4>2. v[1] \in Session /\ v = <<v[1], x>>
        BY <3>4, <3>5, <4>1 DEF IInv, TypeInv, Holds
      <4> QED
        BY <3>1, <3>3, <4>1, <4>2 DEF IInv, SessionInv
    <3>6. <<t, v>>[1] = t /\ <<t, v>>[2][1] = v[1]
      OBVIOUS
    <3> QED
      BY <3>4, <3>5, <3>6 DEF x
  <2> QED
    BY <2>1, <2>2 DEF StartsAreFollowed
<1> QED
  BY <1>1, Invariant, PTL

(* A session none of whose calls outlived it or was cut off leaves nothing *)
(* behind when it is over.                                                 *)
THEOREM EndsAlwaysLeaveNothing == Spec => []EndsLeaveNothing
<1>1. IInv => EndsLeaveNothing
  <2> SUFFICES ASSUME IInv, NEW s \in Session, task[s].at = "over", task[s].clean
               PROVE  /\ s \notin current_agents \union tracked
                      /\ \A p \in session_jobs \union running_jobs \union session_index :
                           p[1] = s => p[2] \in lost
    BY DEF EndsLeaveNothing
  <2>1. s \notin current_agents \union tracked
    BY DEF IInv, SessionInv
  <2>2. ASSUME NEW p \in session_jobs \union running_jobs \union session_index, p[1] = s
        PROVE  p[2] \in lost
    <3>1. p = <<s, p[2]>> /\ p[2] \in Start
      BY <2>2 DEF IInv, TypeInv
    <3> QED
      BY <2>2, <3>1 DEF IInv, SessionInv
  <2> QED
    BY <2>1, <2>2
<1> QED
  BY <1>1, Invariant, PTL
=============================================================================
