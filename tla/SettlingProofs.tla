--------------------------- MODULE SettlingProofs ---------------------------
(***************************************************************************)
(* What the check for removal is worth, for any chains, coordinators and   *)
(* loops and any number of jobs and failures: OnlyNewWorkIsForgotten; and  *)
(* the types, with what they say of blocks, jobs and references: TypeOK.   *)
(***************************************************************************)
EXTENDS Settling, FiniteSetTheorems, FunctionTheorems, WellFoundedInduction, TLAPS

(* A set of naturals has a least member.                                   *)
LEMMA LeastMember ==
  ASSUME NEW S \in SUBSET Nat, S # {}
  PROVE  \E m \in S : \A n \in S : m <= n
<1> DEFINE Less == OpToRel(<, Nat)
<1>1. IsWellFoundedOn(Less, Nat)
  BY NatLessThanWellFounded
<1>2. \A x, y \in Nat : <<y, x>> \in Less <=> y < x
  BY DEF OpToRel
<1> HIDE DEF Less
<1>3. PICK x \in S : \A y \in S : ~ (<<y, x>> \in Less)
  BY ONLY <1>1, WFMin, S \subseteq Nat, S # {}
<1>4. ASSUME NEW y \in S PROVE x <= y
  <2>1. ~ (<<y, x>> \in Less) /\ x \in Nat /\ y \in Nat
    BY <1>3
  <2>2. ~ (y < x)
    BY <1>2, <2>1
  <2> QED
    BY <2>1, <2>2
<1> QED
  BY <1>4

-----------------------------------------------------------------------------
(* The counters the check compares.                                        *)
CounterInv ==
  /\ proved \in Nat /\ created \in Nat
  /\ stale \in 0..MaxStale
  /\ check \in [Coordinator -> {Idle} \cup
       [at : {"looked", "counted", "verdict"}, created : Nat, blind : BOOLEAN]]

(* What a check has seen is true until the application creates a job: an   *)
(* instance at rest has no block to prove or settle, and a job that is     *)
(* gone does not come back.                                                *)
Seen(k) ==
  /\ check[k].created <= created
  /\ check[k].created = created =>
       /\ NothingToDo
       /\ check[k].at = "verdict" /\ Live(work) => stale > 0 \/ check[k].blind

CheckInv == \A k \in Coordinator : check[k] # Idle => Seen(k)

IInv == CounterInv /\ CheckInv

-----------------------------------------------------------------------------
LEMMA Initially == Init => IInv
<1> SUFFICES ASSUME Init PROVE IInv
  OBVIOUS
<1>1. CounterInv
  BY SettlingAssumption DEF Init, CounterInv
<1>2. CheckInv
  BY DEF Init, CheckInv
<1> QED
  BY <1>1, <1>2 DEF IInv

(* A step that creates no job, begins no work and leaves the checks alone. *)
LEMMA Undisturbed ==
  ASSUME IInv, UNCHANGED <<check, created, stale>>, proved' \in Nat,
         NothingToDo => NothingToDo',
         Live(work)' => Live(work)
  PROVE  IInv'
<1>1. CounterInv'
  BY DEF IInv, CounterInv
<1>2. CheckInv'
  <2> SUFFICES ASSUME NEW k \in Coordinator, check'[k] # Idle
               PROVE  Seen(k)'
    BY DEF CheckInv
  <2>1. check'[k] = check[k] /\ created' = created /\ stale' = stale
    OBVIOUS
  <2>2. Seen(k)
    BY <2>1 DEF IInv, CheckInv
  <2> QED
    BY <2>1, <2>2 DEF Seen
<1> QED
  BY <1>1, <1>2 DEF IInv

(* What a check has seen no longer counts once a job has been created.     *)
LEMMA JobCreated ==
  ASSUME IInv, created' = created + 1, UNCHANGED <<check, stale, proved>>
  PROVE  IInv'
<1>1. CounterInv'
  BY DEF IInv, CounterInv
<1>2. CheckInv'
  <2> SUFFICES ASSUME NEW k \in Coordinator, check'[k] # Idle
               PROVE  Seen(k)'
    BY DEF CheckInv
  <2>1. check[k].created <= created
    BY DEF IInv, CheckInv, Seen
  <2>2. created \in Nat /\ check[k].created \in Nat
    BY DEF IInv, CounterInv
  <2> QED
    BY <2>1, <2>2 DEF Seen
<1> QED
  BY <1>1, <1>2 DEF IInv

(* A step of one check that leaves the instance alone.                     *)
LEMMA CheckMoves ==
  ASSUME IInv, NEW k \in Coordinator, NEW c,
         check' = [check EXCEPT ![k] = c], UNCHANGED instance,
         c # Idle => /\ c \in [at : {"looked", "counted", "verdict"}, created : Nat,
                              blind : BOOLEAN]
                     /\ c.created <= created
                     /\ c.created = created =>
                          /\ NothingToDo
                          /\ c.at = "verdict" /\ Live(work) => stale > 0 \/ c.blind
  PROVE  IInv'
<1>1. CounterInv'
  BY DEF IInv, CounterInv, instance
<1>2. CheckInv'
  <2> SUFFICES ASSUME NEW h \in Coordinator, check'[h] # Idle
               PROVE  Seen(h)'
    BY DEF CheckInv
  <2>1. /\ created' = created /\ stale' = stale /\ work' = work
        /\ NothingToDo' = NothingToDo
    BY DEF instance, NothingToDo, CaughtUp
  <2>2. CASE h = k
    <3>1. check'[h] = c
      BY <2>2 DEF IInv, CounterInv
    <3> QED
      BY <2>1, <3>1 DEF Seen, Live
  <2>3. CASE h # k
    <3>1. check'[h] = check[h]
      BY <2>3 DEF IInv, CounterInv
    <3>2. Seen(h)
      BY <3>1 DEF IInv, CheckInv
    <3> QED
      BY <2>1, <3>1, <3>2 DEF Seen, Live
  <2> QED
    BY <2>2, <2>3
<1> QED
  BY <1>1, <1>2 DEF IInv

-----------------------------------------------------------------------------
(* Steps of the instance.  None opens a block or falls behind by itself.   *)
LEMMA InstanceSteps ==
  ASSUME IInv,
         \/ WorkStep \/ FailWork
         \/ \E c \in Chain : JobStep(c) \/ Fail(c)
  PROVE  IInv'
<1>0. "none" \notin Coordinator /\ "pending" # "none" /\ proved \in Nat
  BY SettlingAssumption DEF IInv, CounterInv
<1>1. CASE Prove
  BY <1>0, <1>1, Undisturbed DEF Prove, coordinators, NothingToDo
<1>2. CASE CompleteWork
  BY <1>0, <1>2, Undisturbed DEF CompleteWork, coordinators, NothingToDo, CaughtUp, Live, NoWork
<1>3. ASSUME NEW k \in Coordinator, StartWork(k) \/ ReconcileWork(k) PROVE IInv'
  BY <1>0, <1>3, Undisturbed
     DEF StartWork, ReconcileWork, coordinators, NothingToDo, CaughtUp, Live
<1>4. CASE FailWork
  BY <1>0, <1>4, Undisturbed DEF FailWork, coordinators, NothingToDo, CaughtUp, Live
<1>5. ASSUME NEW c \in Chain, Settle(c) PROVE IInv'
  <2>1. ~CaughtUp
    BY <1>0, <1>5 DEF Settle, CaughtUp
  <2> QED
    BY <1>0, <1>5, <2>1, Undisturbed DEF Settle, coordinators, NothingToDo, Live
<1>6. ASSUME NEW c \in Chain, Complete(c) \/ Fail(c) PROVE IInv'
  BY <1>0, <1>6, Undisturbed
     DEF Complete, Fail, coordinators, NothingToDo, CaughtUp, Live
<1>7. ASSUME NEW c \in Chain, NEW k \in Coordinator, Start(k, c) \/ Reconcile(k, c)
      PROVE  IInv'
  BY <1>0, <1>7, Undisturbed
     DEF Start, Reconcile, coordinators, NothingToDo, CaughtUp, Live
<1> QED
  BY <1>1, <1>2, <1>3, <1>4, <1>5, <1>6, <1>7 DEF WorkStep, JobStep

(* Steps of coordinators that check nothing.                               *)
LEMMA OtherSteps ==
  ASSUME IInv, NEW k \in Coordinator,
         \/ Deliver(k) \/ LoseEvent(k)
         \/ \E l \in Loop : AnalysisStep(k, l)
         \/ SendStep(k)
  PROVE  IInv'
<1>1. /\ UNCHANGED <<check, created, stale, work, open, proved, settled>>
  <2>1. CASE Deliver(k) \/ LoseEvent(k)
    BY <2>1 DEF Deliver, LoseEvent, instance
  <2>2. ASSUME NEW l \in Loop, Look(k, l) PROVE <1>1
    BY <2>2 DEF Look, instance
  <2>3. ASSUME NEW l \in Loop, Decide(k, l) PROVE <1>1
    BY <2>3 DEF Decide, instance
  <2>4. ASSUME NEW l \in Loop, Terminate(k, l) PROVE <1>1
    BY <2>4 DEF Terminate
  <2>5. ASSUME NEW c \in Chain, SendCreate(k, c) PROVE <1>1
    BY <2>5 DEF SendCreate
  <2> QED
    BY <2>1, <2>2, <2>3, <2>4, <2>5 DEF AnalysisStep, SendStep
<1>2. proved \in Nat
  BY DEF IInv, CounterInv
<1> QED
  BY <1>1, <1>2, Undisturbed DEF NothingToDo, CaughtUp, Live

LEMMA CrashKeeps == ASSUME IInv, NEW k \in Coordinator, Crash(k) PROVE IInv'
<1>1. CounterInv'
  BY DEF Crash, IInv, CounterInv
<1>2. CheckInv'
  <2> SUFFICES ASSUME NEW h \in Coordinator, check'[h] # Idle PROVE Seen(h)'
    BY DEF CheckInv
  <2>1. check'[h] = check[h]
    BY DEF Crash, IInv, CounterInv
  <2>2. Seen(h)
    BY <2>1 DEF IInv, CheckInv
  <2>3. UNCHANGED <<created, stale, NothingToDo>>
    BY DEF Crash, NothingToDo, CaughtUp
  <2>4. Live(work)' => Live(work)
    BY SettlingAssumption DEF Crash, Abandoned, Live
  <2> QED
    BY <2>1, <2>2, <2>3, <2>4 DEF Seen
<1> QED
  BY <1>1, <1>2 DEF IInv

(* No pending and no running job counted: with a failed counter that is    *)
(* right there is no job at all.                                           *)
LEMMA NoneCounted ==
  ASSUME stale \in Nat, NoRunning(Count(Live), stale), Live(work)
  PROVE  stale > 0
<1> DEFINE L == {c \in Chain : Live(job[c])}
<1>1. Cardinality(L) \in Nat
  <2>1. IsFiniteSet(L)
    BY SettlingAssumption, FS_Subset
  <2> QED
    BY <2>1, FS_CardinalityType
<1>2. Cardinality(L) + 1 <= stale
  BY DEF NoRunning, Count
<1> QED
  BY <1>1, <1>2

LEMMA CheckSteps == ASSUME IInv, NEW k \in Coordinator, CheckStep(k) PROVE IInv'
<1>0. /\ created \in Nat /\ stale \in Nat
      /\ check[k] # Idle =>
           /\ check[k] \in [at : {"looked", "counted", "verdict"}, created : Nat,
                            blind : BOOLEAN]
           /\ Seen(k)
  BY SettlingAssumption DEF IInv, CounterInv, CheckInv
<1>1. CASE BeginCheck(k)
  <2> DEFINE c == [at |-> "looked", created |-> created, blind |-> FALSE]
  <2>1. check' = [check EXCEPT ![k] = c] /\ UNCHANGED instance /\ NothingToDo
    BY <1>1 DEF BeginCheck
  <2>2. /\ c \in [at : {"looked", "counted", "verdict"}, created : Nat, blind : BOOLEAN]
        /\ c.created <= created /\ c.at # "verdict"
    BY <1>0
  <2> HIDE DEF c
  <2> QED
    BY <2>1, <2>2, CheckMoves
<1>2. CASE CountPending(k)
  <2>1. check[k].at = "looked" /\ check[k] # Idle
    BY <1>2 DEF CountPending, Idle
  <2>2. UNCHANGED instance
    BY <1>2 DEF CountPending
  <2>3. CASE check' = [check EXCEPT ![k] = Idle]
    BY <2>2, <2>3, CheckMoves
  <2>4. CASE check' = [check EXCEPT ![k] = [check[k] EXCEPT !.at = "counted"]]
    BY <1>0, <2>1, <2>2, <2>4, CheckMoves DEF Seen
  <2>5. CASE check' = [check EXCEPT ![k].at = "counted", ![k].blind = TRUE]
    <3>1. check' = [check EXCEPT ![k] = [check[k] EXCEPT !.at = "counted", !.blind = TRUE]]
      BY <2>5 DEF IInv, CounterInv
    <3> QED
      BY <1>0, <2>1, <2>2, <3>1, CheckMoves DEF Seen
  <2> QED
    BY <1>2, <2>3, <2>4, <2>5 DEF CountPending
<1>3. CASE CountRunning(k)
  <2>1. check[k].at = "counted" /\ check[k] # Idle
    BY <1>3 DEF CountRunning, Idle
  <2>2. UNCHANGED instance
    BY <1>3 DEF CountRunning
  <2>3. CASE check' = [check EXCEPT ![k] = Idle]
    BY <2>2, <2>3, CheckMoves
  <2>4. CASE /\ NoRunning(Count(Live), stale)
             /\ check' = [check EXCEPT ![k] = [check[k] EXCEPT !.at = "verdict"]]
    BY <1>0, <2>1, <2>2, <2>4, NoneCounted, CheckMoves DEF Seen
  <2>5. CASE check' = [check EXCEPT ![k].at = "verdict", ![k].blind = TRUE]
    <3>1. check' = [check EXCEPT ![k] = [check[k] EXCEPT !.at = "verdict", !.blind = TRUE]]
      BY <2>5 DEF IInv, CounterInv
    <3> QED
      BY <1>0, <2>1, <2>2, <3>1, CheckMoves DEF Seen
  <2> QED
    BY <1>3, <2>3, <2>4, <2>5 DEF CountRunning
<1>4. CASE Remove(k)
  BY <1>4, CheckMoves DEF Remove
<1> QED
  BY <1>1, <1>2, <1>3, <1>4 DEF CheckStep

LEMMA Inductive == IInv /\ [Next]_vars => IInv'
<1> SUFFICES ASSUME IInv, [Next]_vars PROVE IInv'
  OBVIOUS
<1>0. created \in Nat /\ proved \in Nat
  BY DEF IInv, CounterInv
<1>1. ASSUME NEW forBlock \in BOOLEAN, CreateWork(forBlock) PROVE IInv'
  BY <1>0, <1>1, JobCreated DEF CreateWork
<1>2. CASE CreateOther
  BY <1>0, <1>2, JobCreated DEF CreateOther
<1>3. CASE \/ WorkStep \/ FailWork
           \/ \E c \in Chain : JobStep(c) \/ Fail(c)
  BY <1>3, InstanceSteps
<1>4. ASSUME NEW k \in Coordinator,
             \/ Deliver(k) \/ LoseEvent(k)
             \/ \E l \in Loop : AnalysisStep(k, l)
             \/ SendStep(k)
      PROVE  IInv'
  BY <1>4, OtherSteps
<1>5. ASSUME NEW k \in Coordinator, Crash(k) PROVE IInv'
  BY <1>5, CrashKeeps
<1>6. ASSUME NEW k \in Coordinator, CheckStep(k) PROVE IInv'
  BY <1>6, CheckSteps
<1>7. CASE UNCHANGED vars
  BY <1>0, <1>7, Undisturbed DEF vars, instance, coordinators, NothingToDo, CaughtUp, Live
<1> QED
  BY <1>1, <1>2, <1>3, <1>4, <1>5, <1>6, <1>7 DEF Next

(* The invariant of every behaviour, fair or not.                          *)
THEOREM Invariant == Spec => []IInv
BY Initially, Inductive, PTL DEF Spec

(* An instance is forgotten with work to do only when a job was created    *)
(* during the check, a call of it failed, or the failed counter was too    *)
(* high: no interleaving of loops, agents and coordinators adds a case.    *)
THEOREM OnlyNewWorkIsEverForgotten == Spec => []OnlyNewWorkIsForgotten
<1>1. IInv => OnlyNewWorkIsForgotten
  BY DEF IInv, CheckInv, Seen, OnlyNewWorkIsForgotten, Idle
<1> QED
  BY <1>1, Invariant, PTL
-----------------------------------------------------------------------------
(* Types.  A loop means to terminate at most one job of a chain, so there  *)
(* are no more numbers in the readings than readings, and a number for the *)
(* next job; and there are no more proved blocks than jobs to prove them.  *)
OneEach(jobs) == \A t, u \in jobs : t[1] = u[1] => t = u

AnalysisInv ==
  /\ analysis \in [Coordinator -> [Loop -> {Idle} \cup Reading \cup Terminations]]
  /\ \A k \in Coordinator, l \in Loop :
       analysis[k][l].at = "terminating" => OneEach(analysis[k][l].jobs)

CountInv ==
  /\ open \in BOOLEAN /\ proved \in Nat /\ created \in 0..MaxJobs
  /\ proved <= created /\ (open => proved < created)
  /\ stale \in 0..MaxStale /\ faults \in 0..MaxFaults

JobInv ==
  /\ work \in [at : Where, block : BOOLEAN]
  /\ open => Live(work) /\ work.block
  /\ job \in [Chain -> [at : Where, id : Nat]]
  /\ \A c \in Chain : Live(job[c]) <=> job[c].id # 0

SettledInv ==
  /\ settled \in [Chain -> Nat]
  /\ \A c \in Chain : settled[c] <= proved

TrackerInv ==
  /\ due \in [Coordinator -> BOOLEAN] /\ tracked \in [Coordinator -> BOOLEAN]
  /\ queue \in [Coordinator -> SUBSET Chain]
  /\ check \in [Coordinator -> {Idle} \cup Checking]

TypeInv == CountInv /\ JobInv /\ SettledInv /\ TrackerInv /\ AnalysisInv

(* What the readings know of a chain.                                      *)
LEMMA FewKnown ==
  ASSUME AnalysisInv, NEW c \in Chain
  PROVE  /\ IsFiniteSet(Known(c))
         /\ Cardinality(Known(c)) <= Cardinality(Coordinator \X Loop)
         /\ Cardinality(Coordinator \X Loop) \in Nat
<1> DEFINE Pairs == Coordinator \X Loop
           A(p) == analysis[p[1]][p[2]]
           Read(p) == CASE A(p).at = "looked" -> {A(p).refs[c]}
                        [] A(p).at = "terminating" ->
                             {t[2] : t \in {u \in A(p).jobs : u[1] = c}}
                        [] OTHER -> {}
           Some == {p \in Pairs : Read(p) # {}}
           f == [p \in Some |-> CHOOSE n : n \in Read(p)]
<1>1. IsFiniteSet(Pairs) /\ Cardinality(Pairs) \in Nat
  BY FS_Product, FS_CardinalityType, SettlingAssumption
<1>2. IsFiniteSet(Some) /\ Cardinality(Some) <= Cardinality(Pairs)
  <2>1. Some \in SUBSET Pairs
    OBVIOUS
  <2> HIDE DEF Some, Pairs
  <2> QED
    BY <1>1, <2>1, FS_Subset
<1>3. Known(c) = UNION {Read(<<k, l>>) : k \in Coordinator, l \in Loop}
  BY DEF Known
<1>4. ASSUME NEW p \in Pairs, NEW m \in Read(p), NEW n \in Read(p) PROVE m = n
  <2>1. CASE A(p).at = "looked"
    BY <1>4, <2>1
  <2>2. CASE A(p).at = "terminating"
    <3>1. OneEach(A(p).jobs)
      BY <2>2 DEF AnalysisInv
    <3>2. Read(p) = {t[2] : t \in {u \in A(p).jobs : u[1] = c}}
      BY <2>2
    <3> HIDE DEF Read, A
    <3>3. PICK t \in A(p).jobs : t[1] = c /\ m = t[2]
      BY <1>4, <3>2
    <3>4. PICK u \in A(p).jobs : u[1] = c /\ n = u[2]
      BY <1>4, <3>2
    <3> QED
      BY <3>1, <3>3, <3>4 DEF OneEach
  <2>3. CASE A(p).at # "looked" /\ A(p).at # "terminating"
    BY <1>4, <2>3
  <2> QED
    BY <2>1, <2>2, <2>3
<1>5. f \in Surjection(Some, Known(c))
  <2> HIDE DEF Read
  <2>1. ASSUME NEW p \in Some PROVE f[p] \in Read(p) /\ Read(p) \subseteq Known(c)
    <3>1. p \in Pairs /\ Read(p) # {}
      OBVIOUS
    <3>2. f[p] \in Read(p)
      BY <3>1
    <3>3. p[1] \in Coordinator /\ p[2] \in Loop /\ p = <<p[1], p[2]>>
      BY <3>1
    <3> QED
      BY <1>3, <3>2, <3>3
  <2>2. f \in [Some -> Known(c)]
    BY <2>1
  <2>3. ASSUME NEW n \in Known(c) PROVE \E p \in Some : f[p] = n
    <3>1. PICK k \in Coordinator, l \in Loop : n \in Read(<<k, l>>)
      BY <1>3, <2>3
    <3>2. <<k, l>> \in Pairs /\ <<k, l>> \in Some
      BY <3>1
    <3>3. f[<<k, l>>] \in Read(<<k, l>>)
      BY <2>1, <3>2
    <3>4. f[<<k, l>>] = n
      BY <1>4, <3>1, <3>2, <3>3
    <3> QED
      BY <3>2, <3>4
  <2> HIDE DEF f, Some
  <2> QED
    BY <2>2, <2>3 DEF Surjection
<1> HIDE DEF f, Some, Pairs
<1>6. /\ IsFiniteSet(Known(c)) /\ Cardinality(Known(c)) <= Cardinality(Some)
  BY <1>2, <1>5, FS_Surjection
<1>7. Cardinality(Some) \in Nat /\ Cardinality(Known(c)) \in Nat
  BY <1>2, <1>6, FS_CardinalityType
<1> QED
  BY <1>1, <1>2, <1>6, <1>7 DEF Pairs

LEMMA NewIdTyped ==
  ASSUME AnalysisInv, NEW c \in Chain
  PROVE  NewId(c) \in Nat \ {0}
<1> DEFINE N == Cardinality(Coordinator \X Loop)
           free == (1..(N + 1)) \ Known(c)
<1>1. /\ IsFiniteSet(Known(c)) /\ Cardinality(Known(c)) <= N /\ N \in Nat
      /\ Cardinality(Known(c)) \in Nat
  BY FewKnown, FS_CardinalityType
<1>2. free # {}
  <2> SUFFICES ASSUME free = {} PROVE FALSE
    OBVIOUS
  <2>1. 1..(N + 1) \in SUBSET Known(c)
    OBVIOUS
  <2> HIDE DEF N
  <2>2. Cardinality(1..(N + 1)) = N + 1
    BY <1>1, FS_Interval
  <2>3. Cardinality(1..(N + 1)) <= Cardinality(Known(c))
    BY <1>1, <2>1, FS_Subset
  <2> QED
    BY <1>1, <2>2, <2>3
<1>3. free \in SUBSET Nat /\ free \in SUBSET (Nat \ {0})
  BY <1>1
<1>4. NewId(c) = CHOOSE n \in free : \A m \in free : n <= m
  BY DEF NewId
<1> HIDE DEF free
<1>5. \E n \in free : \A m \in free : n <= m
  BY <1>2, <1>3, LeastMember
<1>6. NewId(c) \in free
  BY <1>4, <1>5
<1> QED
  BY <1>3, <1>6

LEMMA TypesInitially == Init => TypeInv
<1> SUFFICES ASSUME Init PROVE TypeInv
  OBVIOUS
<1>1. CountInv
  <2>1. open = FALSE /\ proved = 0 /\ created = 0 /\ faults = 0 /\ stale \in 0..MaxStale
    BY DEF Init
  <2>2. open \in BOOLEAN
    BY <2>1
  <2>3. proved \in Nat /\ created \in 0..MaxJobs /\ faults \in 0..MaxFaults /\ proved <= created
    BY <2>1, SettlingAssumption
  <2>4. open => proved < created
    BY <2>1
  <2> QED
    BY <2>1, <2>2, <2>3, <2>4 DEF CountInv
<1>2. JobInv
  BY SettlingAssumption DEF Init, JobInv, NoWork, NoJob, Live, Where
<1>3. SettledInv /\ TrackerInv
  BY DEF Init, SettledInv, TrackerInv
<1>4. AnalysisInv
  BY DEF Init, AnalysisInv, Idle
<1> QED
  BY <1>1, <1>2, <1>3, <1>4 DEF TypeInv

(* Where a job may be put, and what a failure costs.                       *)
LEMMA Places ==
  /\ {"none", "pending", "orphan"} \subseteq Where /\ Coordinator \subseteq Where
  /\ "none" \notin Coordinator
BY SettlingAssumption DEF Where

LEMMA FaultTyped == ASSUME faults \in 0..MaxFaults, Fault PROVE faults' \in 0..MaxFaults
BY SettlingAssumption DEF Fault

(* A job put elsewhere, live as before.                                    *)
LEMMA Moved ==
  ASSUME JobInv, NEW c \in Chain, NEW w \in Where, w # "none", Live(job[c]),
         job' = [job EXCEPT ![c].at = w], UNCHANGED <<open, work>>
  PROVE  JobInv'
<1>1. job' \in [Chain -> [at : Where, id : Nat]]
  BY DEF JobInv
<1>2. ASSUME NEW d \in Chain PROVE Live(job[d])' <=> job'[d].id # 0
  BY <1>2 DEF JobInv, Live
<1> QED
  BY <1>1, <1>2 DEF JobInv, Live

LEMMA WorkMoved ==
  ASSUME JobInv, NEW w \in Where, w # "none", Live(work),
         work' = [work EXCEPT !.at = w], UNCHANGED <<open, job>>
  PROVE  JobInv'
<1>1. work' \in [at : Where, block : BOOLEAN] /\ work'.at = w /\ work'.block = work.block
  BY DEF JobInv
<1> QED
  BY <1>1 DEF JobInv, Live

(* A job taken away or put there.                                          *)
LEMMA Replaced ==
  ASSUME JobInv, NEW c \in Chain, NEW j \in [at : Where, id : Nat], Live(j) <=> j.id # 0,
         job' = [job EXCEPT ![c] = j], UNCHANGED <<open, work>>
  PROVE  JobInv'
<1>1. job' \in [Chain -> [at : Where, id : Nat]]
  BY DEF JobInv
<1>2. ASSUME NEW d \in Chain PROVE Live(job[d])' <=> job'[d].id # 0
  BY <1>2 DEF JobInv, Live
<1> QED
  BY <1>1, <1>2 DEF JobInv, Live

LEMMA InstanceStepsTyped ==
  ASSUME TypeInv,
         \/ \E forBlock \in BOOLEAN : CreateWork(forBlock)
         \/ CreateOther \/ WorkStep \/ FailWork
         \/ \E c \in Chain : JobStep(c) \/ Fail(c)
  PROVE  TypeInv'
<1>0. CountInv /\ JobInv /\ SettledInv /\ TrackerInv /\ AnalysisInv
  BY DEF TypeInv
<1>1. UNCHANGED <<tracked, queue, analysis, check>> /\ (due' = due \/ Announce)
  BY DEF CreateWork, CreateOther, WorkStep, Prove, CompleteWork, StartWork, ReconcileWork,
         FailWork, JobStep, Settle, Complete, Start, Reconcile, Fail, coordinators
<1>2. TrackerInv' /\ AnalysisInv'
  BY <1>0, <1>1 DEF TrackerInv, AnalysisInv, Announce
<1>3. SUFFICES CountInv' /\ JobInv' /\ SettledInv'
  BY <1>2 DEF TypeInv
<1>4. ASSUME NEW forBlock \in BOOLEAN, CreateWork(forBlock)
      PROVE  CountInv' /\ JobInv' /\ SettledInv'
  <2>1. ~open /\ work' = [at |-> "pending", block |-> forBlock] /\ open' = forBlock
    BY <1>0, <1>4 DEF CreateWork, JobInv, CountInv
  <2>2. CountInv'
    BY <1>0, <1>4, <2>1, SettlingAssumption DEF CreateWork, CountInv
  <2>3. JobInv'
    BY <1>0, <1>4, <2>1, Places DEF CreateWork, JobInv, Live
  <2> QED
    BY <1>0, <1>4, <2>2, <2>3 DEF CreateWork, SettledInv
<1>5. CASE CreateOther
  <2>1. CountInv'
    BY <1>0, <1>5, SettlingAssumption DEF CreateOther, CountInv
  <2> QED
    BY <1>0, <1>5, <2>1 DEF CreateOther, SettledInv, JobInv, Live
<1>6. CASE Prove
  <2>1. CountInv'
    <3>1. open /\ open' = FALSE /\ proved' = proved + 1 /\ UNCHANGED <<created, stale, faults>>
      BY <1>6 DEF Prove
    <3>2. proved' \in Nat /\ proved' <= created'
      BY <1>0, <3>1 DEF CountInv
    <3>3. open' \in BOOLEAN /\ ~open'
      BY <3>1
    <3> QED
      BY <1>0, <3>1, <3>2, <3>3 DEF CountInv
  <2>2. SettledInv'
    BY <1>0, <1>6 DEF Prove, SettledInv, CountInv
  <2> QED
    BY <1>0, <1>6, <2>1, <2>2 DEF Prove, JobInv, Live
<1>7. CASE CompleteWork
  <2>1. ~open
    BY <1>0, <1>7 DEF CompleteWork, JobInv
  <2>2. JobInv'
    BY <1>0, <1>7, <2>1, Places DEF CompleteWork, JobInv, Live, NoWork
  <2> QED
    BY <1>0, <1>7, <2>2 DEF CompleteWork, CountInv, SettledInv
<1>8. ASSUME NEW k \in Coordinator, StartWork(k) \/ ReconcileWork(k)
      PROVE  CountInv' /\ JobInv' /\ SettledInv'
  <2>1. JobInv'
    BY <1>0, <1>8, Places, WorkMoved DEF StartWork, ReconcileWork, Live
  <2> QED
    BY <1>0, <1>8, <2>1 DEF StartWork, ReconcileWork, CountInv, SettledInv
<1>9. CASE FailWork
  <2>1. JobInv'
    BY <1>0, <1>9, Places, WorkMoved DEF FailWork, Live
  <2>2. CountInv'
    BY <1>0, <1>9, FaultTyped DEF FailWork, CountInv
  <2> QED
    BY <1>0, <1>9, <2>1, <2>2 DEF FailWork, SettledInv
<1>10. ASSUME NEW c \in Chain, Settle(c) PROVE CountInv' /\ JobInv' /\ SettledInv'
  <2>1. SettledInv'
    BY <1>0, <1>10 DEF Settle, SettledInv, CountInv
  <2> QED
    BY <1>0, <1>10, <2>1 DEF Settle, CountInv, JobInv, Live
<1>11. ASSUME NEW c \in Chain, Complete(c) \/ Fail(c)
       PROVE  CountInv' /\ JobInv' /\ SettledInv'
  <2>1. JobInv'
    BY <1>0, <1>11, Places, Moved DEF Complete, Fail, Live
  <2>2. CountInv'
    BY <1>0, <1>11, FaultTyped DEF Complete, Fail, CountInv
  <2> QED
    BY <1>0, <1>11, <2>1, <2>2 DEF Complete, Fail, SettledInv
<1>12. ASSUME NEW c \in Chain, NEW k \in Coordinator, Start(k, c) \/ Reconcile(k, c)
       PROVE  CountInv' /\ JobInv' /\ SettledInv'
  <2>1. JobInv'
    BY <1>0, <1>12, Places, Moved DEF Start, Reconcile, Live
  <2> QED
    BY <1>0, <1>12, <2>1 DEF Start, Reconcile, CountInv, SettledInv
<1> QED
  BY <1>3, <1>4, <1>5, <1>6, <1>7, <1>8, <1>9, <1>10, <1>11, <1>12 DEF WorkStep, JobStep

LEMMA CrashTyped == ASSUME TypeInv, NEW k \in Coordinator, Crash(k) PROVE TypeInv'
<1>0. CountInv /\ JobInv /\ SettledInv /\ TrackerInv /\ AnalysisInv
  BY DEF TypeInv
<1>1. CountInv' /\ SettledInv'
  BY <1>0, FaultTyped DEF Crash, CountInv, SettledInv
<1>2. JobInv'
  <2>1. ASSUME NEW j \in [at : Where, id : Nat]
        PROVE  /\ Abandoned(k, j) \in [at : Where, id : Nat]
               /\ Abandoned(k, j).id = j.id
               /\ Live(Abandoned(k, j)) <=> Live(j)
    BY Places DEF Abandoned, Live
  <2>2. /\ Abandoned(k, work) \in [at : Where, block : BOOLEAN]
        /\ Abandoned(k, work).block = work.block
        /\ Live(Abandoned(k, work)) <=> Live(work)
    BY <1>0, Places DEF Abandoned, Live, JobInv
  <2>3. job' \in [Chain -> [at : Where, id : Nat]]
    BY <1>0, <2>1 DEF Crash, JobInv
  <2>4. ASSUME NEW c \in Chain PROVE Live(job[c])' <=> job'[c].id # 0
    <3>1. job'[c] = Abandoned(k, job[c])
      BY DEF Crash
    <3>2. job[c] \in [at : Where, id : Nat] /\ (Live(job[c]) <=> job[c].id # 0)
      BY <1>0 DEF JobInv
    <3> QED
      BY <2>1, <3>1, <3>2 DEF Live
  <2> QED
    BY <1>0, <2>2, <2>3, <2>4 DEF Crash, JobInv, Live
<1>3. TrackerInv'
  BY <1>0 DEF Crash, TrackerInv
<1>4. AnalysisInv'
  BY <1>0 DEF Crash, AnalysisInv, Idle
<1> QED
  BY <1>1, <1>2, <1>3, <1>4 DEF TypeInv

(* A loop goes on.                                                         *)
LEMMA AnalysisMoves ==
  ASSUME AnalysisInv, NEW k \in Coordinator, NEW l \in Loop,
         NEW a \in {Idle} \cup Reading \cup Terminations,
         a.at = "terminating" => OneEach(a.jobs),
         analysis' = [analysis EXCEPT ![k][l] = a]
  PROVE  AnalysisInv'
<1>1. /\ analysis[k] \in [Loop -> {Idle} \cup Reading \cup Terminations]
      /\ analysis' = [analysis EXCEPT ![k] = [analysis[k] EXCEPT ![l] = a]]
  BY DEF AnalysisInv
<1>2. analysis' \in [Coordinator -> [Loop -> {Idle} \cup Reading \cup Terminations]]
  BY <1>1 DEF AnalysisInv
<1>3. ASSUME NEW h \in Coordinator, NEW m \in Loop, analysis'[h][m].at = "terminating"
      PROVE  OneEach(analysis'[h][m].jobs)
  <2>1. CASE h = k /\ m = l
    <3>1. analysis'[h][m] = a
      BY <1>1, <2>1 DEF AnalysisInv
    <3> QED
      BY <1>3, <3>1
  <2>2. CASE ~ (h = k /\ m = l)
    <3>1. analysis'[h][m] = analysis[h][m]
      BY <1>1, <2>2 DEF AnalysisInv
    <3> QED
      BY <1>3, <3>1 DEF AnalysisInv
  <2> QED
    BY <2>1, <2>2
<1> QED
  BY <1>2, <1>3 DEF AnalysisInv

LEMMA LoopStepsTyped ==
  ASSUME TypeInv, NEW k \in Coordinator, NEW l \in Loop, AnalysisStep(k, l)
  PROVE  TypeInv'
<1>0. CountInv /\ JobInv /\ SettledInv /\ TrackerInv /\ AnalysisInv
  BY DEF TypeInv
<1>k. /\ analysis[k][l] \in {Idle} \cup Reading \cup Terminations
      /\ analysis[k][l].at = "terminating" => OneEach(analysis[k][l].jobs)
  BY <1>0 DEF AnalysisInv
<1>1. CASE Look(k, l)
  <2> DEFINE a == [at |-> "looked", proved |-> proved, behind |-> ~CaughtUp, refs |-> Refs]
  <2>1. a \in Reading /\ a.at # "terminating"
    <3>1. proved \in 0..MaxJobs /\ Refs \in [Chain -> Nat]
      BY <1>0, SettlingAssumption DEF CountInv, JobInv, Refs
    <3> QED
      BY <3>1 DEF Reading
  <2>2. analysis' = [analysis EXCEPT ![k][l] = a]
    BY <1>1 DEF Look
  <2> HIDE DEF a
  <2>3. AnalysisInv'
    BY <1>0, <2>1, <2>2, AnalysisMoves
  <2> QED
    BY <1>0, <1>1, <2>3
       DEF Look, instance, TypeInv, CountInv, JobInv, SettledInv, TrackerInv, Live
<1>2. CASE Decide(k, l)
  <2> DEFINE seen == analysis[k][l]
  <2>1. seen.at = "looked" /\ seen \in Reading
    BY <1>k, <1>2 DEF Decide, Idle, Terminations
  <2>2. PICK needs \in SUBSET Needs(seen) :
          /\ UNCHANGED faults \/ Fault
          /\ queue' = [queue EXCEPT ![k] = @ \cup {c \in needs : seen.refs[c] = 0}]
          /\ analysis' = [analysis EXCEPT ![k][l] =
               [at |-> "terminating",
                jobs |-> {<<c, seen.refs[c]>> : c \in {d \in Chain \ needs : seen.refs[d] # 0}}]]
    BY <1>2 DEF Decide
  <2> DEFINE js == {<<c, seen.refs[c]>> : c \in {d \in Chain \ needs : seen.refs[d] # 0}}
             a == [at |-> "terminating", jobs |-> js]
  <2>3. js \in SUBSET (Chain \X (Nat \ {0})) /\ OneEach(js)
    <3>1. seen.refs \in [Chain -> Nat]
      BY <2>1 DEF Reading
    <3> QED
      BY <3>1 DEF OneEach
  <2>4. a \in Terminations /\ (a.at = "terminating" => OneEach(a.jobs))
    BY <2>3 DEF Terminations
  <2>5. analysis' = [analysis EXCEPT ![k][l] = a]
    BY <2>2
  <2>6. needs \in SUBSET Chain
    BY DEF Needs
  <2>7. TrackerInv'
    BY <1>0, <1>2, <2>2, <2>6 DEF Decide, TrackerInv
  <2> HIDE DEF a
  <2>8. AnalysisInv'
    BY <1>0, <2>4, <2>5, AnalysisMoves
  <2>9. CountInv'
    BY <1>0, <1>2, <2>2, FaultTyped DEF Decide, CountInv, instance
  <2> QED
    BY <1>0, <1>2, <2>7, <2>8, <2>9
       DEF Decide, instance, TypeInv, JobInv, SettledInv, Live
<1>3. CASE Terminate(k, l)
  <2> DEFINE mine == analysis[k][l]
  <2>1. mine.at = "terminating" /\ mine \in Terminations /\ OneEach(mine.jobs)
    BY <1>k, <1>3 DEF Terminate, Idle, Reading
  <2>2. UNCHANGED <<open, proved, settled, work, created, stale, due, tracked, queue, check>>
    BY <1>3 DEF Terminate
  <2>3. TrackerInv' /\ SettledInv'
    BY <1>0, <2>2 DEF TrackerInv, SettledInv
  <2>4. CASE mine.jobs = {}
    <3>1. analysis' = [analysis EXCEPT ![k][l] = Idle] /\ UNCHANGED <<job, faults>>
      BY <1>3, <2>4 DEF Terminate
    <3>2. AnalysisInv'
      BY <1>0, <3>1, AnalysisMoves DEF Idle
    <3> QED
      BY <1>0, <2>2, <2>3, <3>1, <3>2 DEF TypeInv, CountInv, JobInv, Live
  <2>5. CASE mine.jobs # {}
    <3>1. PICK t \in mine.jobs :
            /\ analysis' = [analysis EXCEPT ![k][l].jobs = @ \ {t}]
            /\ \/ /\ job' = IF job[t[1]].id = t[2] THEN [job EXCEPT ![t[1]] = Removed(@)] ELSE job
                  /\ UNCHANGED faults
               \/ Fault /\ UNCHANGED job
      BY <1>3, <2>5 DEF Terminate
    <3>2. t[1] \in Chain
      BY <2>1 DEF Terminations
    <3> DEFINE a == [at |-> "terminating", jobs |-> mine.jobs \ {t}]
    <3>3. a \in Terminations /\ OneEach(a.jobs)
      BY <2>1 DEF Terminations, OneEach
    <3>4. analysis' = [analysis EXCEPT ![k][l] = a]
      <4>1. ASSUME NEW m \in Terminations
            PROVE  [m EXCEPT !.jobs = @ \ {t}] = [at |-> "terminating", jobs |-> m.jobs \ {t}]
        <5>1. m.at = "terminating" /\ m = [at |-> m.at, jobs |-> m.jobs]
          BY DEF Terminations
        <5> QED
          BY <5>1
      <4>2. analysis[k] \in [Loop -> {Idle} \cup Reading \cup Terminations]
        BY <1>0 DEF AnalysisInv
      <4> QED
        BY <2>1, <3>1, <4>1, <4>2
    <3> HIDE DEF a
    <3>5. AnalysisInv'
      BY <1>0, <3>3, <3>4, AnalysisMoves
    <3>6. JobInv'
      <4>1. CASE job' = [job EXCEPT ![t[1]] = NoJob]
        <5>1. NoJob \in [at : Where, id : Nat] /\ (Live(NoJob) <=> NoJob.id # 0)
          BY Places DEF NoJob, Live
        <5>2. UNCHANGED <<open, work>>
          BY <2>2
        <5> QED
          BY ONLY <1>0, <3>2, <4>1, <5>1, <5>2, Replaced
      <4>2. CASE job' = job
        BY <1>0, <2>2, <4>2 DEF JobInv, Live
      <4> QED
        BY <3>1, <4>1, <4>2 DEF Removed
    <3>7. CountInv'
      BY <1>0, <2>2, <3>1, FaultTyped DEF CountInv
    <3> QED
      BY <2>3, <3>5, <3>6, <3>7 DEF TypeInv
  <2> QED
    BY <2>4, <2>5
<1> QED
  BY <1>1, <1>2, <1>3 DEF AnalysisStep

LEMMA SendTyped ==
  ASSUME TypeInv, NEW k \in Coordinator, NEW c \in Chain, SendCreate(k, c)
  PROVE  TypeInv'
<1>0. CountInv /\ JobInv /\ SettledInv /\ TrackerInv /\ AnalysisInv
  BY DEF TypeInv
<1>1. /\ queue' = [queue EXCEPT ![k] = @ \ {c}]
      /\ UNCHANGED <<open, proved, settled, work, created, stale, tracked, analysis, check>>
      /\ due' = due \/ Announce
      /\ UNCHANGED faults \/ Fault
  BY DEF SendCreate, CreateJob
<1>2. AnalysisInv' /\ SettledInv'
  BY <1>0, <1>1 DEF AnalysisInv, SettledInv
<1>3. TrackerInv'
  BY <1>0, <1>1 DEF TrackerInv, Announce
<1>4. CountInv'
  BY <1>0, <1>1, FaultTyped DEF CountInv
<1>5. JobInv'
  <2>1. CASE UNCHANGED job
    BY <1>0, <1>1, <2>1 DEF JobInv, Live
  <2>2. CASE job' = [job EXCEPT ![c] = [at |-> "pending", id |-> NewId(c)]]
    <3>1. NewId(c) \in Nat \ {0}
      BY <1>0, NewIdTyped
    <3> DEFINE j == [at |-> "pending", id |-> NewId(c)]
    <3>2. j \in [at : Where, id : Nat] /\ (Live(j) <=> j.id # 0)
      BY <3>1, Places DEF Live
    <3> HIDE DEF j
    <3> QED
      BY <1>0, <1>1, <2>2, <3>2, Replaced DEF j
  <2> QED
    BY <2>1, <2>2 DEF SendCreate, CreateJob
<1> QED
  BY <1>2, <1>3, <1>4, <1>5 DEF TypeInv

LEMMA CheckTyped ==
  ASSUME TypeInv, NEW k \in Coordinator, CheckStep(k)
  PROVE  TypeInv'
<1>0. CountInv /\ JobInv /\ SettledInv /\ TrackerInv /\ AnalysisInv
  BY DEF TypeInv
<1>k. check[k] \in {Idle} \cup Checking /\ created \in 0..MaxJobs
  BY <1>0 DEF TrackerInv, CountInv
<1>1. /\ UNCHANGED <<instance, due, queue, analysis>>
      /\ UNCHANGED faults \/ Fault
      /\ tracked' = tracked \/ tracked' = [tracked EXCEPT ![k] = FALSE]
  BY DEF CheckStep, BeginCheck, CountPending, CountRunning, Remove
<1>2. JobInv' /\ SettledInv' /\ AnalysisInv' /\ CountInv'
  BY <1>0, <1>1, FaultTyped DEF JobInv, SettledInv, AnalysisInv, CountInv, instance, Live
<1>3. \E c \in {Idle} \cup Checking : check' = [check EXCEPT ![k] = c]
  <2>1. CASE BeginCheck(k)
    BY <1>k, <2>1 DEF BeginCheck, Checking
  <2>2. CASE CountPending(k)
    <3>1. check[k] \in Checking /\ check[k] # Idle
      BY <1>k, <2>2 DEF CountPending, Idle
    <3>2. CASE check' = [check EXCEPT ![k] = Idle]
      BY <3>2
    <3>3. CASE check' = [check EXCEPT ![k] = [check[k] EXCEPT !.at = "counted"]]
      BY <3>1, <3>3 DEF Checking
    <3>4. CASE check' = [check EXCEPT ![k].at = "counted", ![k].blind = TRUE]
      <4>1. check' = [check EXCEPT ![k] = [check[k] EXCEPT !.at = "counted", !.blind = TRUE]]
        BY <1>0, <3>4 DEF TrackerInv
      <4> QED
        BY <3>1, <4>1 DEF Checking
    <3> QED
      BY <2>2, <3>2, <3>3, <3>4 DEF CountPending
  <2>3. CASE CountRunning(k)
    <3>1. check[k] \in Checking /\ check[k] # Idle
      BY <1>k, <2>3 DEF CountRunning, Idle
    <3>2. CASE check' = [check EXCEPT ![k] = Idle]
      BY <3>2
    <3>3. CASE check' = [check EXCEPT ![k] = [check[k] EXCEPT !.at = "verdict"]]
      BY <3>1, <3>3 DEF Checking
    <3>4. CASE check' = [check EXCEPT ![k].at = "verdict", ![k].blind = TRUE]
      <4>1. check' = [check EXCEPT ![k] = [check[k] EXCEPT !.at = "verdict", !.blind = TRUE]]
        BY <1>0, <3>4 DEF TrackerInv
      <4> QED
        BY <3>1, <4>1 DEF Checking
    <3> QED
      BY <2>3, <3>2, <3>3, <3>4 DEF CountRunning
  <2>4. CASE Remove(k)
    BY <2>4 DEF Remove
  <2> QED
    BY <2>1, <2>2, <2>3, <2>4 DEF CheckStep
<1>4. TrackerInv'
  BY <1>0, <1>1, <1>3 DEF TrackerInv
<1> QED
  BY <1>2, <1>4 DEF TypeInv

LEMMA TypesInductive == TypeInv /\ [Next]_vars => TypeInv'
<1> SUFFICES ASSUME TypeInv, [Next]_vars PROVE TypeInv'
  OBVIOUS
<1>0. CountInv /\ JobInv /\ SettledInv /\ TrackerInv /\ AnalysisInv
  BY DEF TypeInv
<1>1. CASE \/ \E forBlock \in BOOLEAN : CreateWork(forBlock)
           \/ CreateOther \/ WorkStep \/ FailWork
           \/ \E c \in Chain : JobStep(c) \/ Fail(c)
  BY <1>1, InstanceStepsTyped
<1>2. ASSUME NEW k \in Coordinator, Deliver(k) \/ LoseEvent(k) PROVE TypeInv'
  <2>1. CountInv'
    BY <1>0, <1>2, FaultTyped DEF Deliver, LoseEvent, CountInv, instance
  <2>2. TrackerInv'
    BY <1>0, <1>2 DEF Deliver, LoseEvent, TrackerInv
  <2> QED
    BY <1>0, <1>2, <2>1, <2>2
       DEF Deliver, LoseEvent, instance, TypeInv, JobInv, SettledInv, AnalysisInv, Live
<1>3. ASSUME NEW k \in Coordinator, Crash(k) PROVE TypeInv'
  BY <1>3, CrashTyped
<1>4. ASSUME NEW k \in Coordinator, CheckStep(k) PROVE TypeInv'
  BY <1>4, CheckTyped
<1>5. ASSUME NEW k \in Coordinator, SendStep(k) PROVE TypeInv'
  BY <1>5, SendTyped DEF SendStep
<1>6. ASSUME NEW k \in Coordinator, NEW l \in Loop, AnalysisStep(k, l) PROVE TypeInv'
  BY <1>6, LoopStepsTyped
<1>7. CASE UNCHANGED vars
  BY <1>0, <1>7 DEF vars, instance, coordinators, TypeInv, CountInv, JobInv, SettledInv,
     TrackerInv, AnalysisInv, Live
<1> QED
  BY <1>1, <1>2, <1>3, <1>4, <1>5, <1>6, <1>7 DEF Next

(* Types, in every behaviour: no block is proved without a job of its own, *)
(* none is settled before it is proved, a reference and its job come and   *)
(* go together, and there is always a number for a new job that no loop    *)
(* holds from an old reading.                                              *)
THEOREM TypeCorrect == Spec => []TypeOK
<1>1. TypeInv => TypeOK
  <2> SUFFICES ASSUME TypeInv PROVE TypeOK
    OBVIOUS
  <2>1. CountInv /\ JobInv /\ SettledInv /\ TrackerInv /\ AnalysisInv
    BY DEF TypeInv
  <2>2. proved \in 0..MaxJobs
    BY <2>1, SettlingAssumption DEF CountInv
  <2>3. settled \in [Chain -> 0..MaxJobs]
    BY <2>1, <2>2, SettlingAssumption DEF SettledInv
  <2> QED
    BY <2>1, <2>2, <2>3
       DEF TypeOK, CountInv, JobInv, SettledInv, TrackerInv, AnalysisInv
<1> QED
  BY <1>1, TypesInitially, TypesInductive, PTL DEF Spec

=============================================================================
