-------------------------- MODULE MulticallProofs --------------------------
(***************************************************************************)
(* The safety properties of Multicall for any app instances, sequences,    *)
(* batch size, attempts and number of failures.                            *)
(***************************************************************************)
EXTENDS Multicall, FiniteSetTheorems, SequenceTheorems, TLAPS

(* What a job on the chain can be.                                         *)
Cell == [status: Status, runs: 0..MaxAttempts, ours: BOOLEAN]

Sound(c) ==
  /\ c \in Cell
  /\ c.ours => c.status = "Running"
  /\ c.status = "Unborn" => c.runs = 0
  /\ c.status = "Pending" => c.runs < MaxAttempts

ChainInv ==
  /\ chain \in [Job -> Cell]
  /\ \A j \in Job : Sound(chain[j])

Batch ==
  [phase: {"idle", "filling", "sent", "executed"}, apps: Seq(App), next: Nat,
   limit: 1..MaxOps, count: Nat, ops: [App -> Ops], started: SUBSET Job]

(* What batch b has taken from an app instance it took when its turn came, *)
(* which comes once, and it is counted.                                    *)
TakenInTurn(b) ==
  /\ b.next \in 1..(Len(b.apps) + 1)
  /\ \A i, k \in 1..Len(b.apps) : b.apps[i] = b.apps[k] => i = k
  /\ \A a \in App : (\A i \in 1..(b.next - 1) : b.apps[i] # a) => b.ops[a] = NoOps
  /\ \A a \in App : Size(b.ops[a]) <= b.count

BatchInv ==
  /\ batch \in Batch
  /\ TakenInTurn(batch)
  /\ batch.phase = "idle" => batch = Idle
  /\ batch.phase # "executed" => batch.started = {}
  /\ \A j \in batch.started : batch.ops[j[1]].start[j[2]] > 0

IInv ==
  /\ ChainInv
  /\ BatchInv
  /\ requests \in [App -> Ops]
  /\ buffer \in [Job -> Nat]
  /\ asked \in 0..MaxAsked /\ faults \in 0..MaxFaults
  /\ StartedJobsAreFollowed

-----------------------------------------------------------------------------
(* Operations.                                                             *)

(* What Total counts.                                                      *)
Cells(f) == UNION {{i} \X (1..f[i]) : i \in DOMAIN f}

LEMMA CellsOf ==
  ASSUME NEW f \in [Sequence -> Nat]
  PROVE  /\ Cells(f) = {p \in Sequence \X Nat : 1 <= p[2] /\ p[2] <= f[p[1]]}
         /\ IsFiniteSet(Cells(f)) /\ Cardinality(Cells(f)) = Total(f)
         /\ Total(f) \in Nat
<1>1. Cells(f) = {p \in Sequence \X Nat : 1 <= p[2] /\ p[2] <= f[p[1]]}
  <2>1. ASSUME NEW p, p \in Cells(f)
        PROVE  p \in Sequence \X Nat /\ 1 <= p[2] /\ p[2] <= f[p[1]]
    <3>1. PICK i \in Sequence : p \in {i} \X (1..f[i])
      BY <2>1 DEF Cells
    <3> QED
      BY <3>1
  <2>2. ASSUME NEW p \in Sequence \X Nat, 1 <= p[2] /\ p[2] <= f[p[1]]
        PROVE  p \in Cells(f)
    <3>1. p[1] \in Sequence /\ p[2] \in 1..f[p[1]] /\ p = <<p[1], p[2]>>
      BY <2>2
    <3>2. p \in {p[1]} \X (1..f[p[1]])
      BY <3>1
    <3> QED
      BY <3>1, <3>2 DEF Cells
  <2> QED
    BY <2>1, <2>2
<1>2. IsFiniteSet(Cells(f))
  <2>1. ASSUME NEW i \in Sequence PROVE i \in Nat
    BY DEF Sequence
  <2> DEFINE T == {{i} \X (1..f[i]) : i \in Sequence}
             g == [i \in Sequence |-> {i} \X (1..f[i])]
  <2>2. IsFiniteSet(T)
    <3>1. g \in Surjection(Sequence, T)
      BY DEF Surjection
    <3>2. IsFiniteSet(Sequence)
      BY FS_Interval, MulticallAssumption DEF Sequence
    <3> QED
      BY <3>1, <3>2, FS_Surjection
  <2>3. ASSUME NEW i \in Sequence PROVE IsFiniteSet({i} \X (1..f[i]))
    <3>1. f[i] \in Int /\ 1 \in Int
      OBVIOUS
    <3>2. IsFiniteSet({i}) /\ IsFiniteSet(1..f[i])
      BY <3>1, FS_Singleton, FS_Interval
    <3> QED
      BY <3>2, FS_Product
  <2>4. \A S \in T : IsFiniteSet(S)
    BY <2>3
  <2>5. Cells(f) = UNION T
    BY DEF Cells
  <2> HIDE DEF T
  <2> QED
    BY <2>2, <2>4, <2>5, FS_UNION
<1>3. Cardinality(Cells(f)) = Total(f)
  BY DEF Cells, Total
<1> QED
  BY <1>1, <1>2, <1>3, FS_CardinalityType

LEMMA OpsFields ==
  ASSUME NEW o \in Ops
  PROVE  /\ o.work \in Nat /\ o.create \in Nat
         /\ o.complete \in Seq(Sequence) /\ o.fail \in Seq(Sequence)
         /\ o.terminate \in Seq(Sequence)
         /\ Len(o.complete) \in Nat /\ Len(o.fail) \in Nat /\ Len(o.terminate) \in Nat
         /\ o.start \in [Sequence -> Nat]
BY LenProperties DEF Ops

LEMMA Sizes ==
  ASSUME NEW o \in Ops
  PROVE  /\ Size(o) \in Nat
         /\ Size(o) = 0 => /\ o.work = 0 /\ Len(o.complete) = 0
                           /\ Len(o.fail) = 0 /\ Len(o.terminate) = 0
<1>1. Total(o.start) \in Nat
  BY OpsFields, CellsOf
<1> DEFINE c == Len(o.complete)
           f == Len(o.fail)
           t == Len(o.terminate)
           w == o.work
           n == o.create
           m == Total(o.start)
<1>2. c \in Nat /\ f \in Nat /\ t \in Nat /\ w \in Nat /\ n \in Nat
  BY OpsFields
<1>3. Size(o) = w + c + f + t + m + n
  BY DEF Size
<1> HIDE DEF c, f, t, w, n, m
<1>4. Size(o) \in Nat /\ (Size(o) = 0 => w = 0 /\ c = 0 /\ f = 0 /\ t = 0)
  BY <1>1, <1>2, <1>3 DEF m
<1> QED
  BY <1>4 DEF w, c, f, t

LEMMA NoOpsAreOps ==
  /\ NoOps \in Ops
  /\ NoOps.work = 0 /\ Len(NoOps.complete) = 0
  /\ Len(NoOps.fail) = 0 /\ Len(NoOps.terminate) = 0
  /\ \A s \in Sequence : NoOps.start[s] = 0
BY EmptySeq DEF NoOps, Ops

LEMMA NoOpsAreNone == Size(NoOps) = 0
<1> DEFINE f == [s \in Sequence |-> 0]
           T == {{s} \X (1..f[s]) : s \in DOMAIN f}
<1>1. UNION T = {}
  OBVIOUS
<1>2. Total(f) = 0
  BY <1>1, FS_EmptySet DEF Total
<1> QED
  BY <1>2, NoOpsAreOps DEF Size, NoOps

LEMMA Cut ==
  ASSUME NEW list \in Seq(Sequence), NEW n \in Nat
  PROVE  /\ First(list, n) \in Seq(Sequence) /\ Rest(list, n) \in Seq(Sequence)
         /\ Len(First(list, n)) + Len(Rest(list, n)) = Len(list)
         /\ Len(First(list, n)) \in Nat /\ Len(Rest(list, n)) \in Nat
<1> DEFINE m == Least(n, Len(list))
           l == Len(list)
<1>1. l \in Nat /\ m \in 0..l
  BY LenProperties DEF Least
<1> HIDE DEF m
<1>2. \A i \in 1..l : list[i] \in Sequence
  BY ElementOfSeq
<1> HIDE DEF l
<1>3. (\A i \in 1..m : list[i] \in Sequence) /\ (\A i \in (m + 1)..l : list[i] \in Sequence)
  BY <1>1, <1>2
<1>4. SubSeq(list, 1, m) \in Seq(Sequence) /\ Len(SubSeq(list, 1, m)) = m
  BY <1>1, <1>3, SubSeqProperties
<1>5. /\ SubSeq(list, m + 1, l) \in Seq(Sequence)
      /\ Len(SubSeq(list, m + 1, l)) = l - m
  BY <1>1, <1>3, SubSeqProperties
<1> QED
  BY <1>1, <1>4, <1>5 DEF First, Rest, m, l

LEMMA LeastIsLeast ==
  ASSUME NEW x \in Int, NEW y \in Int
  PROVE  Least(x, y) <= x /\ Least(x, y) <= y /\ Least(x, y) \in {x, y}
BY DEF Least
-----------------------------------------------------------------------------
(* Jobs on the chain.                                                      *)

Lost(c) == [c EXCEPT !.ours = FALSE]

LEMMA CellFields ==
  ASSUME NEW c, Sound(c)
  PROVE  c.status \in Status /\ c.runs \in 0..MaxAttempts /\ c.ours \in BOOLEAN
BY DEF Sound, Cell

LEMMA LostIsSound ==
  ASSUME NEW c, Sound(c)
  PROVE  /\ Sound(Lost(c)) /\ ~Lost(c).ours
         /\ Lost(c).status = c.status /\ Lost(c).runs = c.runs
BY DEF Sound, Cell, Lost, Status

LEMMA StartedIsSound ==
  ASSUME NEW c, Sound(c), c.status = "Pending", NEW ours \in BOOLEAN
  PROVE  Sound(Started(c, ours)) /\ Started(c, ours).ours = ours
<1>1. c.runs \in Nat /\ c.runs < MaxAttempts /\ c.runs + 1 \in 0..MaxAttempts
  BY MulticallAssumption DEF Sound, Cell
<1> QED
  BY <1>1 DEF Started, Sound, Cell, Status

LEMMA FailedIsSound ==
  ASSUME NEW c, Sound(c), c.status = "Running"
  PROVE  Sound(FailedRun(c)) /\ ~FailedRun(c).ours
<1>1. c \in Cell /\ c.runs \in 0..MaxAttempts
  BY DEF Sound, Cell
<1>2. CASE c.runs < MaxAttempts
  <2>1. FailedRun(c) = [c EXCEPT !.status = "Pending", !.ours = FALSE]
    BY <1>2 DEF FailedRun
  <2> QED
    BY <1>1, <1>2, <2>1 DEF Sound, Cell, Status
<1>3. CASE ~(c.runs < MaxAttempts)
  <2>1. FailedRun(c) = [c EXCEPT !.status = "Over", !.ours = FALSE]
    BY <1>3 DEF FailedRun
  <2> QED
    BY <1>1, <2>1 DEF Sound, Cell, Status
<1> QED
  BY <1>2, <1>3

LEMMA RemovedIsSound ==
  ASSUME NEW c, Sound(c)
  PROVE  Sound(Removed(c)) /\ ~Removed(c).ours
BY DEF Removed, Sound, Cell, Status

(* The three kinds of ends, in their order.                                *)
Completed(o, s, c) == IF In(o.complete, s) /\ c.status = "Running" THEN Removed(c) ELSE c
Failed(o, s, c) == IF In(o.fail, s) /\ c.status = "Running" THEN FailedRun(c) ELSE c
Terminated(o, s, c) == IF In(o.terminate, s) /\ c.status # "Unborn" THEN Removed(c) ELSE c

LEMMA EndsInOrder ==
  \A o, s, c : AfterEnds(o, s, c) = Terminated(o, s, Failed(o, s, Completed(o, s, c)))
BY DEF AfterEnds, Completed, Failed, Terminated

(* An end leaves a job sound and ours only if it was, and does not look at *)
(* whose it is.                                                            *)
Ending(c, d) ==
  /\ Sound(d)
  /\ d.ours => c.ours /\ c.status = "Running"
  /\ c.status = "Unborn" => d = c

LEMMA EachEnding ==
  ASSUME NEW c, Sound(c), NEW o, NEW s
  PROVE  /\ Ending(c, Completed(o, s, c))
         /\ Ending(c, Failed(o, s, c))
         /\ Ending(c, Terminated(o, s, c))
BY RemovedIsSound, FailedIsSound DEF Ending, Completed, Failed, Terminated, Sound

LEMMA EndsAreSound ==
  ASSUME NEW c, Sound(c), NEW o, NEW s
  PROVE  Ending(c, AfterEnds(o, s, c))
<1> DEFINE d == Completed(o, s, c)
           e == Failed(o, s, d)
           f == Terminated(o, s, e)
<1>1. Ending(c, d) /\ Sound(d)
  BY EachEnding DEF Ending
<1>2. Ending(d, e) /\ Sound(e)
  BY <1>1, EachEnding DEF Ending
<1>3. Ending(e, f)
  BY <1>2, EachEnding
<1>4. AfterEnds(o, s, c) = f
  BY EndsInOrder
<1> HIDE DEF d, e, f
<1>5. Ending(c, f)
  BY <1>1, <1>2, <1>3 DEF Ending
<1> QED
  BY <1>4, <1>5

Alike(c, d) == c.status = d.status /\ c.runs = d.runs

LEMMA EachEndAlike ==
  ASSUME NEW c, Sound(c), NEW d, Sound(d), Alike(c, d), NEW o, NEW s
  PROVE  /\ Alike(Completed(o, s, c), Completed(o, s, d))
         /\ Alike(Failed(o, s, c), Failed(o, s, d))
         /\ Alike(Terminated(o, s, c), Terminated(o, s, d))
<1>1. /\ c \in Cell /\ d \in Cell /\ c.status = d.status /\ c.runs = d.runs
      /\ c.runs \in 0..MaxAttempts
  BY DEF Sound, Alike, Cell
<1>2. Alike(Removed(c), Removed(d))
  BY <1>1 DEF Removed, Alike, Cell
<1>3. Alike(FailedRun(c), FailedRun(d))
  <2>1. CASE c.runs < MaxAttempts
    <3>1. /\ FailedRun(c) = [c EXCEPT !.status = "Pending", !.ours = FALSE]
          /\ FailedRun(d) = [d EXCEPT !.status = "Pending", !.ours = FALSE]
      BY <1>1, <2>1 DEF FailedRun
    <3> QED
      BY <1>1, <3>1 DEF Alike, Cell
  <2>2. CASE ~(c.runs < MaxAttempts)
    <3>1. /\ FailedRun(c) = [c EXCEPT !.status = "Over", !.ours = FALSE]
          /\ FailedRun(d) = [d EXCEPT !.status = "Over", !.ours = FALSE]
      BY <1>1, <2>2 DEF FailedRun
    <3> QED
      BY <1>1, <3>1 DEF Alike, Cell
  <2> QED
    BY <2>1, <2>2
<1> QED
  BY <1>1, <1>2, <1>3 DEF Completed, Failed, Terminated, Alike

LEMMA EndsAlike ==
  ASSUME NEW c, Sound(c), NEW d, Sound(d), Alike(c, d), NEW o, NEW s
  PROVE  AfterEnds(o, s, c).status = AfterEnds(o, s, d).status
<1> DEFINE c1 == Completed(o, s, c)
           d1 == Completed(o, s, d)
           c2 == Failed(o, s, c1)
           d2 == Failed(o, s, d1)
<1>1. Sound(c1) /\ Sound(d1) /\ Alike(c1, d1)
  BY EachEnding, EachEndAlike DEF Ending
<1> HIDE DEF c1, d1
<1>2. Sound(c2) /\ Sound(d2) /\ Alike(c2, d2)
  BY <1>1, EachEnding, EachEndAlike DEF Ending
<1> HIDE DEF c2, d2
<1>3. Alike(Terminated(o, s, c2), Terminated(o, s, d2))
  BY <1>2, EachEndAlike
<1> QED
  BY <1>3, EndsInOrder DEF Alike, c1, d1, c2, d2

(* What a batch makes of a job: the execution of a table some of whose     *)
(* starts have been lost.                                                  *)
LEMMA BatchesAreSound ==
  ASSUME ChainInv, NEW before, NEW refused, NEW j \in Job,
         before[j] \in {chain[j], Lost(chain[j])}
  PROVE  LET d == AfterBatch(before, refused)[j] IN
         /\ Sound(d)
         /\ d.ours => \/ j \in Starts(refused)
                      \/ before[j].ours /\ before[j].status = "Running"
<1> DEFINE o == batch.ops[j[1]]
           c == AfterEnds(o, j[2], before[j])
           d == AfterBatch(before, refused)[j]
<1>1. Sound(chain[j])
  BY DEF ChainInv
<1>2. Sound(before[j]) /\ Alike(before[j], chain[j])
  BY <1>1, LostIsSound DEF Alike
<1>3. Ending(before[j], c)
  BY <1>2, EndsAreSound
<1>4. c.status = AfterEnds(o, j[2], chain[j]).status
  BY <1>1, <1>2, EndsAlike
<1>5. d = IF j \in Starts(refused) THEN Started(c, TRUE)
          ELSE IF j[2] \in NextUnborn(j[1], o.create)
          THEN [c EXCEPT !.status = "Pending"] ELSE c
  BY DEF AfterBatch
<1>6. CASE j \in Starts(refused)
  <2>1. c.status = "Pending"
    BY <1>4, <1>6 DEF Starts
  <2> HIDE DEF c
  <2>2. Sound(Started(c, TRUE))
    BY <1>3, <2>1, StartedIsSound DEF Ending
  <2>3. d = Started(c, TRUE)
    BY <1>5, <1>6
  <2> HIDE DEF d
  <2>4. Sound(d)
    BY <2>2, <2>3
  <2> QED
    BY <1>6, <2>4 DEF d
<1>7. CASE j \notin Starts(refused) /\ j[2] \in NextUnborn(j[1], o.create)
  <2>1. j = <<j[1], j[2]>>
    BY DEF Job
  <2>2. chain[j].status = "Unborn"
    BY <1>7, <2>1 DEF NextUnborn
  <2>3. before[j].status = "Unborn" /\ c = before[j]
    BY <1>2, <1>3, <2>2 DEF Ending, Alike
  <2>4. Sound(c) /\ ~c.ours /\ c.status = "Unborn"
    BY <1>2, <2>3, CellFields DEF Sound
  <2> HIDE DEF c
  <2>5. Sound([c EXCEPT !.status = "Pending"]) /\ ~[c EXCEPT !.status = "Pending"].ours
    BY <2>4, MulticallAssumption DEF Sound, Cell, Status
  <2> QED
    BY <1>5, <1>7, <2>5
<1>8. CASE j \notin Starts(refused) /\ j[2] \notin NextUnborn(j[1], o.create)
  <2>1. d = c
    BY <1>5, <1>8
  <2> HIDE DEF c, d
  <2>2. Sound(d) /\ (d.ours => before[j].ours /\ before[j].status = "Running")
    BY <1>3, <2>1 DEF Ending
  <2> QED
    BY <2>2 DEF d
<1> QED
  BY <1>6, <1>7, <1>8
-----------------------------------------------------------------------------
(* What an app instance's requests amount to.                              *)

Kinds == {"work", "complete", "fail", "terminate"}

LEMMA Amounts ==
  ASSUME NEW o
  PROVE  /\ Amount(o, "work") = o.work
         /\ Amount(o, "complete") = Len(o.complete)
         /\ Amount(o, "fail") = Len(o.fail)
         /\ Amount(o, "terminate") = Len(o.terminate)
BY DEF Amount

LEMMA AmountsAreNat ==
  \A o \in Ops : \A kind \in Kinds : Amount(o, kind) \in Nat
BY Amounts, OpsFields DEF Kinds

(* `o` has as many requests of every kind as `p`.                          *)
Covers(o, p) ==
  /\ o.work >= p.work
  /\ Len(o.complete) >= Len(p.complete)
  /\ Len(o.fail) >= Len(p.fail)
  /\ Len(o.terminate) >= Len(p.terminate)

Keeps == \A kind \in Kinds : LeaveExecuted(kind)

(* Requests that only grow while the batch has what it had.                *)
Grown(R) == R \in [App -> Ops] /\ \A a \in App : Covers(R[a], requests[a])

LEMMA EverythingHeld ==
  ASSUME NEW o, NEW p, Covers(o, p), NEW kind \in Kinds
  PROVE  Amount(o, kind) >= Amount(p, kind)
BY Amounts DEF Covers, Kinds

LEMMA GrownIsKept ==
  ASSUME IInv, Grown(requests'), batch'.ops = batch.ops
  PROVE  Keeps
<1>1. ASSUME NEW kind \in Kinds, NEW a \in App
      PROVE  Held(a, kind)' >= Held(a, kind)
  <2>1. Amount(requests'[a], kind) >= Amount(requests[a], kind)
    BY EverythingHeld DEF Grown
  <2>2. /\ Amount(requests'[a], kind) \in Nat /\ Amount(requests[a], kind) \in Nat
        /\ Amount(batch.ops[a], kind) \in Nat
    BY AmountsAreNat DEF Grown, IInv, BatchInv, Batch
  <2> QED
    BY <2>1, <2>2 DEF Held
<1> QED
  BY <1>1 DEF Keeps, LeaveExecuted

LEMMA SameIsGrown ==
  ASSUME requests \in [App -> Ops]
  PROVE  Grown(requests)
<1>1. ASSUME NEW a \in App PROVE Covers(requests[a], requests[a])
  BY OpsFields DEF Covers
<1> QED
  BY <1>1 DEF Grown

LEMMA PutIsGrown ==
  ASSUME requests \in [App -> Ops], NEW a \in App, NEW o \in Ops, Covers(o, requests[a])
  PROVE  Grown([requests EXCEPT ![a] = o])
BY SameIsGrown DEF Grown

(* Each kind of request.                                                   *)
LEMMA LongerLists ==
  ASSUME requests \in [App -> Ops], NEW j \in Job
  PROVE  /\ Grown([requests EXCEPT ![j[1]].complete = Append(@, j[2])])
         /\ Grown([requests EXCEPT ![j[1]].fail = Append(@, j[2])])
         /\ Grown([requests EXCEPT ![j[1]].terminate = Append(@, j[2])])
<1> DEFINE o == requests[j[1]]
           c == Append(o.complete, j[2])
           f == Append(o.fail, j[2])
           t == Append(o.terminate, j[2])
<1>1. j[1] \in App /\ j[2] \in Sequence /\ o \in Ops
  BY DEF Job
<1>2. /\ c \in Seq(Sequence) /\ Len(c) >= Len(o.complete)
      /\ f \in Seq(Sequence) /\ Len(f) >= Len(o.fail)
      /\ t \in Seq(Sequence) /\ Len(t) >= Len(o.terminate)
  <2> HIDE DEF o
  <2>1. /\ o.complete \in Seq(Sequence) /\ Len(o.complete) \in Nat
        /\ o.fail \in Seq(Sequence) /\ Len(o.fail) \in Nat
        /\ o.terminate \in Seq(Sequence) /\ Len(o.terminate) \in Nat
    BY <1>1, OpsFields
  <2> QED
    BY <1>1, <2>1, AppendProperties
<1> HIDE DEF c, f, t
<1>3. Covers(o, o)
  BY <1>1, SameIsGrown DEF Grown
<1>4. /\ [o EXCEPT !.complete = c] \in Ops /\ Covers([o EXCEPT !.complete = c], o)
      /\ [o EXCEPT !.fail = f] \in Ops /\ Covers([o EXCEPT !.fail = f], o)
      /\ [o EXCEPT !.terminate = t] \in Ops /\ Covers([o EXCEPT !.terminate = t], o)
  BY <1>1, <1>2, <1>3 DEF Ops, Covers
<1>5. /\ [requests EXCEPT ![j[1]].complete = Append(@, j[2])]
           = [requests EXCEPT ![j[1]] = [o EXCEPT !.complete = c]]
      /\ [requests EXCEPT ![j[1]].fail = Append(@, j[2])]
           = [requests EXCEPT ![j[1]] = [o EXCEPT !.fail = f]]
      /\ [requests EXCEPT ![j[1]].terminate = Append(@, j[2])]
           = [requests EXCEPT ![j[1]] = [o EXCEPT !.terminate = t]]
  BY DEF c, f, t
<1> HIDE DEF o
<1> QED
  BY <1>1, <1>4, <1>5, PutIsGrown DEF o

LEMMA MoreFails ==
  ASSUME requests \in [App -> Ops], NEW j \in Job
  PROVE  Grown(AddFail(requests, j))
BY LongerLists, SameIsGrown DEF AddFail

LEMMA MoreStarts ==
  ASSUME requests \in [App -> Ops], NEW j \in Job
  PROVE  Grown(AddStart(requests, j))
<1> DEFINE o == requests[j[1]]
           n == IF o.start[j[2]] = 0 THEN 1 ELSE o.start[j[2]]
<1>1. j[1] \in App /\ j[2] \in Sequence /\ o \in Ops
  BY DEF Job
<1>2. n \in Nat
  BY <1>1, OpsFields
<1>3. AddStart(requests, j) = [requests EXCEPT ![j[1]] = [o EXCEPT !.start[j[2]] = n]]
  BY DEF AddStart
<1>4. Covers(o, o)
  BY <1>1, SameIsGrown DEF Grown
<1> HIDE DEF n
<1>5. [o EXCEPT !.start[j[2]] = n] \in Ops /\ Covers([o EXCEPT !.start[j[2]] = n], o)
  BY <1>1, <1>2, <1>4 DEF Ops, Covers
<1> HIDE DEF o
<1> QED
  BY <1>1, <1>3, <1>5, PutIsGrown DEF o

LEMMA MoreNumbers ==
  ASSUME requests \in [App -> Ops], NEW a \in App
  PROVE  /\ Grown([requests EXCEPT ![a].work = @ + 1])
         /\ Grown([requests EXCEPT ![a].create = @ + 1])
<1> DEFINE o == requests[a]
<1>1. o \in Ops /\ o.work \in Nat /\ o.create \in Nat
  BY OpsFields
<1>2. Covers(o, o)
  BY SameIsGrown DEF Grown
<1>3. /\ [requests EXCEPT ![a].work = @ + 1]
           = [requests EXCEPT ![a] = [o EXCEPT !.work = o.work + 1]]
      /\ [requests EXCEPT ![a].create = @ + 1]
           = [requests EXCEPT ![a] = [o EXCEPT !.create = o.create + 1]]
  OBVIOUS
<1> HIDE DEF o
<1>4. /\ [o EXCEPT !.work = o.work + 1] \in Ops
      /\ [o EXCEPT !.create = o.create + 1] \in Ops
  <2>1. \A n \in Nat : [o EXCEPT !.work = n] \in Ops /\ [o EXCEPT !.create = n] \in Ops
    BY <1>1 DEF Ops
  <2>2. o.work + 1 \in Nat /\ o.create + 1 \in Nat
    BY <1>1
  <2> QED
    BY <2>1, <2>2
<1>5. /\ [o EXCEPT !.work = o.work + 1].work = o.work + 1
      /\ [o EXCEPT !.create = o.create + 1].work = o.work
  BY <1>1 DEF Ops
<1>6. /\ Covers([o EXCEPT !.work = o.work + 1], o)
      /\ Covers([o EXCEPT !.create = o.create + 1], o)
  BY <1>1, <1>2, <1>5 DEF Covers
<1> QED
  BY <1>3, <1>4, <1>6, PutIsGrown DEF o

(* A queued request disturbs nothing.                                      *)
LEMMA QueueStep ==
  ASSUME IInv, NEW R, Grown(R), Queue(R), asked' \in 0..MaxAsked
  PROVE  IInv' /\ Keeps
<1>1. requests' = R /\ UNCHANGED <<chain, batch, buffer, faults>>
  BY DEF Queue
<1>2. Grown(requests') /\ batch'.ops = batch.ops
  BY <1>1
<1>3. Keeps
  BY <1>2, GrownIsKept
<1>4. ChainInv' /\ BatchInv' /\ StartedJobsAreFollowed'
  BY <1>1 DEF IInv, ChainInv, BatchInv, StartedJobsAreFollowed
<1> QED
  BY <1>1, <1>2, <1>3, <1>4 DEF IInv, Grown

LEMMA AskStep ==
  ASSUME IInv, NEW R, Grown(R), Ask(R)
  PROVE  IInv' /\ Keeps
<1>1. asked' \in 0..MaxAsked /\ Queue(R)
  BY MulticallAssumption DEF Ask, IInv
<1> QED
  BY <1>1, QueueStep

(* One job changes, and is not ours afterwards.                            *)
LEMMA ChainStep ==
  ASSUME IInv, NEW j \in Job, NEW d, Sound(d), ~d.ours,
         chain' = [chain EXCEPT ![j] = d],
         UNCHANGED <<requests, batch, outside>>, buffer' \in [Job -> Nat],
         \A i \in Job : i # j => buffer'[i] = buffer[i]
  PROVE  IInv' /\ Keeps
<1>1. requests \in [App -> Ops] /\ chain \in [Job -> Cell]
  BY DEF IInv, ChainInv
<1>2. Keeps
  BY <1>1, SameIsGrown, GrownIsKept
<1>3. chain' \in [Job -> Cell] /\ \A i \in Job : chain'[i] = IF i = j THEN d ELSE chain[i]
  BY <1>1 DEF Sound
<1>4. ChainInv'
  BY <1>3 DEF IInv, ChainInv
<1>5. BatchInv'
  BY DEF IInv, BatchInv
<1>6. StartedJobsAreFollowed'
  BY <1>3 DEF IInv, StartedJobsAreFollowed
<1> QED
  BY <1>2, <1>4, <1>5, <1>6 DEF IInv, outside
-----------------------------------------------------------------------------
LEMMA IdleIsABatch == Idle \in Batch /\ TakenInTurn(Idle)
<1>1. Idle.ops = [a \in App |-> NoOps] /\ \A a \in App : Idle.ops[a] = NoOps
  BY DEF Idle
<1>2. \A a \in App : Size(Idle.ops[a]) <= Idle.count
  BY <1>1, NoOpsAreNone DEF Idle
<1>3. /\ Idle.apps = <<>> /\ Idle.apps \in Seq(App) /\ Len(Idle.apps) = 0
      /\ Idle.next = 1
  BY EmptySeq DEF Idle
<1>4. TakenInTurn(Idle)
  BY <1>1, <1>2, <1>3 DEF TakenInTurn
<1>5. Idle \in Batch
  BY <1>1, <1>3, NoOpsAreOps, MulticallAssumption DEF Batch, Idle
<1> QED
  BY <1>4, <1>5

(* A cycle that is over, with nothing in the batch.                        *)
LEMMA IdleBatchInv ==
  ASSUME batch' = Idle
  PROVE  BatchInv' /\ batch'.ops = [a \in App |-> NoOps] /\ batch'.started = {}
BY IdleIsABatch DEF BatchInv, Idle

LEMMA InitIInv ==
  ASSUME Init
  PROVE  IInv
<1> DEFINE c == [status |-> "Unborn", runs |-> 0, ours |-> FALSE]
<1>1. Sound(c) /\ ~c.ours
  BY MulticallAssumption DEF Sound, Cell, Status
<1>2. \A j \in Job : chain[j] = c
  BY DEF Init
<1>3. chain \in [Job -> Cell]
  BY <1>1 DEF Init, Sound
<1> HIDE DEF c
<1>4. ChainInv /\ StartedJobsAreFollowed
  BY <1>1, <1>2, <1>3 DEF ChainInv, StartedJobsAreFollowed
<1>5. BatchInv
  BY IdleIsABatch DEF Init, BatchInv, Idle
<1>6. requests \in [App -> Ops] /\ buffer \in [Job -> Nat]
  BY NoOpsAreOps DEF Init
<1> QED
  BY <1>4, <1>5, <1>6, MulticallAssumption DEF Init, IInv

(* The chain, without this coordinator.                                    *)
LEMMA JobCreatedStep ==
  ASSUME IInv, NEW a \in App, JobCreated(a)
  PROVE  IInv' /\ Keeps
<1>1. PICK s \in NextUnborn(a, 1) : chain' = [chain EXCEPT ![<<a, s>>].status = "Pending"]
  BY DEF JobCreated
<1> DEFINE j == <<a, s>>
           c == chain[j]
           d == [c EXCEPT !.status = "Pending"]
<1>2. j \in Job /\ c.status = "Unborn"
  BY DEF NextUnborn, Job
<1>3. Sound(c)
  BY <1>2 DEF IInv, ChainInv
<1>4. chain' = [chain EXCEPT ![j] = d]
  BY <1>1
<1> HIDE DEF c
<1>5. Sound(d) /\ ~d.ours
  BY <1>2, <1>3, MulticallAssumption DEF Sound, Cell, Status
<1>6. UNCHANGED <<requests, batch, outside>> /\ buffer' \in [Job -> Nat] /\ buffer' = buffer
  BY DEF JobCreated, IInv
<1> HIDE DEF d, j
<1> QED
  BY <1>2, <1>4, <1>5, <1>6, ChainStep

LEMMA PeerActsStep ==
  ASSUME IInv, NEW j \in Job, PeerActs(j)
  PROVE  IInv' /\ Keeps
<1> DEFINE c == chain[j]
<1>1. Sound(c)
  BY DEF IInv, ChainInv
<1>2. UNCHANGED <<requests, batch, outside>> /\ buffer' \in [Job -> Nat] /\ buffer' = buffer
  BY DEF PeerActs, IInv
<1>3. PICK d \in {Started(c, FALSE), Removed(c), FailedRun(c)} :
        /\ chain' = [chain EXCEPT ![j] = d]
        /\ Sound(d) /\ ~d.ours
  <2>1. CASE c.status = "Pending" /\ chain' = [chain EXCEPT ![j] = Started(c, FALSE)]
    <3>1. Sound(Started(c, FALSE)) /\ ~Started(c, FALSE).ours
      BY <1>1, <2>1, StartedIsSound
    <3> QED
      BY <2>1, <3>1
  <2>2. CASE c.status = "Running" /\ chain' = [chain EXCEPT ![j] = Removed(c)]
    BY <1>1, <2>2, RemovedIsSound
  <2>3. CASE c.status = "Running" /\ chain' = [chain EXCEPT ![j] = FailedRun(c)]
    BY <1>1, <2>3, FailedIsSound
  <2> QED
    BY <2>1, <2>2, <2>3 DEF PeerActs
<1> HIDE DEF c
<1> QED
  BY <1>2, <1>3, ChainStep

LEMMA HandOverStep ==
  ASSUME IInv, NEW j \in Job, HandOver(j)
  PROVE  IInv' /\ Keeps
<1> DEFINE d == Lost(chain[j])
<1>1. Sound(d) /\ ~d.ours
  BY LostIsSound DEF IInv, ChainInv
<1>2. chain' = [chain EXCEPT ![j] = d]
  BY DEF HandOver, Lost
<1>3. buffer \in [Job -> Nat] /\ buffer[j] > 0 /\ buffer' = [buffer EXCEPT ![j] = @ - 1]
  BY DEF HandOver, IInv
<1>4. buffer' \in [Job -> Nat] /\ \A i \in Job : i # j => buffer'[i] = buffer[i]
  BY <1>3
<1>5. UNCHANGED <<requests, batch, outside>>
  BY DEF HandOver
<1> HIDE DEF d
<1> QED
  BY <1>1, <1>2, <1>4, <1>5, ChainStep

(* Requests.                                                               *)
LEMMA RequestStep ==
  ASSUME IInv
  PROVE  /\ \A a \in App : SubmitWork(a) \/ CreateJob(a) => IInv' /\ Keeps
         /\ \A j \in Job :
              CompleteJob(j) \/ FailJob(j) \/ TerminateJob(j) \/ Reconcile(j) \/ QueueStart(j)
                => IInv' /\ Keeps
<1>1. requests \in [App -> Ops]
  BY DEF IInv
<1>2. UNCHANGED asked => asked' \in 0..MaxAsked
  BY DEF IInv
<1>3. ASSUME NEW a \in App, SubmitWork(a) PROVE IInv' /\ Keeps
  BY <1>1, <1>3, MoreNumbers, AskStep DEF SubmitWork
<1>4. ASSUME NEW a \in App, CreateJob(a) PROVE IInv' /\ Keeps
  BY <1>1, <1>4, MoreNumbers, AskStep DEF CreateJob
<1>5. ASSUME NEW j \in Job, CompleteJob(j) PROVE IInv' /\ Keeps
  BY <1>1, <1>5, LongerLists, AskStep DEF CompleteJob
<1>6. ASSUME NEW j \in Job, FailJob(j) PROVE IInv' /\ Keeps
  BY <1>1, <1>6, MoreFails, AskStep DEF FailJob
<1>7. ASSUME NEW j \in Job, TerminateJob(j) PROVE IInv' /\ Keeps
  BY <1>1, <1>7, LongerLists, AskStep DEF TerminateJob
<1>8. ASSUME NEW j \in Job, Reconcile(j) PROVE IInv' /\ Keeps
  BY <1>1, <1>2, <1>8, MoreFails, QueueStep DEF Reconcile
<1>9. ASSUME NEW j \in Job, QueueStart(j) PROVE IInv' /\ Keeps
  BY <1>1, <1>2, <1>9, MoreStarts, QueueStep DEF QueueStart
<1> QED
  BY <1>3, <1>4, <1>5, <1>6, <1>7, <1>8, <1>9

-----------------------------------------------------------------------------
(* A cycle lists each app instance with requests once.                     *)
LEMMA BeginCycleStep ==
  ASSUME IInv, BeginCycle
  PROVE  IInv' /\ Keeps
<1> DEFINE asking == {a \in App : HasRequests(requests[a])}
           n == Cardinality(asking)
<1>1. PICK order \in [1..n -> asking] :
        /\ \A a \in asking : \E i \in DOMAIN order : order[i] = a
        /\ batch' = [Idle EXCEPT !.phase = "filling", !.apps = order]
  BY DEF BeginCycle
<1>2. batch = Idle /\ UNCHANGED <<chain, requests, buffer, outside>>
  BY DEF BeginCycle, IInv, BatchInv
<1>3. IsFiniteSet(asking)
  BY FS_Subset, MulticallAssumption
<1>4. n \in Nat
  BY <1>3, FS_CardinalityType
<1> HIDE DEF asking
<1>5. order \in Seq(App) /\ Len(order) = n
  <2>1. asking \subseteq App
    BY DEF asking
  <2> HIDE DEF n
  <2>2. order \in [1..n -> App]
    BY <2>1
  <2> QED
    BY <1>4, <2>2, SeqDef, LenProperties
<1>6. \A i, k \in 1..n : order[i] = order[k] => i = k
  <2>1. 0 \in Int /\ 1 \in Int /\ n \in Int
    BY <1>4
  <2>2. IsFiniteSet(1..n) /\ Cardinality(1..n) = n
    BY <1>4, <2>1, FS_Interval
  <2>3. order \in Surjection(1..n, asking)
    BY <1>1 DEF Surjection
  <2>4. order \in Injection(1..n, asking)
    BY <2>2, <2>3, FS_SurjSameCardinalityImpliesInj
  <2> QED
    BY <2>4 DEF Injection, IsInjective
<1> HIDE DEF n
<1>7. Idle \in Batch /\ Idle.ops = [a \in App |-> NoOps] /\ Idle.next = 1 /\ Idle.count = 0
      /\ Idle.started = {}
  BY IdleIsABatch DEF Idle
<1>8. /\ batch' \in Batch
      /\ batch'.phase = "filling" /\ batch'.apps = order /\ batch'.next = 1
      /\ batch'.count = 0 /\ batch'.started = {} /\ batch'.ops = batch.ops
      /\ batch'.ops = [a \in App |-> NoOps]
  BY <1>1, <1>2, <1>5, <1>7 DEF Batch
<1>9. TakenInTurn(batch')
  BY <1>4, <1>5, <1>6, <1>8, NoOpsAreNone DEF TakenInTurn
<1>10. BatchInv'
  BY <1>8, <1>9 DEF BatchInv
<1>11. Keeps
  BY <1>2, <1>8, SameIsGrown, GrownIsKept DEF IInv
<1>12. StartedJobsAreFollowed'
  BY <1>2, <1>7 DEF IInv, StartedJobsAreFollowed
<1> QED
  BY <1>2, <1>10, <1>11, <1>12 DEF IInv, ChainInv, outside
-----------------------------------------------------------------------------
(* Starts are taken in the order of their sequences.                       *)

Below(w, s) == [t \in Sequence |-> IF t < s THEN w[t] ELSE 0]

LEMMA BelowGrows ==
  ASSUME NEW w \in [Sequence -> Nat], NEW s \in Sequence, NEW t \in Sequence, s < t
  PROVE  Total(Below(w, t)) >= Total(Below(w, s)) + w[s]
<1> DEFINE f == Below(w, s)
           g == Below(w, t)
           B == {s} \X (1..w[s])
<1>1. f \in [Sequence -> Nat] /\ g \in [Sequence -> Nat]
  BY DEF Below
<1>2. \A i \in Sequence : i \in Nat
  BY DEF Sequence
<1>3. /\ \A i \in Sequence : f[i] > 0 => i < s
      /\ \A i \in Sequence : f[i] <= g[i]
      /\ g[s] = w[s]
  BY <1>2 DEF Below
<1> HIDE DEF f, g
<1>4. IsFiniteSet(B) /\ Cardinality(B) = w[s]
  <2>1. w[s] \in Nat /\ w[s] \in Int /\ 1 \in Int
    OBVIOUS
  <2> DEFINE m == w[s]
  <2>2. /\ IsFiniteSet({s}) /\ Cardinality({s}) = 1
        /\ IsFiniteSet(1..m) /\ Cardinality(1..m) = m
    <3> HIDE DEF m
    <3>1. m \in Nat /\ m \in Int
      BY <2>1 DEF m
    <3>2. IsFiniteSet({s}) /\ Cardinality({s}) = 1
      BY FS_Singleton
    <3>3. IsFiniteSet(1..m) /\ Cardinality(1..m) = IF 1 > m THEN 0 ELSE m - 1 + 1
      BY <2>1, <3>1, FS_Interval
    <3>4. (IF 1 > m THEN 0 ELSE m - 1 + 1) = m
      BY <3>1
    <3> QED
      BY <3>2, <3>3, <3>4
  <2>3. IsFiniteSet(B) /\ Cardinality(B) = Cardinality({s}) * Cardinality(1..w[s])
    BY <2>2, FS_Product
  <2> QED
    BY <2>1, <2>2, <2>3
<1>5. Cells(f) \cap B = {}
  <2>1. ASSUME NEW p, p \in Cells(f), p \in B PROVE FALSE
    <3>1. p[1] = s /\ p[2] >= 1 /\ p[2] <= f[p[1]] /\ p[2] \in Nat
      BY <1>1, <2>1, CellsOf
    <3>2. f[s] > 0 /\ f[s] \in Nat
      BY <1>1, <3>1
    <3> QED
      BY <1>2, <1>3, <3>2
  <2> QED
    BY <2>1
<1>6. Cells(f) \cup B \subseteq Cells(g)
  <2>1. ASSUME NEW p, p \in Cells(f) PROVE p \in Cells(g)
    <3>1. p \in Sequence \X Nat /\ 1 <= p[2] /\ p[2] <= f[p[1]]
      BY <1>1, <2>1, CellsOf
    <3>2. p[2] <= g[p[1]]
      BY <1>1, <1>3, <3>1
    <3> QED
      BY <1>1, <3>1, <3>2, CellsOf
  <2>2. ASSUME NEW p, p \in B PROVE p \in Cells(g)
    <3>1. p \in Sequence \X Nat /\ 1 <= p[2] /\ p[1] = s /\ p[2] <= g[p[1]]
      BY <1>3, <2>2
    <3> QED
      BY <1>1, <3>1, CellsOf
  <2> QED
    BY <2>1, <2>2
<1> HIDE DEF B
<1>7. IsFiniteSet(Cells(f)) /\ IsFiniteSet(Cells(g))
  BY <1>1, CellsOf
<1>8. Cardinality(Cells(f) \cup B) = Total(f) + w[s]
  <2>1. Cardinality(Cells(f)) = Total(f) /\ Total(f) \in Nat
    BY <1>1, CellsOf
  <2>2. Cardinality(Cells(f) \cap B) = 0
    BY <1>5, FS_EmptySet
  <2> QED
    BY <1>4, <1>7, <2>1, <2>2, FS_Union
<1>9. Cardinality(Cells(f) \cup B) <= Total(g)
  BY <1>1, <1>6, <1>7, CellsOf, FS_Subset
<1>10. Total(f) \in Nat /\ Total(g) \in Nat
  BY <1>1, CellsOf
<1> QED
  BY <1>8, <1>9, <1>10 DEF f, g

(* Those taken in the order of their sequences, as long as fewer than n    *)
(* come before them, are at most n.                                        *)
CutAt(v, w, n) ==
  /\ v \in [Sequence -> Nat] /\ w \in [Sequence -> Nat] /\ n \in Nat
  /\ \A s \in Sequence :
       v[s] = IF Total(Below(w, s)) < n THEN Least(w[s], n - Total(Below(w, s))) ELSE 0

LEMMA StartsFit ==
  ASSUME NEW v, NEW w, NEW n, CutAt(v, w, n)
  PROVE  Total(v) <= n
<1> DEFINE b(s) == Total(Below(w, s))
           F == [p \in Cells(v) |-> b(p[1]) + p[2]]
<1>1. v \in [Sequence -> Nat] /\ w \in [Sequence -> Nat] /\ n \in Nat
  BY DEF CutAt
<1>2. ASSUME NEW s \in Sequence PROVE b(s) \in Nat
  <2>1. Below(w, s) \in [Sequence -> Nat]
    BY <1>1 DEF Below
  <2> QED
    BY <2>1, CellsOf
<1>3. ASSUME NEW s \in Sequence, NEW t \in Sequence, s < t
      PROVE  b(t) >= b(s) + w[s]
  BY <1>1, <1>3, BelowGrows
<1>4. ASSUME NEW s \in Sequence, v[s] > 0
      PROVE  v[s] <= w[s] /\ b(s) + v[s] <= n
  <2>1. v[s] = IF b(s) < n THEN Least(w[s], n - b(s)) ELSE 0
    BY DEF CutAt
  <2>2. b(s) \in Nat /\ w[s] \in Nat
    BY <1>1, <1>2
  <2> HIDE DEF b
  <2> QED
    BY <1>1, <1>4, <2>1, <2>2 DEF Least
<1> HIDE DEF b
<1>5. ASSUME NEW p \in Cells(v)
      PROVE  /\ p[1] \in Sequence /\ p[2] \in Nat /\ p[2] >= 1 /\ p = <<p[1], p[2]>>
             /\ p[2] <= w[p[1]] /\ F[p] \in 1..n /\ F[p] = b(p[1]) + p[2]
  <2>1. p \in Sequence \X Nat /\ 1 <= p[2] /\ p[2] <= v[p[1]]
    BY <1>1, CellsOf
  <2>2. /\ p[1] \in Sequence /\ p[2] \in Nat /\ b(p[1]) \in Nat /\ v[p[1]] \in Nat
        /\ w[p[1]] \in Nat /\ v[p[1]] > 0
    BY <1>1, <1>2, <2>1
  <2>3. v[p[1]] <= w[p[1]] /\ b(p[1]) + v[p[1]] <= n
    BY <1>4, <2>2
  <2> QED
    BY <1>1, <2>1, <2>2, <2>3
<1>6. F \in Injection(Cells(v), 1..n)
  <2>1. F \in [Cells(v) -> 1..n]
    BY <1>5
  <2>2. ASSUME NEW p \in Cells(v), NEW q \in Cells(v), F[p] = F[q]
        PROVE  p = q
    <3>1. \A s \in Sequence : s \in Nat
      BY DEF Sequence
    <3>2. /\ b(p[1]) \in Nat /\ b(q[1]) \in Nat
          /\ w[p[1]] \in Nat /\ w[q[1]] \in Nat
          /\ p[1] \in Nat /\ q[1] \in Nat
      BY <1>1, <1>2, <1>5, <3>1
    <3>3. /\ b(p[1]) + p[2] = b(q[1]) + q[2]
          /\ p[2] \in Nat /\ p[2] >= 1 /\ p[2] <= w[p[1]]
          /\ q[2] \in Nat /\ q[2] >= 1 /\ q[2] <= w[q[1]]
      BY <1>5, <2>2
    <3>4. ~(p[1] < q[1])
      BY <1>3, <1>5, <3>2, <3>3
    <3>5. ~(q[1] < p[1])
      BY <1>3, <1>5, <3>2, <3>3
    <3>6. p[1] = q[1]
      BY <3>2, <3>4, <3>5
    <3>7. p[2] = q[2]
      BY <3>2, <3>3, <3>6
    <3> QED
      BY <1>5, <3>6, <3>7
  <2> QED
    BY <2>1, <2>2 DEF Injection, IsInjective
<1>7. IsFiniteSet(1..n) /\ Cardinality(1..n) = n
  <2>1. 1 \in Int /\ n \in Int
    BY <1>1
  <2> QED
    BY <1>1, <2>1, FS_Interval
<1> HIDE DEF F
<1>8. Cardinality(Cells(v)) <= Cardinality(1..n)
  BY <1>6, <1>7, FS_Injection
<1> QED
  BY <1>1, <1>7, <1>8, CellsOf
-----------------------------------------------------------------------------
(* What Take moves from the requests of an app instance to the batch.      *)

LEMMA Remains ==
  ASSUME NEW x \in Nat, NEW y \in Nat
  PROVE  /\ x - Least(x, y) \in Nat /\ y - Least(x, y) \in Nat
         /\ Least(x, y) \in Nat /\ Least(x, y) + (y - Least(x, y)) = y
BY DEF Least

(* The requests `taken` from r, and those that are `left`.                 *)
Moved(r, taken, left) ==
  /\ taken \in Ops /\ left \in Ops
  /\ left.work + taken.work >= r.work
  /\ Len(left.complete) + Len(taken.complete) >= Len(r.complete)
  /\ Len(left.fail) + Len(taken.fail) >= Len(r.fail)
  /\ Len(left.terminate) + Len(taken.terminate) >= Len(r.terminate)

LEMMA MovedIsKept ==
  ASSUME NEW r \in Ops, NEW taken, NEW left, Moved(r, taken, left), NEW kind \in Kinds
  PROVE  Amount(left, kind) + Amount(taken, kind) >= Amount(r, kind)
<1>1. /\ left.work + taken.work >= r.work
      /\ Len(left.complete) + Len(taken.complete) >= Len(r.complete)
      /\ Len(left.fail) + Len(taken.fail) >= Len(r.fail)
      /\ Len(left.terminate) + Len(taken.terminate) >= Len(r.terminate)
  BY DEF Moved
<1> QED
  BY <1>1, Amounts DEF Kinds

LEMMA TakenIsMoved ==
  ASSUME NEW r \in Ops, NEW n1 \in Nat, NEW n2 \in Nat, NEW n3 \in Nat, NEW n4 \in Nat,
         NEW n5 \in Nat,
         NEW starts \in [Sequence -> Nat], NEW kept \in [Sequence -> Nat],
         NEW ended \in Seq(Sequence)
  PROVE  LET taken == [work |-> Least(n1, r.work), complete |-> First(r.complete, n2),
                       fail |-> First(r.fail, n3), terminate |-> First(r.terminate, n4),
                       start |-> starts, create |-> Least(n5, r.create)]
         IN  Moved(r, taken,
                   [work |-> r.work - taken.work, complete |-> Rest(r.complete, n2),
                    fail |-> Rest(r.fail, n3),
                    terminate |-> Rest(r.terminate, n4) \o ended,
                    start |-> kept, create |-> r.create - taken.create])
<1> DEFINE w == Least(n1, r.work)
           c == First(r.complete, n2)
           f == First(r.fail, n3)
           t == First(r.terminate, n4)
           x == Least(n5, r.create)
           dc == Rest(r.complete, n2)
           df == Rest(r.fail, n3)
           dt == Rest(r.terminate, n4)
           de == dt \o ended
           taken == [work |-> w, complete |-> c, fail |-> f, terminate |-> t,
                     start |-> starts, create |-> x]
           left == [work |-> r.work - w, complete |-> dc, fail |-> df,
                    terminate |-> de, start |-> kept, create |-> r.create - x]
<1>1. /\ r.work \in Nat /\ r.create \in Nat
      /\ r.complete \in Seq(Sequence) /\ r.fail \in Seq(Sequence)
      /\ r.terminate \in Seq(Sequence)
      /\ Len(r.complete) \in Nat /\ Len(r.fail) \in Nat /\ Len(r.terminate) \in Nat
  BY OpsFields
<1>2. /\ w \in Nat /\ r.work - w \in Nat /\ w + (r.work - w) = r.work
      /\ x \in Nat /\ r.create - x \in Nat
  BY <1>1, Remains
<1>3. /\ c \in Seq(Sequence) /\ dc \in Seq(Sequence) /\ Len(c) + Len(dc) = Len(r.complete)
      /\ f \in Seq(Sequence) /\ df \in Seq(Sequence) /\ Len(f) + Len(df) = Len(r.fail)
      /\ t \in Seq(Sequence) /\ dt \in Seq(Sequence) /\ Len(t) + Len(dt) = Len(r.terminate)
      /\ Len(c) \in Nat /\ Len(dc) \in Nat /\ Len(f) \in Nat /\ Len(df) \in Nat
      /\ Len(t) \in Nat /\ Len(dt) \in Nat
  BY <1>1, Cut
<1>4. de \in Seq(Sequence) /\ Len(de) = Len(dt) + Len(ended) /\ Len(ended) \in Nat
  BY <1>3, ConcatProperties, LenProperties
<1> HIDE DEF w, c, f, t, x, dc, df, dt, de
<1>5. taken \in Ops /\ left \in Ops
  BY <1>2, <1>3, <1>4 DEF Ops
<1>6. Len(de) + Len(t) >= Len(r.terminate)
  BY <1>3, <1>4
<1>7. /\ Len(dc) + Len(c) >= Len(r.complete) /\ Len(df) + Len(f) >= Len(r.fail)
      /\ (r.work - w) + w >= r.work
  <2>1. \A i, k, m \in Nat : i + k = m => k + i >= m
    OBVIOUS
  <2> QED
    BY <1>1, <1>2, <1>3, <2>1
<1>8. Moved(r, taken, left)
  BY <1>5, <1>6, <1>7 DEF Moved
<1> QED
  BY <1>8 DEF w, c, f, t, x, dc, df, dt, de

LEMMA AscendingIsASequence ==
  ASSUME NEW f \in [Sequence -> Nat], NEW list \in Ascending(f)
  PROVE  list \in Seq(Sequence)
<1> DEFINE n == Total(f)
<1>1. n \in Nat
  BY CellsOf
<1>2. list \in [1..n -> Sequence]
  BY DEF Ascending
<1> HIDE DEF n
<1> QED
  BY <1>1, <1>2, SeqDef

(* One app instance takes its turn.                                        *)
Turn(a, taken, left) ==
  /\ batch.phase = "filling" /\ batch.next <= Len(batch.apps)
  /\ a = batch.apps[batch.next]
  /\ Moved(requests[a], taken, left)
  /\ batch' = [batch EXCEPT !.next = @ + 1, !.count = @ + Size(taken), !.ops[a] = taken]
  /\ requests' = [requests EXCEPT ![a] = left]
  /\ UNCHANGED <<chain, buffer, asked>>

LEMMA TakeIsATurn ==
  ASSUME IInv, NEW reading, Take(reading)
  PROVE  \E a, taken, left : Turn(a, taken, left)
<1> DEFINE a == batch.apps[batch.next]
           r == requests[a]
           room == Room
           n == [work      |-> room,
                 complete  |-> room - Least(room, r.work),
                 fail      |-> room - Least(room, r.work + Len(r.complete)),
                 terminate |-> room - Least(room, r.work + Len(r.complete)
                                                    + Len(r.fail)),
                 start     |-> room - Least(room, r.work + Len(r.complete)
                                                    + Len(r.fail) + Len(r.terminate))]
           n1 == n.work
           n2 == n.complete
           n3 == n.fail
           n4 == n.terminate
           n5 == n.start
           before(s) == StartsBefore(a, reading, s)
           reached(s) == before(s) < n5
           starts == [s \in Sequence |->
                        IF CanStart(a, reading, s) /\ reached(s)
                        THEN Least(r.start[s], n5 - before(s))
                        ELSE 0]
           kept == [s \in Sequence |->
                      IF CanStart(a, reading, s) \/ ~reached(s) THEN r.start[s] - starts[s]
                      ELSE IF reading[s] = "failed" THEN r.start[s] ELSE 0]
           orphans == [s \in Sequence |->
                         IF reached(s) /\ reading[s] = "orphan"
                            /\ chain[<<a, s>>].status = "Pending"
                         THEN r.start[s] ELSE 0]
           n6 == n5 - Total(starts)
           w == [s \in Sequence |-> IF CanStart(a, reading, s) THEN r.start[s] ELSE 0]
<1>1. /\ batch \in Batch /\ batch.next \in 1..(Len(batch.apps) + 1)
      /\ batch.phase = "filling" /\ batch.next <= Len(batch.apps) /\ room > 0
      /\ requests \in [App -> Ops]
  BY DEF IInv, BatchInv, TakenInTurn, Take
<1>2. a \in App /\ r \in Ops
  <2>1. batch.apps \in Seq(App) /\ batch.next \in 1..Len(batch.apps)
    BY <1>1, LenProperties DEF Batch
  <2>2. a \in App
    BY <2>1, ElementOfSeq
  <2> QED
    BY <1>1, <2>2
<1>3. room \in Nat
  BY <1>1 DEF Room, Batch
<1>4. /\ r.work \in Nat /\ Len(r.complete) \in Nat /\ Len(r.fail) \in Nat
      /\ Len(r.terminate) \in Nat /\ r.start \in [Sequence -> Nat]
  <2> HIDE DEF r
  <2> QED
    BY <1>2, OpsFields
<1>5. n1 \in Nat /\ n2 \in Nat /\ n3 \in Nat /\ n4 \in Nat /\ n5 \in Nat
  <2>1. \A x \in Nat : room - Least(room, x) \in Nat
    BY <1>3, Remains
  <2>2. /\ r.work \in Nat
        /\ r.work + Len(r.complete) \in Nat
        /\ r.work + Len(r.complete) + Len(r.fail) \in Nat
        /\ r.work + Len(r.complete) + Len(r.fail) + Len(r.terminate) \in Nat
    <3>1. \A u, x, y, z \in Nat :
            u + x \in Nat /\ u + x + y \in Nat /\ u + x + y + z \in Nat
      OBVIOUS
    <3> HIDE DEF r
    <3> QED
      BY <1>4, <3>1
  <2> HIDE DEF room, r
  <2> QED
    BY <1>3, <2>1, <2>2
<1>6. w \in [Sequence -> Nat]
  BY <1>4
<1>7. \A s \in Sequence : before(s) = Total(Below(w, s)) /\ before(s) \in Nat
  <2>1. ASSUME NEW s \in Sequence PROVE before(s) = Total(Below(w, s)) /\ before(s) \in Nat
    <3> DEFINE g == [t \in Sequence |->
                       IF t < s /\ CanStart(a, reading, t) THEN requests[a].start[t] ELSE 0]
    <3>1. g = Below(w, s)
      BY DEF Below
    <3>2. Below(w, s) \in [Sequence -> Nat]
      BY <1>6 DEF Below
    <3>3. before(s) = Total(g)
      BY DEF StartsBefore
    <3> QED
      BY <3>1, <3>2, <3>3, CellsOf
  <2> QED
    BY <2>1
<1> HIDE DEF n, before
<1>8. starts \in [Sequence -> Nat] /\ \A s \in Sequence : starts[s] <= r.start[s]
  <2>1. ASSUME NEW s \in Sequence
        PROVE  starts[s] \in Nat /\ starts[s] <= r.start[s]
    <3>1. before(s) \in Nat /\ r.start[s] \in Nat
      BY <1>4, <1>7
    <3> HIDE DEF r
    <3>2. CASE CanStart(a, reading, s) /\ reached(s)
      <4>1. n5 - before(s) \in Nat
        BY <1>5, <3>1, <3>2
      <4>2. starts[s] = Least(r.start[s], n5 - before(s))
        BY <3>2
      <4> QED
        BY <3>1, <4>1, <4>2 DEF Least
    <3>3. CASE ~(CanStart(a, reading, s) /\ reached(s))
      BY <3>1, <3>3
    <3> QED
      BY <3>2, <3>3
  <2> QED
    BY <2>1
<1>9. CutAt(starts, w, n5)
  <2>1. ASSUME NEW s \in Sequence
        PROVE  starts[s] = IF Total(Below(w, s)) < n5
                           THEN Least(w[s], n5 - Total(Below(w, s))) ELSE 0
    <3>1. before(s) \in Nat /\ before(s) = Total(Below(w, s)) /\ r.start[s] \in Nat
      BY <1>4, <1>7
    <3>2. w[s] = IF CanStart(a, reading, s) THEN r.start[s] ELSE 0
      OBVIOUS
    <3>3. starts[s] = IF CanStart(a, reading, s) /\ before(s) < n5
                      THEN Least(r.start[s], n5 - before(s)) ELSE 0
      OBVIOUS
    <3> HIDE DEF r, w, starts
    <3> QED
      BY <1>5, <3>1, <3>2, <3>3 DEF Least
  <2> HIDE DEF w, starts
  <2> QED
    BY <1>5, <1>6, <1>8, <2>1 DEF CutAt
<1>10. n6 \in Nat
  <2>1. Total(starts) <= n5 /\ Total(starts) \in Nat
    BY <1>8, <1>9, StartsFit, CellsOf
  <2> HIDE DEF starts
  <2> QED
    BY <1>5, <2>1
<1>11. kept \in [Sequence -> Nat] /\ orphans \in [Sequence -> Nat]
  <2>1. ASSUME NEW s \in Sequence
        PROVE  r.start[s] - starts[s] \in Nat /\ r.start[s] \in Nat
    <3>1. starts[s] \in Nat /\ starts[s] <= r.start[s] /\ r.start[s] \in Nat
      BY <1>4, <1>8
    <3> HIDE DEF starts, r
    <3> QED
      BY <3>1
  <2> HIDE DEF starts
  <2> QED
    BY <2>1
<1> DEFINE taken == [work |-> Least(n1, r.work), complete |-> First(r.complete, n2),
                     fail |-> First(r.fail, n3), terminate |-> First(r.terminate, n4),
                     start |-> starts, create |-> Least(n6, r.create)]
<1>12. PICK ended \in Ascending(orphans) :
         requests' = [requests EXCEPT
           ![a] = [work |-> r.work - taken.work,
                   complete |-> Rest(r.complete, n2), fail |-> Rest(r.fail, n3),
                   terminate |-> Rest(r.terminate, n4) \o ended,
                   start |-> kept, create |-> r.create - taken.create]]
  BY DEF Take, n, before
<1>13. batch' = [batch EXCEPT !.next = @ + 1, !.count = @ + Size(taken), !.ops[a] = taken]
  BY DEF Take, n, before
<1>14. UNCHANGED <<chain, buffer, asked>>
  BY DEF Take
<1>15. ended \in Seq(Sequence)
  BY <1>11, AscendingIsASequence
<1> HIDE DEF room, n1, n2, n3, n4, n6, starts, kept, orphans
<1> DEFINE left == [work |-> r.work - taken.work,
                    complete |-> Rest(r.complete, n2), fail |-> Rest(r.fail, n3),
                    terminate |-> Rest(r.terminate, n4) \o ended,
                    start |-> kept, create |-> r.create - taken.create]
<1>16. Moved(r, taken, left)
  BY <1>2, <1>5, <1>8, <1>10, <1>11, <1>15, TakenIsMoved
<1> HIDE DEF taken, left
<1>17. Turn(a, taken, left)
  BY <1>1, <1>12, <1>13, <1>14, <1>16 DEF Turn, left
<1> QED
  BY <1>17

LEMMA TurnStep ==
  ASSUME IInv, NEW a, NEW taken, NEW left, Turn(a, taken, left),
         faults' \in 0..MaxFaults
  PROVE  IInv' /\ Keeps
<1>1. /\ batch \in Batch /\ TakenInTurn(batch) /\ batch.phase = "filling"
      /\ batch.next <= Len(batch.apps) /\ a = batch.apps[batch.next]
      /\ batch.started = {} /\ requests \in [App -> Ops]
  BY DEF IInv, BatchInv, Turn
<1>2. /\ Len(batch.apps) \in Nat /\ batch.next \in 1..Len(batch.apps)
      /\ batch.ops \in [App -> Ops] /\ batch.count \in Nat /\ batch.apps \in Seq(App)
  BY <1>1, LenProperties DEF Batch, TakenInTurn
<1>3. a \in App
  BY <1>1, <1>2, ElementOfSeq
<1>4. taken \in Ops /\ left \in Ops /\ Size(taken) \in Nat
  BY Sizes DEF Turn, Moved
<1>5. batch' = [batch EXCEPT !.next = @ + 1, !.count = @ + Size(taken), !.ops[a] = taken]
  BY DEF Turn
<1>6. /\ batch'.phase = "filling" /\ batch'.apps = batch.apps
      /\ batch'.next = batch.next + 1 /\ batch'.count = batch.count + Size(taken)
      /\ batch'.ops = [batch.ops EXCEPT ![a] = taken] /\ batch'.started = {}
  BY <1>1, <1>5 DEF Batch
<1>7. batch' \in Batch
  <2>1. batch.count + Size(taken) \in Nat /\ batch.next + 1 \in Nat
    BY <1>2, <1>4
  <2>2. [batch.ops EXCEPT ![a] = taken] \in [App -> Ops]
    BY <1>2, <1>4
  <2> QED
    BY <1>1, <1>5, <2>1, <2>2 DEF Batch
<1>8. batch.ops[a] = NoOps
  <2>1. \A i \in 1..(batch.next - 1) : i \in 1..Len(batch.apps) /\ i # batch.next
    BY <1>2
  <2>2. \A i \in 1..(batch.next - 1) : batch.apps[i] # a
    BY <1>1, <1>2, <2>1 DEF TakenInTurn
  <2> QED
    BY <1>1, <1>3, <2>2 DEF TakenInTurn
<1>9. TakenInTurn(batch')
  <2>1. batch'.next \in 1..(Len(batch'.apps) + 1)
    BY <1>2, <1>6
  <2>2. ASSUME NEW b \in App, \A i \in 1..(batch'.next - 1) : batch'.apps[i] # b
        PROVE  batch'.ops[b] = NoOps
    <3>1. batch'.next - 1 = batch.next /\ batch.next \in Nat /\ batch.next >= 1
      BY <1>2, <1>6
    <3>2. b # a
      BY <1>1, <1>6, <2>2, <3>1
    <3>3. \A i \in 1..(batch.next - 1) : batch.apps[i] # b
      BY <1>6, <2>2, <3>1
    <3>4. batch.ops[b] = NoOps
      BY <1>1, <3>3 DEF TakenInTurn
    <3> QED
      BY <1>2, <1>6, <3>2, <3>4
  <2>3. ASSUME NEW b \in App PROVE Size(batch'.ops[b]) <= batch'.count
    <3>1. CASE b = a
      <4>1. batch'.ops[b] = taken
        BY <1>2, <1>6, <3>1
      <4> QED
        BY <1>2, <1>4, <1>6, <4>1
    <3>2. CASE b # a
      <4>1. batch'.ops[b] = batch.ops[b] /\ batch.ops[b] \in Ops
        BY <1>2, <1>6, <3>2
      <4>2. Size(batch.ops[b]) <= batch.count /\ Size(batch.ops[b]) \in Nat
        BY <1>1, <4>1, Sizes DEF TakenInTurn
      <4> QED
        BY <1>2, <1>4, <1>6, <4>1, <4>2
    <3> QED
      BY <3>1, <3>2
  <2> QED
    BY <1>1, <1>6, <2>1, <2>2, <2>3 DEF TakenInTurn
<1>10. BatchInv'
  BY <1>6, <1>7, <1>9 DEF BatchInv
<1>11. requests' = [requests EXCEPT ![a] = left] /\ UNCHANGED <<chain, buffer, asked>>
  BY DEF Turn
<1>12. requests' \in [App -> Ops]
  BY <1>1, <1>4, <1>11
<1>13. Keeps
  <2>1. ASSUME NEW kind \in Kinds, NEW b \in App
        PROVE  Held(b, kind)' >= Held(b, kind)
    <3>1. CASE b # a
      <4>1. batch'.ops[b] = batch.ops[b] /\ requests'[b] = requests[b]
        BY <1>1, <1>2, <1>6, <1>11, <3>1
      <4>2. Amount(batch.ops[b], kind) \in Nat /\ Amount(requests[b], kind) \in Nat
        BY <1>1, <1>2, AmountsAreNat
      <4> QED
        BY <4>1, <4>2 DEF Held
    <3>2. CASE b = a
      <4>1. batch'.ops[b] = taken /\ requests'[b] = left
        BY <1>1, <1>2, <1>3, <1>6, <1>11, <3>2
      <4>2. Amount(batch.ops[b], kind) = 0
        BY <1>8, <3>2, Amounts, NoOpsAreOps DEF Kinds
      <4>3. Amount(left, kind) + Amount(taken, kind) >= Amount(requests[a], kind)
        BY <1>1, <1>3, MovedIsKept DEF Turn
      <4>4. Amount(requests[a], kind) \in Nat
        BY <1>1, <1>3, AmountsAreNat
      <4> QED
        BY <3>2, <4>1, <4>2, <4>3, <4>4 DEF Held
    <3> QED
      BY <3>1, <3>2
  <2> QED
    BY <2>1 DEF Keeps, LeaveExecuted
<1>14. StartedJobsAreFollowed' /\ ChainInv'
  BY <1>1, <1>6, <1>11 DEF IInv, ChainInv, StartedJobsAreFollowed
<1> QED
  BY <1>10, <1>11, <1>12, <1>13, <1>14 DEF IInv

LEMMA FaultIsCounted ==
  ASSUME IInv, Fault
  PROVE  faults' \in 0..MaxFaults /\ faults' # faults
BY MulticallAssumption DEF IInv, Fault

LEMMA TakeNextStep ==
  ASSUME IInv, TakeNext
  PROVE  IInv' /\ Keeps
<1>1. faults' \in 0..MaxFaults
  BY FaultIsCounted DEF TakeNext, IInv
<1>2. PICK reading : Take(reading)
  BY DEF TakeNext
<1>3. PICK a, taken, left : Turn(a, taken, left)
  BY <1>2, TakeIsATurn
<1> QED
  BY <1>1, <1>3, TurnStep

(* A batch is given up only when nothing has been taken for it.            *)
LEMMA SendStep ==
  ASSUME IInv, Send
  PROVE  IInv' /\ Keeps
<1>1. /\ batch \in Batch /\ TakenInTurn(batch) /\ batch.started = {}
      /\ requests \in [App -> Ops]
      /\ UNCHANGED <<chain, requests, buffer, outside>>
  BY DEF IInv, BatchInv, Send
<1>2. batch'.started = {} /\ BatchInv' /\ batch'.ops \in [App -> Ops]
  <2>1. CASE batch.count = 0
    BY <2>1, IdleBatchInv, NoOpsAreOps DEF Send
  <2>2. CASE batch.count # 0
    <3>1. batch' = [batch EXCEPT !.phase = "sent"]
      BY <2>2 DEF Send
    <3>2. /\ batch' \in Batch /\ batch'.phase = "sent" /\ batch'.apps = batch.apps
          /\ batch'.next = batch.next /\ batch'.count = batch.count
          /\ batch'.ops = batch.ops /\ batch'.started = {}
      BY <1>1, <3>1 DEF Batch
    <3>3. TakenInTurn(batch')
      BY <1>1, <3>2 DEF TakenInTurn
    <3> QED
      BY <3>2, <3>3 DEF BatchInv, Batch
  <2> QED
    BY <2>1, <2>2
<1>3. Keeps
  <2>1. ASSUME NEW kind \in Kinds, NEW a \in App
        PROVE  Held(a, kind)' >= Held(a, kind)
    <3>1. /\ batch.ops[a] \in Ops /\ batch'.ops[a] \in Ops
          /\ Amount(batch.ops[a], kind) \in Nat /\ Amount(batch'.ops[a], kind) \in Nat
          /\ Amount(requests[a], kind) \in Nat /\ requests' = requests
      BY <1>1, <1>2, AmountsAreNat DEF Batch
    <3>2. Amount(batch'.ops[a], kind) >= Amount(batch.ops[a], kind)
      <4>1. CASE batch.count = 0
        <5>1. Size(batch.ops[a]) = 0
          BY <1>1, <3>1, <4>1, Sizes DEF TakenInTurn
        <5>2. Amount(batch.ops[a], kind) = 0
          BY <3>1, <5>1, Sizes, Amounts DEF Kinds
        <5> QED
          BY <3>1, <5>2
      <4>2. CASE batch.count # 0
        <5>1. batch'.ops = batch.ops
          BY <1>1, <4>2 DEF Send, Batch
        <5> QED
          BY <3>1, <5>1
      <4> QED
        BY <4>1, <4>2
    <3> QED
      BY <3>1, <3>2 DEF Held
  <2> QED
    BY <2>1 DEF Keeps, LeaveExecuted
<1>4. StartedJobsAreFollowed' /\ ChainInv'
  BY <1>1, <1>2 DEF IInv, ChainInv, StartedJobsAreFollowed
<1> QED
  BY <1>1, <1>2, <1>3, <1>4 DEF IInv, outside

-----------------------------------------------------------------------------
(* The transaction and its answers.                                        *)

(* Losing the answer to a batch only makes runs nobody's.                  *)
LEMMA LostStartsAre ==
  ASSUME IInv, NEW j \in Job
  PROVE  /\ LostStarts[j] \in {chain[j], Lost(chain[j])}
         /\ Sound(LostStarts[j])
         /\ LostStarts[j].ours => chain[j].ours /\ j \notin batch.started
         /\ LostStarts[j].status = chain[j].status
<1>1. Sound(chain[j])
  BY DEF IInv, ChainInv
<1>2. LostStarts[j] = IF j \in batch.started THEN Lost(chain[j]) ELSE chain[j]
  BY DEF LostStarts, Lost
<1> QED
  BY <1>1, <1>2, LostIsSound

LEMMA LostChain ==
  ASSUME IInv, chain' = LostStarts
  PROVE  /\ ChainInv'
         /\ \A j \in Job : chain'[j].ours => chain[j].ours /\ j \notin batch.started
         /\ \A j \in Job : chain'[j].status = chain[j].status
<1>1. \A j \in Job : LostStarts[j] \in Cell
  BY LostStartsAre DEF Sound
<1>2. LostStarts = [j \in Job |-> LostStarts[j]]
  BY DEF LostStarts
<1>3. chain' \in [Job -> Cell]
  BY <1>1, <1>2
<1> QED
  BY <1>3, LostStartsAre DEF ChainInv

LEMMA ExecuteStep ==
  ASSUME IInv, NEW refused, Execute(refused)
  PROVE  IInv' /\ Keeps
<1>1. /\ batch \in Batch /\ TakenInTurn(batch) /\ requests \in [App -> Ops]
      /\ UNCHANGED <<requests, buffer, asked>>
      /\ chain' = AfterBatch(LostStarts, refused)
      /\ batch' = [batch EXCEPT !.phase = "executed", !.started = Starts(refused)]
  BY DEF IInv, BatchInv, Execute
<1>2. ASSUME NEW j \in Job
      PROVE  /\ Sound(chain'[j])
             /\ chain'[j].ours => \/ j \in Starts(refused)
                                  \/ LostStarts[j].ours /\ LostStarts[j].status = "Running"
  <2>1. ChainInv /\ LostStarts[j] \in {chain[j], Lost(chain[j])}
    BY LostStartsAre DEF IInv
  <2> QED
    BY <1>1, <2>1, BatchesAreSound
<1>3. ChainInv'
  <2>1. \A j \in Job : chain'[j] \in Cell
    BY <1>2 DEF Sound
  <2>2. chain' = [j \in Job |-> chain'[j]]
    BY <1>1 DEF AfterBatch
  <2>3. chain' \in [Job -> Cell]
    BY <2>1, <2>2
  <2> QED
    BY <1>2, <2>3 DEF ChainInv
<1>4. Starts(refused) \subseteq Job
      /\ \A j \in Starts(refused) : batch.ops[j[1]].start[j[2]] > 0
  BY DEF Starts
<1>5. /\ batch' \in Batch /\ batch'.phase = "executed" /\ batch'.started = Starts(refused)
      /\ batch'.apps = batch.apps /\ batch'.next = batch.next
      /\ batch'.count = batch.count /\ batch'.ops = batch.ops
  BY <1>1, <1>4 DEF Batch
<1>6. BatchInv'
  BY <1>1, <1>4, <1>5 DEF BatchInv, TakenInTurn
<1>7. StartedJobsAreFollowed'
  <2>1. ASSUME NEW j \in Job, chain'[j].ours, j \notin batch'.started
        PROVE  buffer'[j] > 0
    <3>1. LostStarts[j].ours /\ LostStarts[j].status = "Running"
      BY <1>2, <1>5, <2>1
    <3>2. chain[j].ours /\ chain[j].status = "Running" /\ j \notin batch.started
      BY <3>1, LostStartsAre
    <3> QED
      BY <1>1, <3>2 DEF IInv, StartedJobsAreFollowed
  <2> QED
    BY <2>1 DEF StartedJobsAreFollowed
<1>8. Keeps
  BY <1>1, <1>5, SameIsGrown, GrownIsKept
<1>9. faults' \in 0..MaxFaults
  BY FaultIsCounted DEF Execute, IInv
<1> QED
  BY <1>1, <1>3, <1>6, <1>7, <1>8, <1>9 DEF IInv

(* The answer names every job the batch has started.                       *)
LEMMA AnsweredStep ==
  ASSUME IInv, Answered
  PROVE  IInv' /\ Keeps
<1>1. /\ batch \in Batch /\ batch.phase = "executed" /\ batch' = Idle
      /\ buffer' = [j \in Job |-> buffer[j] + NewEntries[j]]
      /\ buffer \in [Job -> Nat] /\ requests \in [App -> Ops]
      /\ UNCHANGED <<chain, requests, outside>>
  BY DEF IInv, BatchInv, Answered
<1>2. ASSUME NEW j \in Job
      PROVE  /\ NewEntries[j] \in Nat
             /\ j \in batch.started => NewEntries[j] > 0
  <2>1. batch.ops[j[1]] \in Ops /\ j[2] \in Sequence
    BY <1>1 DEF Batch, Job
  <2>2. batch.ops[j[1]].start[j[2]] \in Nat
    BY <2>1 DEF Ops
  <2>3. j \in batch.started => batch.ops[j[1]].start[j[2]] > 0
    BY DEF IInv, BatchInv
  <2>4. NewEntries[j] = IF \E i \in batch.started : i[2] = j[2]
                        THEN batch.ops[j[1]].start[j[2]] ELSE 0
    BY DEF NewEntries
  <2> QED
    BY <2>2, <2>3, <2>4
<1>3. buffer' \in [Job -> Nat]
  BY <1>1, <1>2
<1>4. StartedJobsAreFollowed'
  <2>1. ASSUME NEW j \in Job, chain[j].status = "Running" /\ chain[j].ours
        PROVE  buffer'[j] > 0
    <3>1. buffer[j] > 0 \/ j \in batch.started
      BY <2>1 DEF IInv, StartedJobsAreFollowed
    <3>2. buffer[j] \in Nat /\ buffer'[j] = buffer[j] + NewEntries[j]
      BY <1>1
    <3> QED
      BY <1>2, <3>1, <3>2
  <2> QED
    BY <1>1, <2>1 DEF StartedJobsAreFollowed
<1>5. Keeps
  <2>1. batch'.phase = "idle"
    BY <1>1 DEF Idle
  <2>2. ASSUME NEW kind \in Kinds, NEW a \in App
        PROVE  Amount(requests'[a], kind) >= Amount(requests[a], kind)
    BY <1>1, AmountsAreNat
  <2> QED
    BY <1>1, <2>1, <2>2 DEF Keeps, LeaveExecuted
<1>6. BatchInv' /\ ChainInv'
  BY <1>1, IdleBatchInv DEF IInv, ChainInv
<1> QED
  BY <1>1, <1>3, <1>4, <1>5, <1>6 DEF IInv, outside

LEMMA AnsweredWithoutEventsStep ==
  ASSUME IInv, AnsweredWithoutEvents
  PROVE  IInv' /\ Keeps
<1>1. /\ batch.phase = "executed" /\ batch' = Idle /\ chain' = LostStarts
      /\ requests \in [App -> Ops] /\ UNCHANGED <<requests, buffer, asked>>
  BY DEF IInv, AnsweredWithoutEvents
<1>2. BatchInv' /\ ChainInv'
  BY <1>1, IdleBatchInv, LostChain
<1>3. StartedJobsAreFollowed'
  BY <1>1, LostChain DEF IInv, StartedJobsAreFollowed
<1>4. Keeps
  <2>1. batch'.phase = "idle"
    BY <1>1 DEF Idle
  <2>2. ASSUME NEW kind \in Kinds, NEW a \in App
        PROVE  Amount(requests'[a], kind) >= Amount(requests[a], kind)
    BY <1>1, AmountsAreNat
  <2> QED
    BY <1>1, <2>1, <2>2 DEF Keeps, LeaveExecuted
<1>5. faults' \in 0..MaxFaults
  BY FaultIsCounted DEF AnsweredWithoutEvents
<1> QED
  BY <1>1, <1>2, <1>3, <1>4, <1>5 DEF IInv

(* What is put back is all that was taken, new jobs excepted.              *)
LEMMA ReturnIsComplete ==
  ASSUME NEW r \in Ops, NEW o \in Ops
  PROVE  /\ Return(r, o) \in Ops
         /\ \A kind \in Kinds :
              Amount(Return(r, o), kind) = Amount(r, kind) + Amount(o, kind)
<1> DEFINE w == r.work + o.work
           c == r.complete \o o.complete
           f == r.fail \o o.fail
           t == r.terminate \o o.terminate
           s == [i \in Sequence |-> r.start[i] + o.start[i]]
<1>1. w \in Nat /\ s \in [Sequence -> Nat]
  BY OpsFields
<1>2. /\ c \in Seq(Sequence) /\ Len(c) = Len(r.complete) + Len(o.complete)
      /\ f \in Seq(Sequence) /\ Len(f) = Len(r.fail) + Len(o.fail)
      /\ t \in Seq(Sequence) /\ Len(t) = Len(r.terminate) + Len(o.terminate)
  BY OpsFields, ConcatProperties
<1>3. Return(r, o) = [work |-> w, complete |-> c, fail |-> f, terminate |-> t,
                      start |-> s, create |-> r.create]
  BY DEF Return
<1>4. w = r.work + o.work
  OBVIOUS
<1> HIDE DEF w, c, f, t, s
<1>5. Return(r, o) \in Ops
  BY <1>1, <1>2, <1>3, OpsFields DEF Ops
<1>6. /\ Return(r, o).work = w /\ Return(r, o).complete = c
      /\ Return(r, o).fail = f /\ Return(r, o).terminate = t
  BY <1>3
<1> QED
  BY <1>2, <1>4, <1>5, <1>6, Amounts DEF Kinds

LEMMA ErrorStep ==
  ASSUME IInv, Error
  PROVE  IInv' /\ Keeps
<1>1. /\ batch \in Batch /\ TakenInTurn(batch) /\ requests \in [App -> Ops]
      /\ requests' = [a \in App |-> Return(requests[a], batch.ops[a])]
      /\ chain' = LostStarts /\ UNCHANGED <<buffer, asked>>
  BY DEF IInv, BatchInv, Error
<1>2. batch.ops \in [App -> Ops] /\ batch.apps \in Seq(App) /\ batch.limit \in 1..MaxOps
  BY <1>1 DEF Batch
<1>3. requests' \in [App -> Ops]
  BY <1>1, <1>2, ReturnIsComplete
<1>4. BatchInv' /\ batch'.ops = [a \in App |-> NoOps] /\ batch'.started = {}
  <2>1. CASE batch.limit = 1
    BY <2>1, IdleBatchInv DEF Error
  <2>2. CASE batch.limit # 1
    <3>1. batch' = [Idle EXCEPT !.phase = "filling", !.apps = batch.apps,
                                !.limit = Half(batch.limit)]
      BY <2>2 DEF Error
    <3>2. Half(batch.limit) \in 1..MaxOps
      BY <1>2, <2>2, MulticallAssumption DEF Half
    <3>3. Idle \in Batch
      BY IdleIsABatch
    <3>4. /\ batch' \in Batch /\ batch'.phase = "filling" /\ batch'.apps = batch.apps
          /\ batch'.next = 1 /\ batch'.count = 0
          /\ batch'.ops = [a \in App |-> NoOps] /\ batch'.started = {}
      <4>1. batch' \in Batch
        BY <1>2, <3>1, <3>2, <3>3 DEF Batch
      <4> QED
        BY <3>1, <4>1 DEF Idle
    <3>5. Len(batch.apps) \in Nat
      BY <1>2, LenProperties
    <3>6. TakenInTurn(batch')
      BY <1>1, <3>4, <3>5, NoOpsAreNone DEF TakenInTurn
    <3> QED
      BY <3>4, <3>6 DEF BatchInv
  <2> QED
    BY <2>1, <2>2
<1>5. Keeps
  <2>1. ASSUME NEW kind \in Kinds, NEW a \in App
        PROVE  Held(a, kind)' >= Held(a, kind)
    <3>1. /\ Amount(requests'[a], kind)
               = Amount(requests[a], kind) + Amount(batch.ops[a], kind)
          /\ Amount(batch'.ops[a], kind) = 0
      BY <1>1, <1>2, <1>4, ReturnIsComplete, NoOpsAreOps, Amounts DEF Kinds
    <3>2. Amount(requests[a], kind) \in Nat /\ Amount(batch.ops[a], kind) \in Nat
      BY <1>1, <1>2, AmountsAreNat
    <3> QED
      BY <3>1, <3>2 DEF Held
  <2> QED
    BY <2>1 DEF Keeps, LeaveExecuted
<1>6. ChainInv' /\ StartedJobsAreFollowed'
  BY <1>1, LostChain DEF IInv, StartedJobsAreFollowed
<1>7. faults' \in 0..MaxFaults
  BY FaultIsCounted DEF Error
<1> QED
  BY <1>1, <1>3, <1>4, <1>5, <1>6, <1>7 DEF IInv

(* Only a crash loses what the coordinator held.                           *)
LEMMA CrashStep ==
  ASSUME IInv, Crash
  PROVE  IInv' /\ Keeps
<1>1. /\ requests' = [a \in App |-> NoOps] /\ batch' = Idle
      /\ buffer' = [j \in Job |-> 0] /\ asked' = asked
  BY DEF Crash
<1>2. faults' \in 0..MaxFaults /\ faults' # faults
  BY FaultIsCounted DEF Crash
<1>3. /\ chain' = [j \in Job |-> chain'[j]]
      /\ \A j \in Job : chain'[j] = Lost(chain[j])
                         \/ chain'[j] = Lost(AfterBatch(chain, {})[j])
  BY DEF Crash, Lost
<1>4. ASSUME NEW j \in Job PROVE Sound(chain'[j]) /\ ~chain'[j].ours
  <2>1. ChainInv /\ Sound(chain[j]) /\ chain[j] \in {chain[j], Lost(chain[j])}
    BY DEF IInv, ChainInv
  <2>2. Sound(AfterBatch(chain, {})[j])
    BY <2>1, BatchesAreSound
  <2> QED
    BY <1>3, <2>1, <2>2, LostIsSound
<1>5. ChainInv'
  <2>1. \A j \in Job : chain'[j] \in Cell
    BY <1>4 DEF Sound
  <2>2. chain' \in [Job -> Cell]
    BY <1>3, <2>1
  <2> QED
    BY <1>4, <2>2 DEF ChainInv
<1>6. BatchInv' /\ StartedJobsAreFollowed'
  BY <1>1, <1>4, IdleBatchInv DEF StartedJobsAreFollowed
<1>7. Keeps
  BY <1>1, <1>2 DEF Keeps, LeaveExecuted
<1>8. requests' \in [App -> Ops] /\ buffer' \in [Job -> Nat]
  BY <1>1, NoOpsAreOps
<1> QED
  BY <1>1, <1>2, <1>5, <1>6, <1>7, <1>8 DEF IInv

-----------------------------------------------------------------------------
LEMMA NextStep ==
  ASSUME IInv, Next
  PROVE  IInv' /\ Keeps
<1>1. CASE Cycle
  BY <1>1, BeginCycleStep, TakeNextStep, SendStep, ExecuteStep, AnsweredStep DEF Cycle
<1>2. CASE \E a \in App : JobCreated(a) \/ SubmitWork(a) \/ CreateJob(a)
  BY <1>2, JobCreatedStep, RequestStep
<1>3. CASE \E j \in Job :
             PeerActs(j) \/ CompleteJob(j) \/ FailJob(j) \/ TerminateJob(j)
               \/ Reconcile(j) \/ QueueStart(j) \/ HandOver(j)
  BY <1>3, PeerActsStep, HandOverStep, RequestStep
<1>4. CASE \E refused \in SUBSET Job : Execute(refused)
  BY <1>4, ExecuteStep
<1>5. CASE AnsweredWithoutEvents \/ Error \/ Crash
  BY <1>5, AnsweredWithoutEventsStep, ErrorStep, CrashStep
<1> QED
  BY <1>1, <1>2, <1>3, <1>4, <1>5 DEF Next

LEMMA StutterStep ==
  ASSUME IInv, UNCHANGED vars
  PROVE  IInv'
BY DEF IInv, ChainInv, BatchInv, StartedJobsAreFollowed, vars, outside

LEMMA Inductive == Spec => []IInv
<1>1. IInv /\ [Next]_vars => IInv'
  BY NextStep, StutterStep
<1> QED
  BY <1>1, InitIInv, PTL DEF Spec

(* Only a running job is anybody's run, and the batch stays within its     *)
(* types, through repeated transactions, smaller batches and crashes.      *)
THEOREM TypeCorrect == Spec => []TypeOK
<1>1. IInv => TypeOK
  BY DEF IInv, ChainInv, BatchInv, Batch, TakenInTurn, TypeOK, Sound, Cell
<1> QED
  BY <1>1, Inductive, PTL

(* Every run that is the coordinator's own is known to it: no job it has   *)
(* started is forgotten by the way answers, retries and batches interleave *)
(* with other coordinators and with containers.                            *)
THEOREM StartedJobsAreAlwaysFollowed == Spec => []StartedJobsAreFollowed
<1>1. IInv => StartedJobsAreFollowed
  BY DEF IInv
<1> QED
  BY <1>1, Inductive, PTL

(* A request of the kinds it names leaves queue and batch only with an     *)
(* executed transaction or in a crash.                                     *)
THEOREM RequestsAreAlwaysKept == Spec => RequestsAreKept
<1>1. IInv /\ [Next]_vars =>
        [\A kind \in {"work", "complete", "fail", "terminate"} : LeaveExecuted(kind)]_vars
  BY NextStep DEF Keeps, Kinds
<1> QED
  BY <1>1, Inductive, PTL DEF Spec, RequestsAreKept
-----------------------------------------------------------------------------
(* The jobs of an app instance, as JobLifecycle sees them: a job that      *)
(* failed without attempts left is as good as gone.                        *)

Life(c) == IF c.status = "Over" THEN "Gone" ELSE c.status

Table(a) == [s \in Sequence |-> Life(chain[<<a, s>>])]

Lifecycle(a) == INSTANCE JobLifecycle WITH life <- Table(a)

(* One transaction: a call of the job table and n new jobs, in the order   *)
(* of their sequences.                                                     *)
Transaction(a, n) ==
  \A s \in Sequence :
    IF s \in NextUnborn(a, n)
    THEN Table(a)[s] = "Unborn" /\ Table(a)'[s] = "Pending"
    ELSE \/ Table(a)'[s] = Table(a)[s]
         \/ <<Table(a)[s], Table(a)'[s]>> \in Lifecycle(a)!CallMoves

LivesOn(c, d) ==
  \/ d.status = c.status
  \/ c.status \in {"Pending", "Running"} /\ d.status \in {"Pending", "Running", "Over"}

LEMMA LivesOnByCalls ==
  ASSUME NEW c, NEW d, LivesOn(c, d), NEW a \in App
  PROVE  \/ Life(d) = Life(c)
         \/ <<Life(c), Life(d)>> \in Lifecycle(a)!CallMoves
BY DEF LivesOn, Life, Lifecycle!CallMoves

LEMMA Unborn ==
  ASSUME NEW a \in App
  PROVE  /\ NextUnborn(a, 0) = {}
         /\ \A s, t \in NextUnborn(a, 1) : s = t
<1> DEFINE U(s) == {t \in 1..(s - 1) : chain[<<a, t>>].status = "Unborn"}
<1>1. ASSUME NEW s \in Sequence
      PROVE  /\ IsFiniteSet(U(s)) /\ Cardinality(U(s)) \in Nat
             /\ Cardinality(U(s)) = 0 => U(s) = {}
  <2>1. s \in Nat /\ 1 \in Int /\ s - 1 \in Int
    BY DEF Sequence
  <2>2. IsFiniteSet(1..(s - 1))
    BY <2>1, FS_Interval
  <2>3. IsFiniteSet(U(s))
    BY <2>2, FS_Subset
  <2> HIDE DEF U
  <2> QED
    BY <2>3, FS_CardinalityType, FS_EmptySet
<1>2. NextUnborn(a, 0) = {}
  <2>1. ASSUME NEW s \in NextUnborn(a, 0) PROVE FALSE
    <3>1. s \in Sequence /\ Cardinality(U(s)) < 0
      BY DEF NextUnborn
    <3> HIDE DEF U
    <3> QED
      BY <1>1, <3>1
  <2> QED
    BY <2>1
<1>3. ASSUME NEW s \in NextUnborn(a, 1), NEW t \in NextUnborn(a, 1), s < t
      PROVE  FALSE
  <2>1. s \in Sequence /\ t \in Sequence /\ Cardinality(U(t)) < 1
        /\ chain[<<a, s>>].status = "Unborn"
    BY DEF NextUnborn
  <2>2. s \in U(t)
    BY <1>3, <2>1 DEF Sequence
  <2> HIDE DEF U
  <2> QED
    BY <1>1, <2>1, <2>2
<1>4. NextUnborn(a, 1) \subseteq Nat
  BY DEF NextUnborn, Sequence
<1> QED
  BY <1>2, <1>3, <1>4

(* A call alone: no job is created.                                        *)
LEMMA CallOnly ==
  ASSUME \A j \in Job : LivesOn(chain[j], chain'[j]), NEW a \in App
  PROVE  Transaction(a, 0)
<1>1. ASSUME NEW s \in Sequence
      PROVE  \/ Table(a)'[s] = Table(a)[s]
             \/ <<Table(a)[s], Table(a)'[s]>> \in Lifecycle(a)!CallMoves
  <2>1. LivesOn(chain[<<a, s>>], chain'[<<a, s>>])
    BY DEF Job
  <2>2. Table(a)[s] = Life(chain[<<a, s>>]) /\ Table(a)'[s] = Life(chain'[<<a, s>>])
    BY DEF Table, Life
  <2> QED
    BY <2>1, <2>2, LivesOnByCalls
<1> QED
  BY <1>1, Unborn DEF Transaction

LEMMA EndsLiveOn ==
  ASSUME NEW c, Sound(c), NEW o, NEW s
  PROVE  LivesOn(c, AfterEnds(o, s, c)) /\ AfterEnds(o, s, c).status \in Status
<1> DEFINE d == Completed(o, s, c)
           e == Failed(o, s, d)
           f == Terminated(o, s, e)
<1>1. \A x : Sound(x) => /\ Removed(x).status = "Over"
                         /\ FailedRun(x).status \in {"Pending", "Over"}
  BY DEF Sound, Cell, Removed, FailedRun
<1>2. Sound(d) /\ Sound(e) /\ Sound(f)
  BY EachEnding DEF Ending
<1>3. LivesOn(c, d) /\ (d.status # c.status => c.status = "Running" /\ d.status = "Over")
  BY <1>1 DEF Completed, LivesOn
<1>4. e.status = d.status \/ (d.status = "Running" /\ e.status \in {"Pending", "Over"})
  <2> HIDE DEF d
  <2> QED
    BY <1>1, <1>2 DEF Failed
<1>5. f.status = e.status \/ (e.status # "Unborn" /\ f.status = "Over")
  <2> HIDE DEF e
  <2> QED
    BY <1>1, <1>2 DEF Terminated
<1>6. c.status \in Status /\ f.status \in Status
  BY <1>2, CellFields
<1>7. AfterEnds(o, s, c) = f
  BY EndsInOrder
<1> HIDE DEF d, e, f
<1> QED
  BY <1>3, <1>4, <1>5, <1>6, <1>7 DEF LivesOn, Status

(* A batch is a call, and creates the jobs it was asked to create.         *)
LEMMA BatchIsATransaction ==
  ASSUME IInv, NEW before, NEW refused, NEW a \in App,
         \A j \in Job : before[j] \in {chain[j], Lost(chain[j])},
         \A j \in Job : chain'[j].status = AfterBatch(before, refused)[j].status
  PROVE  Transaction(a, batch.ops[a].create) /\ batch.ops[a].create \in Nat
<1>1. batch.ops[a].create \in Nat
  BY OpsFields DEF IInv, BatchInv, Batch
<1>2. ASSUME NEW s \in Sequence
      PROVE  IF s \in NextUnborn(a, batch.ops[a].create)
             THEN Table(a)[s] = "Unborn" /\ Table(a)'[s] = "Pending"
             ELSE \/ Table(a)'[s] = Table(a)[s]
                  \/ <<Table(a)[s], Table(a)'[s]>> \in Lifecycle(a)!CallMoves
  <2> DEFINE j == <<a, s>>
             o == batch.ops[a]
             b == before[j]
             c == AfterEnds(o, s, b)
             d == AfterBatch(before, refused)[j]
  <2>1. j \in Job /\ j[1] = a /\ j[2] = s
    BY DEF Job
  <2>2. Sound(chain[j]) /\ Sound(b) /\ b.status = chain[j].status /\ Alike(b, chain[j])
    BY <2>1, LostIsSound DEF IInv, ChainInv, Alike
  <2>3. Table(a)[s] = Life(chain[j]) /\ Table(a)'[s] = Life(chain'[j])
    BY DEF Table, Life
  <2>4. chain'[j].status = d.status
    BY <2>1
  <2>5. d = IF j \in Starts(refused) THEN Started(c, TRUE)
            ELSE IF s \in NextUnborn(a, o.create)
            THEN [c EXCEPT !.status = "Pending"] ELSE c
    BY <2>1 DEF AfterBatch
  <2>6. LivesOn(b, c) /\ c.status \in Status /\ Sound(c)
    BY <2>2, EndsLiveOn, EndsAreSound DEF Ending
  <2>7. j \in Starts(refused) => c.status = "Pending"
    BY <2>1, <2>2, EndsAlike DEF Starts
  <2>8. CASE s \in NextUnborn(a, o.create)
    <3>1. chain[j].status = "Unborn"
      BY <2>8 DEF NextUnborn
    <3> HIDE DEF j, c, b
    <3>2. c.status = "Unborn"
      BY <2>2, <2>6, <3>1 DEF LivesOn
    <3>3. d = [c EXCEPT !.status = "Pending"]
      BY <2>5, <2>7, <2>8, <3>2
    <3>4. d.status = "Pending"
      BY <2>6, <3>3 DEF Sound, Cell
    <3> QED
      BY <2>3, <2>4, <2>8, <3>1, <3>4 DEF Life
  <2>9. CASE s \notin NextUnborn(a, o.create)
    <3> HIDE DEF j, c, b
    <3>1. LivesOn(chain[j], chain'[j])
      <4>1. CASE j \in Starts(refused)
        <5>1. d.status = "Running"
          BY <2>5, <4>1 DEF Started
        <5>2. chain[j].status \in {"Pending", "Running"}
          BY <2>2, <2>6, <2>7, <4>1 DEF LivesOn
        <5> QED
          BY <2>4, <5>1, <5>2 DEF LivesOn
      <4>2. CASE j \notin Starts(refused)
        <5>1. d = c
          BY <2>5, <2>9, <4>2
        <5> HIDE DEF d
        <5> QED
          BY <2>2, <2>4, <2>6, <5>1 DEF LivesOn
      <4> QED
        BY <4>1, <4>2
    <3>2. \/ Life(chain'[j]) = Life(chain[j])
          \/ <<Life(chain[j]), Life(chain'[j])>> \in Lifecycle(a)!CallMoves
      BY <3>1, LivesOnByCalls
    <3> QED
      BY <2>3, <2>9, <3>2
  <2> QED
    BY <2>8, <2>9
<1> QED
  BY <1>1, <1>2 DEF Transaction

LEMMA JobCreatedIsATransaction ==
  ASSUME IInv, NEW b \in App, JobCreated(b), NEW a \in App
  PROVE  \E n \in Nat : Transaction(a, n)
<1>1. PICK t \in NextUnborn(b, 1) : chain' = [chain EXCEPT ![<<b, t>>].status = "Pending"]
  BY DEF JobCreated
<1>2. chain \in [Job -> Cell] /\ <<b, t>> \in Job /\ chain[<<b, t>>].status = "Unborn"
  BY DEF IInv, ChainInv, NextUnborn, Job
<1>3. chain'[<<b, t>>].status = "Pending"
  BY <1>1, <1>2 DEF Cell
<1>4. \A j \in Job : j # <<b, t>> => chain'[j] = chain[j]
  BY <1>1, <1>2
<1>5. CASE a = b
  <2>1. ASSUME NEW s \in Sequence
        PROVE  IF s \in NextUnborn(a, 1)
               THEN Table(a)[s] = "Unborn" /\ Table(a)'[s] = "Pending"
               ELSE Table(a)'[s] = Table(a)[s]
    <3>1. <<a, s>> \in Job
      BY DEF Job
    <3>2. Table(a)[s] = Life(chain[<<a, s>>]) /\ Table(a)'[s] = Life(chain'[<<a, s>>])
      BY DEF Table, Life
    <3>3. CASE s = t
      BY <1>1, <1>2, <1>3, <1>5, <3>2, <3>3 DEF Life
    <3>4. CASE s # t
      <4>1. s \notin NextUnborn(a, 1)
        BY <1>5, <3>4, Unborn
      <4>2. chain'[<<a, s>>] = chain[<<a, s>>]
        BY <1>4, <3>1, <3>4
      <4> QED
        BY <3>2, <4>1, <4>2
    <3> QED
      BY <3>3, <3>4
  <2>2. Transaction(a, 1)
    BY <2>1 DEF Transaction
  <2> QED
    BY <2>2
<1>6. CASE a # b
  <2>1. ASSUME NEW s \in Sequence PROVE Table(a)'[s] = Table(a)[s]
    <3>1. chain'[<<a, s>>] = chain[<<a, s>>]
      BY <1>4, <1>6 DEF Job
    <3> QED
      BY <3>1 DEF Table, Life
  <2>2. Transaction(a, 0)
    BY <2>1, Unborn DEF Transaction
  <2> QED
    BY <2>2
<1> QED
  BY <1>5, <1>6

LEMMA NextIsATransaction ==
  ASSUME IInv, [Next]_vars, NEW a \in App
  PROVE  \E n \in Nat : Transaction(a, n)
<1>1. ASSUME \A j \in Job : LivesOn(chain[j], chain'[j])
      PROVE  \E n \in Nat : Transaction(a, n)
  BY <1>1, CallOnly
<1>2. CASE UNCHANGED chain
  BY <1>1, <1>2 DEF LivesOn
<1>3. CASE \E b \in App : JobCreated(b)
  BY <1>3, JobCreatedIsATransaction
<1>4. CASE \E j \in Job : PeerActs(j)
  <2>1. PICK j \in Job : PeerActs(j)
    BY <1>4
  <2>2. Sound(chain[j]) /\ chain \in [Job -> Cell]
    BY DEF IInv, ChainInv
  <2>3. LivesOn(chain[j], chain'[j])
    <3>1. Started(chain[j], FALSE).status = "Running"
      BY DEF Started
    <3>2. Removed(chain[j]).status = "Over" /\ FailedRun(chain[j]).status \in {"Pending", "Over"}
      BY <2>2 DEF Sound, Cell, Removed, FailedRun
    <3> QED
      BY <2>1, <2>2, <3>1, <3>2 DEF PeerActs, LivesOn
  <2>4. \A i \in Job : i # j => chain'[i] = chain[i]
    BY <2>1, <2>2 DEF PeerActs
  <2>5. \A i \in Job : LivesOn(chain[i], chain'[i])
    BY <2>3, <2>4 DEF LivesOn
  <2> QED
    BY <1>1, <2>5
<1>5. CASE \E j \in Job : HandOver(j)
  <2>1. PICK j \in Job : HandOver(j)
    BY <1>5
  <2>2. Sound(chain[j]) /\ chain \in [Job -> Cell] /\ chain' = [chain EXCEPT ![j] = Lost(chain[j])]
    BY <2>1 DEF IInv, ChainInv, HandOver, Lost
  <2>3. \A i \in Job : chain'[i].status = chain[i].status
    BY <2>2, LostIsSound
  <2> QED
    BY <1>1, <2>3 DEF LivesOn
<1>6. CASE \E refused \in SUBSET Job : Execute(refused)
  <2>1. PICK refused : Execute(refused)
    BY <1>6
  <2>2. \A j \in Job : LostStarts[j] \in {chain[j], Lost(chain[j])}
    BY LostStartsAre
  <2>3. chain' = AfterBatch(LostStarts, refused)
    BY <2>1 DEF Execute
  <2> QED
    BY <2>2, <2>3, BatchIsATransaction
<1>7. CASE AnsweredWithoutEvents \/ Error
  BY <1>1, <1>7, LostChain DEF AnsweredWithoutEvents, Error, LivesOn
<1>8. CASE Crash
  <2>1. CASE chain' = [j \in Job |-> Lost(chain[j])]
    <3>1. \A j \in Job : chain'[j].status = chain[j].status
      BY <2>1, LostIsSound DEF IInv, ChainInv
    <3> QED
      BY <1>1, <3>1 DEF LivesOn
  <2>2. CASE chain' = [j \in Job |-> Lost(AfterBatch(chain, {})[j])]
    <3>1. ASSUME NEW j \in Job
          PROVE  chain'[j].status = AfterBatch(chain, {})[j].status
      <4>1. ChainInv /\ chain[j] \in {chain[j], Lost(chain[j])}
        BY DEF IInv
      <4>2. Sound(AfterBatch(chain, {})[j])
        BY <4>1, BatchesAreSound
      <4> QED
        BY <2>2, <4>2, LostIsSound
    <3> QED
      BY <3>1, BatchIsATransaction
  <2> QED
    BY <1>8, <2>1, <2>2 DEF Crash, Lost
<1>9. CASE BeginCycle \/ TakeNext \/ Send \/ Answered
  <2>1. CASE TakeNext
    BY <1>2, <2>1, TakeIsATurn DEF TakeNext, Turn
  <2> QED
    BY <1>2, <1>9, <2>1 DEF BeginCycle, Send, Answered
<1>10. CASE \E b \in App : SubmitWork(b) \/ CreateJob(b)
  BY <1>2, <1>10 DEF SubmitWork, CreateJob, Ask, Queue
<1>11. CASE \E j \in Job : CompleteJob(j) \/ FailJob(j) \/ TerminateJob(j)
                            \/ Reconcile(j) \/ QueueStart(j)
  BY <1>2, <1>11 DEF CompleteJob, FailJob, TerminateJob, Reconcile, QueueStart, Ask, Queue
<1> QED
  BY <1>2, <1>3, <1>4, <1>5, <1>6, <1>7, <1>8, <1>9, <1>10, <1>11
     DEF Next, Cycle, vars

(* Seen through the statuses of its jobs, the chain of Multicall is the    *)
(* table that JobLifecycle promises: a transaction, repeated, lost or of   *)
(* another coordinator, moves each job as one call may, and jobs are born  *)
(* in the order of their sequences.                                        *)
THEOREM TransactionsAreCalls ==
  Spec => [][\A a \in App : \E n \in Nat : Transaction(a, n)]_vars
<1>1. IInv /\ [Next]_vars => [\A a \in App : \E n \in Nat : Transaction(a, n)]_vars
  BY NextIsATransaction
<1> QED
  BY <1>1, Inductive, PTL DEF Spec
=============================================================================
