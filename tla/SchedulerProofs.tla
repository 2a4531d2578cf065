--------------------------- MODULE SchedulerProofs ---------------------------
(***************************************************************************)
(* Proofs about Scheduler, for any number of threads, fibers and jobs and  *)
(* any bounds.                                                             *)
(***************************************************************************)
EXTENDS Scheduler, SequenceTheorems, TLAPS

-----------------------------------------------------------------------------
(* The queue, seen as the set of fibers it holds. *)
QueuedFiber(q, f) == \E i \in 1..Len(q) : q[i].fiber = f

UniqueFibers(q) == \A i, k \in 1..Len(q) :
    i # k /\ q[i].fiber = q[k].fiber => q[i].fiber = NoFiber

(* What scheduleNoLock adds to the queue. *)
LEMMA EnqueuedFacts ==
    ASSUME NEW q \in Seq(Task), NEW e \in Task
    PROVE  /\ Enqueued(q, e) \in Seq(Task)
           /\ \A f : QueuedFiber(Enqueued(q, e), f) <=> QueuedFiber(q, f) \/ e.fiber = f
           /\ UniqueFibers(q) /\ (e.fiber = NoFiber \/ ~QueuedFiber(q, e.fiber))
                => UniqueFibers(Enqueued(q, e))
<1>1. Enqueued(q, e) = Append(q, e)
  BY DEF Enqueued, Task
<1> DEFINE r == Append(q, e)
<1>2. /\ r \in Seq(Task) /\ Len(r) = Len(q) + 1 /\ Len(q) \in Nat
      /\ \A i \in 1..Len(q) : r[i] = q[i]
      /\ r[Len(q) + 1] = e
  OBVIOUS
<1> HIDE DEF r
<1>3. ASSUME NEW f PROVE QueuedFiber(r, f) <=> QueuedFiber(q, f) \/ e.fiber = f
  <2>1. ASSUME QueuedFiber(r, f) PROVE QueuedFiber(q, f) \/ e.fiber = f
    <3>1. PICK i \in 1..Len(r) : r[i].fiber = f
      BY <2>1 DEF QueuedFiber
    <3>2. CASE i = Len(q) + 1
      BY <3>1, <3>2, <1>2
    <3>3. CASE i \in 1..Len(q)
      BY <3>1, <3>3, <1>2 DEF QueuedFiber
    <3>4. QED
      BY <3>2, <3>3, <1>2
  <2>2. ASSUME QueuedFiber(q, f) PROVE QueuedFiber(r, f)
    <3>1. PICK i \in 1..Len(q) : q[i].fiber = f
      BY <2>2 DEF QueuedFiber
    <3>2. i \in 1..Len(r) /\ r[i].fiber = f
      BY <3>1, <1>2
    <3>3. QED
      BY <3>2 DEF QueuedFiber
  <2>3. ASSUME e.fiber = f PROVE QueuedFiber(r, f)
    <3>1. Len(q) + 1 \in 1..Len(r) /\ r[Len(q) + 1].fiber = f
      BY <2>3, <1>2
    <3>2. QED
      BY <3>1 DEF QueuedFiber
  <2>4. QED
    BY <2>1, <2>2, <2>3
<1>4. ASSUME UniqueFibers(q), e.fiber = NoFiber \/ ~QueuedFiber(q, e.fiber)
      PROVE  UniqueFibers(r)
  <2>1. SUFFICES ASSUME NEW i \in 1..Len(r), NEW k \in 1..Len(r), i < k,
                        r[i].fiber = r[k].fiber
                 PROVE  r[i].fiber = NoFiber
    BY <1>2 DEF UniqueFibers
  <2>2. i \in 1..Len(q) /\ r[i] = q[i]
    BY <2>1, <1>2
  <2>3. CASE k \in 1..Len(q)
    BY <1>4, <2>1, <2>2, <2>3, <1>2 DEF UniqueFibers
  <2>4. CASE k = Len(q) + 1
    BY <1>4, <2>1, <2>2, <2>4, <1>2 DEF QueuedFiber
  <2>5. QED
    BY <2>3, <2>4, <1>2
<1>5. QED
  BY <1>1, <1>2, <1>3, <1>4 DEF r

(* What popping entry i leaves of the queue. *)
LEMMA RemoveFacts ==
    ASSUME NEW q \in Seq(Task), NEW i \in 1..Len(q)
    PROVE  /\ RemoveAt(q, i) \in Seq(Task)
           /\ \A f : QueuedFiber(RemoveAt(q, i), f) => QueuedFiber(q, f)
           /\ UniqueFibers(q) =>
                /\ UniqueFibers(RemoveAt(q, i))
                /\ q[i].fiber # NoFiber => ~QueuedFiber(RemoveAt(q, i), q[i].fiber)
<1> DEFINE r == RemoveAt(q, i)
           Old(k) == IF k < i THEN k ELSE k + 1
<1>1. /\ r \in Seq(Task) /\ Len(q) \in Nat /\ Len(r) = Len(q) - 1
      /\ \A k \in 1..Len(r) : r[k] = q[Old(k)]
  <2> DEFINE a == SubSeq(q, 1, i - 1)
             b == SubSeq(q, i + 1, Len(q))
  <2>1. /\ Len(q) \in Nat /\ i \in Int
        /\ a \in Seq(Task) /\ Len(a) = i - 1 /\ \A k \in 1..Len(a) : a[k] = q[k]
    OBVIOUS
  <2>2. /\ b \in Seq(Task) /\ Len(b) = Len(q) - i
        /\ \A k \in 1..Len(b) : b[k] = q[k + i]
    OBVIOUS
  <2>3. r = a \o b
    BY DEF RemoveAt
  <2> HIDE DEF a, b, r
  <2>4. /\ r \in Seq(Task) /\ Len(r) = Len(a) + Len(b)
        /\ \A k \in 1..(Len(a) + Len(b)) :
             r[k] = IF k <= Len(a) THEN a[k] ELSE b[k - Len(a)]
    BY <2>1, <2>2, <2>3, ConcatProperties
  <2>5. ASSUME NEW k \in 1..Len(r) PROVE r[k] = q[Old(k)]
    <3>1. CASE k < i
      BY <2>1, <2>2, <2>4, <3>1
    <3>2. CASE ~(k < i)
      <4>0. k \in 1..(Len(a) + Len(b)) /\ ~(k <= Len(a)) /\ k - Len(a) \in 1..Len(b)
        BY <2>1, <2>2, <2>4, <3>2
      <4>1. k - Len(a) \in 1..Len(b) /\ r[k] = b[k - Len(a)]
        BY <2>4, <4>0
      <4>2. b[k - Len(a)] = q[k - Len(a) + i] /\ k - Len(a) + i = k + 1
        BY <2>1, <2>2, <4>1
      <4>3. QED
        BY <3>2, <4>1, <4>2
    <3>3. QED
      BY <3>1, <3>2
  <2>6. QED
    BY <2>1, <2>2, <2>4, <2>5
<1>2. \A k \in 1..Len(r) : Old(k) \in 1..Len(q) /\ Old(k) # i
  BY <1>1
<1>3. \A k, l \in 1..Len(r) : k # l => Old(k) # Old(l)
  BY <1>1
<1> HIDE DEF r, Old
<1>4. ASSUME NEW f, QueuedFiber(r, f) PROVE QueuedFiber(q, f)
  <2>1. PICK k \in 1..Len(r) : r[k].fiber = f
    BY <1>4 DEF QueuedFiber
  <2>2. QED
    BY <2>1, <1>1, <1>2 DEF QueuedFiber
<1>5. ASSUME UniqueFibers(q)
      PROVE  UniqueFibers(r) /\ (q[i].fiber # NoFiber => ~QueuedFiber(r, q[i].fiber))
  <2>1. ASSUME NEW k \in 1..Len(r), NEW l \in 1..Len(r),
               r[k].fiber = r[l].fiber, r[k].fiber # NoFiber
        PROVE  k = l
    <3>1. /\ Old(k) \in 1..Len(q) /\ Old(l) \in 1..Len(q)
          /\ r[k] = q[Old(k)] /\ r[l] = q[Old(l)]
      BY <1>1, <1>2
    <3>2. QED
      BY <1>3, <1>5, <2>1, <3>1 DEF UniqueFibers
  <2>2. ASSUME q[i].fiber # NoFiber, NEW k \in 1..Len(r), r[k].fiber = q[i].fiber
        PROVE  FALSE
    <3>1. Old(k) \in 1..Len(q) /\ Old(k) # i /\ r[k] = q[Old(k)]
      BY <1>1, <1>2
    <3>2. QED
      BY <1>5, <2>2, <3>1 DEF UniqueFibers
  <2>3. QED
    BY <2>1, <2>2 DEF UniqueFibers, QueuedFiber
<1>6. QED
  BY <1>1, <1>4, <1>5 DEF r
-----------------------------------------------------------------------------
OnCpu == {"run", "armed", "leave", "back", "post"}

(* A thread holds a fiber exactly between swapIn() and the end of Post. *)
CurPC == \A t \in Threads : cur[t] # NoFiber <=> pc[t] \in OnCpu

(* A wake-up of f is under way. *)
Token(f) == f \in waiters \/ QueuedFiber(fibers, f)

Hand(t, f) == pc[t] = "dispatch" /\ ft[t].fiber = f

(* A fiber on a thread is EXEC until it gives the thread back. *)
OwnerState == \A t \in Threads : pc[t] \in OnCpu =>
    /\ pc[t] \in {"run", "armed"} => state[cur[t]] = "EXEC"
    /\ state[cur[t]] \in {"EXEC", "READY", "TERM", "EXCEPT"}

(* At most one wake-up of a fiber is under way. *)
OneToken == UniqueFibers(fibers) /\ \A f \in waiters : ~QueuedFiber(fibers, f)

(* A fiber with a wake-up under way is not over, and a thread that still    *)
(* holds it is past its last instruction and has not changed state_.        *)
TokenInv == \A f \in FiberIds : Token(f) =>
    /\ state[f] \in {"INIT", "HOLD", "READY", "EXEC"}
    /\ \A t \in Threads : cur[t] = f =>
          pc[t] \in {"armed", "back", "post"} /\ state[f] = "EXEC"
    /\ \A t \in Threads : cbFiber[t] = f => cur[t] = f

(* The fiber of a popped entry belongs to the thread that popped it. *)
HandInv == \A t \in Threads, f \in FiberIds : Hand(t, f) =>
    /\ ~Token(f) /\ state[f] \in {"INIT", "HOLD", "READY"}
    /\ \A u \in Threads : cur[u] # f /\ cbFiber[u] # f /\ (Hand(u, f) => u = t)

(* A thread's cb_fiber is the fiber it runs, or free to be reset. *)
CbInv ==
    /\ \A t \in Threads, f \in FiberIds : cbFiber[t] = f =>
         \/ cur[t] = f /\ ft[t].fiber = NoFiber
         \/ state[f] \in Resettable /\ \A u \in Threads : cur[u] # f
    /\ \A t, u \in Threads : t # u /\ cbFiber[t] = cbFiber[u] => cbFiber[t] = NoFiber
    /\ \A t \in Threads : pc[t] \in OnCpu =>
         cur[t] = IF ft[t].fiber = NoFiber THEN cbFiber[t] ELSE ft[t].fiber

(* Between stop() and start() there is no worker. *)
Resting ==
    pc[Caller] = "stopped" \/ (pc[Caller] = "main" /\ stopping)
        => \A w \in Workers : pc[w] = "unborn"

FiberInv == OwnerState /\ Exclusive /\ OneToken /\ TokenInv /\ HandInv /\ CbInv
-----------------------------------------------------------------------------
JobRecord == [phase : Phase, thread : Threads \cup {AnyThread},
              steps : Nat, runs : Nat]

(* The entries the scheduler builds have the type of a queue entry. *)
LEMMA TaskFacts ==
    /\ NoTask \in FiberAndThread
    /\ \A e \in Task : e \in FiberAndThread
    /\ \A f \in FiberIds, t \in Threads \cup {AnyThread} : FiberTask(f, t) \in Task
    /\ \A j \in Jobs, t \in Threads \cup {AnyThread} : CbTask(j, t) \in Task
  BY FiberAssumption DEF NoTask, FiberAndThread, Task, FiberTask, CbTask

(* Every update of a job's history keeps its type. *)
LEMMA JobFacts ==
    ASSUME jobs \in [Jobs -> JobRecord], NEW j \in Jobs
    PROVE  /\ \A p \in Threads \cup {AnyThread} : Submitted(j, p) \in [Jobs -> JobRecord]
           /\ Started(j) \in [Jobs -> JobRecord]
           /\ [jobs EXCEPT ![j].steps = @ + 1] \in [Jobs -> JobRecord]
           /\ [jobs EXCEPT ![j].phase = "done"] \in [Jobs -> JobRecord]
           /\ \A p \in Threads \cup {AnyThread} :
                 [[jobs EXCEPT ![j].steps = @ + 1] EXCEPT ![j].thread = p]
                    \in [Jobs -> JobRecord]
<1> USE DEF JobRecord, Phase
<1>1. \A p \in Threads \cup {AnyThread} : Submitted(j, p) \in [Jobs -> JobRecord]
  BY DEF Submitted
<1>2. Started(j) \in [Jobs -> JobRecord]
  <2> DEFINE s == [jobs EXCEPT ![j].phase = "started"]
  <2>1. s \in [Jobs -> JobRecord]
    OBVIOUS
  <2>2. Started(j) = [s EXCEPT ![j].runs = @ + 1]
    BY FiberAssumption DEF Started
  <2> HIDE DEF s
  <2>3. [s EXCEPT ![j].runs = @ + 1] \in [Jobs -> JobRecord]
    BY <2>1
  <2>4. QED
    BY <2>2, <2>3
<1>3. [jobs EXCEPT ![j].steps = @ + 1] \in [Jobs -> JobRecord]
  OBVIOUS
<1>4. [jobs EXCEPT ![j].phase = "done"] \in [Jobs -> JobRecord]
  OBVIOUS
<1>5. \A p \in Threads \cup {AnyThread} :
         [[jobs EXCEPT ![j].steps = @ + 1] EXCEPT ![j].thread = p] \in [Jobs -> JobRecord]
  <2> DEFINE s == [jobs EXCEPT ![j].steps = @ + 1]
  <2>1. s \in [Jobs -> JobRecord]
    BY <1>3
  <2> HIDE DEF s
  <2>2. \A p \in Threads \cup {AnyThread} : [s EXCEPT ![j].thread = p] \in [Jobs -> JobRecord]
    BY <2>1
  <2>3. QED
    BY <2>2 DEF s
<1>6. QED
  BY <1>1, <1>2, <1>3, <1>4, <1>5

-----------------------------------------------------------------------------
(* Types are kept, together with what ties cur to pc. *)
TypeInv == TypeOK /\ CurPC /\ Resting

(* The constructor's state is typed. *)
LEMMA TypeInit == Init => TypeInv
<1> SUFFICES ASSUME Init PROVE TypeInv
  OBVIOUS
<1> USE DEF Init
<1>1. /\ fibers \in Seq(Task) /\ state \in [FiberIds -> FiberState]
      /\ cb \in [FiberIds -> Jobs \cup {NoJob}] /\ waiters \in SUBSET FiberIds
  BY DEF FiberState
<1>2. /\ pc \in [Threads -> PC]
      /\ cbFiber \in [Threads -> FiberIds \cup {NoFiber}]
      /\ cur \in [Threads -> FiberIds \cup {NoFiber}]
  BY DEF PC, RunPC
<1>3. ft \in [Threads -> FiberAndThread]
  BY TaskFacts
<1>4. idleTerm \in [Threads -> BOOLEAN]
  BY Zenon
<1>5. active \in Int /\ idle \in Int /\ starts \in 0..MaxStarts
  BY BoundAssumption
<1>6. stopping \in BOOLEAN /\ autoStop \in BOOLEAN /\ rootTerm \in BOOLEAN
  BY Zenon
<1>7. jobs \in [Jobs -> JobRecord]
  BY DEF JobRecord, Phase
<1>8. CurPC /\ Resting
  BY ThreadAssumption DEF CurPC, OnCpu, Resting, Threads
<1>9. QED
  BY <1>1, <1>2, <1>3, <1>4, <1>5, <1>6, <1>7, <1>8 DEF TypeInv, TypeOK, JobRecord

(* No step of a thread, a waker or the owner leaves the types. *)
LEMMA TypeStep == TypeInv /\ [Next]_vars => TypeInv'
<1> SUFFICES ASSUME TypeInv, [Next]_vars PROVE TypeInv'
  OBVIOUS
<1>0. /\ Caller \in Threads /\ Runners \subseteq Threads
      /\ \A t \in Threads : pc[t] \in OnCpu => cur[t] \in FiberIds
      /\ \A t \in Threads : InJob(t) => cur[t] \in FiberIds /\ cb[cur[t]] \in Jobs
  BY FiberAssumption DEF TypeInv, TypeOK, CurPC, InJob, OnCpu, Threads, Runners
<1>j. jobs \in [Jobs -> JobRecord] /\ fibers \in Seq(Task) /\ NoTask \in FiberAndThread
  BY TaskFacts DEF TypeInv, TypeOK, JobRecord
<1>r. ASSUME NEW t \in Runners, pc[t] \notin {"unborn", "main", "stopped"},
             \A u \in Threads : u # t => pc'[u] = pc[u],
             pc'[t] \notin {"main", "stopped"}, stopping' = stopping
      PROVE  Resting'
  BY <1>r, <1>0, ThreadAssumption DEF TypeInv, Resting, Threads
<1>1. ASSUME NEW t \in Runners, PickTask(t) PROVE TypeInv'
  <2>1. PICK i \in 1..Len(fibers) :
           ft' = [ft EXCEPT ![t] = fibers[i]] /\ fibers' = RemoveAt(fibers, i)
    BY <1>1 DEF PickTask
  <2>2. fibers[i] \in FiberAndThread /\ fibers' \in Seq(Task)
    BY <1>j, <2>1, TaskFacts, RemoveFacts
  <2>3. ft' \in [Threads -> FiberAndThread]
    BY <2>1, <2>2, ThreadAssumption DEF TypeInv, TypeOK
  <2>4. Resting'
    BY <1>1, <1>0, <1>r DEF PickTask, TypeInv, TypeOK
  <2>5. QED
    BY <1>1, <1>0, <2>2, <2>3, <2>4 DEF PickTask, TypeInv, TypeOK, CurPC, OnCpu,
       PC, RunPC
<1>2. ASSUME NEW t \in Runners, EnterIdle(t) PROVE TypeInv'
  <2>1. Resting'
    BY <1>2, <1>0, <1>r DEF EnterIdle, TypeInv, TypeOK
  <2>2. QED
    BY <1>2, <1>0, <2>1 DEF EnterIdle, TypeInv, TypeOK, CurPC, OnCpu, PC, RunPC
<1>3. ASSUME NEW t \in Runners, ExitRun(t) PROVE TypeInv'
  <2>1. rootTerm' \in BOOLEAN
    BY <1>3, Zenon DEF ExitRun
  <2>2. QED
    BY <1>3, <1>0, <2>1, ThreadAssumption DEF ExitRun, TypeInv, TypeOK, CurPC,
       Resting, Threads, OnCpu, PC, RunPC
<1>4. ASSUME NEW t \in Runners, QuietCheck(t) PROVE TypeInv'
  <2>1. Resting'
    BY <1>4, <1>0, <1>r DEF QuietCheck, LeaveIdle, TypeInv, TypeOK
  <2>2. idle' \in Int /\ \E x \in {"pick", "check"} : pc' = [pc EXCEPT ![t] = x]
    <3>1. CASE Quiet
      BY <1>4, <3>1 DEF QuietCheck, TypeInv, TypeOK
    <3>2. CASE ~Quiet
      BY <1>4, <3>2 DEF QuietCheck, LeaveIdle, TypeInv, TypeOK
    <3>3. QED
      BY <3>1, <3>2
  <2>3. QED
    BY <1>4, <1>0, <2>1, <2>2 DEF QuietCheck, TypeInv, TypeOK, CurPC, OnCpu, PC,
       RunPC
<1>5. ASSUME NEW t \in Runners, IdleCheck(t) PROVE TypeInv'
  <2>1. idleTerm' \in [Threads -> BOOLEAN]
    <3>1. idleTerm' = [idleTerm EXCEPT ![t] = StoppingNow] /\ StoppingNow \in BOOLEAN
      BY <1>5 DEF IdleCheck, StoppingNow
    <3>2. idleTerm \in [Threads -> BOOLEAN]
      BY DEF TypeInv, TypeOK
    <3>3. QED
      BY <3>1, <3>2, Zenon
  <2>2. Resting'
    BY <1>5, <1>0, <1>r DEF IdleCheck, LeaveIdle, TypeInv, TypeOK
  <2>3. QED
    BY <1>5, <1>0, <2>1, <2>2 DEF IdleCheck, LeaveIdle, TypeInv, TypeOK, CurPC,
       OnCpu, PC, RunPC
<1>6. ASSUME NEW t \in Runners, DispatchFiber(t) PROVE TypeInv'
  <2>1. jobs' \in [Jobs -> JobRecord]
    BY <1>6, <1>0, <1>j, JobFacts, FiberAssumption DEF DispatchFiber, Started,
       TypeInv, TypeOK, FiberAndThread
  <2>2. QED
    BY <1>6, <1>0, <1>j, <2>1, FiberAssumption, ThreadAssumption DEF
       DispatchFiber, JobRecord, FiberState, TypeInv, TypeOK, CurPC, Resting,
       Threads, OnCpu, PC, RunPC, FiberAndThread
<1>7. ASSUME NEW t \in Runners, DispatchDead(t) PROVE TypeInv'
  <2>1. Resting'
    BY <1>7, <1>0, <1>r DEF DispatchDead, TypeInv, TypeOK
  <2>2. QED
    BY <1>7, <1>0, <1>j, <2>1 DEF DispatchDead, TypeInv, TypeOK, CurPC, OnCpu,
       PC, RunPC
<1>8. ASSUME NEW t \in Runners, NEW f \in FiberIds, DispatchCb(t, f) PROVE TypeInv'
  <2>1. ft[t].cb \in Jobs \cup {NoJob}
    BY <1>0 DEF TypeInv, TypeOK, FiberAndThread
  <2>2. jobs' \in [Jobs -> JobRecord]
    BY <1>8, <1>j, <2>1, JobFacts DEF DispatchCb, Started
  <2>3. QED
    BY <1>8, <1>0, <1>j, <2>1, <2>2, FiberAssumption, ThreadAssumption DEF
       DispatchCb, JobRecord, FiberState, TypeInv, TypeOK, CurPC, Resting,
       Threads, OnCpu, PC, RunPC
<1>9. ASSUME NEW t \in Runners, SwapOut(t) PROVE TypeInv'
  BY <1>9, <1>0, ThreadAssumption DEF SwapOut, TypeInv, TypeOK, CurPC, Resting,
     Threads, OnCpu, PC, RunPC
<1>10. ASSUME NEW t \in Runners, Back(t) PROVE TypeInv'
  BY <1>10, <1>0, ThreadAssumption DEF Back, TypeInv, TypeOK, CurPC, Resting,
     Threads, OnCpu, PC, RunPC
<1>11. ASSUME NEW t \in Runners, Post(t) PROVE TypeInv'
  <2>1. cur[t] \in FiberIds
    BY <1>11, <1>0 DEF Post, OnCpu
  <2>2. fibers' \in Seq(Task)
    BY <1>11, <1>j, <2>1, TaskFacts, EnqueuedFacts DEF Post, Requeued, Threads
  <2>3. state' \in [FiberIds -> FiberState]
    BY <1>11, <2>1 DEF Post, AfterRun, FiberState, TypeInv, TypeOK
  <2>4. cb' \in [FiberIds -> Jobs \cup {NoJob}]
    BY <1>11, <2>1 DEF Post, TypeInv, TypeOK
  <2>5. cbFiber' \in [Threads -> FiberIds \cup {NoFiber}]
    BY <1>11, <1>0 DEF Post, CbFiberAfter, TypeInv, TypeOK
  <2>6. QED
    BY <1>11, <1>0, <1>j, <2>2, <2>3, <2>4, <2>5, ThreadAssumption DEF Post,
       TypeInv, TypeOK, CurPC, Resting, Threads, OnCpu, PC, RunPC
<1>12. ASSUME NEW t \in Runners, NEW j \in Jobs, NEW p \in Runners \cup {AnyThread},
              Spawn(t, j, p)
       PROVE  TypeInv'
  <2>1. fibers' \in Seq(Task)
    BY <1>12, <1>0, <1>j, TaskFacts, EnqueuedFacts DEF Spawn, Runners, Threads
  <2>2. jobs' \in [Jobs -> JobRecord]
    BY <1>12, <1>0, <1>j, JobFacts DEF Spawn, Runners, Threads
  <2>3. QED
    BY <1>12, <1>0, <2>1, <2>2, ThreadAssumption DEF Spawn, JobRecord,
       FiberState, TypeInv, TypeOK, CurPC, Resting, Threads, OnCpu, PC, RunPC
<1>13. ASSUME NEW t \in Runners, Arm(t) PROVE TypeInv'
  <2>1. jobs' \in [Jobs -> JobRecord]
    BY <1>13, <1>0, <1>j, JobFacts DEF Arm, MayStep, Stepped
  <2>2. QED
    BY <1>13, <1>0, <2>1, ThreadAssumption DEF Arm, MayStep, InJob, JobRecord,
       TypeInv, TypeOK, CurPC, Resting, Threads, OnCpu, PC, RunPC
<1>14. ASSUME NEW t \in Runners, YieldToHold(t) PROVE TypeInv'
  BY <1>14, <1>0, ThreadAssumption DEF YieldToHold, InJob, TypeInv, TypeOK,
     CurPC, Resting, Threads, OnCpu, PC, RunPC
<1>15. ASSUME NEW t \in Runners, YieldToReady(t) PROVE TypeInv'
  <2>1. jobs' \in [Jobs -> JobRecord]
    BY <1>15, <1>0, <1>j, JobFacts DEF YieldToReady, MayStep, Stepped
  <2>2. QED
    BY <1>15, <1>0, <2>1, ThreadAssumption DEF YieldToReady, MayStep, InJob,
       JobRecord, FiberState, TypeInv, TypeOK, CurPC, Resting, Threads, OnCpu,
       PC, RunPC
<1>16. ASSUME NEW t \in Runners, Return(t) PROVE TypeInv'
  <2>1. jobs' \in [Jobs -> JobRecord]
    BY <1>16, <1>0, <1>j, JobFacts DEF Return
  <2>2. QED
    BY <1>16, <1>0, <2>1, ThreadAssumption DEF Return, InJob, JobRecord,
       FiberState, TypeInv, TypeOK, CurPC, Resting, Threads, OnCpu, PC, RunPC
<1>17. ASSUME NEW t \in Runners, Throw(t) PROVE TypeInv'
  <2>1. cur[t] \in FiberIds /\ cb[cur[t]] \in Jobs \cup {NoJob}
    BY <1>17, <1>0 DEF Throw, OnCpu, TypeInv, TypeOK
  <2>2. jobs' \in [Jobs -> JobRecord]
    BY <1>17, <1>j, <2>1, JobFacts DEF Throw
  <2>3. QED
    BY <1>17, <1>0, <2>1, <2>2, ThreadAssumption DEF Throw, JobRecord,
       FiberState, TypeInv, TypeOK, CurPC, Resting, Threads, OnCpu, PC, RunPC
<1>18. ASSUME NEW t \in Runners, NEW p \in Runners, SwitchTo(t, p) PROVE TypeInv'
  <2>1. fibers' \in Seq(Task)
    BY <1>18, <1>0, <1>j, TaskFacts, EnqueuedFacts DEF SwitchTo, MayStep
  <2>2. jobs' \in [Jobs -> JobRecord]
    BY <1>18, <1>0, <1>j, JobFacts DEF SwitchTo, MayStep, Stepped
  <2>3. QED
    BY <1>18, <1>0, <2>1, <2>2, ThreadAssumption DEF SwitchTo, MayStep, InJob,
       JobRecord, TypeInv, TypeOK, CurPC, Resting, Threads, OnCpu, PC, RunPC
<1>19. ASSUME NEW f \in FiberIds, Wake(f) PROVE TypeInv'
  <2>1. fibers' \in Seq(Task)
    BY <1>19, <1>j, TaskFacts, EnqueuedFacts DEF Wake
  <2>2. QED
    BY <1>19, <2>1 DEF Wake, TypeInv, TypeOK, CurPC, Resting, Threads, OnCpu, PC,
       RunPC
<1>20. ASSUME Start PROVE TypeInv'
  <2>1. idleTerm' \in [Threads -> BOOLEAN] /\ stopping' \in BOOLEAN
    BY <1>20, Zenon DEF Start
  <2>2. starts' \in 0..MaxStarts
    BY <1>20, BoundAssumption DEF Start, TypeInv, TypeOK
  <2>3. \A t \in Threads : cur[t] = NoFiber
    BY <1>20, ThreadAssumption DEF Start, TypeInv, CurPC, OnCpu, Resting, Threads
  <2>4. pc' \in [Threads -> PC] /\ CurPC' /\ Resting'
    BY <1>20, <2>3, ThreadAssumption DEF Start, CurPC, OnCpu, Resting, PC, RunPC,
       Threads
  <2>5. cbFiber' \in [Threads -> FiberIds \cup {NoFiber}]
    BY <1>20 DEF Start
  <2>6. QED
    BY <1>20, <2>1, <2>2, <2>4, <2>5 DEF Start, TypeInv, TypeOK
<1>21. ASSUME NEW j \in Jobs, NEW p \in Runners \cup {AnyThread}, ScheduleCb(j, p)
       PROVE  TypeInv'
  <2>1. fibers' \in Seq(Task)
    BY <1>21, <1>0, <1>j, TaskFacts, EnqueuedFacts DEF ScheduleCb, Runners, Threads
  <2>2. jobs' \in [Jobs -> JobRecord]
    BY <1>21, <1>0, <1>j, JobFacts DEF ScheduleCb, Runners, Threads
  <2>3. QED
    BY <1>21, <1>0, <2>1, <2>2, ThreadAssumption DEF ScheduleCb, JobRecord,
       FiberState, TypeInv, TypeOK, CurPC, Resting, Threads, OnCpu, PC, RunPC
<1>22. ASSUME NEW p \in Runners \cup {AnyThread}, ScheduleNull(p) PROVE TypeInv'
  <2>1. fibers' = fibers
    BY <1>22 DEF ScheduleNull, Enqueued, CbTask
  <2>2. QED
    BY <1>22, <2>1 DEF ScheduleNull, TypeInv, TypeOK, CurPC, Resting, Threads,
       OnCpu, PC, RunPC
<1>23. ASSUME NEW j \in Jobs, NEW p \in Runners \cup {AnyThread}, NEW f \in FiberIds,
              ScheduleFiber(j, p, f)
       PROVE  TypeInv'
  <2>1. fibers' \in Seq(Task)
    BY <1>23, <1>0, <1>j, TaskFacts, EnqueuedFacts DEF ScheduleFiber, Runners,
       Threads
  <2>2. jobs' \in [Jobs -> JobRecord]
    BY <1>23, <1>0, <1>j, JobFacts DEF ScheduleFiber, Runners, Threads
  <2>3. QED
    BY <1>23, <1>0, <2>1, <2>2, ThreadAssumption DEF ScheduleFiber, JobRecord,
       FiberState, TypeInv, TypeOK, CurPC, Resting, Threads, OnCpu, PC, RunPC
<1>24. ASSUME StopBegin PROVE TypeInv'
  BY <1>24, <1>0, ThreadAssumption DEF StopBegin, TypeInv, TypeOK, CurPC,
     Resting, Threads, OnCpu, PC, RunPC
<1>25. ASSUME StopFlag PROVE TypeInv'
  BY <1>25, <1>0, ThreadAssumption DEF StopFlag, TypeInv, TypeOK, CurPC, Resting,
     Threads, OnCpu, PC, RunPC
<1>26. ASSUME StopQuiet PROVE TypeInv'
  <2>1. idleTerm' \in [Threads -> BOOLEAN]
    <3>1. idleTerm \in [Threads -> BOOLEAN]
      BY DEF TypeInv, TypeOK
    <3>2. idleTerm' = idleTerm \/ idleTerm' = [idleTerm EXCEPT ![Caller] = FALSE]
      BY <1>26 DEF StopQuiet, CallRoot
    <3>3. QED
      BY <3>1, <3>2, Zenon
  <2>2. QED
    BY <1>26, <1>0, <2>1, ThreadAssumption DEF StopQuiet, CallRoot, TypeInv,
       TypeOK, CurPC, Resting, Threads, OnCpu, PC, RunPC
<1>27. ASSUME StopCheck PROVE TypeInv'
  <2>1. idleTerm' \in [Threads -> BOOLEAN]
    <3>1. idleTerm \in [Threads -> BOOLEAN]
      BY DEF TypeInv, TypeOK
    <3>2. idleTerm' = idleTerm \/ idleTerm' = [idleTerm EXCEPT ![Caller] = FALSE]
      BY <1>27 DEF StopCheck, CallRoot
    <3>3. QED
      BY <3>1, <3>2, Zenon
  <2>2. QED
    BY <1>27, <1>0, <2>1, ThreadAssumption DEF StopCheck, CallRoot, TypeInv,
       TypeOK, CurPC, Resting, Threads, OnCpu, PC, RunPC
<1>28. ASSUME Join PROVE TypeInv'
  BY <1>28, <1>0, ThreadAssumption DEF Join, TypeInv, TypeOK, CurPC, Resting,
     Threads, OnCpu, PC, RunPC
<1>29. ASSUME UNCHANGED vars PROVE TypeInv'
  BY <1>29, <1>0, ThreadAssumption DEF vars, TypeInv, TypeOK, CurPC, Resting,
     Threads, OnCpu, PC, RunPC
<1> HIDE DEF TypeInv
<1>30. QED
  BY <1>1, <1>2, <1>3, <1>4, <1>5, <1>6, <1>7, <1>8, <1>9, <1>10, <1>11, <1>12,
     <1>13, <1>14, <1>15, <1>16, <1>17, <1>18, <1>19, <1>20, <1>21, <1>22, <1>23,
     <1>24, <1>25, <1>26, <1>27, <1>28, <1>29, Zenon
     DEF Next, Loop, Fiber, Client, Stop, Stopped

(* Every variable of the scheduler keeps its type: in particular the queue   *)
(* never holds an empty entry, which run() asserts (scheduler.cpp:171), and  *)
(* only live fibers are handed to a waker.                                   *)
THEOREM TypeCorrect == Spec => []TypeOK
<1>1. TypeInv => TypeOK
  BY DEF TypeInv
<1>2. QED
  BY <1>1, TypeInit, TypeStep, PTL DEF Spec

-----------------------------------------------------------------------------
(* One fiber, one thread: FiberInv step by step.                              *)
TypeFacts ==
    /\ NoFiber \notin FiberIds
    /\ \A t \in Threads : /\ cur[t] \in FiberIds \cup {NoFiber}
                          /\ cbFiber[t] \in FiberIds \cup {NoFiber}
                          /\ ft[t].fiber \in FiberIds \cup {NoFiber}
                          /\ cur[t] # NoFiber <=> pc[t] \in OnCpu
    /\ waiters \subseteq FiberIds

(* What the proofs below use of the types. *)
LEMMA TypeInvFacts == TypeInv => TypeFacts
  BY FiberAssumption DEF TypeInv, TypeOK, CurPC, FiberAndThread, TypeFacts

(* A step that moves no fiber: idling, stop(), schedule(cb). *)
LEMMA FrameStep ==
    ASSUME TypeFacts, FiberInv, UNCHANGED <<state, ft, cur, waiters>>,
           \A f \in FiberIds : QueuedFiber(fibers', f) <=> QueuedFiber(fibers, f),
           UniqueFibers(fibers'),
           \A t \in Threads :
             /\ cbFiber'[t] = cbFiber[t] \/ (cbFiber'[t] = NoFiber /\ pc[t] \notin OnCpu)
             /\ \/ pc'[t] = pc[t]
                \/ {pc[t], pc'[t]} \cap (OnCpu \cup {"dispatch"}) = {}
    PROVE  FiberInv'
<1>1. \A t \in Threads : /\ pc[t] \in OnCpu \cup {"dispatch"} => pc'[t] = pc[t]
                         /\ pc'[t] \in OnCpu \cup {"dispatch"} => pc'[t] = pc[t]
  OBVIOUS
<1> USE DEF FiberInv, TypeFacts, OnCpu, Token, Hand, OwnerState, Exclusive,
           OneToken, TokenInv, HandInv, CbInv
<1>2. OwnerState'
  BY <1>1
<1>3. Exclusive'
  BY <1>1
<1>4. OneToken'
  BY <1>1
<1>5. TokenInv'
  BY <1>1
<1>6. HandInv'
  BY <1>1
<1>7. CbInv'
  BY <1>1
<1>8. QED
  BY <1>2, <1>3, <1>4, <1>5, <1>6, <1>7

(* A thread goes on towards Post with the fiber it holds. *)
LEMMA MoveStep ==
    ASSUME TypeFacts, FiberInv, UNCHANGED <<state, ft, cur, cbFiber, fibers, waiters>>,
           NEW t \in Threads, pc[t] \in OnCpu, pc'[t] \in {"back", "post"},
           \A u \in Threads \ {t} : pc'[u] = pc[u]
    PROVE  FiberInv'
<1> USE DEF FiberInv, TypeFacts, OnCpu, Token, Hand, OwnerState, Exclusive,
           OneToken, TokenInv, HandInv, CbInv
<1>1. OwnerState'
  OBVIOUS
<1>2. Exclusive'
  OBVIOUS
<1>3. OneToken'
  OBVIOUS
<1>4. TokenInv'
  OBVIOUS
<1>5. HandInv'
  OBVIOUS
<1>6. CbInv'
  OBVIOUS
<1>7. QED
  BY <1>1, <1>2, <1>3, <1>4, <1>5, <1>6

(* The running fiber sets its state_ before it swaps out. *)
LEMMA SettleStep ==
    ASSUME TypeFacts, FiberInv, UNCHANGED <<ft, cur, cbFiber, fibers, waiters>>,
           NEW t \in Threads, pc[t] = "run", pc'[t] = "leave",
           \A u \in Threads \ {t} : pc'[u] = pc[u],
           state'[cur[t]] \in {"READY", "TERM", "EXCEPT"},
           \A f \in FiberIds \ {cur[t]} : state'[f] = state[f]
    PROVE  FiberInv'
<1>1. cur[t] \in FiberIds /\ ~Token(cur[t]) /\ state[cur[t]] = "EXEC"
  BY DEF FiberInv, TypeFacts, OnCpu, TokenInv, OwnerState
<1>2. \A u \in Threads : ~Hand(u, cur[t]) /\ (cur[u] = cur[t] => u = t)
  BY <1>1 DEF FiberInv, TypeFacts, HandInv, Exclusive
<1> USE DEF FiberInv, TypeFacts, OnCpu, Token, Hand, OwnerState, Exclusive,
           OneToken, TokenInv, HandInv, CbInv
<1>3. OwnerState'
  BY <1>1, <1>2
<1>4. Exclusive'
  BY <1>1, <1>2
<1>5. OneToken'
  BY <1>1, <1>2
<1>6. TokenInv'
  BY <1>1, <1>2
<1>7. HandInv'
  BY <1>1, <1>2
<1>8. CbInv'
  BY <1>1, <1>2
<1>9. QED
  BY <1>3, <1>4, <1>5, <1>6, <1>7, <1>8

(* An entry is popped: its fiber moves from the queue into the thread's hand. *)
LEMMA PickStep ==
    ASSUME TypeFacts, FiberInv, UNCHANGED <<state, cur, cbFiber, waiters>>,
           NEW t \in Threads, pc[t] = "pick", pc'[t] = "dispatch",
           \A u \in Threads \ {t} : pc'[u] = pc[u] /\ ft'[u] = ft[u],
           LET g == ft'[t].fiber IN
             g # NoFiber => /\ g \in FiberIds /\ QueuedFiber(fibers, g)
                            /\ ~QueuedFiber(fibers', g)
                            /\ state[g] # "EXEC",
           \A f \in FiberIds : QueuedFiber(fibers', f) => QueuedFiber(fibers, f),
           UniqueFibers(fibers')
    PROVE  FiberInv'
<1> DEFINE g == ft'[t].fiber
<1>1. \A f \in FiberIds : f = g =>
        /\ state[f] \in {"INIT", "HOLD", "READY"} /\ f \notin waiters
        /\ QueuedFiber(fibers, f) /\ ~QueuedFiber(fibers', f)
        /\ \A u \in Threads : cur[u] # f /\ cbFiber[u] # f /\ ~Hand(u, f)
  BY DEF FiberInv, TypeFacts, OneToken, TokenInv, HandInv, Token
<1>2. \A u \in Threads, f \in FiberIds : Hand(u, f)' <=> Hand(u, f) \/ (u = t /\ f = g)
  BY DEF Hand
<1> HIDE DEF g
<1> USE DEF FiberInv, TypeFacts, OnCpu, Token, OwnerState, Exclusive,
           OneToken, TokenInv, HandInv, CbInv
<1>3. OwnerState'
  BY <1>1, <1>2
<1>4. Exclusive'
  BY <1>1, <1>2
<1>5. OneToken'
  BY <1>1, <1>2
<1>6. TokenInv'
  BY <1>1, <1>2
<1>7. HandInv'
  BY <1>1, <1>2
<1>8. CbInv'
  BY <1>1, <1>2
<1>9. QED
  BY <1>3, <1>4, <1>5, <1>6, <1>7, <1>8

(* swapIn() of a queued fiber. *)
LEMMA DispatchFiberStep ==
    ASSUME TypeFacts, FiberInv, UNCHANGED <<fibers, ft, cbFiber, waiters>>,
           NEW t \in Threads, NEW f \in FiberIds, Hand(t, f), pc'[t] = "run",
           cur'[t] = f, state'[f] = "EXEC",
           \A u \in Threads \ {t} : pc'[u] = pc[u] /\ cur'[u] = cur[u],
           \A g \in FiberIds \ {f} : state'[g] = state[g]
    PROVE  FiberInv'
<1>1. /\ ~Token(f) /\ cur[t] = NoFiber
      /\ \A u \in Threads : cur[u] # f /\ cbFiber[u] # f /\ (Hand(u, f) => u = t)
  BY DEF FiberInv, TypeFacts, HandInv, Hand, OnCpu
<1> USE DEF FiberInv, TypeFacts, OnCpu, Token, Hand, OwnerState, Exclusive,
           OneToken, TokenInv, HandInv, CbInv
<1>2. OwnerState'
  BY <1>1
<1>3. Exclusive'
  BY <1>1
<1>4. OneToken'
  BY <1>1
<1>5. TokenInv'
  BY <1>1
<1>6. HandInv'
  BY <1>1
<1>7. CbInv'
  BY <1>1
<1>8. QED
  BY <1>2, <1>3, <1>4, <1>5, <1>6, <1>7

(* swapIn() of a new or reused cb_fiber. *)
LEMMA DispatchCbStep ==
    ASSUME TypeFacts, FiberInv, UNCHANGED <<fibers, waiters>>,
           NEW t \in Threads, NEW f \in FiberIds, Hand(t, NoFiber), pc'[t] = "run",
           IF cbFiber[t] # NoFiber THEN f = cbFiber[t] ELSE state[f] = "NONE",
           cur'[t] = f, state'[f] = "EXEC", cbFiber'[t] = f, ft'[t].fiber = NoFiber,
           \A u \in Threads \ {t} : /\ pc'[u] = pc[u] /\ cur'[u] = cur[u]
                                    /\ cbFiber'[u] = cbFiber[u] /\ ft'[u] = ft[u],
           \A g \in FiberIds \ {f} : state'[g] = state[g]
    PROVE  FiberInv'
<1>1. cur[t] = NoFiber
  BY DEF TypeFacts, Hand, OnCpu
<1>2. /\ ~Token(f)
      /\ \A u \in Threads : cur[u] # f /\ ~Hand(u, f) /\ (cbFiber[u] = f => u = t)
  <2>1. CASE cbFiber[t] # NoFiber
    BY <1>1, <2>1 DEF FiberInv, TypeFacts, TokenInv, HandInv, CbInv, Hand
  <2>2. CASE cbFiber[t] = NoFiber
    BY <2>2 DEF FiberInv, TypeFacts, TokenInv, HandInv, CbInv, OwnerState,
       Resettable
  <2>3. QED
    BY <2>1, <2>2
<1> USE DEF FiberInv, TypeFacts, OnCpu, Token, Hand, OwnerState, Exclusive,
           OneToken, TokenInv, HandInv, CbInv
<1>3. OwnerState'
  BY <1>1, <1>2
<1>4. Exclusive'
  BY <1>1, <1>2
<1>5. OneToken'
  BY <1>1, <1>2
<1>6. TokenInv'
  BY <1>1, <1>2
<1>7. HandInv'
  BY <1>1, <1>2
<1>8. CbInv'
  BY <1>1, <1>2
<1>9. QED
  BY <1>3, <1>4, <1>5, <1>6, <1>7, <1>8

(* run() deals with the state_ the fiber left. *)
LEMMA PostStep ==
    ASSUME TypeFacts, FiberInv, UNCHANGED waiters,
           NEW t \in Threads, pc[t] = "post", pc'[t] = "pick", cur'[t] = NoFiber,
           state'[cur[t]] = AfterRun(t, cur[t]), ft'[t].fiber = NoFiber,
           cbFiber'[t] = CbFiberAfter(t, cur[t]),
           \A u \in Threads \ {t} : /\ pc'[u] = pc[u] /\ cur'[u] = cur[u]
                                    /\ cbFiber'[u] = cbFiber[u] /\ ft'[u] = ft[u],
           \A g \in FiberIds \ {cur[t]} : state'[g] = state[g],
           \A g \in FiberIds : QueuedFiber(fibers', g) <=>
              QueuedFiber(fibers, g) \/ (g = cur[t] /\ state[g] = "READY"),
           UniqueFibers(fibers) /\ (state[cur[t]] = "READY" =>
              ~QueuedFiber(fibers, cur[t])) => UniqueFibers(fibers')
    PROVE  FiberInv'
<1>1. PICK f \in FiberIds : f = cur[t]
  BY DEF TypeFacts, OnCpu
<1>2. /\ \A u \in Threads : ~Hand(u, f) /\ (cur[u] = f => u = t) /\ (cbFiber[u] = f => u = t)
      /\ Token(f) => state[f] = "EXEC"
      /\ state[f] \in {"EXEC", "READY", "TERM", "EXCEPT"}
      /\ cbFiber[t] = f <=> ft[t].fiber = NoFiber
  BY <1>1 DEF FiberInv, TypeFacts, OnCpu, OwnerState, Exclusive, HandInv,
     TokenInv, CbInv
<1>3. /\ state[f] = "READY" => state'[f] = "READY" /\ cbFiber'[t] # f
      /\ state[f] = "EXEC" => state'[f] = "HOLD" /\ cbFiber'[t] # f
      /\ state[f] \in {"TERM", "EXCEPT"} =>
           IF cbFiber[t] = f THEN state'[f] = "INIT" /\ cbFiber'[t] = f
                             ELSE state'[f] = state[f] /\ cbFiber'[t] # f
      /\ cbFiber'[t] \in {cbFiber[t], NoFiber}
  BY <1>1, <1>2 DEF AfterRun, CbFiberAfter, TypeFacts
<1> USE DEF Resettable
<1> USE DEF FiberInv, TypeFacts, OnCpu, Token, Hand, OwnerState, Exclusive,
           OneToken, TokenInv, HandInv, CbInv
<1>4. OwnerState'
  BY <1>1, <1>2, <1>3
<1>5. Exclusive'
  BY <1>1, <1>2, <1>3
<1>6. OneToken'
  BY <1>1, <1>2, <1>3
<1>7. TokenInv'
  BY <1>1, <1>2, <1>3
<1>8. HandInv'
  BY <1>1, <1>2, <1>3
<1>9. CbInv'
  BY <1>1, <1>2, <1>3
<1>10. QED
  BY <1>4, <1>5, <1>6, <1>7, <1>8, <1>9

(* The running fiber hands itself to a waker or to another thread's queue entry. *)
LEMMA SuspendStep ==
    ASSUME TypeFacts, FiberInv, UNCHANGED <<state, ft, cur, cbFiber>>,
           NEW t \in Threads, pc[t] = "run", pc'[t] = "armed",
           \A u \in Threads \ {t} : pc'[u] = pc[u],
           \/ waiters' = waiters \cup {cur[t]} /\ fibers' = fibers
           \/ /\ waiters' = waiters
              /\ \A g \in FiberIds : QueuedFiber(fibers', g) <=>
                                       QueuedFiber(fibers, g) \/ g = cur[t]
              /\ UniqueFibers(fibers) /\ ~QueuedFiber(fibers, cur[t]) => UniqueFibers(fibers')
    PROVE  FiberInv'
<1>1. PICK f \in FiberIds : f = cur[t]
  BY DEF TypeFacts, OnCpu
<1>2. /\ ~Token(f) /\ state[f] = "EXEC"
      /\ \A u \in Threads : ~Hand(u, f) /\ (cur[u] = f => u = t) /\ (cbFiber[u] = f => u = t)
  BY <1>1 DEF FiberInv, TypeFacts, OnCpu, TokenInv, OwnerState, HandInv,
     Exclusive, CbInv
<1>3. /\ \A g \in FiberIds : Token(g)' <=> Token(g) \/ g = f
      /\ UniqueFibers(fibers') /\ \A g \in waiters' : ~QueuedFiber(fibers', g)
  BY <1>1, <1>2 DEF FiberInv, TypeFacts, OneToken, Token
<1> USE DEF FiberInv, TypeFacts, OnCpu, Hand, OwnerState, Exclusive,
           OneToken, TokenInv, HandInv, CbInv
<1>4. OwnerState'
  BY <1>1, <1>2, <1>3
<1>5. Exclusive'
  BY <1>1, <1>2, <1>3
<1>6. OneToken'
  BY <1>1, <1>2, <1>3
<1>7. TokenInv'
  BY <1>1, <1>2, <1>3
<1>8. HandInv'
  BY <1>1, <1>2, <1>3
<1>9. CbInv'
  BY <1>1, <1>2, <1>3
<1>10. QED
  BY <1>4, <1>5, <1>6, <1>7, <1>8, <1>9

(* The waker turns its registration into a queue entry. *)
LEMMA WakeStep ==
    ASSUME TypeFacts, FiberInv, UNCHANGED <<state, ft, cur, cbFiber, pc>>,
           NEW f \in waiters, waiters' = waiters \ {f},
           \A g \in FiberIds : QueuedFiber(fibers', g) <=> QueuedFiber(fibers, g) \/ g = f,
           UniqueFibers(fibers) /\ ~QueuedFiber(fibers, f) => UniqueFibers(fibers')
    PROVE  FiberInv'
<1>1. /\ \A g \in FiberIds : Token(g)' <=> Token(g)
      /\ UniqueFibers(fibers') /\ \A g \in waiters' : ~QueuedFiber(fibers', g)
  BY DEF FiberInv, TypeFacts, OneToken, Token
<1> USE DEF FiberInv, TypeFacts, OnCpu, Hand, OwnerState, Exclusive,
           OneToken, TokenInv, HandInv, CbInv
<1>2. OwnerState'
  BY <1>1
<1>3. Exclusive'
  BY <1>1
<1>4. OneToken'
  BY <1>1
<1>5. TokenInv'
  BY <1>1
<1>6. HandInv'
  BY <1>1
<1>7. CbInv'
  BY <1>1
<1>8. QED
  BY <1>2, <1>3, <1>4, <1>5, <1>6, <1>7

(* schedule() of a fresh fiber. *)
LEMMA NewFiberStep ==
    ASSUME TypeFacts, FiberInv, UNCHANGED <<ft, cur, cbFiber, pc, waiters>>,
           NEW f \in FiberIds, state[f] = "NONE", state'[f] = "INIT",
           \A g \in FiberIds \ {f} : state'[g] = state[g],
           \A g \in FiberIds : QueuedFiber(fibers', g) <=> QueuedFiber(fibers, g) \/ g = f,
           UniqueFibers(fibers) /\ ~QueuedFiber(fibers, f) => UniqueFibers(fibers')
    PROVE  FiberInv'
<1>1. ~Token(f) /\ \A u \in Threads : ~Hand(u, f) /\ cur[u] # f /\ cbFiber[u] # f
  BY DEF FiberInv, TypeFacts, OnCpu, TokenInv, OwnerState, HandInv, CbInv,
     Resettable
<1>2. /\ \A g \in FiberIds : Token(g)' <=> Token(g) \/ g = f
      /\ UniqueFibers(fibers') /\ \A g \in waiters' : ~QueuedFiber(fibers', g)
  BY <1>1 DEF FiberInv, TypeFacts, OneToken, Token
<1> USE DEF FiberInv, TypeFacts, OnCpu, Hand, OwnerState, Exclusive,
           OneToken, TokenInv, HandInv, CbInv
<1>3. OwnerState'
  BY <1>1, <1>2
<1>4. Exclusive'
  BY <1>1, <1>2
<1>5. OneToken'
  BY <1>1, <1>2
<1>6. TokenInv'
  BY <1>1, <1>2
<1>7. HandInv'
  BY <1>1, <1>2
<1>8. CbInv'
  BY <1>1, <1>2
<1>9. QED
  BY <1>3, <1>4, <1>5, <1>6, <1>7, <1>8

-----------------------------------------------------------------------------
(* Nothing is held or under way at the start. *)
LEMMA FiberInit == Init => FiberInv
<1> SUFFICES ASSUME Init PROVE FiberInv
  OBVIOUS
<1>1. /\ \A t \in Threads : cur[t] = NoFiber /\ cbFiber[t] = NoFiber /\ ft[t].fiber = NoFiber
      /\ \A t \in Threads : pc[t] \notin OnCpu \cup {"dispatch"}
      /\ waiters = {} /\ Len(fibers) = 0
  BY DEF Init, NoTask, OnCpu
<1>2. \A f : ~Token(f)
  BY <1>1 DEF Token, QueuedFiber
<1>3. QED
  BY <1>1, <1>2, FiberAssumption DEF FiberInv, OwnerState, Exclusive, OneToken,
     UniqueFibers, TokenInv, HandInv, CbInv, Hand

(* FiberInv is inductive when a fiber that armed its waker suspends next. *)
LEMMA FiberStep ==
    ASSUME Strict, TypeInv, FiberInv, [Next]_vars PROVE FiberInv'
<1>0. /\ TypeFacts /\ Caller \in Threads /\ Runners \subseteq Threads
      /\ fibers \in Seq(Task) /\ fibers' \in Seq(Task)
      /\ UniqueFibers(fibers)
  BY TypeInvFacts, TypeStep DEF TypeInv, TypeOK, FiberInv, OneToken, Threads,
     Runners
<1>t. /\ state \in [FiberIds -> FiberState] /\ pc \in [Threads -> PC]
      /\ cur \in [Threads -> FiberIds \cup {NoFiber}]
      /\ cbFiber \in [Threads -> FiberIds \cup {NoFiber}]
      /\ ft \in [Threads -> FiberAndThread]
  BY DEF TypeInv, TypeOK
<1>b. ASSUME NEW t \in Threads, pc[t] \in OnCpu PROVE cur[t] \in FiberIds
  BY <1>0, <1>b DEF TypeFacts
<1>n. NoTask.fiber = NoFiber
  BY DEF NoTask
<1>1. ASSUME NEW t \in Runners, PickTask(t) PROVE FiberInv'
  <2>1. PICK i \in 1..Len(fibers) :
           /\ FirstEligible(t, i) /\ ft' = [ft EXCEPT ![t] = fibers[i]]
           /\ fibers' = RemoveAt(fibers, i)
    BY <1>1 DEF PickTask
  <2>2. /\ ft'[t] = fibers[i] /\ pc[t] = "pick" /\ pc'[t] = "dispatch"
        /\ \A u \in Threads \ {t} : pc'[u] = pc[u] /\ ft'[u] = ft[u]
        /\ UNCHANGED <<state, cur, cbFiber, waiters>>
    BY <1>1, <1>0, <1>t, <2>1 DEF PickTask
  <2>3. fibers[i].fiber # NoFiber =>
          fibers[i].fiber \in FiberIds /\ state[fibers[i].fiber] # "EXEC"
    BY <1>0, <2>1 DEF FirstEligible, Eligible, Task, FiberAndThread
  <2>4. QueuedFiber(fibers, fibers[i].fiber)
    BY DEF QueuedFiber
  <2>5. /\ \A f : QueuedFiber(fibers', f) => QueuedFiber(fibers, f)
        /\ UniqueFibers(fibers')
        /\ fibers[i].fiber # NoFiber => ~QueuedFiber(fibers', fibers[i].fiber)
    BY <1>0, <2>1, RemoveFacts
  <2>6. QED
    BY <1>0, <2>2, <2>3, <2>4, <2>5, PickStep
<1>2. ASSUME NEW t \in Runners, EnterIdle(t) PROVE FiberInv'
  BY <1>2, <1>0, <1>t, FrameStep, ThreadAssumption DEF EnterIdle, OnCpu, Threads
<1>3. ASSUME NEW t \in Runners, ExitRun(t) PROVE FiberInv'
  BY <1>3, <1>0, <1>t, FrameStep, ThreadAssumption DEF ExitRun, OnCpu, Threads
<1>4. ASSUME NEW t \in Runners, QuietCheck(t) PROVE FiberInv'
  <2>1. \E x \in {"pick", "check"} : pc' = [pc EXCEPT ![t] = x]
    BY <1>4 DEF QuietCheck, LeaveIdle
  <2>2. QED
    BY <1>4, <1>0, <1>t, <2>1, FrameStep DEF QuietCheck, OnCpu
<1>5. ASSUME NEW t \in Runners, IdleCheck(t) PROVE FiberInv'
  BY <1>5, <1>0, <1>t, FrameStep, ThreadAssumption DEF IdleCheck, LeaveIdle,
     OnCpu, Threads
<1>6. ASSUME NEW t \in Runners, DispatchFiber(t) PROVE FiberInv'
  <2>1. PICK f \in FiberIds : f = ft[t].fiber
    BY <1>6, <1>0 DEF DispatchFiber, TypeFacts
  <2>2. /\ Hand(t, f) /\ pc'[t] = "run" /\ cur'[t] = f /\ state'[f] = "EXEC"
        /\ \A u \in Threads \ {t} : pc'[u] = pc[u] /\ cur'[u] = cur[u]
        /\ \A g \in FiberIds \ {f} : state'[g] = state[g]
        /\ UNCHANGED <<fibers, ft, cbFiber, waiters>>
    BY <1>6, <1>0, <1>t, <2>1 DEF DispatchFiber, Hand
  <2>3. QED
    BY <1>0, <2>2, DispatchFiberStep
<1>7. ASSUME NEW t \in Runners, DispatchDead(t) PROVE FiberInv'
  <2>1. PICK f \in FiberIds : f = ft[t].fiber
    BY <1>7, <1>0 DEF DispatchDead, TypeFacts
  <2>2. Hand(t, f) /\ state[f] \in {"TERM", "EXCEPT"}
    BY <1>7, <2>1 DEF DispatchDead, Hand
  <2>3. QED
    BY <1>0, <2>2 DEF FiberInv, HandInv
<1>8. ASSUME NEW t \in Runners, NEW f \in FiberIds, DispatchCb(t, f) PROVE FiberInv'
  <2>1. /\ Hand(t, NoFiber) /\ pc'[t] = "run" /\ cur'[t] = f /\ state'[f] = "EXEC"
        /\ cbFiber'[t] = f /\ ft'[t].fiber = NoFiber
        /\ IF cbFiber[t] # NoFiber THEN f = cbFiber[t] ELSE state[f] = "NONE"
        /\ UNCHANGED <<fibers, waiters>>
    BY <1>8, <1>0, <1>t, <1>n DEF DispatchCb, Hand
  <2>2. /\ \A u \in Threads \ {t} : /\ pc'[u] = pc[u] /\ cur'[u] = cur[u]
                                    /\ cbFiber'[u] = cbFiber[u] /\ ft'[u] = ft[u]
        /\ \A g \in FiberIds \ {f} : state'[g] = state[g]
    BY <1>8, <1>0, <1>t DEF DispatchCb
  <2>3. QED
    BY <1>0, <2>1, <2>2, DispatchCbStep
<1>9. ASSUME NEW t \in Runners, SwapOut(t) PROVE FiberInv'
  BY <1>9, <1>0, <1>t, MoveStep DEF SwapOut, OnCpu
<1>10. ASSUME NEW t \in Runners, Back(t) PROVE FiberInv'
  BY <1>10, <1>0, <1>t, MoveStep DEF Back, OnCpu
<1>11. ASSUME NEW t \in Runners, Post(t) PROVE FiberInv'
  <2>0. cur[t] \in FiberIds
    BY <1>11, <1>0, <1>b DEF Post, OnCpu
  <2>1. /\ pc[t] = "post" /\ pc'[t] = "pick" /\ cur'[t] = NoFiber /\ UNCHANGED waiters
        /\ state'[cur[t]] = AfterRun(t, cur[t]) /\ ft'[t].fiber = NoFiber
        /\ cbFiber'[t] = CbFiberAfter(t, cur[t])
    BY <1>11, <1>0, <1>t, <1>n, <2>0 DEF Post
  <2>2. /\ \A u \in Threads \ {t} : /\ pc'[u] = pc[u] /\ cur'[u] = cur[u]
                                    /\ cbFiber'[u] = cbFiber[u] /\ ft'[u] = ft[u]
        /\ \A g \in FiberIds \ {cur[t]} : state'[g] = state[g]
    BY <1>11, <1>0, <1>t DEF Post
  <2>3. /\ \A g \in FiberIds : QueuedFiber(fibers', g) <=>
              QueuedFiber(fibers, g) \/ (g = cur[t] /\ state[g] = "READY")
        /\ UniqueFibers(fibers) /\ (state[cur[t]] = "READY" =>
              ~QueuedFiber(fibers, cur[t])) => UniqueFibers(fibers')
    <3>1. CASE state[cur[t]] = "READY"
      <4>1. /\ fibers' = Enqueued(fibers, Requeued(cur[t]))
            /\ Requeued(cur[t]) \in Task /\ Requeued(cur[t]).fiber = cur[t]
        BY <1>11, <2>0, <3>1, TaskFacts DEF Post, Requeued, FiberTask
      <4>2. QED
        BY <1>0, <3>1, <4>1, EnqueuedFacts
    <3>2. CASE state[cur[t]] # "READY"
      BY <1>11, <3>2 DEF Post
    <3>3. QED
      BY <3>1, <3>2
  <2>4. QED
    BY <1>0, <2>1, <2>2, <2>3, PostStep
<1>12. ASSUME NEW t \in Runners, NEW j \in Jobs, NEW p \in Runners \cup {AnyThread},
              Spawn(t, j, p)
       PROVE  FiberInv'
  <2>1. /\ CbTask(j, p) \in Task /\ CbTask(j, p).fiber = NoFiber
        /\ fibers' = Enqueued(fibers, CbTask(j, p))
    BY <1>12, <1>0, TaskFacts DEF Spawn, FiberTask, CbTask, Threads, Runners
  <2>2. /\ \A f \in FiberIds : QueuedFiber(fibers', f) <=> QueuedFiber(fibers, f)
        /\ UniqueFibers(fibers')
    BY <1>0, <2>1, EnqueuedFacts, FiberAssumption
  <2>3. QED
    BY <1>12, <1>0, <2>2, FrameStep DEF Spawn
<1>13. ASSUME NEW t \in Runners, Arm(t) PROVE FiberInv'
  <2>1. /\ pc[t] = "run" /\ pc'[t] = "armed" /\ waiters' = waiters \cup {cur[t]}
        /\ \A u \in Threads \ {t} : pc'[u] = pc[u]
        /\ UNCHANGED <<state, ft, cur, cbFiber, fibers>>
    BY <1>13, <1>0, <1>t DEF Arm, MayStep, InJob
  <2>2. QED
    BY <1>0, <2>1, SuspendStep
<1>14. ASSUME NEW t \in Runners, YieldToHold(t) PROVE FiberInv'
  BY <1>14, <1>0, <1>t, MoveStep DEF YieldToHold, InJob, OnCpu
<1>15. ASSUME NEW t \in Runners, YieldToReady(t) PROVE FiberInv'
  <2>1. pc[t] = "run" /\ cur[t] \in FiberIds
    BY <1>15, <1>0, <1>b DEF YieldToReady, MayStep, InJob, OnCpu
  <2>2. /\ pc'[t] = "leave" /\ \A u \in Threads \ {t} : pc'[u] = pc[u]
        /\ state'[cur[t]] = "READY" /\ \A f \in FiberIds \ {cur[t]} : state'[f] = state[f]
        /\ UNCHANGED <<ft, cur, cbFiber, fibers, waiters>>
    BY <1>15, <1>0, <1>t, <2>1 DEF YieldToReady
  <2>3. QED
    BY <1>0, <2>1, <2>2, SettleStep
<1>16. ASSUME NEW t \in Runners, Return(t) PROVE FiberInv'
  <2>1. pc[t] = "run" /\ cur[t] \in FiberIds
    BY <1>16, <1>0, <1>b DEF Return, InJob, OnCpu
  <2>2. /\ pc'[t] = "leave" /\ \A u \in Threads \ {t} : pc'[u] = pc[u]
        /\ state'[cur[t]] = "TERM" /\ \A f \in FiberIds \ {cur[t]} : state'[f] = state[f]
        /\ UNCHANGED <<ft, cur, cbFiber, fibers, waiters>>
    BY <1>16, <1>0, <1>t, <2>1 DEF Return
  <2>3. QED
    BY <1>0, <2>1, <2>2, SettleStep
<1>17. ASSUME NEW t \in Runners, Throw(t) PROVE FiberInv'
  <2>1. pc[t] = "run" /\ cur[t] \in FiberIds
    BY <1>17, <1>0, <1>b DEF Throw, InJob, OnCpu
  <2>2. /\ pc'[t] = "leave" /\ \A u \in Threads \ {t} : pc'[u] = pc[u]
        /\ state'[cur[t]] = "EXCEPT" /\ \A f \in FiberIds \ {cur[t]} : state'[f] = state[f]
        /\ UNCHANGED <<ft, cur, cbFiber, fibers, waiters>>
    BY <1>17, <1>0, <1>t, <2>1 DEF Throw
  <2>3. QED
    BY <1>0, <2>1, <2>2, SettleStep
<1>18. ASSUME NEW t \in Runners, NEW p \in Runners, SwitchTo(t, p) PROVE FiberInv'
  <2>0. pc[t] = "run" /\ cur[t] \in FiberIds
    BY <1>18, <1>0, <1>b DEF SwitchTo, MayStep, InJob, OnCpu
  <2>1. /\ FiberTask(cur[t], p) \in Task /\ FiberTask(cur[t], p).fiber = cur[t]
        /\ fibers' = Enqueued(fibers, FiberTask(cur[t], p))
    BY <1>18, <1>0, <2>0, TaskFacts DEF SwitchTo, FiberTask, CbTask, Threads,
       Runners
  <2>2. /\ \A g \in FiberIds : QueuedFiber(fibers', g) <=>
                                 QueuedFiber(fibers, g) \/ g = cur[t]
        /\ UniqueFibers(fibers) /\ ~QueuedFiber(fibers, cur[t]) => UniqueFibers(fibers')
    BY <1>0, <2>1, EnqueuedFacts
  <2>3. /\ pc'[t] = "armed" /\ \A u \in Threads \ {t} : pc'[u] = pc[u]
        /\ UNCHANGED <<state, ft, cur, cbFiber, waiters>>
    BY <1>18, <1>0, <1>t DEF SwitchTo
  <2>4. QED
    BY <1>0, <2>0, <2>2, <2>3, SuspendStep
<1>19. ASSUME NEW f \in FiberIds, Wake(f) PROVE FiberInv'
  <2>1. /\ FiberTask(f, AnyThread) \in Task /\ FiberTask(f, AnyThread).fiber = f
        /\ fibers' = Enqueued(fibers, FiberTask(f, AnyThread))
    BY <1>19, <1>0, TaskFacts DEF Wake, FiberTask, CbTask, Threads, Runners
  <2>2. /\ \A g \in FiberIds : QueuedFiber(fibers', g) <=> QueuedFiber(fibers, g) \/ g = f
        /\ UniqueFibers(fibers) /\ ~QueuedFiber(fibers, f) => UniqueFibers(fibers')
    BY <1>0, <2>1, EnqueuedFacts
  <2>3. QED
    BY <1>19, <1>0, <2>2, WakeStep DEF Wake
<1>20. ASSUME Start PROVE FiberInv'
  <2>1. \A t \in Threads : pc[t] \in {"main", "stopped", "unborn"}
    BY <1>20 DEF Start, TypeInv, Resting, Threads
  <2>2. QED
    BY <1>20, <1>0, <2>1, FrameStep DEF Start, OnCpu
<1>21. ASSUME NEW j \in Jobs, NEW p \in Runners \cup {AnyThread}, ScheduleCb(j, p)
       PROVE  FiberInv'
  <2>1. /\ CbTask(j, p) \in Task /\ CbTask(j, p).fiber = NoFiber
        /\ fibers' = Enqueued(fibers, CbTask(j, p))
    BY <1>21, <1>0, TaskFacts DEF ScheduleCb, FiberTask, CbTask, Threads, Runners
  <2>2. /\ \A f \in FiberIds : QueuedFiber(fibers', f) <=> QueuedFiber(fibers, f)
        /\ UniqueFibers(fibers')
    BY <1>0, <2>1, EnqueuedFacts, FiberAssumption
  <2>3. QED
    BY <1>21, <1>0, <2>2, FrameStep DEF ScheduleCb
<1>22. ASSUME NEW p \in Runners \cup {AnyThread}, ScheduleNull(p) PROVE FiberInv'
  <2>1. fibers' = fibers
    BY <1>22 DEF ScheduleNull, Enqueued, CbTask
  <2>2. QED
    BY <1>22, <1>0, <2>1, FrameStep DEF ScheduleNull
<1>23. ASSUME NEW j \in Jobs, NEW p \in Runners \cup {AnyThread}, NEW f \in FiberIds,
              ScheduleFiber(j, p, f)
       PROVE  FiberInv'
  <2>1. /\ FiberTask(f, p) \in Task /\ FiberTask(f, p).fiber = f
        /\ fibers' = Enqueued(fibers, FiberTask(f, p))
    BY <1>23, <1>0, TaskFacts DEF ScheduleFiber, FiberTask, CbTask, Threads, Runners
  <2>2. /\ \A g \in FiberIds : QueuedFiber(fibers', g) <=> QueuedFiber(fibers, g) \/ g = f
        /\ UniqueFibers(fibers) /\ ~QueuedFiber(fibers, f) => UniqueFibers(fibers')
    BY <1>0, <2>1, EnqueuedFacts
  <2>3. QED
    BY <1>23, <1>0, <1>t, <2>2, NewFiberStep DEF ScheduleFiber
<1>24. ASSUME StopBegin PROVE FiberInv'
  BY <1>24, <1>0, <1>t, FrameStep, ThreadAssumption DEF StopBegin, OnCpu, Threads
<1>25. ASSUME StopFlag PROVE FiberInv'
  BY <1>25, <1>0, <1>t, FrameStep, ThreadAssumption DEF StopFlag, OnCpu, Threads
<1>26. ASSUME StopQuiet PROVE FiberInv'
  <2>1. /\ pc[Caller] \notin OnCpu \cup {"dispatch"}
        /\ \E x \in {"pick", "stopCheck", "join"} : pc' = [pc EXCEPT ![Caller] = x]
        /\ cbFiber' = cbFiber \/ cbFiber' = [cbFiber EXCEPT ![Caller] = NoFiber]
        /\ UNCHANGED <<state, ft, cur, waiters, fibers>>
    BY <1>26 DEF StopQuiet, CallRoot, OnCpu
  <2>2. QED
    BY <1>0, <1>t, <2>1, FrameStep DEF OnCpu
<1>27. ASSUME StopCheck PROVE FiberInv'
  <2>1. /\ pc[Caller] \notin OnCpu \cup {"dispatch"}
        /\ \E x \in {"pick", "stopCheck", "join"} : pc' = [pc EXCEPT ![Caller] = x]
        /\ cbFiber' = cbFiber \/ cbFiber' = [cbFiber EXCEPT ![Caller] = NoFiber]
        /\ UNCHANGED <<state, ft, cur, waiters, fibers>>
    BY <1>27 DEF StopCheck, CallRoot, OnCpu
  <2>2. QED
    BY <1>0, <1>t, <2>1, FrameStep DEF OnCpu
<1>28. ASSUME Join PROVE FiberInv'
  <2>1. \A t \in Threads : pc[t] \in {"join", "exit"}
    BY <1>28 DEF Join, Threads
  <2>2. QED
    BY <1>28, <1>0, <2>1, FrameStep DEF Join, OnCpu
<1>29. ASSUME UNCHANGED vars PROVE FiberInv'
  BY <1>29, <1>0, FrameStep DEF vars
<1> HIDE DEF FiberInv
<1>30. QED
  BY <1>1, <1>2, <1>3, <1>4, <1>5, <1>6, <1>7, <1>8, <1>9, <1>10, <1>11, <1>12,
     <1>13, <1>14, <1>15, <1>16, <1>17, <1>18, <1>19, <1>20, <1>21, <1>22, <1>23,
     <1>24, <1>25, <1>26, <1>27, <1>28, <1>29, Zenon
     DEF Next, Loop, Fiber, Client, Stop, Stopped

(* The invariant holds throughout. *)
LEMMA FiberInvariant == ASSUME Strict PROVE Spec => [](TypeInv /\ FiberInv)
<1>1. Init => TypeInv /\ FiberInv
  BY TypeInit, FiberInit
<1>2. TypeInv /\ FiberInv /\ [Next]_vars => (TypeInv /\ FiberInv)'
  BY TypeStep, FiberStep
<1>3. QED
  BY <1>1, <1>2, PTL DEF Spec

(* No fiber is ever in the hands of two threads, however many threads,      *)
(* fibers and jobs there are and whatever they do: the check of EXEC under  *)
(* the mutex (scheduler.cpp:172) and the late change to HOLD                *)
(* (scheduler.cpp:200) suffice, as long as a fiber suspends once it is      *)
(* registered with a waker.                                                 *)
THEOREM ExclusiveAlways == ASSUME Strict PROVE Spec => []Exclusive
<1>1. FiberInv => Exclusive
  BY DEF FiberInv
<1>2. QED
  BY <1>1, FiberInvariant, PTL

(* The assertions of swapIn() and reset() (fiber.cpp:127,161) never fail. *)
THEOREM SwapInAssertsAlways == ASSUME Strict PROVE Spec => []SwapInAsserts
<1>1. TypeInv /\ FiberInv => SwapInAsserts
  <2>1. SUFFICES ASSUME TypeInv, FiberInv, NEW t \in Threads, pc[t] = "dispatch"
                 PROVE  IF ft[t].fiber # NoFiber THEN state[ft[t].fiber] # "EXEC"
                        ELSE cbFiber[t] # NoFiber => state[cbFiber[t]] \in Resettable
    BY DEF SwapInAsserts
  <2>2. TypeFacts /\ cur[t] = NoFiber
    BY <2>1, TypeInvFacts DEF TypeFacts, OnCpu
  <2>3. CASE ft[t].fiber # NoFiber
    BY <2>1, <2>2, <2>3 DEF TypeFacts, FiberInv, HandInv, Hand
  <2>4. CASE ft[t].fiber = NoFiber
    BY <2>1, <2>2, <2>4 DEF TypeFacts, FiberInv, CbInv
  <2>5. QED
    BY <2>3, <2>4
<1>2. QED
  BY <1>1, FiberInvariant, PTL
=============================================================================
