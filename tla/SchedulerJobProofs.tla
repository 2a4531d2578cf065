------------------------- MODULE SchedulerJobProofs -------------------------
(***************************************************************************)
(* More proofs about Scheduler, for any number of threads, fibers and jobs *)
(* and any bounds: its counters, what becomes of the jobs, that it         *)
(* implements JobPool, and what stop() leaves behind.                      *)
(***************************************************************************)
EXTENDS SchedulerProofs, FiniteSetTheorems

ActivePC == {"dispatch", "run", "armed", "leave", "back"}
IdlePC == {"idle", "check"}

(* The threads that are somewhere in S. *)
At(p, S) == {t \in Threads : p[t] \in S}

LEMMA ThreadsFinite == IsFiniteSet(Threads) /\ Caller \in Threads /\ Runners \subseteq Threads
BY ThreadAssumption, FS_AddElement DEF Threads, Runners

(* What one thread's move does to the number of threads somewhere in S. *)
LEMMA CountMove ==
    ASSUME NEW p, NEW q, NEW t \in Threads, NEW x, NEW S,
           q[t] = x, \A u \in Threads \ {t} : q[u] = p[u]
    PROVE  /\ (p[t] \in S <=> x \in S) => Cardinality(At(q, S)) = Cardinality(At(p, S))
           /\ p[t] \notin S /\ x \in S => Cardinality(At(q, S)) = Cardinality(At(p, S)) + 1
           /\ p[t] \in S /\ x \notin S => Cardinality(At(q, S)) = Cardinality(At(p, S)) - 1
<1> DEFINE a == At(p, S)  b == At(q, S)
<1>1. /\ (p[t] \in S <=> x \in S) => b = a
      /\ p[t] \notin S /\ x \in S => b = a \cup {t} /\ t \notin a
      /\ p[t] \in S /\ x \notin S => b = a \ {t} /\ t \in a
      /\ a \in SUBSET Threads /\ b \in SUBSET Threads
  BY DEF At
<1>2. IsFiniteSet(a) /\ IsFiniteSet(b)
  BY <1>1, ThreadsFinite, FS_Subset
<1> HIDE DEF a, b
<1>4. p[t] \notin S /\ x \in S => Cardinality(b) = Cardinality(a) + 1
  BY <1>1, <1>2, FS_AddElement
<1>5. p[t] \in S /\ x \notin S => Cardinality(b) = Cardinality(a) - 1
  BY <1>1, <1>2, FS_RemoveElement
<1>6. QED
  BY <1>1, <1>4, <1>5 DEF a, b

Counts(p, n, m) == n = Cardinality(At(p, ActivePC)) /\ m = Cardinality(At(p, IdlePC))

LEMMA CountsExactIs == CountsExact <=> Counts(pc, active, idle)
BY DEF CountsExact, Counts, At, ActivePC, IdlePC

(* A step of one thread, with what it does to the counters. *)
LEMMA CountStep ==
    ASSUME TypeInv, CountsExact, NEW t \in Threads, NEW x, pc' = [pc EXCEPT ![t] = x],
           /\ (pc[t] \in ActivePC <=> x \in ActivePC) => active' = active
           /\ pc[t] \notin ActivePC /\ x \in ActivePC => active' = active + 1
           /\ pc[t] \in ActivePC /\ x \notin ActivePC => active' = active - 1,
           /\ (pc[t] \in IdlePC <=> x \in IdlePC) => idle' = idle
           /\ pc[t] \notin IdlePC /\ x \in IdlePC => idle' = idle + 1
           /\ pc[t] \in IdlePC /\ x \notin IdlePC => idle' = idle - 1
    PROVE  CountsExact'
<1>1. PICK q : q = [pc EXCEPT ![t] = x]
  OBVIOUS
<1>2. q[t] = x /\ \A u \in Threads \ {t} : q[u] = pc[u]
  BY <1>1 DEF TypeInv, TypeOK
<1>3. active = Cardinality(At(pc, ActivePC)) /\ idle = Cardinality(At(pc, IdlePC))
  BY CountsExactIs DEF Counts
<1>4. \A S :
        /\ (pc[t] \in S <=> x \in S) => Cardinality(At(q, S)) = Cardinality(At(pc, S))
        /\ pc[t] \notin S /\ x \in S => Cardinality(At(q, S)) = Cardinality(At(pc, S)) + 1
        /\ pc[t] \in S /\ x \notin S => Cardinality(At(q, S)) = Cardinality(At(pc, S)) - 1
  BY <1>2, CountMove
<1>5. active' = Cardinality(At(q, ActivePC))
  BY <1>3, <1>4
<1>6. idle' = Cardinality(At(q, IdlePC))
  BY <1>3, <1>4
<1>7. QED
  BY <1>1, <1>5, <1>6 DEF CountsExact, At, ActivePC, IdlePC

(* A step after which the same threads are in run() and in idle(). *)
LEMMA CountFrame ==
    ASSUME CountsExact, UNCHANGED <<active, idle>>,
           \A t \in Threads : /\ pc[t] \in ActivePC <=> pc'[t] \in ActivePC
                              /\ pc[t] \in IdlePC <=> pc'[t] \in IdlePC
    PROVE  CountsExact'
<1>1. /\ {t \in Threads : pc'[t] \in ActivePC} = {t \in Threads : pc[t] \in ActivePC}
      /\ {t \in Threads : pc'[t] \in IdlePC} = {t \in Threads : pc[t] \in IdlePC}
  OBVIOUS
<1>2. QED
  BY <1>1 DEF CountsExact, ActivePC, IdlePC

LEMMA CountNext ==
    ASSUME TypeInv, CountsExact, [Next]_vars PROVE CountsExact'
<1>0. Caller \in Threads /\ (\A t \in Runners : t \in Threads)
  BY ThreadsFinite
<1> USE DEF ActivePC, IdlePC
<1>1. ASSUME NEW t \in Runners, Loop(t) PROVE CountsExact'
  <2>1. CASE PickTask(t) \/ EnterIdle(t) \/ SwapOut(t) \/ Back(t) \/ Post(t)
    BY <1>0, <2>1, CountStep DEF PickTask, EnterIdle, SwapOut, Back, Post
  <2>a. CASE DispatchFiber(t)
    BY <1>0, <2>a, CountStep DEF DispatchFiber
  <2>b. CASE DispatchDead(t) \/ IdleCheck(t)
    BY <1>0, <2>b, CountStep DEF DispatchDead, IdleCheck, LeaveIdle
  <2>c. CASE \E f \in FiberIds : DispatchCb(t, f)
    <3>1. pc[t] = "dispatch" /\ pc' = [pc EXCEPT ![t] = "run"] /\ UNCHANGED <<active, idle>>
      BY <2>c DEF DispatchCb
    <3>2. QED
      BY <1>0, <3>1, CountStep
  <2>2. CASE ExitRun(t)
    BY <1>0, <2>2, CountStep DEF ExitRun
  <2>3. CASE QuietCheck(t)
    BY <1>0, <2>3, CountStep DEF QuietCheck, LeaveIdle
  <2>4. QED
    BY <1>1, <2>1, <2>a, <2>b, <2>c, <2>2, <2>3 DEF Loop
<1>2. ASSUME NEW t \in Runners, Fiber(t) PROVE CountsExact'
  <2>1. CASE \E j \in Jobs, p \in Runners \cup {AnyThread} : Spawn(t, j, p)
    BY <2>1, CountFrame DEF Spawn
  <2>2. CASE Arm(t) \/ YieldToHold(t)
    BY <1>0, <2>2, CountStep DEF Arm, YieldToHold, MayStep, InJob
  <2>3. CASE YieldToReady(t) \/ Return(t) \/ Throw(t) \/ \E p \in Runners : SwitchTo(t, p)
    BY <1>0, <2>3, CountStep DEF YieldToReady, Return, Throw, SwitchTo, MayStep, InJob
  <2>4. QED
    BY <1>2, <2>1, <2>2, <2>3 DEF Fiber
<1>3. ASSUME NEW f \in FiberIds, Wake(f) PROVE CountsExact'
  BY <1>3, CountFrame DEF Wake
<1>4. ASSUME Start PROVE CountsExact'
  <2>1. \A t \in Threads : pc[t] \in {"main", "stopped", "unborn"} /\ pc'[t] \in {"pick", "main"}
    BY <1>4 DEF Start, TypeInv, Resting, Threads
  <2>2. QED
    BY <1>4, <2>1, CountFrame DEF Start
<1>5. ASSUME Client, ~Start PROVE CountsExact'
  BY <1>5, CountFrame DEF Client, ScheduleCb, ScheduleNull, ScheduleFiber
<1>6. ASSUME StopBegin \/ StopFlag \/ StopQuiet \/ StopCheck PROVE CountsExact'
  BY <1>0, <1>6, CountStep DEF StopBegin, StopFlag, StopQuiet, StopCheck, CallRoot
<1>7. ASSUME Join PROVE CountsExact'
  <2>1. \A t \in Threads : pc[t] \in {"join", "exit"} /\ pc'[t] \in {"stopped", "unborn"}
    BY <1>7 DEF Join, Threads
  <2>2. QED
    BY <1>7, <2>1, CountFrame DEF Join
<1>8. ASSUME UNCHANGED vars PROVE CountsExact'
  BY <1>8, CountFrame DEF vars
<1>9. QED
  BY <1>1, <1>2, <1>3, <1>4, <1>5, <1>6, <1>7, <1>8 DEF Next, Stop, Stopped

(* activeThreadCount_ and idleThreadCount_ are exact, for any number of       *)
(* threads and on every path through run() (scheduler.cpp:180-241): stopping() *)
(* sees neither a leaked count, which would keep stop() from returning, nor    *)
(* one too few, which would let threads leave with work in hand.               *)
THEOREM CountsAlwaysExact == Spec => []CountsExact
<1>1. Init => CountsExact
  <2> SUFFICES ASSUME Init PROVE CountsExact
    OBVIOUS
  <2>1. /\ {t \in Threads : pc[t] \in ActivePC} = {} /\ {t \in Threads : pc[t] \in IdlePC} = {}
        /\ active = 0 /\ idle = 0
    BY DEF Init, ActivePC, IdlePC
  <2>2. QED
    BY <2>1, FS_EmptySet DEF CountsExact, ActivePC, IdlePC
<1>2. TypeInv /\ CountsExact /\ [Next]_vars => (TypeInv /\ CountsExact)'
  BY TypeStep, CountNext
<1>3. QED
  BY <1>1, <1>2, TypeInit, PTL DEF Spec

-----------------------------------------------------------------------------
(* What fibers_ holds, and the entries that threads have popped and not       *)
(* dispatched yet.                                                            *)
Entries(q) == {q[i] : i \in 1..Len(q)}
Distinct(q) == \A i, k \in 1..Len(q) : i # k => q[i] # q[k]
Hands == {ft[t] : t \in {u \in Threads : pc[u] = "dispatch"}}
Waiting == Entries(fibers) \cup Hands

(* A job that has been submitted for thread p and not entered. *)
Waits(j, p) == jobs[j].phase = "queued" /\ jobs[j].runs = 0 /\ jobs[j].thread = p

(* A fiber with a callback that is not over. *)
Live(f) == state[f] \in {"INIT", "HOLD", "READY", "EXEC"} /\ cb[f] # NoJob

(* A fiber that runs, or that somebody will resume. *)
Cared(f) ==
    \/ f \in waiters
    \/ \E t \in Threads : cur[t] = f
    \/ \E x \in Waiting : x.fiber = f

(* An entry is in one place, and in the hand of a thread it names. *)
EntryInv ==
    /\ Distinct(fibers)
    /\ \A t \in Threads : pc[t] = "dispatch" =>
         ft[t] \in Task /\ ft[t] \notin Entries(fibers) /\ ft[t].thread \in {AnyThread, t}
    /\ \A t, u \in Threads : t # u /\ pc[t] = "dispatch" /\ pc[u] = "dispatch" => ft[t] # ft[u]
    /\ \A x \in Waiting : x.fiber # NoFiber => x.cb = NoJob

(* A job has one home: an entry, or a fiber. *)
HomeInv ==
    /\ \A x, y \in Waiting : x.cb = y.cb /\ x.cb # NoJob => x = y
    /\ \A f, g \in FiberIds : Live(f) /\ Live(g) /\ cb[f] = cb[g] => f = g
    /\ \A x \in Waiting, f \in FiberIds : Live(f) => cb[f] # x.cb

(* What its home says of a job's history. *)
PhaseInv ==
    /\ \A x \in Waiting : x.cb # NoJob => Waits(x.cb, x.thread)
    /\ \A x \in Waiting : x.fiber # NoFiber =>
         (state[x.fiber] = "INIT" /\ cb[x.fiber] # NoJob => Waits(cb[x.fiber], x.thread))
    /\ \A f \in FiberIds : Live(f) =>
         IF state[f] = "INIT" THEN Waits(cb[f], jobs[cb[f]].thread)
         ELSE jobs[cb[f]].phase = "started"
    /\ \A j \in Jobs : jobs[j].phase = "new" => jobs[j].runs = 0

(* How a fiber leaves its thread: suspended with a wake-up under way, READY, or over. *)
LeaveInv ==
    /\ \A f \in waiters : state[f] \in {"HOLD", "EXEC"}
    /\ \A t \in Threads : pc[t] = "leave" => state[cur[t]] # "EXEC"
    /\ \A t \in Threads : pc[t] \in {"armed", "back", "post"} /\ state[cur[t]] = "EXEC" => Token(cur[t])
    /\ \A t \in Threads : pc[t] \in OnCpu /\ state[cur[t]] \in {"TERM", "EXCEPT"} /\ cb[cur[t]] # NoJob
         => jobs[cb[cur[t]]].phase = "done"

(* Every unfinished job has a home, and its fiber is cared for. *)
CareInv ==
    \A j \in Jobs : jobs[j].phase \in {"queued", "started"} =>
        \/ \E x \in Waiting : x.cb = j
        \/ \E f \in FiberIds : cb[f] = j /\ Cared(f)

JobInv == EntryInv /\ HomeInv /\ PhaseInv /\ LeaveInv /\ CareInv

-----------------------------------------------------------------------------
(* The entries after scheduleNoLock, and after run() has popped one. *)
LEMMA EnqueuedEntries ==
    ASSUME NEW q \in Seq(Task), NEW e \in Task
    PROVE  /\ Enqueued(q, e) \in Seq(Task)
           /\ Entries(Enqueued(q, e)) = Entries(q) \cup {e}
           /\ Distinct(q) /\ e \notin Entries(q) => Distinct(Enqueued(q, e))
<1>1. Enqueued(q, e) = Append(q, e)
  BY DEF Enqueued, Task
<1> DEFINE r == Append(q, e)
<1>2. /\ r \in Seq(Task) /\ Len(r) = Len(q) + 1 /\ Len(q) \in Nat
      /\ \A i \in 1..Len(q) : r[i] = q[i]
      /\ r[Len(q) + 1] = e
  OBVIOUS
<1> HIDE DEF r
<1>3. Entries(r) = Entries(q) \cup {e}
  <2>1. \A x \in Entries(r) : x \in Entries(q) \cup {e}
    BY <1>2 DEF Entries
  <2>2. \A x \in Entries(q) : x \in Entries(r)
    BY <1>2 DEF Entries
  <2>3. e \in Entries(r)
    BY <1>2 DEF Entries
  <2>4. QED
    BY <2>1, <2>2, <2>3
<1>4. ASSUME Distinct(q), e \notin Entries(q) PROVE Distinct(r)
  <2>1. \A i \in 1..Len(q) : r[i] # e
    BY <1>2, <1>4 DEF Entries
  <2>2. QED
    BY <1>2, <1>4, <2>1 DEF Distinct
<1>5. QED
  BY <1>1, <1>2, <1>3, <1>4 DEF r

LEMMA RemovedEntries ==
    ASSUME NEW q \in Seq(Task), NEW i \in 1..Len(q), Distinct(q)
    PROVE  /\ Entries(RemoveAt(q, i)) = Entries(q) \ {q[i]}
           /\ Distinct(RemoveAt(q, i)) /\ q[i] \in Entries(q)
<1> DEFINE r == RemoveAt(q, i)
<1>1. /\ Len(q) \in Nat /\ Len(r) = Len(q) - 1
      /\ \A k \in 1..(i - 1) : r[k] = q[k]
      /\ \A k \in i..(Len(q) - 1) : r[k] = q[k + 1]
  <2> DEFINE a == SubSeq(q, 1, i - 1)
             b == SubSeq(q, i + 1, Len(q))
  <2>1. /\ Len(q) \in Nat /\ i \in Int
        /\ a \in Seq(Task) /\ Len(a) = i - 1 /\ \A k \in 1..Len(a) : a[k] = q[k]
    OBVIOUS
  <2>2. /\ b \in Seq(Task) /\ Len(b) = Len(q) - i
        /\ \A k \in 1..Len(b) : b[k] = q[k + i]
    OBVIOUS
  <2>3. r = a \o b
    BY DEF RemoveAt
  <2> HIDE DEF a, b, r
  <2>4. /\ Len(r) = Len(a) + Len(b)
        /\ \A k \in 1..(Len(a) + Len(b)) :
             r[k] = IF k <= Len(a) THEN a[k] ELSE b[k - Len(a)]
    BY <2>1, <2>2, <2>3, ConcatProperties
  <2>5. ASSUME NEW k \in 1..(i - 1) PROVE r[k] = q[k]
    <3>1. k \in 1..(Len(a) + Len(b)) /\ k <= Len(a) /\ k \in 1..Len(a)
      BY <2>1, <2>2
    <3>2. QED
      BY <2>1, <2>4, <3>1
  <2>6. ASSUME NEW k \in i..(Len(q) - 1) PROVE r[k] = q[k + 1]
    <3>0. k \in 1..(Len(a) + Len(b)) /\ ~(k <= Len(a)) /\ k - Len(a) \in 1..Len(b)
      BY <2>1, <2>2
    <3>1. k - Len(a) \in 1..Len(b) /\ r[k] = b[k - Len(a)]
      BY <2>4, <3>0
    <3>2. b[k - Len(a)] = q[k - Len(a) + i] /\ k - Len(a) + i = k + 1
      BY <2>1, <2>2, <3>1
    <3>3. QED
      BY <3>1, <3>2
  <2>7. QED
    BY <2>1, <2>2, <2>4, <2>5, <2>6
<1> HIDE DEF r
<1>2. \A x \in Entries(r) : x \in Entries(q) \ {q[i]}
  <2> SUFFICES ASSUME NEW k \in 1..Len(r) PROVE r[k] \in Entries(q) \ {q[i]}
    BY DEF Entries
  <2>1. CASE k < i
    BY <1>1, <2>1 DEF Entries, Distinct
  <2>2. CASE ~(k < i)
    <3>1. k \in i..(Len(q) - 1) /\ k + 1 \in 1..Len(q) /\ k + 1 # i
      BY <1>1, <2>2
    <3>2. QED
      BY <1>1, <3>1 DEF Entries, Distinct
  <2>3. QED
    BY <2>1, <2>2
<1>3. \A x \in Entries(q) \ {q[i]} : x \in Entries(r)
  <2> SUFFICES ASSUME NEW k \in 1..Len(q), q[k] # q[i] PROVE q[k] \in Entries(r)
    BY DEF Entries
  <2>1. CASE k < i
    <3>1. k \in 1..Len(r) /\ r[k] = q[k]
      BY <1>1, <2>1
    <3>2. QED
      BY <3>1 DEF Entries
  <2>2. CASE ~(k < i)
    <3>1. k - 1 \in 1..Len(r) /\ k - 1 \in i..(Len(q) - 1) /\ (k - 1) + 1 = k
      BY <1>1, <2>2
    <3>2. r[k - 1] = q[k]
      BY <1>1, <3>1
    <3>3. QED
      BY <3>1, <3>2 DEF Entries
  <2>3. QED
    BY <2>1, <2>2
<1>4. Distinct(r)
  <2> SUFFICES ASSUME NEW k \in 1..Len(r), NEW l \in 1..Len(r), k < l PROVE r[k] # r[l]
    BY <1>1 DEF Distinct
  <2>1. CASE l < i
    BY <1>1, <2>1 DEF Distinct
  <2>2. CASE k < i /\ ~(l < i)
    <3>1. l \in i..(Len(q) - 1) /\ l + 1 \in 1..Len(q) /\ k # l + 1 /\ k \in 1..Len(q) /\ k \in 1..(i - 1)
      BY <1>1, <2>2
    <3>2. QED
      BY <1>1, <3>1 DEF Distinct
  <2>3. CASE ~(k < i)
    <3>1. /\ k \in i..(Len(q) - 1) /\ l \in i..(Len(q) - 1) /\ k + 1 # l + 1
          /\ k + 1 \in 1..Len(q) /\ l + 1 \in 1..Len(q)
      BY <1>1, <2>3
    <3>2. QED
      BY <1>1, <3>1 DEF Distinct
  <2>4. QED
    BY <2>1, <2>2, <2>3
<1>5. q[i] \in Entries(q)
  BY DEF Entries
<1>6. QED
  BY <1>2, <1>3, <1>4, <1>5 DEF r

(* Queued fibers, seen through the entries. *)
LEMMA QueuedEntries ==
    ASSUME NEW q, NEW f PROVE QueuedFiber(q, f) <=> \E x \in Entries(q) : x.fiber = f
BY DEF QueuedFiber, Entries

-----------------------------------------------------------------------------
(* What the proofs below use of the types. *)
JobTypes ==
    /\ NoFiber \notin FiberIds /\ NoJob \notin Jobs
    /\ fibers \in Seq(Task) /\ Entries(fibers) \subseteq Task
    /\ state \in [FiberIds -> FiberState] /\ cb \in [FiberIds -> Jobs \cup {NoJob}]
    /\ pc \in [Threads -> PC] /\ ft \in [Threads -> FiberAndThread]
    /\ cur \in [Threads -> FiberIds \cup {NoFiber}]
    /\ jobs \in [Jobs -> JobRecord] /\ waiters \subseteq FiberIds

LEMMA JobTypesHold ==
    ASSUME TypeInv PROVE JobTypes
<1>1. fibers \in Seq(Task)
  BY DEF TypeInv, TypeOK
<1>2. Entries(fibers) \subseteq Task
  BY <1>1 DEF Entries
<1>3. QED
  BY <1>1, <1>2, FiberAssumption DEF TypeInv, TypeOK, JobTypes, JobRecord

(* An entry names a fiber or a callback, and has fields of their types. *)
LEMMA WaitingTyped ==
    ASSUME JobTypes, EntryInv
    PROVE  \A x \in Waiting : /\ x \in Task /\ x.fiber \in FiberIds \cup {NoFiber}
                              /\ x.cb \in Jobs \cup {NoJob}
                              /\ (x.fiber # NoFiber <=> x.cb = NoJob)
<1>1. \A x \in Waiting : x \in Task
  BY DEF JobTypes, EntryInv, Waiting, Hands
<1>2. QED
  BY <1>1 DEF EntryInv, Task, FiberAndThread

(* Steps that leave the queue and the popped entries alone. *)
LEMMA EntryKeep ==
    ASSUME EntryInv, UNCHANGED fibers,
           \A u \in Threads : /\ pc'[u] = "dispatch" <=> pc[u] = "dispatch"
                              /\ pc[u] = "dispatch" => ft'[u] = ft[u]
    PROVE  EntryInv' /\ Waiting' = Waiting
<1>1. Hands' = Hands
  BY DEF Hands
<1>2. Entries(fibers)' = Entries(fibers) /\ Distinct(fibers)' = Distinct(fibers)
  BY DEF Entries, Distinct
<1>3. QED
  BY <1>1, <1>2 DEF EntryInv, Waiting

(* schedule() adds an entry that is not there yet. *)
LEMMA EntryAdd ==
    ASSUME JobTypes, EntryInv, NEW e \in Task, fibers' = Enqueued(fibers, e),
           e \notin Waiting, e.fiber # NoFiber => e.cb = NoJob,
           \A u \in Threads : /\ pc'[u] = "dispatch" <=> pc[u] = "dispatch"
                              /\ pc[u] = "dispatch" => ft'[u] = ft[u]
    PROVE  EntryInv' /\ Waiting' = Waiting \cup {e}
<1>1. Hands' = Hands
  BY DEF Hands
<1>2. Entries(fibers)' = Entries(fibers) \cup {e} /\ Distinct(fibers)'
  BY EnqueuedEntries DEF JobTypes, EntryInv, Waiting
<1>3. \A u \in Threads : pc[u] = "dispatch" => ft[u] # e
  BY DEF Waiting, Hands
<1>4. Waiting' = Waiting \cup {e}
  BY <1>1, <1>2 DEF Waiting
<1>5. QED
  BY <1>2, <1>3, <1>4 DEF EntryInv

(* run() pops an entry. *)
LEMMA EntryPick ==
    ASSUME JobTypes, EntryInv, NEW t \in Threads, NEW i \in 1..Len(fibers),
           fibers' = RemoveAt(fibers, i), pc[t] = "pick", pc'[t] = "dispatch",
           ft'[t] = fibers[i], fibers[i].thread \in {AnyThread, t},
           \A u \in Threads \ {t} : pc'[u] = pc[u] /\ ft'[u] = ft[u]
    PROVE  EntryInv' /\ Waiting' = Waiting
<1>1. PICK e : e = fibers[i]
  OBVIOUS
<1>2. Entries(fibers)' = Entries(fibers) \ {e} /\ Distinct(fibers)' /\ e \in Entries(fibers)
  BY <1>1, RemovedEntries DEF JobTypes, EntryInv
<1>3. Hands' = Hands \cup {e} /\ e \notin Hands /\ e \in Task
  <2>1. \A x : x \in Hands' <=> x \in Hands \/ x = e
    BY <1>1 DEF Hands
  <2>2. e \notin Hands
    BY <1>2 DEF EntryInv, Hands
  <2>3. e \in Task
    BY <1>2 DEF JobTypes
  <2>4. QED
    BY <2>1, <2>2, <2>3
<1>4. Waiting' = Waiting
  BY <1>2, <1>3 DEF Waiting
<1>5. \A u \in Threads : pc'[u] = "dispatch" =>
        ft'[u] \in Task /\ ft'[u] \notin Entries(fibers)' /\ ft'[u].thread \in {AnyThread, u}
  BY <1>1, <1>2, <1>3 DEF EntryInv
<1>6. \A u, v \in Threads : u # v /\ pc'[u] = "dispatch" /\ pc'[v] = "dispatch" => ft'[u] # ft'[v]
  BY <1>1, <1>3 DEF EntryInv, Hands
<1>7. QED
  BY <1>2, <1>4, <1>5, <1>6 DEF EntryInv

(* run() has swapped into the fiber of its entry, or dropped the entry. *)
LEMMA EntryDispatch ==
    ASSUME EntryInv, UNCHANGED fibers, NEW t \in Threads, pc[t] = "dispatch", pc'[t] # "dispatch",
           \A u \in Threads \ {t} : pc'[u] = pc[u] /\ ft'[u] = ft[u]
    PROVE  EntryInv' /\ Waiting' = Waiting \ {ft[t]} /\ ft[t] \in Waiting
<1>1. Entries(fibers)' = Entries(fibers) /\ Distinct(fibers)' = Distinct(fibers)
  BY DEF Entries, Distinct
<1>2. Hands' = Hands \ {ft[t]}
  <2>1. \A x : x \in Hands' <=> x \in Hands /\ x # ft[t]
    BY DEF Hands, EntryInv
  <2>2. QED
    BY <2>1
<1>3. Waiting' = Waiting \ {ft[t]} /\ ft[t] \in Waiting
  BY <1>1, <1>2 DEF Waiting, EntryInv, Hands
<1>4. QED
  BY <1>1, <1>3 DEF EntryInv

-----------------------------------------------------------------------------
(* Where a fiber is, by FiberInv: what is new or over is nowhere, and what a   *)
(* thread runs is nowhere else.                                                *)
LEMMA Nowhere ==
    ASSUME TypeFacts, JobTypes, EntryInv, FiberInv, NEW f \in FiberIds,
           state[f] = "NONE" \/ \E t \in Threads : /\ cbFiber[t] = f /\ pc[t] = "dispatch"
    PROVE  ~Cared(f)
<1>1. ~Token(f)
  BY DEF FiberInv, TokenInv, TypeFacts, OnCpu
<1>2. \A t \in Threads : ~Hand(t, f)
  BY DEF FiberInv, HandInv
<1>3. \A t \in Threads : cur[t] # f
  BY DEF FiberInv, OwnerState, CbInv, TypeFacts, OnCpu
<1>4. \A x \in Waiting : x.fiber # f
  BY <1>1, <1>2, QueuedEntries DEF Waiting, Hands, Token, Hand
<1>5. QED
  BY <1>1, <1>3, <1>4 DEF Cared, Token

LEMMA RunsAlone ==
    ASSUME TypeFacts, JobTypes, EntryInv, FiberInv, NEW t \in Threads, pc[t] = "run"
    PROVE  /\ cur[t] \in FiberIds /\ state[cur[t]] = "EXEC" /\ ~Token(cur[t])
           /\ \A x \in Waiting : x.fiber # cur[t]
           /\ \A u \in Threads \ {t} : cur[u] # cur[t]
<1>1. cur[t] \in FiberIds /\ state[cur[t]] = "EXEC"
  BY DEF FiberInv, OwnerState, TypeFacts, OnCpu
<1>2. ~Token(cur[t])
  BY <1>1 DEF FiberInv, TokenInv
<1>3. \A u \in Threads : ~Hand(u, cur[t])
  BY <1>1 DEF FiberInv, HandInv
<1>4. \A x \in Waiting : x.fiber # cur[t]
  BY <1>2, <1>3, QueuedEntries DEF Waiting, Hands, Token, Hand
<1>5. \A u \in Threads \ {t} : cur[u] # cur[t]
  BY <1>1 DEF FiberInv, Exclusive, JobTypes
<1>6. QED
  BY <1>1, <1>2, <1>4, <1>5

(* Steps that move neither a job nor a fiber. *)
LEMMA HomeKeep ==
    ASSUME JobInv, UNCHANGED <<state, cb, cur, waiters, jobs>>, Waiting' = Waiting
    PROVE  HomeInv' /\ PhaseInv' /\ CareInv'
<1>1. HomeInv'
  BY DEF JobInv, HomeInv, Live
<1>2. PhaseInv'
  BY DEF JobInv, PhaseInv, Live, Waits
<1>3. CareInv'
  BY DEF JobInv, CareInv, Cared
<1>4. QED
  BY <1>1, <1>2, <1>3

LEMMA JobFrame ==
    ASSUME JobInv, UNCHANGED <<fibers, state, cb, ft, cur, waiters, jobs>>,
           \A u \in Threads : \/ pc'[u] = pc[u]
                              \/ {pc[u], pc'[u]} \cap (OnCpu \cup {"dispatch"}) = {}
    PROVE  JobInv'
<1>1. EntryInv' /\ Waiting' = Waiting
  BY EntryKeep DEF JobInv
<1>2. LeaveInv'
  BY DEF JobInv, LeaveInv, Token, OnCpu
<1>3. QED
  BY <1>1, <1>2, HomeKeep DEF JobInv

LEMMA JobMove ==
    ASSUME JobInv, UNCHANGED <<fibers, state, cb, ft, cur, waiters, jobs>>,
           NEW t \in Threads, pc[t] \in OnCpu, pc'[t] \in {"back", "post"},
           pc[t] = "run" => Token(cur[t]),
           \A u \in Threads \ {t} : pc'[u] = pc[u]
    PROVE  JobInv'
<1>1. EntryInv' /\ Waiting' = Waiting
  BY EntryKeep DEF JobInv, OnCpu
<1>2. LeaveInv'
  BY DEF JobInv, LeaveInv, Token, OnCpu
<1>3. QED
  BY <1>1, <1>2, HomeKeep DEF JobInv

LEMMA JobPick ==
    ASSUME TypeFacts, JobTypes, JobInv, NEW t \in Threads, PickTask(t) PROVE JobInv'
<1>1. PICK i \in 1..Len(fibers) :
         /\ ft' = [ft EXCEPT ![t] = fibers[i]] /\ fibers' = RemoveAt(fibers, i)
         /\ fibers[i].thread \in {AnyThread, t}
         /\ fibers[i].fiber # NoFiber => state[fibers[i].fiber] # "EXEC"
  BY DEF PickTask, FirstEligible, Eligible
<1>2. /\ pc[t] = "pick" /\ pc'[t] = "dispatch" /\ ft'[t] = fibers[i]
      /\ \A u \in Threads \ {t} : pc'[u] = pc[u] /\ ft'[u] = ft[u]
      /\ UNCHANGED <<state, cb, cur, waiters, jobs>>
  BY <1>1 DEF PickTask, JobTypes
<1>3. EntryInv' /\ Waiting' = Waiting
  BY <1>1, <1>2, EntryPick DEF JobInv
<1>4. Entries(fibers)' = Entries(fibers) \ {fibers[i]}
  BY <1>1, RemovedEntries DEF JobTypes, JobInv, EntryInv
<1>5. LeaveInv'
  <2>1. \A f : f # NoFiber /\ Token(f) /\ state[f] = "EXEC" => Token(f)'
    BY <1>1, <1>2, <1>4, QueuedEntries DEF Token
  <2>2. \A u \in Threads : pc'[u] \in OnCpu => pc'[u] = pc[u]
    BY <1>2 DEF OnCpu
  <2>3. \A u \in Threads : pc'[u] \in {"armed", "back", "post"} /\ state'[cur'[u]] = "EXEC" => Token(cur[u])'
    <3> SUFFICES ASSUME NEW u \in Threads, pc'[u] \in {"armed", "back", "post"}, state'[cur'[u]] = "EXEC"
                 PROVE  Token(cur[u])'
      OBVIOUS
    <3>1. Token(cur[u]) /\ state[cur[u]] = "EXEC"
      BY <1>2, <2>2 DEF JobInv, LeaveInv, OnCpu
    <3>2. cur[u] # NoFiber
      BY <2>2 DEF TypeFacts, OnCpu
    <3>3. QED
      BY <1>2, <2>1, <3>1, <3>2
  <2>4. QED
    BY <1>2, <2>2, <2>3 DEF JobInv, LeaveInv, OnCpu
<1>6. QED
  BY <1>2, <1>3, <1>5, HomeKeep DEF JobInv

(* schedule(cb, thread): a job that is new has no home. *)
LEMMA NewHomeless ==
    ASSUME JobTypes, JobInv, NEW j \in Jobs, jobs[j].phase = "new"
    PROVE  /\ \A x \in Waiting : x.cb # j
           /\ \A f \in FiberIds : Live(f) => cb[f] # j
<1>1. \A x \in Waiting : x.cb # j
  BY DEF JobTypes, JobInv, PhaseInv, Waits
<1>2. \A f \in FiberIds : Live(f) => cb[f] # j
  BY DEF JobInv, PhaseInv, Waits
<1>3. QED
  BY <1>1, <1>2

(* A job's history after it was submitted. *)
LEMMA SubmittedFacts ==
    ASSUME JobTypes, NEW j \in Jobs, NEW p \in Threads \cup {AnyThread}
    PROVE  /\ \A k \in Jobs \ {j} : Submitted(j, p)[k] = jobs[k]
           /\ Submitted(j, p)[j].phase = "queued" /\ Submitted(j, p)[j].thread = p
           /\ Submitted(j, p)[j].runs = jobs[j].runs
BY DEF Submitted, JobTypes, JobRecord

LEMMA JobSubmit ==
    ASSUME TypeFacts, JobTypes, JobInv, NEW j \in Jobs, NEW p \in Threads \cup {AnyThread},
           jobs[j].phase = "new", fibers' = Enqueued(fibers, CbTask(j, p)),
           jobs' = Submitted(j, p), UNCHANGED <<state, cb, pc, ft, cur, waiters>>
    PROVE  JobInv'
<1>1. PICK e : e = CbTask(j, p)
  OBVIOUS
<1>2. e \in Task /\ e.fiber = NoFiber /\ e.cb = j /\ e.thread = p /\ j # NoJob
  BY <1>1, TaskFacts DEF CbTask, JobTypes
<1>3. /\ \A k \in Jobs \ {j} : jobs'[k] = jobs[k]
      /\ jobs'[j].phase = "queued" /\ jobs'[j].thread = p /\ jobs'[j].runs = jobs[j].runs
  BY SubmittedFacts
<1>4. /\ \A x \in Waiting : x.cb # j
      /\ \A f \in FiberIds : Live(f) => cb[f] # j
  BY NewHomeless
<1>5. EntryInv' /\ Waiting' = Waiting \cup {e}
  BY <1>1, <1>2, <1>4, EntryAdd DEF JobInv
<1>6. \A x \in Waiting : x.cb \in Jobs \cup {NoJob}
  BY WaitingTyped DEF JobInv
<1>7. \A f \in FiberIds : Live(f)' <=> Live(f)
  BY DEF Live
<1>8. HomeInv'
  BY <1>2, <1>4, <1>5, <1>7 DEF JobInv, HomeInv
<1>9. PhaseInv'
  <2>1. jobs[j].runs = 0
    BY DEF JobInv, PhaseInv
  <2>2. \A x \in Waiting' : x.cb # NoJob => Waits(x.cb, x.thread)'
    BY <1>2, <1>3, <1>4, <1>5, <1>6, <2>1 DEF JobInv, PhaseInv, Waits
  <2>3. \A x \in Waiting' : x.fiber # NoFiber =>
          (state'[x.fiber] = "INIT" /\ cb'[x.fiber] # NoJob => Waits(cb[x.fiber], x.thread)')
    <3> SUFFICES ASSUME NEW x \in Waiting, x.fiber # NoFiber, state[x.fiber] = "INIT", cb[x.fiber] # NoJob
                 PROVE  Waits(cb[x.fiber], x.thread)'
      BY <1>2, <1>5
    <3>1. x.fiber \in FiberIds /\ Live(x.fiber)
      BY WaitingTyped DEF JobInv, Live
    <3>2. cb[x.fiber] \in Jobs \ {j}
      BY <1>4, <3>1 DEF JobTypes
    <3>3. Waits(cb[x.fiber], x.thread)
      BY DEF JobInv, PhaseInv
    <3>4. QED
      BY <1>3, <3>2, <3>3 DEF Waits
  <2>4. ASSUME NEW f \in FiberIds, Live(f)
        PROVE  IF state[f] = "INIT" THEN Waits(cb[f], jobs[cb[f]].thread)'
               ELSE jobs'[cb[f]].phase = "started"
    <3>1. cb[f] \in Jobs \ {j}
      BY <1>4, <2>4 DEF JobTypes, Live
    <3>2. QED
      BY <1>3, <2>4, <3>1 DEF JobInv, PhaseInv, Waits
  <2>5. QED
    BY <1>3, <1>7, <2>2, <2>3, <2>4 DEF JobInv, PhaseInv
<1>10. LeaveInv'
  <2>1. \A f : Token(f) => Token(f)'
    BY <1>1, <1>2, EnqueuedEntries, QueuedEntries DEF Token, JobTypes
  <2>2. \A u \in Threads : pc[u] \in OnCpu /\ state[cur[u]] \in {"TERM", "EXCEPT"} /\ cb[cur[u]] # NoJob
          => jobs'[cb[cur[u]]].phase = "done"
    <3> SUFFICES ASSUME NEW u \in Threads, pc[u] \in OnCpu, state[cur[u]] \in {"TERM", "EXCEPT"}, cb[cur[u]] # NoJob
                 PROVE  jobs'[cb[cur[u]]].phase = "done"
      OBVIOUS
    <3>1. jobs[cb[cur[u]]].phase = "done"
      BY DEF JobInv, LeaveInv
    <3>2. cb[cur[u]] \in Jobs \ {j}
      BY <3>1 DEF TypeFacts, JobTypes
    <3>3. QED
      BY <1>3, <3>1, <3>2
  <2>3. QED
    BY <2>1, <2>2 DEF JobInv, LeaveInv
<1>11. CareInv'
  <2>1. \A f : Cared(f) => Cared(f)'
    BY <1>5 DEF Cared
  <2>2. QED
    BY <1>2, <1>3, <1>5, <2>1 DEF JobInv, CareInv
<1>12. QED
  BY <1>5, <1>8, <1>9, <1>10, <1>11 DEF JobInv

(* schedule(fiber, thread) of a new fiber. *)
LEMMA JobNewFiber ==
    ASSUME TypeFacts, JobTypes, FiberInv, JobInv,
           NEW j \in Jobs, NEW p \in Threads \cup {AnyThread}, NEW f \in FiberIds,
           ScheduleFiber(j, p, f)
    PROVE  JobInv'
<1>1. PICK e : e = FiberTask(f, p)
  OBVIOUS
<1>2. e \in Task /\ e.fiber = f /\ e.cb = NoJob /\ e.thread = p /\ f # NoFiber /\ j # NoJob
  BY <1>1, TaskFacts DEF FiberTask, JobTypes
<1>3. /\ jobs[j].phase = "new" /\ state[f] = "NONE" /\ fibers' = Enqueued(fibers, e)
      /\ UNCHANGED <<pc, ft, cur, waiters>>
      /\ state'[f] = "INIT" /\ cb'[f] = j
      /\ \A g \in FiberIds \ {f} : state'[g] = state[g] /\ cb'[g] = cb[g]
  BY <1>1 DEF ScheduleFiber, JobTypes
<1>4. /\ \A k \in Jobs \ {j} : jobs'[k] = jobs[k]
      /\ jobs'[j].phase = "queued" /\ jobs'[j].thread = p /\ jobs'[j].runs = jobs[j].runs
  BY SubmittedFacts DEF ScheduleFiber
<1>5. /\ \A x \in Waiting : x.cb # j
      /\ \A g \in FiberIds : Live(g) => cb[g] # j
  BY <1>3, NewHomeless
<1>6. f \notin waiters /\ (\A u \in Threads : cur[u] # f) /\ (\A x \in Waiting : x.fiber # f)
  BY <1>3, Nowhere DEF JobInv, Cared
<1>7. EntryInv' /\ Waiting' = Waiting \cup {e}
  BY <1>2, <1>3, <1>6, EntryAdd DEF JobInv
<1>8. \A x \in Waiting : x.cb \in Jobs \cup {NoJob} /\ x.fiber \in FiberIds \cup {NoFiber}
  BY WaitingTyped DEF JobInv
<1>9. Live(f)' /\ ~Live(f) /\ \A g \in FiberIds \ {f} : Live(g)' <=> Live(g)
  BY <1>2, <1>3 DEF Live
<1>10. HomeInv'
  <2>1. \A x, y \in Waiting' : x.cb = y.cb /\ x.cb # NoJob => x = y
    BY <1>2, <1>7 DEF JobInv, HomeInv
  <2>2. \A g, h \in FiberIds : Live(g)' /\ Live(h)' /\ cb'[g] = cb'[h] => g = h
    BY <1>3, <1>5, <1>9 DEF JobInv, HomeInv
  <2>3. \A x \in Waiting', g \in FiberIds : Live(g)' => cb'[g] # x.cb
    <3> SUFFICES ASSUME NEW x \in Waiting', NEW g \in FiberIds, Live(g)' PROVE cb'[g] # x.cb
      OBVIOUS
    <3>1. CASE x = e
      BY <1>2, <3>1 DEF Live
    <3>2. CASE x \in Waiting
      BY <1>3, <1>5, <1>9, <3>2 DEF JobInv, HomeInv
    <3>3. QED
      BY <1>7, <3>1, <3>2
  <2>4. QED
    BY <2>1, <2>2, <2>3 DEF HomeInv
<1>11. PhaseInv'
  <2>1. jobs[j].runs = 0
    BY <1>3 DEF JobInv, PhaseInv
  <2>2. \A x \in Waiting' : x.cb # NoJob => Waits(x.cb, x.thread)'
    BY <1>2, <1>4, <1>5, <1>7, <1>8 DEF JobInv, PhaseInv, Waits
  <2>3. \A x \in Waiting' : x.fiber # NoFiber =>
          (state'[x.fiber] = "INIT" /\ cb'[x.fiber] # NoJob => Waits(cb[x.fiber], x.thread)')
    <3> SUFFICES ASSUME NEW x \in Waiting', x.fiber # NoFiber, state'[x.fiber] = "INIT", cb'[x.fiber] # NoJob
                 PROVE  /\ jobs'[cb'[x.fiber]].phase = "queued" /\ jobs'[cb'[x.fiber]].runs = 0
                        /\ jobs'[cb'[x.fiber]].thread = x.thread
      BY DEF Waits
    <3>1. CASE x = e
      BY <1>2, <1>3, <1>4, <2>1, <3>1
    <3>2. CASE x \in Waiting
      <4>1. x.fiber \in FiberIds \ {f} /\ Live(x.fiber)
        BY <1>3, <1>6, <1>8, <3>2 DEF Live
      <4>2. cb[x.fiber] \in Jobs \ {j} /\ cb'[x.fiber] = cb[x.fiber]
        BY <1>3, <1>5, <4>1 DEF JobTypes, Live
      <4>3. Waits(cb[x.fiber], x.thread)
        BY <1>3, <3>2, <4>1, <4>2 DEF JobInv, PhaseInv
      <4>4. QED
        BY <1>4, <4>2, <4>3 DEF Waits
    <3>3. QED
      BY <1>7, <3>1, <3>2
  <2>4. ASSUME NEW g \in FiberIds, Live(g)'
        PROVE  IF state'[g] = "INIT" THEN Waits(cb[g], jobs[cb[g]].thread)'
               ELSE jobs'[cb'[g]].phase = "started"
    <3>1. CASE g = f
      BY <1>3, <1>4, <2>1, <3>1 DEF Waits
    <3>2. CASE g # f
      <4>1. cb[g] \in Jobs \ {j} /\ Live(g) /\ cb'[g] = cb[g] /\ state'[g] = state[g]
        BY <1>3, <1>5, <1>9, <2>4, <3>2 DEF JobTypes, Live
      <4>2. QED
        BY <1>4, <4>1 DEF JobInv, PhaseInv, Waits
    <3>3. QED
      BY <3>1, <3>2
  <2>5. QED
    BY <1>4, <2>2, <2>3, <2>4 DEF JobInv, PhaseInv
<1>12. LeaveInv'
  <2>1. \A g : Token(g) => Token(g)'
    BY <1>2, <1>3, EnqueuedEntries, QueuedEntries DEF Token, JobTypes
  <2>2. \A u \in Threads : pc[u] \in OnCpu => /\ cur[u] \in FiberIds \ {f} /\ cb'[cur[u]] = cb[cur[u]]
                                              /\ state'[cur[u]] = state[cur[u]]
    BY <1>3, <1>6 DEF TypeFacts
  <2>3. \A u \in Threads : pc[u] \in OnCpu /\ state[cur[u]] \in {"TERM", "EXCEPT"} /\ cb[cur[u]] # NoJob
          => jobs'[cb[cur[u]]].phase = "done"
    <3> SUFFICES ASSUME NEW u \in Threads, pc[u] \in OnCpu, state[cur[u]] \in {"TERM", "EXCEPT"}, cb[cur[u]] # NoJob
                 PROVE  jobs'[cb[cur[u]]].phase = "done"
      OBVIOUS
    <3>1. jobs[cb[cur[u]]].phase = "done"
      BY DEF JobInv, LeaveInv
    <3>2. cb[cur[u]] \in Jobs \ {j}
      BY <1>3, <2>2, <3>1 DEF JobTypes
    <3>3. QED
      BY <1>4, <3>1, <3>2
  <2>4. \A g \in waiters : state'[g] \in {"HOLD", "EXEC"}
    BY <1>3, <1>6 DEF JobInv, LeaveInv, JobTypes
  <2>5. QED
    BY <1>3, <2>1, <2>2, <2>3, <2>4 DEF JobInv, LeaveInv, OnCpu
<1>13. CareInv'
  <2>1. \A g \in FiberIds : Cared(g) => Cared(g)' /\ g # f
    BY <1>3, <1>6, <1>7 DEF Cared
  <2>2. Cared(f)'
    BY <1>2, <1>7 DEF Cared
  <2>3. QED
    BY <1>3, <1>4, <1>7, <2>1, <2>2 DEF JobInv, CareInv
<1>14. QED
  BY <1>7, <1>10, <1>11, <1>12, <1>13 DEF JobInv

(* A job's history after its callback was entered. *)
LEMMA StartedFacts ==
    ASSUME JobTypes, NEW j \in Jobs
    PROVE  /\ \A k \in Jobs \ {j} : Started(j)[k] = jobs[k]
           /\ Started(j)[j].phase = "started" /\ Started(j)[j].thread = jobs[j].thread
           /\ Started(j)[j].runs = jobs[j].runs + 1
<1>1. PICK s : s = [jobs EXCEPT ![j].phase = "started"]
  OBVIOUS
<1>2. /\ s \in [Jobs -> JobRecord] /\ (\A k \in Jobs \ {j} : s[k] = jobs[k])
      /\ s[j].phase = "started" /\ s[j].thread = jobs[j].thread /\ s[j].runs = jobs[j].runs
  BY <1>1 DEF JobTypes, JobRecord, Phase
<1>3. Started(j) = [s EXCEPT ![j].runs = @ + 1]
  BY <1>1 DEF Started, JobTypes
<1>4. QED
  BY <1>2, <1>3 DEF JobRecord

(* The fiber in a thread's hand. *)
LEMMA HandFacts ==
    ASSUME TypeFacts, JobTypes, FiberInv, JobInv, NEW t \in Threads, pc[t] = "dispatch",
           ft[t].fiber # NoFiber
    PROVE  /\ ft[t].fiber \in FiberIds /\ state[ft[t].fiber] \in {"INIT", "HOLD", "READY"}
           /\ ft[t].fiber \notin waiters /\ ft[t].cb = NoJob /\ ft[t] \in Waiting
           /\ \A u \in Threads : cur[u] # ft[t].fiber
           /\ \A x \in Waiting : x # ft[t] => x.fiber # ft[t].fiber
<1>1. PICK f : f = ft[t].fiber
  OBVIOUS
<1>2. f \in FiberIds /\ Hand(t, f)
  BY <1>1 DEF TypeFacts, Hand
<1>3. /\ ~Token(f) /\ state[f] \in {"INIT", "HOLD", "READY"}
      /\ \A u \in Threads : cur[u] # f /\ (Hand(u, f) => u = t)
  BY <1>2 DEF FiberInv, HandInv
<1>4. ft[t] \in Waiting
  BY DEF Waiting, Hands
<1>5. \A x \in Waiting : x # ft[t] => x.fiber # f
  BY <1>3, QueuedEntries DEF Waiting, Hands, Token, Hand
<1>6. ft[t].cb = NoJob
  BY <1>4 DEF JobInv, EntryInv
<1>7. QED
  BY <1>1, <1>2, <1>3, <1>4, <1>5, <1>6 DEF Token

LEMMA JobDispatchFiber ==
    ASSUME TypeFacts, JobTypes, FiberInv, JobInv, NEW t \in Threads, DispatchFiber(t)
    PROVE  JobInv'
<1>1. PICK f : f = ft[t].fiber
  OBVIOUS
<1>2. /\ f \in FiberIds /\ state[f] \in {"INIT", "HOLD", "READY"} /\ f \notin waiters
      /\ ft[t].cb = NoJob /\ ft[t] \in Waiting
      /\ (\A u \in Threads : cur[u] # f) /\ \A x \in Waiting : x # ft[t] => x.fiber # f
  BY <1>1, HandFacts DEF DispatchFiber
<1>3. /\ pc[t] = "dispatch" /\ pc'[t] = "run" /\ cur'[t] = f /\ state'[f] = "EXEC"
      /\ \A u \in Threads \ {t} : pc'[u] = pc[u] /\ cur'[u] = cur[u] /\ ft'[u] = ft[u]
      /\ \A g \in FiberIds \ {f} : state'[g] = state[g]
      /\ UNCHANGED <<fibers, cb, waiters>>
  BY <1>1, <1>2 DEF DispatchFiber, JobTypes
<1>4. EntryInv' /\ Waiting' = Waiting \ {ft[t]}
  BY <1>3, EntryDispatch DEF JobInv
<1>5. PICK j : j = cb[f]
  OBVIOUS
<1>6. j \in Jobs \cup {NoJob} /\ (j # NoJob => Live(f))
  BY <1>2, <1>5 DEF JobTypes, Live
<1>7. /\ \A k \in Jobs \ {j} : jobs'[k] = jobs[k]
      /\ j # NoJob => jobs'[j].phase = "started" /\ jobs[j].phase \in {"queued", "started"}
  <2>1. CASE state[f] = "INIT" /\ j # NoJob
    <3>1. jobs' = Started(j) /\ j \in Jobs
      BY <1>1, <1>5, <1>6, <2>1 DEF DispatchFiber
    <3>2. Waits(j, jobs[j].thread)
      BY <1>2, <1>5, <1>6, <2>1 DEF JobInv, PhaseInv
    <3>3. QED
      BY <3>1, <3>2, StartedFacts DEF Waits
  <2>2. CASE ~(state[f] = "INIT" /\ j # NoJob)
    <3>1. jobs' = jobs
      BY <1>1, <1>5, <2>2 DEF DispatchFiber, Started
    <3>2. j # NoJob => jobs[j].phase = "started"
      BY <1>2, <1>5, <1>6, <2>2 DEF JobInv, PhaseInv
    <3>3. QED
      BY <3>1, <3>2
  <2>3. QED
    BY <2>1, <2>2
<1>8. \A g \in FiberIds : Live(g)' <=> Live(g)
  BY <1>2, <1>3 DEF Live
<1>9. \A x \in Waiting : x.cb \in Jobs \cup {NoJob} /\ x.fiber \in FiberIds \cup {NoFiber}
  BY WaitingTyped DEF JobInv
<1>10. HomeInv'
  BY <1>3, <1>4, <1>8 DEF JobInv, HomeInv
<1>11. \A x \in Waiting : x.cb # j \/ j = NoJob
  BY <1>2, <1>5, <1>6 DEF JobInv, HomeInv
<1>12. \A g \in FiberIds \ {f} : Live(g) => cb[g] \in Jobs \ {j}
  BY <1>2, <1>5, <1>6 DEF JobInv, HomeInv, JobTypes, Live
<1>13. PhaseInv'
  <2>1. \A x \in Waiting' : x.cb # NoJob => Waits(x.cb, x.thread)'
    BY <1>4, <1>7, <1>9, <1>11 DEF JobInv, PhaseInv, Waits
  <2>2. ASSUME NEW x \in Waiting', x.fiber # NoFiber, state'[x.fiber] = "INIT", cb'[x.fiber] # NoJob
        PROVE  Waits(cb[x.fiber], x.thread)'
    <3>1. x \in Waiting /\ x.fiber \in FiberIds \ {f} /\ state[x.fiber] = "INIT" /\ cb[x.fiber] # NoJob
      BY <1>2, <1>3, <1>4, <1>9, <2>2
    <3>2. cb[x.fiber] \in Jobs \ {j}
      BY <1>12, <3>1 DEF Live
    <3>3. Waits(cb[x.fiber], x.thread)
      BY <2>2, <3>1 DEF JobInv, PhaseInv
    <3>4. QED
      BY <1>3, <1>7, <3>2, <3>3 DEF Waits
  <2>3. ASSUME NEW g \in FiberIds, Live(g)'
        PROVE  IF state'[g] = "INIT" THEN Waits(cb[g], jobs[cb[g]].thread)'
               ELSE jobs'[cb'[g]].phase = "started"
    <3>1. CASE g = f
      BY <1>3, <1>5, <1>7, <2>3, <3>1 DEF Live
    <3>2. CASE g # f
      <4>1. cb[g] \in Jobs \ {j} /\ Live(g) /\ cb'[g] = cb[g] /\ state'[g] = state[g]
        BY <1>3, <1>8, <1>12, <2>3, <3>2
      <4>2. QED
        BY <1>7, <4>1 DEF JobInv, PhaseInv, Waits
    <3>3. QED
      BY <3>1, <3>2
  <2>4. \A k \in Jobs : jobs'[k].phase = "new" => jobs'[k].runs = 0
    BY <1>7 DEF JobInv, PhaseInv, JobTypes
  <2>5. QED
    BY <2>1, <2>2, <2>3, <2>4 DEF PhaseInv
<1>14. LeaveInv'
  <2>1. \A u \in Threads \ {t} : pc'[u] \in OnCpu =>
          /\ pc'[u] = pc[u] /\ cur'[u] = cur[u] /\ cur[u] \in FiberIds \ {f}
          /\ state'[cur[u]] = state[cur[u]] /\ cb'[cur[u]] = cb[cur[u]]
    BY <1>2, <1>3 DEF TypeFacts
  <2>2. \A g : Token(g)' <=> Token(g)
    BY <1>3 DEF Token
  <2>3. \A u \in Threads \ {t} : pc[u] \in OnCpu /\ state[cur[u]] \in {"TERM", "EXCEPT"} /\ cb[cur[u]] # NoJob
          => jobs'[cb[cur[u]]].phase = "done"
    <3> SUFFICES ASSUME NEW u \in Threads \ {t}, pc[u] \in OnCpu, state[cur[u]] \in {"TERM", "EXCEPT"},
                        cb[cur[u]] # NoJob
                 PROVE  jobs'[cb[cur[u]]].phase = "done"
      OBVIOUS
    <3>1. jobs[cb[cur[u]]].phase = "done"
      BY DEF JobInv, LeaveInv
    <3>2. cb[cur[u]] \in Jobs \ {j}
      BY <1>7, <2>1, <3>1 DEF JobTypes, TypeFacts
    <3>3. QED
      BY <1>7, <3>1, <3>2
  <2>4. \A g \in waiters : state'[g] \in {"HOLD", "EXEC"}
    BY <1>2, <1>3 DEF JobInv, LeaveInv, JobTypes
  <2>5. pc'[t] = "run" /\ state'[cur'[t]] = "EXEC"
    BY <1>3
  <2>6. QED
    BY <1>3, <2>1, <2>2, <2>3, <2>4, <2>5 DEF JobInv, LeaveInv, OnCpu
<1>15. CareInv'
  <2>0. \A g \in FiberIds, u \in Threads : cur[u] = g => cur'[u] = g
    BY <1>3 DEF TypeFacts, OnCpu
  <2>1. \A g \in FiberIds : Cared(g) => Cared(g)'
    <3> SUFFICES ASSUME NEW g \in FiberIds, Cared(g), g # f PROVE Cared(g)'
      BY <1>3 DEF Cared
    <3>1. (\E x \in Waiting : x.fiber = g) => \E x \in Waiting' : x.fiber = g
      BY <1>1, <1>4
    <3>2. QED
      BY <1>3, <2>0, <3>1 DEF Cared
  <2>2. \A x \in Waiting : x.cb # NoJob => x \in Waiting'
    BY <1>2, <1>4
  <2>3. Cared(f)'
    BY <1>3 DEF Cared
  <2>4. ASSUME NEW k \in Jobs, jobs'[k].phase \in {"queued", "started"}
        PROVE  (\E x \in Waiting' : x.cb = k) \/ \E g \in FiberIds : cb'[g] = k /\ Cared(g)'
    <3>1. CASE k = j
      BY <1>2, <1>3, <1>5, <2>3, <3>1
    <3>2. CASE k # j
      <4>1. (\E x \in Waiting : x.cb = k) \/ \E g \in FiberIds : cb[g] = k /\ Cared(g)
        BY <1>7, <2>4, <3>2 DEF JobInv, CareInv
      <4>2. QED
        BY <1>3, <2>1, <2>2, <4>1 DEF JobTypes
    <3>3. QED
      BY <3>1, <3>2
  <2>5. QED
    BY <2>4 DEF CareInv
<1>16. QED
  BY <1>4, <1>10, <1>13, <1>14, <1>15 DEF JobInv

LEMMA JobDispatchCb ==
    ASSUME TypeFacts, JobTypes, FiberInv, JobInv, NEW t \in Threads, NEW f \in FiberIds,
           DispatchCb(t, f)
    PROVE  JobInv'
<1>1. PICK j : j = ft[t].cb
  OBVIOUS
<1>2. /\ pc[t] = "dispatch" /\ pc'[t] = "run" /\ cur'[t] = f /\ state'[f] = "EXEC" /\ cb'[f] = j
      /\ ft[t].fiber = NoFiber
      /\ \A u \in Threads \ {t} : pc'[u] = pc[u] /\ cur'[u] = cur[u] /\ ft'[u] = ft[u]
      /\ \A g \in FiberIds \ {f} : state'[g] = state[g] /\ cb'[g] = cb[g]
      /\ UNCHANGED <<fibers, waiters>>
  BY <1>1 DEF DispatchCb, JobTypes
<1>3. state[f] = "NONE" \/ cbFiber[t] = f
  BY DEF DispatchCb
<1>4. f \notin waiters /\ (\A u \in Threads : cur[u] # f) /\ (\A x \in Waiting : x.fiber # f)
  BY <1>2, <1>3, Nowhere DEF JobInv, Cared
<1>5. EntryInv' /\ Waiting' = Waiting \ {ft[t]} /\ ft[t] \in Waiting
  BY <1>2, EntryDispatch DEF JobInv
<1>6. \A x \in Waiting : /\ x.cb \in Jobs \cup {NoJob} /\ x.fiber \in FiberIds \cup {NoFiber}
                         /\ (x.fiber # NoFiber <=> x.cb = NoJob)
  BY WaitingTyped DEF JobInv
<1>7. j \in Jobs /\ j # NoJob /\ jobs[j].phase = "queued"
  BY <1>1, <1>2, <1>5, <1>6 DEF JobInv, PhaseInv, Waits
<1>8. /\ \A k \in Jobs \ {j} : jobs'[k] = jobs[k]
      /\ jobs'[j].phase = "started"
  BY <1>1, <1>7, StartedFacts DEF DispatchCb
<1>9. \A x \in Waiting' : x \in Waiting /\ x.cb # j
  BY <1>1, <1>5, <1>7 DEF JobInv, HomeInv
<1>10. \A g \in FiberIds \ {f} : (Live(g)' <=> Live(g)) /\ (Live(g) => cb[g] \in Jobs \ {j})
  BY <1>1, <1>2, <1>5 DEF JobInv, HomeInv, JobTypes, Live
<1>11. HomeInv'
  <2>1. \A g, h \in FiberIds : Live(g)' /\ Live(h)' /\ cb'[g] = cb'[h] => g = h
    BY <1>2, <1>10 DEF JobInv, HomeInv
  <2>2. \A x \in Waiting', g \in FiberIds : Live(g)' => cb'[g] # x.cb
    BY <1>2, <1>9, <1>10 DEF JobInv, HomeInv
  <2>3. QED
    BY <1>9, <2>1, <2>2 DEF JobInv, HomeInv
<1>12. PhaseInv'
  <2>1. \A x \in Waiting' : x.cb # NoJob => Waits(x.cb, x.thread)'
    BY <1>6, <1>8, <1>9 DEF JobInv, PhaseInv, Waits
  <2>2. ASSUME NEW x \in Waiting', x.fiber # NoFiber, state'[x.fiber] = "INIT", cb'[x.fiber] # NoJob
        PROVE  Waits(cb[x.fiber], x.thread)'
    <3>1. x \in Waiting /\ x.fiber \in FiberIds \ {f} /\ state[x.fiber] = "INIT" /\ cb[x.fiber] # NoJob
      BY <1>2, <1>4, <1>6, <1>9, <2>2
    <3>2. cb[x.fiber] \in Jobs \ {j} /\ cb'[x.fiber] = cb[x.fiber]
      BY <1>2, <1>10, <3>1 DEF Live
    <3>3. Waits(cb[x.fiber], x.thread)
      BY <2>2, <3>1 DEF JobInv, PhaseInv
    <3>4. QED
      BY <1>8, <3>2, <3>3 DEF Waits
  <2>3. ASSUME NEW g \in FiberIds, Live(g)'
        PROVE  IF state'[g] = "INIT" THEN Waits(cb[g], jobs[cb[g]].thread)'
               ELSE jobs'[cb'[g]].phase = "started"
    <3>1. CASE g = f
      BY <1>2, <1>8, <3>1
    <3>2. CASE g # f
      <4>1. cb[g] \in Jobs \ {j} /\ Live(g) /\ cb'[g] = cb[g] /\ state'[g] = state[g]
        BY <1>2, <1>10, <2>3, <3>2
      <4>2. QED
        BY <1>8, <4>1 DEF JobInv, PhaseInv, Waits
    <3>3. QED
      BY <3>1, <3>2
  <2>4. \A k \in Jobs : jobs'[k].phase = "new" => jobs'[k].runs = 0
    BY <1>7, <1>8 DEF JobInv, PhaseInv
  <2>5. QED
    BY <2>1, <2>2, <2>3, <2>4 DEF PhaseInv
<1>13. LeaveInv'
  <2>1. \A u \in Threads \ {t} : pc'[u] \in OnCpu =>
          /\ pc'[u] = pc[u] /\ cur'[u] = cur[u] /\ cur[u] \in FiberIds \ {f}
          /\ state'[cur[u]] = state[cur[u]] /\ cb'[cur[u]] = cb[cur[u]]
    BY <1>2, <1>4 DEF TypeFacts
  <2>2. \A g : Token(g)' <=> Token(g)
    BY <1>2 DEF Token
  <2>3. \A u \in Threads \ {t} : pc[u] \in OnCpu /\ state[cur[u]] \in {"TERM", "EXCEPT"} /\ cb[cur[u]] # NoJob
          => jobs'[cb[cur[u]]].phase = "done"
    <3> SUFFICES ASSUME NEW u \in Threads \ {t}, pc[u] \in OnCpu, state[cur[u]] \in {"TERM", "EXCEPT"},
                        cb[cur[u]] # NoJob
                 PROVE  jobs'[cb[cur[u]]].phase = "done"
      OBVIOUS
    <3>1. jobs[cb[cur[u]]].phase = "done"
      BY DEF JobInv, LeaveInv
    <3>2. cb[cur[u]] \in Jobs \ {j}
      BY <1>7, <3>1 DEF JobTypes, TypeFacts
    <3>3. QED
      BY <1>8, <3>1, <3>2
  <2>4. \A g \in waiters : state'[g] \in {"HOLD", "EXEC"}
    BY <1>2, <1>4 DEF JobInv, LeaveInv, JobTypes
  <2>5. pc'[t] = "run" /\ state'[cur'[t]] = "EXEC"
    BY <1>2
  <2>6. QED
    BY <1>2, <2>1, <2>2, <2>3, <2>4, <2>5 DEF JobInv, LeaveInv, OnCpu
<1>14. CareInv'
  <2>0. \A g \in FiberIds, u \in Threads : cur[u] = g => cur'[u] = g
    BY <1>2 DEF TypeFacts, OnCpu
  <2>1. \A g \in FiberIds : Cared(g) => Cared(g)' /\ g # f
    <3> SUFFICES ASSUME NEW g \in FiberIds, Cared(g) PROVE Cared(g)' /\ g # f
      OBVIOUS
    <3>1. (\E x \in Waiting : x.fiber = g) => \E x \in Waiting' : x.fiber = g
      BY <1>2, <1>5 DEF JobTypes
    <3>2. QED
      BY <1>2, <1>4, <2>0, <3>1 DEF Cared
  <2>2. Cared(f)'
    BY <1>2 DEF Cared
  <2>3. ASSUME NEW k \in Jobs, jobs'[k].phase \in {"queued", "started"}
        PROVE  (\E x \in Waiting' : x.cb = k) \/ \E g \in FiberIds : cb'[g] = k /\ Cared(g)'
    <3>1. CASE k = j
      BY <1>2, <2>2, <3>1
    <3>2. CASE k # j
      <4>1. (\E x \in Waiting : x.cb = k) \/ \E g \in FiberIds : cb[g] = k /\ Cared(g)
        BY <1>8, <2>3, <3>2 DEF JobInv, CareInv
      <4>2. QED
        BY <1>1, <1>2, <1>5, <2>1, <3>2, <4>1
    <3>3. QED
      BY <3>1, <3>2
  <2>4. QED
    BY <2>3 DEF CareInv
<1>15. QED
  BY <1>5, <1>11, <1>12, <1>13, <1>14 DEF JobInv

(* The running fiber's job: nobody else knows it. *)
LEMMA RunningJob ==
    ASSUME TypeFacts, JobTypes, FiberInv, JobInv, NEW t \in Threads, pc[t] = "run",
           cb[cur[t]] # NoJob
    PROVE  /\ cb[cur[t]] \in Jobs /\ jobs[cb[cur[t]]].phase = "started"
           /\ \A x \in Waiting : x.cb # cb[cur[t]]
           /\ \A g \in FiberIds \ {cur[t]} : Live(g) => cb[g] \in Jobs \ {cb[cur[t]]}
<1>1. cur[t] \in FiberIds /\ state[cur[t]] = "EXEC"
  BY RunsAlone DEF JobInv
<1>2. Live(cur[t]) /\ cb[cur[t]] \in Jobs
  BY <1>1 DEF Live, JobTypes
<1>3. jobs[cb[cur[t]]].phase = "started"
  BY <1>1, <1>2 DEF JobInv, PhaseInv
<1>4. \A x \in Waiting : x.cb # cb[cur[t]]
  BY <1>1, <1>2 DEF JobInv, HomeInv
<1>5. \A g \in FiberIds \ {cur[t]} : Live(g) => cb[g] \in Jobs \ {cb[cur[t]]}
  BY <1>1, <1>2 DEF JobInv, HomeInv, Live, JobTypes
<1>6. QED
  BY <1>2, <1>3, <1>4, <1>5

(* A job arms a waker or asks for another thread, and will suspend. *)
LEMMA JobSuspend ==
    ASSUME TypeFacts, JobTypes, FiberInv, JobInv, NEW t \in Threads, pc[t] = "run",
           pc'[t] = "armed", \A u \in Threads \ {t} : pc'[u] = pc[u],
           UNCHANGED <<state, cb, cur>>, cb[cur[t]] # NoJob,
           \A k \in Jobs \ {cb[cur[t]]} : jobs'[k] = jobs[k],
           jobs'[cb[cur[t]]].phase = jobs[cb[cur[t]]].phase,
           EntryInv', Waiting \subseteq Waiting', waiters \subseteq waiters',
           waiters' \subseteq waiters \cup {cur[t]},
           \A x \in Waiting' \ Waiting : x.fiber = cur[t] /\ x.cb = NoJob,
           \A g : Token(g) => Token(g)', Token(cur[t])'
    PROVE  JobInv'
<1>1. PICK f : f = cur[t]
  OBVIOUS
<1>2. PICK j : j = cb[f]
  OBVIOUS
<1>3. f \in FiberIds /\ state[f] = "EXEC" /\ \A u \in Threads \ {t} : cur[u] # f
  BY <1>1, RunsAlone DEF JobInv
<1>4. /\ j \in Jobs /\ jobs[j].phase = "started" /\ \A x \in Waiting : x.cb # j
      /\ \A g \in FiberIds \ {f} : Live(g) => cb[g] \in Jobs \ {j}
  BY <1>1, <1>2, RunningJob
<1>5. (\A k \in Jobs \ {j} : jobs'[k] = jobs[k]) /\ jobs'[j].phase = "started"
  BY <1>1, <1>2, <1>4
<1>6. \A g \in FiberIds : Live(g)' <=> Live(g)
  BY DEF Live
<1>7. \A x \in Waiting : x.cb \in Jobs \cup {NoJob} /\ x.fiber \in FiberIds \cup {NoFiber}
  BY WaitingTyped DEF JobInv
<1>8. \A x \in Waiting' : x \in Waiting \/ (x.fiber = f /\ x.cb = NoJob)
  BY <1>1
<1>9. HomeInv'
  <2>1. \A x, y \in Waiting' : x.cb = y.cb /\ x.cb # NoJob => x = y
    BY <1>8 DEF JobInv, HomeInv
  <2>2. \A x \in Waiting', g \in FiberIds : Live(g)' => cb'[g] # x.cb
    BY <1>6, <1>8 DEF JobInv, HomeInv, Live
  <2>3. QED
    BY <1>6, <2>1, <2>2 DEF JobInv, HomeInv
<1>10. PhaseInv'
  <2>1. \A x \in Waiting' : x.cb # NoJob => Waits(x.cb, x.thread)'
    BY <1>4, <1>5, <1>7, <1>8 DEF JobInv, PhaseInv, Waits
  <2>2. ASSUME NEW x \in Waiting', x.fiber # NoFiber, state'[x.fiber] = "INIT", cb'[x.fiber] # NoJob
        PROVE  Waits(cb[x.fiber], x.thread)'
    <3>1. x \in Waiting /\ x.fiber \in FiberIds \ {f} /\ Live(x.fiber)
      BY <1>3, <1>7, <1>8, <2>2 DEF Live
    <3>2. cb[x.fiber] \in Jobs \ {j}
      BY <1>4, <3>1
    <3>3. Waits(cb[x.fiber], x.thread)
      BY <2>2, <3>1 DEF JobInv, PhaseInv
    <3>4. QED
      BY <1>5, <3>2, <3>3 DEF Waits
  <2>3. ASSUME NEW g \in FiberIds, Live(g)'
        PROVE  IF state'[g] = "INIT" THEN Waits(cb[g], jobs[cb[g]].thread)'
               ELSE jobs'[cb'[g]].phase = "started"
    <3>1. CASE g = f
      BY <1>2, <1>3, <1>5, <3>1
    <3>2. CASE g # f
      <4>1. cb[g] \in Jobs \ {j} /\ Live(g)
        BY <1>4, <1>6, <2>3, <3>2
      <4>2. QED
        BY <1>5, <4>1 DEF JobInv, PhaseInv, Waits
    <3>3. QED
      BY <3>1, <3>2
  <2>4. \A k \in Jobs : jobs'[k].phase = "new" => jobs'[k].runs = 0
    BY <1>5 DEF JobInv, PhaseInv
  <2>5. QED
    BY <2>1, <2>2, <2>3, <2>4 DEF PhaseInv
<1>11. LeaveInv'
  <2>1. \A u \in Threads \ {t} : pc[u] \in OnCpu /\ state[cur[u]] \in {"TERM", "EXCEPT"} /\ cb[cur[u]] # NoJob
          => jobs'[cb[cur[u]]].phase = "done"
    <3> SUFFICES ASSUME NEW u \in Threads \ {t}, pc[u] \in OnCpu, state[cur[u]] \in {"TERM", "EXCEPT"},
                        cb[cur[u]] # NoJob
                 PROVE  jobs'[cb[cur[u]]].phase = "done"
      OBVIOUS
    <3>1. jobs[cb[cur[u]]].phase = "done"
      BY DEF JobInv, LeaveInv
    <3>2. cb[cur[u]] \in Jobs \ {j}
      BY <1>4, <3>1 DEF JobTypes, TypeFacts
    <3>3. QED
      BY <1>5, <3>1, <3>2
  <2>2. \A g \in waiters' : state'[g] \in {"HOLD", "EXEC"}
    BY <1>1, <1>3 DEF JobInv, LeaveInv
  <2>3. \A u \in Threads : pc'[u] = "leave" => state'[cur'[u]] # "EXEC"
    BY DEF JobInv, LeaveInv
  <2>4. \A u \in Threads : pc'[u] \in {"armed", "back", "post"} /\ state'[cur'[u]] = "EXEC" => Token(cur[u])'
    BY DEF JobInv, LeaveInv
  <2>5. QED
    BY <1>1, <1>3, <2>1, <2>2, <2>3, <2>4 DEF LeaveInv
<1>12. CareInv'
  <2>1. \A g \in FiberIds : Cared(g) => Cared(g)'
    BY DEF Cared
  <2>2. QED
    BY <1>4, <1>5, <2>1 DEF JobInv, CareInv
<1>13. QED
  BY <1>9, <1>10, <1>11, <1>12 DEF JobInv

(* The running fiber yields READY, returns or throws. *)
LEMMA JobSettle ==
    ASSUME TypeFacts, JobTypes, FiberInv, JobInv, NEW t \in Threads, pc[t] = "run",
           pc'[t] = "leave", \A u \in Threads \ {t} : pc'[u] = pc[u],
           UNCHANGED <<fibers, ft, cur, waiters>>,
           \A g \in FiberIds \ {cur[t]} : state'[g] = state[g] /\ cb'[g] = cb[g],
           \A k \in Jobs \ {cb[cur[t]]} : jobs'[k] = jobs[k],
           \/ /\ state'[cur[t]] = "READY" /\ cb'[cur[t]] = cb[cur[t]] /\ cb[cur[t]] # NoJob
              /\ jobs'[cb[cur[t]]].phase = jobs[cb[cur[t]]].phase
           \/ /\ state'[cur[t]] \in {"TERM", "EXCEPT"} /\ cb'[cur[t]] \in {cb[cur[t]], NoJob}
              /\ cb[cur[t]] # NoJob => jobs'[cb[cur[t]]].phase = "done"
    PROVE  JobInv'
<1>1. PICK f : f = cur[t]
  OBVIOUS
<1>2. PICK j : j = cb[f]
  OBVIOUS
<1>3. f \in FiberIds /\ state[f] = "EXEC" /\ ~Token(f) /\ (\A u \in Threads \ {t} : cur[u] # f)
      /\ \A x \in Waiting : x.fiber # f
  BY <1>1, RunsAlone DEF JobInv
<1>4. /\ j \in Jobs \cup {NoJob}
      /\ j # NoJob => /\ jobs[j].phase = "started" /\ \A x \in Waiting : x.cb # j
                      /\ \A g \in FiberIds \ {f} : Live(g) => cb[g] \in Jobs \ {j}
  BY <1>1, <1>2, <1>3, RunningJob DEF JobTypes
<1>5. /\ \A k \in Jobs \ {j} : jobs'[k] = jobs[k]
      /\ j # NoJob => jobs'[j].phase = IF state'[f] = "READY" THEN "started" ELSE "done"
      /\ state'[f] \in {"READY", "TERM", "EXCEPT"} /\ cb'[f] \in {j, NoJob}
      /\ state'[f] = "READY" => cb'[f] = j /\ j # NoJob
  BY <1>1, <1>2, <1>4
<1>6. (Live(f)' => state'[f] = "READY" /\ Live(f)) /\ \A g \in FiberIds \ {f} : Live(g)' <=> Live(g)
  BY <1>1, <1>2, <1>3, <1>5 DEF Live
<1>7. \A x \in Waiting : x.cb \in Jobs \cup {NoJob} /\ x.fiber \in FiberIds \cup {NoFiber}
  BY WaitingTyped DEF JobInv
<1>8. EntryInv' /\ Waiting' = Waiting
  BY EntryKeep DEF JobInv
<1>9. HomeInv'
  <2>1. \A g \in FiberIds : Live(g)' => Live(g) /\ cb'[g] = cb[g]
    BY <1>1, <1>2, <1>5, <1>6
  <2>2. QED
    BY <1>8, <2>1 DEF JobInv, HomeInv
<1>10. PhaseInv'
  <2>1. \A x \in Waiting' : x.cb # NoJob => Waits(x.cb, x.thread)'
    BY <1>4, <1>5, <1>7, <1>8 DEF JobInv, PhaseInv, Waits
  <2>2. ASSUME NEW x \in Waiting', x.fiber # NoFiber, state'[x.fiber] = "INIT", cb'[x.fiber] # NoJob
        PROVE  Waits(cb[x.fiber], x.thread)'
    <3>1. x \in Waiting /\ x.fiber \in FiberIds \ {f} /\ Live(x.fiber) /\ cb'[x.fiber] = cb[x.fiber]
          /\ state[x.fiber] = "INIT"
      BY <1>1, <1>3, <1>7, <1>8, <2>2 DEF Live
    <3>2. cb[x.fiber] \in Jobs \ {j}
      BY <1>4, <3>1 DEF JobTypes, Live
    <3>3. Waits(cb[x.fiber], x.thread)
      BY <2>2, <3>1 DEF JobInv, PhaseInv, Live
    <3>4. QED
      BY <1>5, <3>1, <3>2, <3>3 DEF Waits
  <2>3. ASSUME NEW g \in FiberIds, Live(g)'
        PROVE  IF state'[g] = "INIT" THEN Waits(cb[g], jobs[cb[g]].thread)'
               ELSE jobs'[cb'[g]].phase = "started"
    <3>1. CASE g = f
      BY <1>5, <1>6, <2>3, <3>1
    <3>2. CASE g # f
      <4>1. cb[g] \in Jobs \ {j} /\ Live(g) /\ cb'[g] = cb[g] /\ state'[g] = state[g]
        BY <1>1, <1>4, <1>6, <2>3, <3>2 DEF JobTypes, Live
      <4>2. QED
        BY <1>5, <4>1 DEF JobInv, PhaseInv, Waits
    <3>3. QED
      BY <3>1, <3>2
  <2>4. \A k \in Jobs : jobs'[k].phase = "new" => jobs'[k].runs = 0
    BY <1>5 DEF JobInv, PhaseInv, JobTypes
  <2>5. QED
    BY <2>1, <2>2, <2>3, <2>4 DEF PhaseInv
<1>11. LeaveInv'
  <2>1. \A u \in Threads \ {t} : pc'[u] \in OnCpu => pc'[u] = pc[u] /\ cur[u] \in FiberIds \ {f}
          /\ state'[cur[u]] = state[cur[u]] /\ cb'[cur[u]] = cb[cur[u]]
    BY <1>1, <1>3 DEF TypeFacts
  <2>2. \A u \in Threads \ {t} : pc[u] \in OnCpu /\ state[cur[u]] \in {"TERM", "EXCEPT"} /\ cb[cur[u]] # NoJob
          => jobs'[cb[cur[u]]].phase = "done"
    <3> SUFFICES ASSUME NEW u \in Threads \ {t}, pc[u] \in OnCpu, state[cur[u]] \in {"TERM", "EXCEPT"},
                        cb[cur[u]] # NoJob
                 PROVE  jobs'[cb[cur[u]]].phase = "done"
      OBVIOUS
    <3>1. jobs[cb[cur[u]]].phase = "done"
      BY DEF JobInv, LeaveInv
    <3>2. cb[cur[u]] \in Jobs \ {j}
      BY <1>4, <3>1 DEF JobTypes, TypeFacts
    <3>3. QED
      BY <1>5, <3>1, <3>2
  <2>3. \A g \in waiters' : state'[g] \in {"HOLD", "EXEC"}
    BY <1>1, <1>3 DEF JobInv, LeaveInv, Token, JobTypes
  <2>4. \A g : Token(g)' <=> Token(g)
    BY DEF Token
  <2>5. pc'[t] = "leave" /\ state'[f] # "EXEC" /\ (state'[f] \in {"TERM", "EXCEPT"} /\ cb'[f] # NoJob =>
          jobs'[cb'[f]].phase = "done")
    BY <1>5
  <2>6. QED
    BY <1>1, <2>1, <2>2, <2>3, <2>4, <2>5 DEF JobInv, LeaveInv, OnCpu
<1>12. CareInv'
  <2>1. \A g \in FiberIds : Cared(g)' <=> Cared(g)
    BY <1>8 DEF Cared
  <2>2. ASSUME NEW k \in Jobs, jobs'[k].phase \in {"queued", "started"}
        PROVE  (\E x \in Waiting' : x.cb = k) \/ \E g \in FiberIds : cb'[g] = k /\ Cared(g)'
    <3>1. CASE k = j
      BY <1>1, <1>3, <1>4, <1>5, <2>1, <2>2, <3>1 DEF Cared, JobTypes
    <3>2. CASE k # j
      <4>1. (\E x \in Waiting : x.cb = k) \/ \E g \in FiberIds : cb[g] = k /\ Cared(g)
        BY <1>5, <2>2, <3>2 DEF JobInv, CareInv
      <4>2. QED
        BY <1>1, <1>2, <1>8, <2>1, <3>2, <4>1
    <3>3. QED
      BY <3>1, <3>2
  <2>3. QED
    BY <2>2 DEF CareInv
<1>13. QED
  BY <1>8, <1>9, <1>10, <1>11, <1>12 DEF JobInv

(* run() deals with the state the fiber left. *)
LEMMA JobPost ==
    ASSUME TypeFacts, JobTypes, FiberInv, JobInv, NEW t \in Threads, Post(t) PROVE JobInv'
<1>1. PICK f : f = cur[t]
  OBVIOUS
<1>2. pc[t] = "post" /\ f \in FiberIds /\ f # NoFiber
  BY <1>1 DEF Post, TypeFacts, OnCpu
<1>3. /\ state[f] \in {"EXEC", "READY", "TERM", "EXCEPT"}
      /\ (state[f] # "EXEC" => ~Token(f)) /\ (\A u \in Threads \ {t} : cur[u] # f)
      /\ \A u \in Threads : ~Hand(u, f)
  BY <1>1, <1>2 DEF FiberInv, OwnerState, TokenInv, Exclusive, HandInv, OnCpu
<1>4. /\ pc'[t] = "pick" /\ cur'[t] = NoFiber /\ state'[f] = AfterRun(t, f)
      /\ cb'[f] = (IF AfterRun(t, f) = "INIT" THEN NoJob ELSE cb[f])
      /\ \A u \in Threads \ {t} : pc'[u] = pc[u] /\ cur'[u] = cur[u] /\ ft'[u] = ft[u]
      /\ \A g \in FiberIds \ {f} : state'[g] = state[g] /\ cb'[g] = cb[g]
      /\ UNCHANGED <<waiters, jobs>>
      /\ fibers' = IF state[f] = "READY" THEN Enqueued(fibers, FiberTask(f, AnyThread)) ELSE fibers
  BY <1>1, <1>2 DEF Post, JobTypes, Requeued
<1>5. \/ state[f] = "READY" /\ state'[f] = "READY" /\ cb'[f] = cb[f]
      \/ state[f] = "EXEC" /\ state'[f] = "HOLD" /\ cb'[f] = cb[f]
      \/ state[f] \in {"TERM", "EXCEPT"} /\ state'[f] \in {"TERM", "EXCEPT"} /\ cb'[f] = cb[f]
      \/ state[f] \in {"TERM", "EXCEPT"} /\ state'[f] = "INIT" /\ cb'[f] = NoJob
  BY <1>3, <1>4 DEF AfterRun
<1>6. /\ EntryInv' /\ Waiting \subseteq Waiting'
      /\ \A x \in Waiting' \ Waiting : x.fiber = f /\ x.cb = NoJob
      /\ \A g : Token(g) => Token(g)'
      /\ state[f] = "READY" => \E x \in Waiting' : x.fiber = f
  <2>1. CASE state[f] = "READY"
    <3>1. PICK e : e = FiberTask(f, AnyThread)
      OBVIOUS
    <3>2. e \in Task /\ e.fiber = f /\ e.cb = NoJob
      BY <1>2, <3>1, TaskFacts DEF FiberTask
    <3>3. e \notin Waiting
      BY <1>3, <2>1, <3>2, QueuedEntries DEF Waiting, Hands, Token, Hand
    <3>4. EntryInv' /\ Waiting' = Waiting \cup {e}
      BY <1>2, <1>4, <2>1, <3>1, <3>2, <3>3, EntryAdd DEF JobInv
    <3>5. \A g : Token(g) => Token(g)'
      BY <1>4, <2>1, <3>1, <3>2, EnqueuedEntries, QueuedEntries DEF Token, JobTypes
    <3>6. QED
      BY <3>2, <3>4, <3>5
  <2>2. CASE state[f] # "READY"
    <3>1. EntryInv' /\ Waiting' = Waiting
      BY <1>2, <1>4, <2>2, EntryKeep DEF JobInv
    <3>2. QED
      BY <1>4, <2>2, <3>1 DEF Token
  <2>3. QED
    BY <2>1, <2>2
<1>7. (Live(f)' <=> Live(f)) /\ (Live(f)' => state'[f] # "INIT" /\ state[f] # "INIT" /\ cb'[f] = cb[f])
  BY <1>5 DEF Live
<1>8. \A g \in FiberIds : (Live(g)' <=> Live(g)) /\ (Live(g) => cb'[g] = cb[g])
  BY <1>4, <1>7 DEF Live
<1>9. \A x \in Waiting : x.cb \in Jobs \cup {NoJob} /\ x.fiber \in FiberIds \cup {NoFiber}
  BY WaitingTyped DEF JobInv
<1>10. HomeInv'
  <2>1. \A x, y \in Waiting' : x.cb = y.cb /\ x.cb # NoJob => x = y
    BY <1>6 DEF JobInv, HomeInv
  <2>2. \A x \in Waiting', g \in FiberIds : Live(g)' => cb'[g] # x.cb
    BY <1>6, <1>8 DEF JobInv, HomeInv, Live
  <2>3. QED
    BY <1>8, <2>1, <2>2 DEF JobInv, HomeInv
<1>11. PhaseInv'
  <2>1. \A x \in Waiting' : x.cb # NoJob => Waits(x.cb, x.thread)'
    BY <1>4, <1>6 DEF JobInv, PhaseInv, Waits
  <2>2. ASSUME NEW x \in Waiting', x.fiber # NoFiber, state'[x.fiber] = "INIT", cb'[x.fiber] # NoJob
        PROVE  Waits(cb[x.fiber], x.thread)'
    <3>1. x.fiber # f
      BY <1>5, <2>2
    <3>2. x \in Waiting /\ x.fiber \in FiberIds \ {f} /\ cb'[x.fiber] = cb[x.fiber]
          /\ state[x.fiber] = "INIT"
      BY <1>4, <1>6, <1>9, <2>2, <3>1
    <3>3. Waits(cb[x.fiber], x.thread)
      BY <2>2, <3>2 DEF JobInv, PhaseInv
    <3>4. QED
      BY <1>4, <3>2, <3>3 DEF Waits
  <2>3. ASSUME NEW g \in FiberIds, Live(g)'
        PROVE  IF state'[g] = "INIT" THEN Waits(cb[g], jobs[cb[g]].thread)'
               ELSE jobs'[cb'[g]].phase = "started"
    <3>1. Live(g) /\ cb'[g] = cb[g] /\ (state'[g] = "INIT" <=> state[g] = "INIT")
      BY <1>4, <1>7, <1>8, <2>3
    <3>2. QED
      BY <1>4, <3>1 DEF JobInv, PhaseInv, Waits
  <2>4. QED
    BY <1>4, <2>1, <2>2, <2>3 DEF JobInv, PhaseInv
<1>12. LeaveInv'
  <2>1. \A u \in Threads : pc'[u] \in OnCpu => /\ u # t /\ pc'[u] = pc[u] /\ cur'[u] = cur[u]
          /\ cur[u] \in FiberIds \ {f} /\ state'[cur[u]] = state[cur[u]] /\ cb'[cur[u]] = cb[cur[u]]
    BY <1>3, <1>4 DEF TypeFacts, OnCpu
  <2>2. \A g \in waiters' : state'[g] \in {"HOLD", "EXEC"}
    BY <1>3, <1>4, <1>5 DEF JobInv, LeaveInv, JobTypes, Token
  <2>3. QED
    BY <1>4, <1>6, <2>1, <2>2 DEF JobInv, LeaveInv, OnCpu
<1>13. CareInv'
  <2>1. \A g \in FiberIds \ {f} : Cared(g) => Cared(g)'
    <3> SUFFICES ASSUME NEW g \in FiberIds \ {f}, Cared(g) PROVE Cared(g)'
      OBVIOUS
    <3>1. \A u \in Threads : cur[u] = g => cur'[u] = g
      BY <1>1, <1>4
    <3>2. QED
      BY <1>4, <1>6, <3>1 DEF Cared
  <2>2. state[f] \in {"READY", "EXEC"} => Cared(f)'
    <3>1. CASE state[f] = "READY"
      BY <1>6, <3>1 DEF Cared
    <3>2. CASE state[f] = "EXEC"
      <4>1. Token(f)
        BY <1>1, <1>2, <3>2 DEF JobInv, LeaveInv
      <4>2. f \in waiters \/ \E x \in Waiting : x.fiber = f
        BY <4>1, QueuedEntries DEF Token, Waiting
      <4>3. QED
        BY <1>4, <1>6, <4>2 DEF Cared
    <3>3. QED
      BY <3>1, <3>2
  <2>3. state[f] \in {"TERM", "EXCEPT"} /\ cb[f] # NoJob => jobs[cb[f]].phase = "done"
    BY <1>1, <1>2 DEF JobInv, LeaveInv, OnCpu
  <2>4. ASSUME NEW k \in Jobs, jobs[k].phase \in {"queued", "started"}
        PROVE  (\E x \in Waiting' : x.cb = k) \/ \E g \in FiberIds : cb'[g] = k /\ Cared(g)'
    <3>1. CASE \E x \in Waiting : x.cb = k
      BY <1>6, <3>1
    <3>2. CASE \E g \in FiberIds : cb[g] = k /\ Cared(g)
      <4>1. PICK g \in FiberIds : cb[g] = k /\ Cared(g)
        BY <3>2
      <4>2. CASE g # f
        BY <1>4, <2>1, <4>1, <4>2
      <4>3. CASE g = f
        <5>1. state[f] \in {"READY", "EXEC"}
          BY <1>3, <2>3, <2>4, <4>1, <4>3 DEF JobTypes
        <5>2. QED
          BY <1>5, <2>2, <4>1, <4>3, <5>1
      <4>4. QED
        BY <4>2, <4>3
    <3>3. QED
      BY <2>4, <3>1, <3>2 DEF JobInv, CareInv
  <2>5. QED
    BY <1>4, <2>4 DEF CareInv
<1>14. QED
  BY <1>6, <1>10, <1>11, <1>12, <1>13 DEF JobInv

(* A waker fires. *)
LEMMA JobWake ==
    ASSUME TypeFacts, JobTypes, FiberInv, JobInv, NEW f \in FiberIds, Wake(f) PROVE JobInv'
<1>1. PICK e : e = FiberTask(f, AnyThread)
  OBVIOUS
<1>2. e \in Task /\ e.fiber = f /\ e.cb = NoJob /\ f # NoFiber
  BY <1>1, TaskFacts DEF FiberTask, JobTypes
<1>3. /\ f \in waiters /\ waiters' = waiters \ {f} /\ fibers' = Enqueued(fibers, e)
      /\ UNCHANGED <<state, cb, pc, ft, cur, jobs>>
  BY <1>1 DEF Wake
<1>4. \A x \in Waiting : x.fiber # f
  <2>1. ~QueuedFiber(fibers, f) /\ \A u \in Threads : ~Hand(u, f)
    BY <1>3 DEF FiberInv, OneToken, HandInv, Token
  <2>2. QED
    BY <2>1, QueuedEntries DEF Waiting, Hands, Hand
<1>5. EntryInv' /\ Waiting' = Waiting \cup {e}
  BY <1>2, <1>3, <1>4, EntryAdd DEF JobInv
<1>6. state[f] \in {"HOLD", "EXEC"}
  BY <1>3 DEF JobInv, LeaveInv
<1>7. HomeInv'
  BY <1>2, <1>3, <1>5 DEF JobInv, HomeInv, Live
<1>8. PhaseInv'
  BY <1>2, <1>3, <1>5, <1>6 DEF JobInv, PhaseInv, Live, Waits
<1>9. LeaveInv'
  <2>1. \A g : Token(g) => Token(g)'
    BY <1>2, <1>3, EnqueuedEntries, QueuedEntries DEF Token, JobTypes
  <2>2. QED
    BY <1>3, <2>1 DEF JobInv, LeaveInv
<1>10. CareInv'
  <2>1. \A g : Cared(g) => Cared(g)'
    BY <1>2, <1>3, <1>5 DEF Cared
  <2>2. QED
    BY <1>3, <1>5, <2>1 DEF JobInv, CareInv
<1>11. QED
  BY <1>5, <1>7, <1>8, <1>9, <1>10 DEF JobInv

(* A job's history after a yield, a wait or a switch. *)
LEMMA SteppedFacts ==
    ASSUME JobTypes, NEW t \in Threads, cb[cur[t]] \in Jobs
    PROVE  /\ \A k \in Jobs \ {cb[cur[t]]} : Stepped(t)[k] = jobs[k]
           /\ Stepped(t)[cb[cur[t]]].phase = jobs[cb[cur[t]]].phase
           /\ Stepped(t)[cb[cur[t]]].thread = jobs[cb[cur[t]]].thread
           /\ Stepped(t)[cb[cur[t]]].runs = jobs[cb[cur[t]]].runs
           /\ Stepped(t) \in [Jobs -> JobRecord]
<1>1. PICK j \in Jobs : j = cb[cur[t]]
  OBVIOUS
<1>2. jobs \in [Jobs -> JobRecord]
  BY DEF JobTypes
<1>3. Stepped(t) = [jobs EXCEPT ![j].steps = @ + 1]
  BY <1>1 DEF Stepped
<1>4. Stepped(t) \in [Jobs -> JobRecord]
  BY <1>2, <1>3 DEF JobRecord, Phase
<1>5. \A k \in Jobs \ {j} : Stepped(t)[k] = jobs[k]
  BY <1>2, <1>3
<1>6. PICK r : r = jobs[j]
  OBVIOUS
<1>7. r \in JobRecord /\ Stepped(t)[j] = [r EXCEPT !.steps = @ + 1]
  BY <1>2, <1>3, <1>6
<1>8. /\ Stepped(t)[j].phase = r.phase /\ Stepped(t)[j].thread = r.thread
      /\ Stepped(t)[j].runs = r.runs
  BY <1>7 DEF JobRecord
<1>9. QED
  BY <1>1, <1>4, <1>5, <1>6, <1>8

LEMMA JobInit == Init => JobInv
<1> SUFFICES ASSUME Init PROVE JobInv
  OBVIOUS
<1>1. Waiting = {} /\ Entries(fibers) = {}
  BY DEF Init, Waiting, Entries, Hands
<1>2. EntryInv
  BY <1>1 DEF Init, EntryInv, Distinct
<1>3. HomeInv /\ PhaseInv
  BY <1>1 DEF Init, HomeInv, PhaseInv, Live
<1>4. LeaveInv
  BY DEF Init, LeaveInv, OnCpu
<1>5. CareInv
  BY DEF Init, CareInv
<1>6. QED
  BY <1>2, <1>3, <1>4, <1>5 DEF JobInv

(* The steps of the fiber on t. *)
LEMMA JobFiberStep ==
    ASSUME Strict, TypeFacts, JobTypes, FiberInv, JobInv, NEW t \in Threads, Fiber(t)
    PROVE  JobInv'
<1>1. ASSUME NEW j \in Jobs, NEW p \in Runners \cup {AnyThread}, Spawn(t, j, p) PROVE JobInv'
  BY <1>1, JobSubmit, ThreadsFinite DEF Spawn
<1>2. ASSUME Arm(t) PROVE JobInv'
  <2>1. /\ pc[t] = "run" /\ cb[cur[t]] # NoJob /\ cur[t] \notin waiters /\ jobs' = Stepped(t)
        /\ pc'[t] = "armed" /\ \A u \in Threads \ {t} : pc'[u] = pc[u]
        /\ waiters' = waiters \cup {cur[t]} /\ UNCHANGED <<fibers, state, cb, ft, cur>>
    BY <1>2 DEF Arm, MayStep, InJob, JobTypes
  <2>2. cb[cur[t]] \in Jobs
    BY <2>1, RunningJob
  <2>3. EntryInv' /\ Waiting' = Waiting
    BY <2>1, EntryKeep DEF JobInv
  <2>4. (\A g : Token(g) => Token(g)') /\ Token(cur[t])'
    BY <2>1 DEF Token
  <2>5. /\ \A k \in Jobs \ {cb[cur[t]]} : jobs'[k] = jobs[k]
        /\ jobs'[cb[cur[t]]].phase = jobs[cb[cur[t]]].phase
    BY <2>1, <2>2, SteppedFacts
  <2>6. QED
    BY <2>1, <2>3, <2>4, <2>5, JobSuspend
<1>3. ASSUME NEW p \in Runners, SwitchTo(t, p) PROVE JobInv'
  <2>1. PICK e : e = FiberTask(cur[t], p)
    OBVIOUS
  <2>2. /\ pc[t] = "run" /\ cb[cur[t]] # NoJob /\ jobs' = [Stepped(t) EXCEPT ![cb[cur[t]]].thread = p]
        /\ pc'[t] = "armed" /\ \A u \in Threads \ {t} : pc'[u] = pc[u]
        /\ fibers' = Enqueued(fibers, e) /\ UNCHANGED <<waiters, state, cb, ft, cur>>
    BY <1>3, <2>1 DEF SwitchTo, MayStep, InJob, JobTypes
  <2>3. cb[cur[t]] \in Jobs /\ cur[t] \in FiberIds /\ \A x \in Waiting : x.fiber # cur[t]
    BY <2>2, RunningJob, RunsAlone DEF JobInv
  <2>4. e \in Task /\ e.fiber = cur[t] /\ e.cb = NoJob
    BY <2>1, <2>3, TaskFacts, ThreadsFinite DEF FiberTask
  <2>5. EntryInv' /\ Waiting' = Waiting \cup {e}
    BY <2>2, <2>3, <2>4, EntryAdd DEF JobInv
  <2>6. (\A g : Token(g) => Token(g)') /\ Token(cur[t])'
    BY <2>2, <2>4, EnqueuedEntries, QueuedEntries DEF Token, JobTypes
  <2>7. /\ \A k \in Jobs \ {cb[cur[t]]} : jobs'[k] = jobs[k]
        /\ jobs'[cb[cur[t]]].phase = jobs[cb[cur[t]]].phase
    <3>1. PICK s : s = Stepped(t)
      OBVIOUS
    <3>2. /\ s \in [Jobs -> JobRecord] /\ (\A k \in Jobs \ {cb[cur[t]]} : s[k] = jobs[k])
          /\ s[cb[cur[t]]].phase = jobs[cb[cur[t]]].phase
      BY <2>3, <3>1, SteppedFacts
    <3>3. QED
      BY <2>2, <2>3, <3>1, <3>2 DEF JobRecord
  <2>8. QED
    BY <2>2, <2>4, <2>5, <2>6, <2>7, JobSuspend
<1>4. ASSUME YieldToHold(t) PROVE JobInv'
  <2>1. /\ pc[t] = "armed" \/ (pc[t] = "run" /\ HasToken(cur[t]))
        /\ \A u \in Threads \ {t} : pc'[u] = pc[u]
        /\ UNCHANGED <<fibers, state, cb, ft, cur, waiters, jobs>> /\ pc'[t] = "back"
    BY <1>4 DEF YieldToHold, InJob, JobTypes
  <2>2. pc[t] = "run" => Token(cur[t])
    BY <2>1 DEF HasToken, Token, QueuedFiber
  <2>3. QED
    BY <2>1, <2>2, JobMove DEF OnCpu
<1>5. ASSUME YieldToReady(t) \/ Return(t) \/ Throw(t) PROVE JobInv'
  <2>1. /\ pc[t] = "run" /\ pc'[t] = "leave" /\ \A u \in Threads \ {t} : pc'[u] = pc[u]
        /\ UNCHANGED <<fibers, ft, cur, waiters>>
    BY <1>5 DEF YieldToReady, Return, Throw, MayStep, InJob, JobTypes
  <2>2. cur[t] \in FiberIds /\ cb[cur[t]] \in Jobs \cup {NoJob}
    BY <2>1, RunsAlone DEF JobInv, JobTypes
  <2>3. \A g \in FiberIds \ {cur[t]} : state'[g] = state[g] /\ cb'[g] = cb[g]
    BY <1>5, <2>2 DEF YieldToReady, Return, Throw, JobTypes
  <2>4. CASE YieldToReady(t)
    <3>1. cb[cur[t]] \in Jobs /\ jobs' = Stepped(t) /\ state'[cur[t]] = "READY" /\ cb'[cur[t]] = cb[cur[t]]
          /\ cb[cur[t]] # NoJob
      BY <2>2, <2>4 DEF YieldToReady, MayStep, InJob, JobTypes
    <3>2. /\ \A k \in Jobs \ {cb[cur[t]]} : jobs'[k] = jobs[k]
          /\ jobs'[cb[cur[t]]].phase = jobs[cb[cur[t]]].phase
      BY <3>1, SteppedFacts
    <3>3. QED
      BY <2>1, <2>3, <3>1, <3>2, JobSettle
  <2>5. CASE Return(t) \/ Throw(t)
    <3>1. state'[cur[t]] \in {"TERM", "EXCEPT"} /\ cb'[cur[t]] \in {cb[cur[t]], NoJob}
      BY <2>2, <2>5 DEF Return, Throw, JobTypes
    <3>2. jobs' = IF cb[cur[t]] = NoJob THEN jobs ELSE [jobs EXCEPT ![cb[cur[t]]].phase = "done"]
      BY <2>5 DEF Return, Throw, InJob
    <3>3. /\ \A k \in Jobs \ {cb[cur[t]]} : jobs'[k] = jobs[k]
          /\ cb[cur[t]] # NoJob => jobs'[cb[cur[t]]].phase = "done"
      BY <2>2, <3>2 DEF JobTypes, JobRecord
    <3>4. QED
      BY <2>1, <2>3, <3>1, <3>3, JobSettle
  <2>6. QED
    BY <1>5, <2>4, <2>5
<1>6. QED
  BY <1>1, <1>2, <1>3, <1>4, <1>5 DEF Fiber

LEMMA JobStep ==
    ASSUME Strict, TypeInv, FiberInv, JobInv, [Next]_vars PROVE JobInv'
<1>0. TypeFacts /\ JobTypes /\ Caller \in Threads /\ (\A t \in Runners : t \in Threads)
  BY TypeInvFacts, JobTypesHold, ThreadsFinite
<1>p. pc \in [Threads -> PC]
  BY <1>0 DEF JobTypes
<1>1. ASSUME NEW t \in Threads, Loop(t) PROVE JobInv'
  <2>1. CASE EnterIdle(t) \/ ExitRun(t) \/ QuietCheck(t) \/ IdleCheck(t)
    <3>1. UNCHANGED <<fibers, state, cb, ft, cur, waiters, jobs>>
      BY <2>1 DEF EnterIdle, ExitRun, QuietCheck, IdleCheck
    <3>2. /\ pc[t] \notin OnCpu \cup {"dispatch"} /\ pc'[t] \notin OnCpu \cup {"dispatch"}
          /\ \A u \in Threads \ {t} : pc'[u] = pc[u]
      BY <1>p, <2>1 DEF EnterIdle, ExitRun, QuietCheck, IdleCheck, LeaveIdle, OnCpu
    <3>3. QED
      BY <3>1, <3>2, JobFrame
  <2>2. CASE SwapOut(t) \/ Back(t)
    BY <1>p, <2>2, JobMove DEF SwapOut, Back, OnCpu
  <2>3. CASE DispatchDead(t)
    BY <1>0, <2>3, HandFacts DEF DispatchDead
  <2>4. QED
    BY <1>0, <1>1, <2>1, <2>2, <2>3, JobPick, JobDispatchFiber, JobDispatchCb, JobPost DEF Loop
<1>2. ASSUME Client PROVE JobInv'
  <2>1. CASE Start
    <3>1. \A u \in Threads : pc[u] \in {"main", "stopped", "unborn"} /\ pc'[u] \in {"pick", "main"}
      BY <2>1 DEF Start, TypeInv, Resting, Threads
    <3>2. UNCHANGED <<fibers, state, cb, ft, cur, waiters, jobs>>
      BY <2>1 DEF Start
    <3>3. QED
      BY <3>1, <3>2, JobFrame DEF OnCpu
  <2>2. ASSUME NEW p \in Runners \cup {AnyThread}, ScheduleNull(p) PROVE JobInv'
    <3>1. UNCHANGED <<fibers, state, cb, ft, cur, waiters, jobs, pc>>
      BY <2>2 DEF ScheduleNull, Enqueued, CbTask
    <3>2. QED
      BY <3>1, JobFrame
  <2>3. ASSUME NEW j \in Jobs, NEW p \in Runners \cup {AnyThread}, ScheduleCb(j, p) PROVE JobInv'
    BY <1>0, <2>3, JobSubmit DEF ScheduleCb
  <2>4. ASSUME NEW j \in Jobs, NEW p \in Runners \cup {AnyThread}, NEW f \in FiberIds,
               ScheduleFiber(j, p, f)
        PROVE  JobInv'
    BY <1>0, <2>4, JobNewFiber
  <2>5. QED
    BY <1>2, <2>1, <2>2, <2>3, <2>4 DEF Client
<1>3. ASSUME Stop PROVE JobInv'
  <2>1. UNCHANGED <<fibers, state, cb, ft, cur, waiters, jobs>>
    BY <1>3 DEF Stop, StopBegin, StopFlag, StopQuiet, StopCheck, Join
  <2>2. CASE Join
    <3>1. \A u \in Threads : pc[u] \in {"join", "exit"} /\ pc'[u] \in {"stopped", "unborn"}
      BY <2>2 DEF Join, Threads
    <3>2. QED
      BY <2>1, <3>1, JobFrame DEF OnCpu
  <2>3. CASE ~Join
    <3>1. /\ pc[Caller] \notin OnCpu \cup {"dispatch"} /\ pc'[Caller] \notin OnCpu \cup {"dispatch"}
          /\ \A u \in Threads \ {Caller} : pc'[u] = pc[u]
      BY <1>0, <1>p, <1>3, <2>3 DEF Stop, StopBegin, StopFlag, StopQuiet, StopCheck, CallRoot, OnCpu
    <3>2. QED
      BY <2>1, <3>1, JobFrame
  <2>4. QED
    BY <2>2, <2>3
<1>4. ASSUME UNCHANGED vars PROVE JobInv'
  BY <1>4, JobFrame DEF vars
<1>5. QED
  BY <1>0, <1>1, <1>2, <1>3, <1>4, JobFiberStep, JobWake DEF Next, Stopped

LEMMA JobInvariant == ASSUME Strict PROVE Spec => [](TypeInv /\ FiberInv /\ JobInv)
<1>1. Init => TypeInv /\ FiberInv /\ JobInv
  BY TypeInit, FiberInit, JobInit
<1>2. TypeInv /\ FiberInv /\ JobInv /\ [Next]_vars => (TypeInv /\ FiberInv /\ JobInv)'
  BY TypeStep, FiberStep, JobStep
<1>3. QED
  BY <1>1, <1>2, PTL DEF Spec

(* Nothing that was scheduled is forgotten, however many threads, fibers and  *)
(* jobs there are: run() takes an entry out of the queue under the mutex and  *)
(* deals with the fiber's state without it (scheduler.cpp:153-227), and still *)
(* every unfinished job stays with an entry, a thread, a waker or a fiber one *)
(* of these will resume, as long as a fiber suspends once it is registered.   *)
THEOREM NothingIsForgotten == ASSUME Strict PROVE Spec => []NothingForgotten
<1>1. JobInv => NothingForgotten
  <2> SUFFICES ASSUME JobInv, NEW j \in Jobs, jobs[j].phase \in {"queued", "started"}
               PROVE  \/ Queued(j) \/ InHand(j)
                      \/ \E f \in FiberIds : cb[f] = j /\ (Held(f) \/ HasToken(f))
    BY DEF NothingForgotten
  <2>1. \A x \in Waiting : x.cb = j => Queued(j) \/ InHand(j)
    BY DEF Waiting, Entries, Hands, Queued, InHand
  <2>2. \A f \in FiberIds : Cared(f) => Held(f) \/ HasToken(f)
    BY DEF Cared, Waiting, Entries, Hands, Held, HasToken
  <2>3. QED
    BY <2>1, <2>2 DEF JobInv, CareInv
<1>2. QED
  BY <1>1, JobInvariant, PTL

-----------------------------------------------------------------------------
(* The job pool: every step of the scheduler is a step of JobPool or moves no *)
(* job at all.                                                                *)
Runs(u) == pc[u] \in {"run", "armed"} /\ cb[cur[u]] # NoJob

LEMMA ExecutingIs ==
    /\ \A x \in Executing : \E u \in Threads : Runs(u) /\ x = <<cb[cur[u]], u>>
    /\ \A u \in Threads : Runs(u) => <<cb[cur[u]], u>> \in Executing
BY DEF Executing, Runs

(* u goes on with what it executes. *)
Keeps(u) == (Runs(u)' <=> Runs(u)) /\ (Runs(u) => cb'[cur'[u]] = cb[cur[u]])

(* How the pairs of jobs and threads follow from the threads. *)
LEMMA OnSame ==
    ASSUME \A u \in Threads : Keeps(u) PROVE Executing' = Executing
BY DEF Executing, Keeps, Runs

LEMMA OnAdd ==
    ASSUME NEW t \in Threads, NEW j, ~Runs(t), Runs(t)', cb'[cur'[t]] = j,
           \A u \in Threads \ {t} : Keeps(u)
    PROVE  Executing' = Executing \cup {<<j, t>>}
BY DEF Executing, Keeps, Runs

LEMMA OnDrop ==
    ASSUME NEW t \in Threads, NEW j, Runs(t), ~Runs(t)', cb[cur[t]] = j,
           \A u \in Threads \ {t} : Keeps(u)
    PROVE  Executing' = Executing \ {<<j, t>>} /\ <<j, t>> \in Executing
BY DEF Executing, Keeps, Runs

(* The job history the pool sees. *)
SameJob(k) ==
    /\ jobs'[k].phase = jobs[k].phase /\ jobs'[k].thread = jobs[k].thread
    /\ jobs'[k].runs = jobs[k].runs

LEMMA PoolStutter ==
    ASSUME \A k \in Jobs : SameJob(k), Executing' = Executing
    PROVE  UNCHANGED Pool!poolVars
BY DEF Pool!poolVars, SameJob

LEMMA PoolSubmit ==
    ASSUME Threads # {}, NEW j \in Jobs, NEW p \in Threads \cup {AnyThread},
           \A k \in Jobs \ {j} : SameJob(k), jobs[j].phase = "new", jobs'[j].phase = "queued",
           jobs'[j].thread = p, jobs'[j].runs = jobs[j].runs, Executing' = Executing
    PROVE  Pool!PoolNext
<1>1. Pool!Submit(j, p)
  BY DEF Pool!Submit, SameJob
<1>2. QED
  BY <1>1 DEF Pool!PoolNext

LEMMA PoolEnter ==
    ASSUME NEW j \in Jobs, NEW t \in Threads, Waits(j, jobs[j].thread),
           jobs[j].thread \in {AnyThread, t}, Pool!Free(j, t),
           \A k \in Jobs \ {j} : SameJob(k), jobs'[j].phase = "started",
           jobs'[j].thread = jobs[j].thread, jobs'[j].runs = 1,
           Executing' = Executing \cup {<<j, t>>}
    PROVE  Pool!PoolNext
<1>1. Pool!Enter(j, t)
  BY DEF Pool!Enter, SameJob, Waits
<1>2. QED
  BY <1>1 DEF Pool!PoolNext

LEMMA PoolResume ==
    ASSUME NEW j \in Jobs, NEW t \in Threads, jobs[j].phase = "started", Pool!Free(j, t),
           \A k \in Jobs : SameJob(k), Executing' = Executing \cup {<<j, t>>}
    PROVE  Pool!PoolNext
<1>1. Pool!Resume(j, t)
  BY DEF Pool!Resume, SameJob
<1>2. QED
  BY <1>1 DEF Pool!PoolNext

LEMMA PoolSuspend ==
    ASSUME NEW j \in Jobs, NEW t \in Threads, <<j, t>> \in Executing,
           \A k \in Jobs : SameJob(k), Executing' = Executing \ {<<j, t>>}
    PROVE  Pool!PoolNext
<1>1. Pool!Suspend(j, t)
  BY DEF Pool!Suspend, SameJob
<1>2. QED
  BY <1>1 DEF Pool!PoolNext

LEMMA PoolRedirect ==
    ASSUME NEW j \in Jobs, NEW t \in Threads, NEW p \in Threads, <<j, t>> \in Executing,
           \A k \in Jobs \ {j} : SameJob(k), jobs'[j].phase = jobs[j].phase,
           jobs'[j].thread = p, jobs'[j].runs = jobs[j].runs, Executing' = Executing
    PROVE  Pool!PoolNext
<1>1. Pool!Redirect(j, t, p)
  BY DEF Pool!Redirect, SameJob
<1>2. QED
  BY <1>1 DEF Pool!PoolNext

LEMMA PoolFinish ==
    ASSUME NEW j \in Jobs, NEW t \in Threads, <<j, t>> \in Executing,
           jobs[j].phase = "started", \A k \in Jobs \ {j} : SameJob(k), jobs'[j].phase = "done",
           jobs'[j].thread = jobs[j].thread, jobs'[j].runs = jobs[j].runs,
           Executing' = Executing \ {<<j, t>>}
    PROVE  Pool!PoolNext
<1>1. Pool!Finish(j, t)
  BY DEF Pool!Finish, SameJob
<1>2. QED
  BY <1>1 DEF Pool!PoolNext

(* What a thread executes is a live fiber's job. *)
LEMMA RunsLive ==
    ASSUME TypeFacts, JobTypes, FiberInv, NEW u \in Threads, Runs(u)
    PROVE  cur[u] \in FiberIds /\ Live(cur[u]) /\ cb[cur[u]] \in Jobs
<1>1. cur[u] \in FiberIds /\ state[cur[u]] = "EXEC"
  BY DEF FiberInv, OwnerState, TypeFacts, OnCpu, Runs
<1>2. QED
  BY <1>1 DEF Runs, Live, JobTypes

LEMMA FreeFor ==
    ASSUME NEW j, NEW t \in Threads, ~Runs(t), \A u \in Threads : Runs(u) => cb[cur[u]] # j
    PROVE  Pool!Free(j, t)
<1> SUFFICES ASSUME NEW x \in Executing PROVE x[1] # j /\ x[2] # t
  BY DEF Pool!Free
<1>1. PICK u \in Threads : Runs(u) /\ x = <<cb[cur[u]], u>>
  BY ExecutingIs
<1>2. QED
  BY <1>1

(* run() swaps into the fiber of an entry: its job is entered or resumed. *)
LEMMA PoolDispatchFiber ==
    ASSUME TypeFacts, JobTypes, FiberInv, JobInv, NEW t \in Threads, DispatchFiber(t)
    PROVE  Pool!PoolNext \/ UNCHANGED Pool!poolVars
<1>1. PICK f : f = ft[t].fiber
  OBVIOUS
<1>2. /\ f \in FiberIds /\ state[f] \in {"INIT", "HOLD", "READY"}
      /\ ft[t] \in Waiting /\ \A u \in Threads : cur[u] # f
  BY <1>1, HandFacts DEF DispatchFiber
<1>3. /\ pc[t] = "dispatch" /\ pc'[t] = "run" /\ cur'[t] = f
      /\ \A u \in Threads \ {t} : pc'[u] = pc[u] /\ cur'[u] = cur[u]
      /\ UNCHANGED cb
  BY <1>1, <1>2 DEF DispatchFiber, JobTypes
<1>4. PICK j : j = cb[f]
  OBVIOUS
<1>5. j \in Jobs \cup {NoJob} /\ (j # NoJob => Live(f) /\ j \in Jobs)
  BY <1>2, <1>4 DEF JobTypes, Live
<1>6. ~Runs(t) /\ cb'[cur'[t]] = j /\ (Runs(t)' <=> j # NoJob)
  BY <1>3, <1>4 DEF Runs
<1>7. \A u \in Threads \ {t} : Keeps(u)
  BY <1>3 DEF Keeps, Runs
<1>8. CASE j = NoJob
  <2>1. Executing' = Executing
    BY <1>6, <1>7, <1>8, OnSame DEF Keeps
  <2>2. jobs' = jobs
    BY <1>1, <1>4, <1>8 DEF DispatchFiber, Started
  <2>3. QED
    BY <2>1, <2>2, PoolStutter DEF SameJob
<1>9. CASE j # NoJob
  <2>1. Executing' = Executing \cup {<<j, t>>}
    BY <1>6, <1>7, <1>9, OnAdd
  <2>2. \A u \in Threads : Runs(u) => cb[cur[u]] # j
    <3> SUFFICES ASSUME NEW u \in Threads, Runs(u), cb[cur[u]] = j PROVE FALSE
      OBVIOUS
    <3>1. cur[u] \in FiberIds /\ Live(cur[u])
      BY RunsLive
    <3>2. cur[u] = f
      BY <1>2, <1>4, <1>5, <1>9, <3>1 DEF JobInv, HomeInv
    <3>3. QED
      BY <1>2, <3>2
  <2>3. Pool!Free(j, t)
    BY <1>6, <2>2, FreeFor
  <2>4. CASE state[f] = "INIT"
    <3>1. jobs' = Started(j)
      BY <1>1, <1>4, <2>4 DEF DispatchFiber
    <3>2. Waits(j, ft[t].thread)
      BY <1>1, <1>2, <1>4, <1>9, <2>4 DEF JobInv, PhaseInv, JobTypes
    <3>3. ft[t].thread \in {AnyThread, t}
      BY <1>3 DEF JobInv, EntryInv
    <3>4. /\ \A k \in Jobs \ {j} : SameJob(k)
          /\ jobs'[j].phase = "started" /\ jobs'[j].thread = jobs[j].thread
          /\ jobs'[j].runs = 1
      BY <1>5, <1>9, <3>1, <3>2, StartedFacts DEF SameJob, Waits
    <3>5. QED
      BY <1>5, <1>9, <2>1, <2>3, <3>2, <3>3, <3>4, PoolEnter DEF Waits
  <2>5. CASE state[f] # "INIT"
    <3>1. jobs' = jobs
      BY <1>1, <2>5 DEF DispatchFiber
    <3>2. jobs[j].phase = "started"
      BY <1>2, <1>4, <1>5, <1>9, <2>5 DEF JobInv, PhaseInv
    <3>3. QED
      BY <1>5, <1>9, <2>1, <2>3, <3>1, <3>2, PoolResume DEF SameJob
  <2>6. QED
    BY <2>4, <2>5
<1>10. QED
  BY <1>8, <1>9

(* run() swaps into its cb_fiber, reset or new, for the callback in its hand. *)
LEMMA PoolDispatchCb ==
    ASSUME TypeFacts, JobTypes, FiberInv, JobInv, NEW t \in Threads, NEW f \in FiberIds,
           DispatchCb(t, f)
    PROVE  Pool!PoolNext
<1>1. PICK j : j = ft[t].cb
  OBVIOUS
<1>2. /\ pc[t] = "dispatch" /\ pc'[t] = "run" /\ cur'[t] = f /\ cb'[f] = j
      /\ ft[t].fiber = NoFiber /\ jobs' = Started(j)
      /\ \A u \in Threads \ {t} : pc'[u] = pc[u] /\ cur'[u] = cur[u]
      /\ \A g \in FiberIds \ {f} : cb'[g] = cb[g]
  BY <1>1 DEF DispatchCb, JobTypes
<1>3. state[f] = "NONE" \/ cbFiber[t] = f
  BY DEF DispatchCb
<1>4. \A u \in Threads : cur[u] # f
  BY <1>2, <1>3, Nowhere DEF JobInv, Cared
<1>5. ft[t] \in Waiting
  BY <1>2 DEF Waiting, Hands
<1>6. j \in Jobs /\ j # NoJob
  BY <1>1, <1>2, <1>5, WaitingTyped DEF JobInv, JobTypes
<1>7. Waits(j, ft[t].thread) /\ ft[t].thread \in {AnyThread, t}
  BY <1>1, <1>2, <1>5, <1>6 DEF JobInv, PhaseInv, EntryInv
<1>8. \A u \in Threads : Runs(u) => cb[cur[u]] # j /\ cur[u] \in FiberIds
  BY <1>1, <1>5, RunsLive DEF JobInv, HomeInv
<1>9. ~Runs(t) /\ Runs(t)' /\ cb'[cur'[t]] = j
  BY <1>2, <1>6 DEF Runs
<1>10. \A u \in Threads \ {t} : Keeps(u)
  <2> SUFFICES ASSUME NEW u \in Threads \ {t} PROVE Keeps(u)
    OBVIOUS
  <2>1. CASE pc[u] \in {"run", "armed"}
    <3>1. cur[u] \in FiberIds \ {f}
      BY <1>4, <2>1 DEF TypeFacts, OnCpu
    <3>2. QED
      BY <1>2, <3>1 DEF Keeps, Runs
  <2>2. CASE pc[u] \notin {"run", "armed"}
    BY <1>2, <2>2 DEF Keeps, Runs
  <2>3. QED
    BY <2>1, <2>2
<1>11. Executing' = Executing \cup {<<j, t>>}
  BY <1>9, <1>10, OnAdd
<1>12. Pool!Free(j, t)
  BY <1>8, <1>9, FreeFor
<1>13. /\ \A k \in Jobs \ {j} : SameJob(k)
       /\ jobs'[j].phase = "started" /\ jobs'[j].thread = jobs[j].thread /\ jobs'[j].runs = 1
  BY <1>2, <1>6, <1>7, StartedFacts DEF SameJob, Waits
<1>14. QED
  BY <1>6, <1>7, <1>11, <1>12, <1>13, PoolEnter DEF Waits

(* A step after which every thread executes what it executed before. *)
LEMMA PoolFrame ==
    ASSUME \A u \in Threads : {pc[u], pc'[u]} \cap {"run", "armed"} = {}
                              \/ (pc'[u] = pc[u] /\ cur'[u] = cur[u] /\ cb'[cur[u]] = cb[cur[u]]),
           jobs' = jobs
    PROVE  UNCHANGED Pool!poolVars
<1>1. \A u \in Threads : Keeps(u)
  BY DEF Keeps, Runs
<1>2. QED
  BY <1>1, OnSame, PoolStutter DEF SameJob

(* The fiber on t gives up its thread, or is done. *)
LEMMA OthersKeep ==
    ASSUME TypeFacts, JobTypes, FiberInv, NEW t \in Threads, pc[t] \in OnCpu,
           \A u \in Threads \ {t} : pc'[u] = pc[u] /\ cur'[u] = cur[u],
           \A g \in FiberIds \ {cur[t]} : cb'[g] = cb[g]
    PROVE  \A u \in Threads \ {t} : Keeps(u)
<1> SUFFICES ASSUME NEW u \in Threads \ {t} PROVE Keeps(u)
  OBVIOUS
<1>1. CASE pc[u] \in {"run", "armed"}
  <2>1. cur[u] \in FiberIds /\ cur[t] \in FiberIds
    BY <1>1 DEF TypeFacts, OnCpu
  <2>2. cur[u] # cur[t]
    BY <2>1 DEF FiberInv, Exclusive, TypeFacts
  <2>3. QED
    BY <2>1, <2>2 DEF Keeps, Runs
<1>2. CASE pc[u] \notin {"run", "armed"}
  BY <1>2 DEF Keeps, Runs
<1>3. QED
  BY <1>1, <1>2

(* The steps of a job. *)
LEMMA PoolFiberStep ==
    ASSUME Strict, TypeFacts, JobTypes, FiberInv, JobInv, NEW t \in Threads, Fiber(t)
    PROVE  Pool!PoolNext \/ UNCHANGED Pool!poolVars
<1>1. ASSUME NEW j \in Jobs, NEW p \in Runners \cup {AnyThread}, Spawn(t, j, p)
      PROVE  Pool!PoolNext
  <2>1. p \in Threads \cup {AnyThread} /\ Threads # {}
    BY ThreadsFinite
  <2>2. Executing' = Executing /\ jobs[j].phase = "new" /\ jobs' = Submitted(j, p)
    BY <1>1 DEF Spawn, Executing
  <2>3. QED
    BY <2>1, <2>2, SubmittedFacts, PoolSubmit DEF SameJob
<1>2. ASSUME Arm(t) PROVE UNCHANGED Pool!poolVars
  <2>1. /\ pc[t] = "run" /\ cb[cur[t]] # NoJob /\ jobs' = Stepped(t) /\ pc'[t] = "armed"
        /\ (\A u \in Threads \ {t} : pc'[u] = pc[u]) /\ UNCHANGED <<cb, cur>>
    BY <1>2 DEF Arm, MayStep, InJob, JobTypes
  <2>2. \A u \in Threads : Keeps(u)
    BY <2>1 DEF Keeps, Runs
  <2>3. cb[cur[t]] \in Jobs
    BY <2>1, RunningJob
  <2>4. \A k \in Jobs : SameJob(k)
    BY <2>1, <2>3, SteppedFacts DEF SameJob
  <2>5. QED
    BY <2>2, <2>4, OnSame, PoolStutter
<1>3. ASSUME NEW p \in Runners, SwitchTo(t, p) PROVE Pool!PoolNext
  <2>1. PICK j : j = cb[cur[t]]
    OBVIOUS
  <2>2. /\ pc[t] = "run" /\ j # NoJob /\ jobs' = [Stepped(t) EXCEPT ![j].thread = p]
        /\ pc'[t] = "armed" /\ (\A u \in Threads \ {t} : pc'[u] = pc[u]) /\ UNCHANGED <<cb, cur>>
    BY <1>3, <2>1 DEF SwitchTo, MayStep, InJob, JobTypes
  <2>3. \A u \in Threads : Keeps(u)
    BY <2>2 DEF Keeps, Runs
  <2>4. j \in Jobs /\ p \in Threads
    BY <2>1, <2>2, RunningJob, ThreadsFinite
  <2>5. <<j, t>> \in Executing
    BY <2>1, <2>2, ExecutingIs DEF Runs
  <2>6. PICK s : s = Stepped(t)
    OBVIOUS
  <2>7. /\ s \in [Jobs -> JobRecord] /\ (\A k \in Jobs \ {j} : s[k] = jobs[k])
        /\ s[j].phase = jobs[j].phase /\ s[j].runs = jobs[j].runs
    BY <2>1, <2>4, <2>6, SteppedFacts
  <2>8. /\ \A k \in Jobs \ {j} : SameJob(k)
        /\ jobs'[j].phase = jobs[j].phase /\ jobs'[j].thread = p /\ jobs'[j].runs = jobs[j].runs
    BY <2>2, <2>4, <2>6, <2>7 DEF JobRecord, SameJob
  <2>9. QED
    BY <2>3, <2>4, <2>5, <2>8, OnSame, PoolRedirect
<1>4. ASSUME YieldToHold(t) \/ YieldToReady(t)
      PROVE  Pool!PoolNext \/ UNCHANGED Pool!poolVars
  <2>1. PICK j : j = cb[cur[t]]
    OBVIOUS
  <2>2. /\ pc[t] \in {"run", "armed"} /\ pc'[t] \in {"leave", "back"}
        /\ (\A u \in Threads \ {t} : pc'[u] = pc[u]) /\ UNCHANGED <<cb, cur>>
    BY <1>4 DEF YieldToHold, YieldToReady, MayStep, InJob, JobTypes
  <2>3. \A u \in Threads \ {t} : Keeps(u)
    BY <2>2 DEF Keeps, Runs
  <2>4. \A k \in Jobs : SameJob(k)
    <3>1. CASE YieldToHold(t)
      BY <3>1 DEF YieldToHold, SameJob
    <3>2. CASE YieldToReady(t)
      <4>1. pc[t] = "run" /\ cb[cur[t]] # NoJob /\ jobs' = Stepped(t)
        BY <3>2 DEF YieldToReady, MayStep, InJob
      <4>2. cb[cur[t]] \in Jobs
        BY <4>1, RunningJob
      <4>3. QED
        BY <4>1, <4>2, SteppedFacts DEF SameJob
    <3>3. QED
      BY <1>4, <3>1, <3>2
  <2>5. CASE Runs(t)
    <3>1. j \in Jobs
      BY <2>1, <2>5, RunsLive
    <3>2. Executing' = Executing \ {<<j, t>>} /\ <<j, t>> \in Executing
      BY <2>1, <2>2, <2>3, <2>5, OnDrop DEF Runs
    <3>3. QED
      BY <2>4, <3>1, <3>2, PoolSuspend
  <2>6. CASE ~Runs(t)
    <3>1. \A u \in Threads : Keeps(u)
      BY <2>2, <2>3, <2>6 DEF Keeps, Runs
    <3>2. QED
      BY <2>4, <3>1, OnSame, PoolStutter
  <2>7. QED
    BY <2>5, <2>6
<1>5. ASSUME Return(t) \/ Throw(t) PROVE Pool!PoolNext \/ UNCHANGED Pool!poolVars
  <2>1. PICK j : j = cb[cur[t]]
    OBVIOUS
  <2>2. /\ pc[t] = "run" /\ pc'[t] = "leave" /\ UNCHANGED cur
        /\ \A u \in Threads \ {t} : pc'[u] = pc[u]
    BY <1>5 DEF Return, Throw, InJob, JobTypes
  <2>3. cur[t] \in FiberIds /\ \A g \in FiberIds \ {cur[t]} : cb'[g] = cb[g]
    BY <1>5, <2>2, RunsAlone DEF Return, Throw, JobTypes, JobInv
  <2>4. \A u \in Threads \ {t} : Keeps(u)
    BY <2>2, <2>3, OthersKeep DEF OnCpu
  <2>5. jobs' = IF j = NoJob THEN jobs ELSE [jobs EXCEPT ![j].phase = "done"]
    BY <1>5, <2>1 DEF Return, Throw, InJob
  <2>6. ~Runs(t)'
    BY <2>2 DEF Runs
  <2>7. CASE j # NoJob
    <3>1. j \in Jobs /\ jobs[j].phase = "started"
      BY <2>1, <2>2, <2>7, RunningJob
    <3>2. /\ \A k \in Jobs \ {j} : SameJob(k)
          /\ jobs'[j].phase = "done" /\ jobs'[j].thread = jobs[j].thread
          /\ jobs'[j].runs = jobs[j].runs
      BY <2>5, <2>7, <3>1 DEF JobTypes, JobRecord, SameJob
    <3>3. Executing' = Executing \ {<<j, t>>} /\ <<j, t>> \in Executing
      BY <2>1, <2>2, <2>4, <2>6, <2>7, OnDrop DEF Runs
    <3>4. QED
      BY <3>1, <3>2, <3>3, PoolFinish
  <2>8. CASE j = NoJob
    <3>1. \A u \in Threads : Keeps(u)
      BY <2>1, <2>2, <2>4, <2>6, <2>8 DEF Keeps, Runs
    <3>2. QED
      BY <2>5, <2>8, <3>1, OnSame, PoolStutter DEF SameJob
  <2>9. QED
    BY <2>7, <2>8
<1>6. QED
  BY <1>1, <1>2, <1>3, <1>4, <1>5 DEF Fiber

LEMMA PoolStep ==
    ASSUME Strict, TypeInv, FiberInv, JobInv, [Next]_vars
    PROVE  Pool!PoolNext \/ UNCHANGED Pool!poolVars
<1>0. TypeFacts /\ JobTypes /\ Caller \in Threads /\ (\A t \in Runners : t \in Threads)
  BY TypeInvFacts, JobTypesHold, ThreadsFinite
<1>p. pc \in [Threads -> PC]
  BY <1>0 DEF JobTypes
<1>1. ASSUME NEW t \in Threads, Loop(t) PROVE Pool!PoolNext \/ UNCHANGED Pool!poolVars
  <2>1. CASE \/ PickTask(t) \/ EnterIdle(t) \/ ExitRun(t) \/ QuietCheck(t) \/ IdleCheck(t)
             \/ DispatchDead(t) \/ SwapOut(t) \/ Back(t)
    <3>1. UNCHANGED <<cb, cur, jobs>>
      BY <2>1 DEF PickTask, EnterIdle, ExitRun, QuietCheck, IdleCheck, DispatchDead, SwapOut, Back
    <3>2. /\ {pc[t], pc'[t]} \cap {"run", "armed"} = {}
          /\ \A u \in Threads \ {t} : pc'[u] = pc[u]
      BY <1>p, <2>1 DEF PickTask, EnterIdle, ExitRun, QuietCheck, IdleCheck, DispatchDead, SwapOut,
                        Back, LeaveIdle
    <3>3. QED
      BY <3>1, <3>2, PoolFrame
  <2>2. CASE Post(t)
    <3>1. /\ pc[t] = "post" /\ pc'[t] = "pick" /\ jobs' = jobs
          /\ \A u \in Threads \ {t} : pc'[u] = pc[u] /\ cur'[u] = cur[u]
      BY <1>0, <2>2 DEF Post, JobTypes
    <3>2. \A g \in FiberIds \ {cur[t]} : cb'[g] = cb[g]
      BY <1>0, <2>2 DEF Post, JobTypes
    <3>3. \A u \in Threads \ {t} : Keeps(u)
      BY <1>0, <3>1, <3>2, OthersKeep DEF OnCpu
    <3>4. Keeps(t)
      BY <3>1 DEF Keeps, Runs
    <3>5. QED
      BY <3>1, <3>3, <3>4, OnSame, PoolStutter DEF SameJob
  <2>3. QED
    BY <1>0, <1>1, <2>1, <2>2, PoolDispatchFiber, PoolDispatchCb DEF Loop
<1>2. ASSUME Client PROVE Pool!PoolNext \/ UNCHANGED Pool!poolVars
  <2>1. CASE Start
    <3>1. \A u \in Threads : pc[u] \in {"main", "stopped", "unborn"} /\ pc'[u] \in {"pick", "main"}
      BY <2>1 DEF Start, TypeInv, Resting, Threads
    <3>2. QED
      BY <2>1, <3>1, PoolFrame DEF Start
  <2>2. ASSUME NEW p \in Runners \cup {AnyThread}, ScheduleNull(p)
        PROVE  UNCHANGED Pool!poolVars
    BY <2>2, PoolFrame DEF ScheduleNull
  <2>3. ASSUME NEW j \in Jobs, NEW p \in Runners \cup {AnyThread}, ScheduleCb(j, p)
        PROVE  Pool!PoolNext
    <3>1. Executing' = Executing /\ jobs[j].phase = "new" /\ jobs' = Submitted(j, p)
      BY <2>3 DEF ScheduleCb, Executing
    <3>2. QED
      BY <1>0, <3>1, SubmittedFacts, PoolSubmit DEF SameJob
  <2>4. ASSUME NEW j \in Jobs, NEW p \in Runners \cup {AnyThread}, NEW f \in FiberIds,
               ScheduleFiber(j, p, f)
        PROVE  Pool!PoolNext
    <3>1. /\ state[f] = "NONE" /\ jobs[j].phase = "new" /\ jobs' = Submitted(j, p)
          /\ UNCHANGED <<pc, cur>> /\ \A g \in FiberIds \ {f} : cb'[g] = cb[g]
      BY <1>0, <2>4 DEF ScheduleFiber, JobTypes
    <3>2. \A u \in Threads : cur[u] # f
      BY <1>0, <3>1, Nowhere DEF JobInv, Cared
    <3>3. \A u \in Threads : pc[u] \in {"run", "armed"} => cur[u] \in FiberIds \ {f}
      BY <1>0, <3>2 DEF TypeFacts, OnCpu
    <3>4. \A u \in Threads : Keeps(u)
      BY <3>1, <3>3 DEF Keeps, Runs
    <3>5. QED
      BY <1>0, <3>1, <3>4, OnSame, SubmittedFacts, PoolSubmit DEF SameJob
  <2>5. QED
    BY <1>2, <2>1, <2>2, <2>3, <2>4 DEF Client
<1>3. ASSUME Stop PROVE UNCHANGED Pool!poolVars
  <2>1. UNCHANGED <<cb, cur, jobs>>
    BY <1>3 DEF Stop, StopBegin, StopFlag, StopQuiet, StopCheck, Join
  <2>2. CASE Join
    <3>1. \A u \in Threads : pc[u] \in {"join", "exit"} /\ pc'[u] \in {"stopped", "unborn"}
      BY <2>2 DEF Join, Threads
    <3>2. QED
      BY <2>1, <3>1, PoolFrame
  <2>3. CASE ~Join
    <3>1. /\ {pc[Caller], pc'[Caller]} \cap {"run", "armed"} = {}
          /\ \A u \in Threads \ {Caller} : pc'[u] = pc[u]
      BY <1>0, <1>p, <1>3, <2>3 DEF Stop, StopBegin, StopFlag, StopQuiet, StopCheck, CallRoot
    <3>2. QED
      BY <2>1, <3>1, PoolFrame
  <2>4. QED
    BY <2>2, <2>3
<1>4. ASSUME UNCHANGED vars PROVE UNCHANGED Pool!poolVars
  BY <1>4, PoolFrame DEF vars
<1>5. ASSUME NEW f \in FiberIds, Wake(f) PROVE UNCHANGED Pool!poolVars
  BY <1>5, PoolFrame DEF Wake
<1>6. QED
  BY <1>0, <1>1, <1>2, <1>3, <1>4, <1>5, PoolFiberStep DEF Next, Stopped

(* The scheduler implements the job pool for any number of threads, fibers    *)
(* and jobs: however often its fiber is popped, queued again or its cb_fiber  *)
(* reset, a callback is entered once, on a thread it was meant for, is on one *)
(* thread at a time and alone there, and finishes from the thread it is on    *)
(* (scheduler.cpp:135-250, fiber.cpp), as long as a fiber suspends once it is *)
(* registered with a waker.                                                   *)
THEOREM SchedulerImplementsPool == ASSUME Strict PROVE Spec => ImplementsPool
<1>1. Init => Pool!PoolInit
  BY DEF Init, Pool!PoolInit, Executing
<1>2. TypeInv /\ FiberInv /\ JobInv /\ [Next]_vars => [Pool!PoolNext]_(Pool!poolVars)
  BY PoolStep
<1>3. QED
  BY <1>1, <1>2, JobInvariant, PTL DEF Spec, ImplementsPool, Pool!PoolSpec

=============================================================================
