------------------------ MODULE SchedulerStopProofs ------------------------
(***************************************************************************)
(* Proofs about stop(): no queue entry waits for a thread that has left    *)
(* run(), and what stop() leaves behind is suspended.  They hold as long   *)
(* as a running job names no thread but its own.                           *)
(***************************************************************************)
EXTENDS SchedulerJobProofs

(* Where the threads are while the owner is in each part of its life. *)
ServePhase ==
    /\ \A w \in Workers : pc[w] \in RunPC \cup {"unborn", "exit"}
    /\ pc[Caller] \notin {"unborn", "exit"}
    /\ (~UseCaller => pc[Caller] \notin RunPC \cup {"stopQuiet", "stopCheck"})
    /\ pc[Caller] = "main" => (stopping <=> starts = 0)
    /\ pc[Caller] = "stopFlag" => ~stopping
    /\ \A w \in Workers : pc[w] = "unborn" =>
         pc[Caller] = "stopped" \/ (pc[Caller] = "main" /\ stopping)
    /\ pc[Caller] \in {"main", "stopFlag"} => \A w \in Workers : pc[w] # "exit" /\ ~idleTerm[w]

LEMMA ServeInit == Init => ServePhase
<1> SUFFICES ASSUME Init PROVE ServePhase
  OBVIOUS
<1>1. /\ pc[Caller] = "main" /\ stopping /\ starts = 0
      /\ \A w \in Workers : pc[w] = "unborn" /\ ~idleTerm[w]
  BY ThreadAssumption DEF Init, Threads
<1>2. QED
  BY <1>1 DEF ServePhase, RunPC

(* Only run() moves a worker, and stop() moves the owner. *)
LEMMA ServeStep == ASSUME TypeInv, ServePhase, [Next]_vars PROVE ServePhase'
<1>0. /\ pc \in [Threads -> PC] /\ idleTerm \in [Threads -> BOOLEAN] /\ Workers \subseteq Threads
      /\ Caller \in Threads /\ Caller \notin Workers /\ Runners \subseteq Threads
      /\ (Caller \in Runners => UseCaller) /\ starts \in Nat
  BY ThreadAssumption, BoundAssumption DEF TypeInv, TypeOK, Threads, Runners
<1>1. ASSUME NEW t \in Runners, Loop(t) \/ Fiber(t) PROVE ServePhase'
  <2>1. /\ pc[t] \in RunPC /\ UNCHANGED <<stopping, starts>>
        /\ \A u \in Threads \ {t} : pc'[u] = pc[u] /\ idleTerm'[u] = idleTerm[u]
    BY <1>0, <1>1
       DEF Loop, Fiber, RunPC, PickTask, EnterIdle, ExitRun, QuietCheck, IdleCheck, LeaveIdle,
           DispatchFiber, DispatchDead, DispatchCb, SwapOut, Back, Post, Spawn, Arm, SwitchTo,
           YieldToHold, YieldToReady, Return, Throw, MayStep, InJob
  <2>2. \/ pc'[t] \in RunPC /\ (idleTerm'[t] => idleTerm[t] \/ stopping)
        \/ /\ idleTerm[t] /\ idleTerm'[t] = idleTerm[t]
           /\ pc'[t] = IF t = Caller THEN "join" ELSE "exit"
    BY <1>0, <1>1
       DEF Loop, Fiber, RunPC, PickTask, EnterIdle, ExitRun, QuietCheck, IdleCheck, LeaveIdle,
           DispatchFiber, DispatchDead, DispatchCb, SwapOut, Back, Post, Spawn, Arm, SwitchTo,
           YieldToHold, YieldToReady, Return, Throw, MayStep, InJob, StoppingNow
  <2>3. CASE t = Caller
    BY <1>0, <2>1, <2>2, <2>3 DEF ServePhase, RunPC
  <2>4. CASE t # Caller
    <3>1. t \in Workers /\ pc'[Caller] = pc[Caller]
      BY <1>0, <2>1, <2>4 DEF Threads
    <3>2. pc[Caller] \in {"main", "stopFlag"} => ~stopping /\ ~idleTerm[t]
      BY <2>1, <3>1 DEF ServePhase, TypeInv, Resting, RunPC
    <3>3. QED
      BY <1>0, <2>1, <2>2, <2>4, <3>1, <3>2 DEF ServePhase, RunPC
  <2>5. QED
    BY <2>3, <2>4
<1>2. ASSUME UNCHANGED <<pc, idleTerm, stopping, starts>> PROVE ServePhase'
  BY <1>2 DEF ServePhase
<1>3. CASE Start
  <2>1. /\ pc'[Caller] = "main" /\ ~stopping' /\ starts' = starts + 1
        /\ \A w \in Workers : pc'[w] = "pick" /\ ~idleTerm'[w]
    BY <1>0, <1>3 DEF Start
  <2>2. QED
    BY <1>0, <2>1 DEF ServePhase, RunPC
<1>4. CASE StopBegin \/ StopFlag \/ StopQuiet \/ StopCheck
  <2>1. \A w \in Workers : pc'[w] = pc[w] /\ idleTerm'[w] = idleTerm[w]
    BY <1>0, <1>4 DEF StopBegin, StopFlag, StopQuiet, StopCheck, CallRoot
  <2>2. /\ pc[Caller] \in {"main", "stopFlag", "stopQuiet", "stopCheck"}
        /\ pc'[Caller] \in {"stopFlag", "stopQuiet", "stopCheck", "join", "pick"}
        /\ (pc[Caller] = "main" => starts > 0)
        /\ (pc'[Caller] = "stopFlag" => pc[Caller] = "main" /\ stopping' = stopping)
        /\ (pc'[Caller] = "pick" => pc[Caller] \in {"stopQuiet", "stopCheck"})
        /\ (pc[Caller] = "stopFlag" => (pc'[Caller] = "join" <=> ~UseCaller))
        /\ (pc[Caller] = "stopFlag" => pc'[Caller] \in {"join", "stopQuiet"})
        /\ (pc[Caller] = "main" => pc'[Caller] = "stopFlag")
    BY <1>0, <1>4 DEF StopBegin, StopFlag, StopQuiet, StopCheck, CallRoot
  <2>3. pc[Caller] = "main" => ~stopping
    <3>1. starts > 0 => starts # 0
      BY <1>0
    <3>2. QED
      BY <2>2, <3>1 DEF ServePhase
  <2>4. \A w \in Workers : pc[w] # "unborn"
    BY <2>2, <2>3 DEF ServePhase
  <2>5. pc'[Caller] = "stopFlag" => ~stopping' /\ \A w \in Workers : pc'[w] # "exit" /\ ~idleTerm'[w]
    BY <2>1, <2>2, <2>3 DEF ServePhase
  <2>6. pc'[Caller] \in RunPC \cup {"stopQuiet", "stopCheck"} => UseCaller
    BY <2>2 DEF ServePhase, RunPC
  <2>7. QED
    BY <1>0, <2>1, <2>2, <2>4, <2>5, <2>6 DEF ServePhase, RunPC
<1>5. CASE Join
  <2>1. pc'[Caller] = "stopped" /\ \A w \in Workers : pc'[w] = "unborn"
    BY <1>0, <1>5 DEF Join
  <2>2. QED
    BY <2>1 DEF ServePhase, RunPC
<1>6. QED
  BY <1>1, <1>2, <1>3, <1>4, <1>5
     DEF Next, Client, Stop, Stopped, Wake, ScheduleCb, ScheduleNull, ScheduleFiber, vars

-----------------------------------------------------------------------------
(* An entry for one thread: the thread is still there for it, and its fiber,  *)
(* if it has one, has not run yet.                                            *)
Served(x) ==
    /\ x.thread \in Runners /\ pc[x.thread] \notin {"exit", "join"}
    /\ x.fiber # NoFiber => state[x.fiber] = "INIT"

PinInv == \A x \in Entries(fibers) : x.thread # AnyThread => Served(x)

(* A fiber that is queued and new stays new while it is queued. *)
LEMMA InitKept ==
    ASSUME TypeInv, FiberInv, [Next]_vars, NEW f \in FiberIds, Token(f), state[f] = "INIT"
    PROVE  state'[f] = "INIT"
<1>0. TypeFacts /\ state \in [FiberIds -> FiberState] /\ Runners \subseteq Threads
  BY TypeInvFacts, ThreadsFinite DEF TypeInv, TypeOK
<1>1. \A t \in Threads : /\ cur[t] # f /\ ~(cbFiber[t] = f) /\ ~Hand(t, f)
  BY <1>0 DEF FiberInv, TokenInv, HandInv
<1>2. ASSUME NEW t \in Threads, Loop(t) PROVE state'[f] = "INIT"
  <2>1. CASE DispatchFiber(t)
    BY <1>0, <1>1, <2>1 DEF DispatchFiber, Hand
  <2>2. ASSUME NEW g \in FiberIds, DispatchCb(t, g) PROVE state'[f] = "INIT"
    BY <1>0, <1>1, <2>2 DEF DispatchCb
  <2>3. CASE Post(t)
    BY <1>0, <1>1, <2>3 DEF Post
  <2>4. QED
    BY <1>2, <2>1, <2>2, <2>3
       DEF Loop, PickTask, EnterIdle, ExitRun, QuietCheck, IdleCheck, DispatchDead, SwapOut, Back
<1>3. ASSUME NEW t \in Threads, Fiber(t) PROVE state'[f] = "INIT"
  BY <1>0, <1>1, <1>3 DEF Fiber, Spawn, Arm, SwitchTo, YieldToHold, YieldToReady, Return, Throw
<1>4. ASSUME Client PROVE state'[f] = "INIT"
  BY <1>0, <1>4 DEF Client, Start, ScheduleCb, ScheduleNull, ScheduleFiber
<1>5. QED
  BY <1>0, <1>2, <1>3, <1>4
     DEF Next, Wake, Stop, StopBegin, StopFlag, StopQuiet, StopCheck, Join, Stopped, vars

(* What a step may add to the queue for one thread: an entry of the owner, or *)
(* of a job for its own thread.                                               *)
LEMMA PinnedNew ==
    ASSUME ~PinAnywhere, TypeInv, FiberInv, JobInv, ServePhase, [Next]_vars
    PROVE  \A x \in Entries(fibers)' : x.thread # AnyThread => x \in Entries(fibers) \/ Served(x)'
<1>0. /\ TypeFacts /\ JobTypes /\ Caller \in Threads /\ (\A t \in Runners : t \in Threads)
      /\ NoFiber \notin FiberIds /\ NoJob \notin Jobs
  BY TypeInvFacts, JobTypesHold, ThreadsFinite DEF TypeFacts, JobTypes
<1>1. ASSUME fibers' = fibers
      PROVE  \A x \in Entries(fibers)' : x \in Entries(fibers)
  BY <1>1 DEF Entries
<1>2. ASSUME NEW t \in Threads, PickTask(t)
      PROVE  \A x \in Entries(fibers)' : x \in Entries(fibers)
  BY <1>0, <1>2, RemovedEntries DEF PickTask, JobTypes, JobInv, EntryInv
<1>3. ASSUME NEW f \in FiberIds, fibers' = Enqueued(fibers, FiberTask(f, AnyThread))
      PROVE  \A x \in Entries(fibers)' : x.thread # AnyThread => x \in Entries(fibers)
  <2>1. PICK e : e = FiberTask(f, AnyThread)
    OBVIOUS
  <2>2. e \in Task /\ e.thread = AnyThread
    BY <2>1, TaskFacts DEF FiberTask
  <2>3. Entries(fibers)' = Entries(fibers) \cup {e}
    BY <1>0, <1>3, <2>1, <2>2, EnqueuedEntries DEF JobTypes
  <2>4. QED
    BY <2>2, <2>3
<1>4. ASSUME NEW j \in Jobs, NEW p \in Runners \cup {AnyThread},
             fibers' = Enqueued(fibers, CbTask(j, p)), pc' = pc,
             p # AnyThread => pc[p] \notin {"exit", "join"}
      PROVE  \A x \in Entries(fibers)' : x.thread # AnyThread => x \in Entries(fibers) \/ Served(x)'
  <2>1. PICK e : e = CbTask(j, p)
    OBVIOUS
  <2>2. e \in Task /\ e.thread = p /\ e.fiber = NoFiber
    BY <1>0, <2>1, TaskFacts DEF CbTask
  <2>3. Entries(fibers)' = Entries(fibers) \cup {e}
    BY <1>0, <1>4, <2>1, <2>2, EnqueuedEntries DEF JobTypes
  <2>4. QED
    BY <1>4, <2>2, <2>3 DEF Served
<1>5. ASSUME pc[Caller] = "main", NEW p \in Runners PROVE pc[p] \notin {"exit", "join"}
  BY <1>0, <1>5 DEF ServePhase, RunPC, Threads
<1>6. ASSUME NEW t \in Runners, Loop(t)
      PROVE  \A x \in Entries(fibers)' : x.thread # AnyThread => x \in Entries(fibers)
  <2>1. CASE Post(t)
    <3>1. pc[t] = "post" /\ cur[t] \in FiberIds
      BY <1>0, <2>1 DEF Post, TypeFacts, OnCpu
    <3>2. fibers' = fibers \/ fibers' = Enqueued(fibers, FiberTask(cur[t], AnyThread))
      BY <2>1 DEF Post, Requeued
    <3>3. QED
      BY <1>1, <1>3, <3>1, <3>2
  <2>2. QED
    BY <1>0, <1>1, <1>2, <1>6, <2>1
       DEF Loop, EnterIdle, ExitRun, QuietCheck, IdleCheck, DispatchFiber, DispatchDead,
           DispatchCb, SwapOut, Back
<1>7. ASSUME NEW t \in Runners, Fiber(t)
      PROVE  \A x \in Entries(fibers)' : x.thread # AnyThread => x \in Entries(fibers) \/ Served(x)'
  <2>1. ASSUME NEW j \in Jobs, NEW p \in Runners \cup {AnyThread}, Spawn(t, j, p)
        PROVE  \A x \in Entries(fibers)' : x.thread # AnyThread => x \in Entries(fibers) \/ Served(x)'
    <3>1. /\ fibers' = Enqueued(fibers, CbTask(j, p)) /\ pc' = pc
          /\ (p # AnyThread => pc[p] = "run")
      BY <2>1 DEF Spawn, Pins, InJob
    <3>2. QED
      BY <1>4, <3>1
  <2>2. ASSUME NEW p \in Runners, SwitchTo(t, p) PROVE FALSE
    BY <2>2 DEF SwitchTo, Pins
  <2>3. QED
    BY <1>1, <1>7, <2>1, <2>2
       DEF Fiber, Arm, YieldToHold, YieldToReady, Return, Throw
<1>8. ASSUME Client
      PROVE  \A x \in Entries(fibers)' : x.thread # AnyThread => x \in Entries(fibers) \/ Served(x)'
  <2>1. ASSUME NEW j \in Jobs, NEW p \in Runners \cup {AnyThread}, ScheduleCb(j, p)
        PROVE  \A x \in Entries(fibers)' : x.thread # AnyThread => x \in Entries(fibers) \/ Served(x)'
    BY <1>4, <1>5, <2>1 DEF ScheduleCb
  <2>2. ASSUME NEW p \in Runners \cup {AnyThread}, ScheduleNull(p) PROVE fibers' = fibers
    BY <2>2 DEF ScheduleNull, Enqueued, CbTask
  <2>3. ASSUME NEW j \in Jobs, NEW p \in Runners \cup {AnyThread}, NEW f \in FiberIds,
               ScheduleFiber(j, p, f)
        PROVE  \A x \in Entries(fibers)' : x.thread # AnyThread => x \in Entries(fibers) \/ Served(x)'
    <3>1. PICK e : e = FiberTask(f, p)
      OBVIOUS
    <3>2. e \in Task /\ e.thread = p /\ e.fiber = f
      BY <1>0, <3>1, TaskFacts DEF FiberTask
    <3>3. Entries(fibers)' = Entries(fibers) \cup {e}
      BY <1>0, <2>3, <3>1, <3>2, EnqueuedEntries DEF JobTypes, ScheduleFiber
    <3>4. state'[f] = "INIT" /\ pc' = pc /\ pc[Caller] = "main"
      BY <1>0, <2>3 DEF ScheduleFiber, JobTypes
    <3>5. QED
      BY <1>5, <3>2, <3>3, <3>4 DEF Served
  <2>4. QED
    BY <1>1, <1>8, <2>1, <2>2, <2>3 DEF Client, Start
<1>9. QED
  BY <1>0, <1>1, <1>3, <1>6, <1>7, <1>8
     DEF Next, Wake, Stop, StopBegin, StopFlag, StopQuiet, StopCheck, Join, Stopped, vars

(* A thread leaves run() with nothing left for it alone. *)
LEMMA PinStep ==
    ASSUME ~PinAnywhere, TypeInv, FiberInv, JobInv, ServePhase, PinInv, [Next]_vars PROVE PinInv'
<1>0. /\ TypeFacts /\ JobTypes /\ Caller \in Threads /\ (\A t \in Runners : t \in Threads)
      /\ pc \in [Threads -> PC] /\ (Caller \in Runners => UseCaller)
  BY TypeInvFacts, JobTypesHold, ThreadsFinite, ThreadAssumption DEF JobTypes, Runners, Threads
<1> SUFFICES ASSUME NEW x \in Entries(fibers), x.thread # AnyThread, Served(x) PROVE Served(x)'
  BY PinnedNew DEF PinInv
<1>1. x.fiber # NoFiber => x.fiber \in FiberIds /\ Token(x.fiber)
  <2>1. x \in Task
    BY <1>0 DEF JobTypes
  <2>2. QED
    BY <2>1, QueuedEntries DEF Task, FiberAndThread, Token
<1>2. x.fiber # NoFiber => state'[x.fiber] = "INIT"
  BY <1>1, InitKept DEF Served
<1>3. PICK u \in Runners : u = x.thread /\ pc[u] \notin {"exit", "join"}
  BY DEF Served
<1>4. pc'[u] \notin {"exit", "join"}
  <2>1. ASSUME NEW t \in Threads, ExitRun(t) PROVE u # t /\ pc'[u] = pc[u]
    <3>1. \A y \in Entries(fibers) : ~Eligible(t, y)
      BY <2>1 DEF ExitRun, NothingToPick, Entries
    <3>2. u # t
      BY <1>3, <3>1 DEF Eligible, Served
    <3>3. QED
      BY <1>0, <2>1, <3>2 DEF ExitRun
  <2>2. ASSUME NEW t \in Threads, Loop(t), ~ExitRun(t) PROVE pc'[u] \notin {"exit", "join"}
    BY <1>0, <1>3, <2>2
       DEF Loop, PickTask, EnterIdle, QuietCheck, IdleCheck, LeaveIdle, DispatchFiber, DispatchDead,
           DispatchCb, SwapOut, Back, Post
  <2>3. ASSUME NEW t \in Threads, Fiber(t) PROVE pc'[u] \notin {"exit", "join"}
    BY <1>0, <1>3, <2>3
       DEF Fiber, Spawn, Arm, SwitchTo, YieldToHold, YieldToReady, Return, Throw
  <2>4. ASSUME Client PROVE pc'[u] \notin {"exit", "join"}
    BY <1>0, <1>3, <2>4 DEF Client, Start, ScheduleCb, ScheduleNull, ScheduleFiber
  <2>5. ASSUME StopBegin \/ StopFlag \/ StopQuiet \/ Join PROVE pc'[u] \notin {"exit", "join"}
    BY <1>0, <1>3, <2>5 DEF StopBegin, StopFlag, StopQuiet, CallRoot, Join
  <2>6. ASSUME StopCheck PROVE pc'[u] \notin {"exit", "join"}
    <3>1. ~StoppingNow
      BY DEF StoppingNow, Entries
    <3>2. QED
      BY <1>0, <1>3, <2>6, <3>1 DEF StopCheck, CallRoot
  <2>7. QED
    BY <1>0, <1>3, <2>1, <2>2, <2>3, <2>4, <2>5, <2>6 DEF Next, Stop, Stopped, Wake, vars
<1>5. QED
  BY <1>2, <1>3, <1>4 DEF Served

-----------------------------------------------------------------------------
(* A fiber whose state_ is EXEC is in the hands of a thread. *)
OwnInv == \A f \in FiberIds : state[f] = "EXEC" => \E t \in Threads : cur[t] = f

LEMMA OwnStep == ASSUME TypeInv, OwnInv, [Next]_vars PROVE OwnInv'
<1>0. /\ TypeFacts /\ state \in [FiberIds -> FiberState] /\ Runners \subseteq Threads
      /\ cur \in [Threads -> FiberIds \cup {NoFiber}]
  BY TypeInvFacts, ThreadsFinite DEF TypeInv, TypeOK
<1> SUFFICES ASSUME NEW f \in FiberIds, state'[f] = "EXEC" PROVE \E t \in Threads : cur'[t] = f
  BY DEF OwnInv
<1>1. ASSUME NEW t \in Threads, pc[t] = "dispatch", NEW g \in FiberIds,
             state' = [state EXCEPT ![g] = "EXEC"], cur' = [cur EXCEPT ![t] = g]
      PROVE  \E u \in Threads : cur'[u] = f
  <2>1. cur[t] = NoFiber
    BY <1>0, <1>1 DEF TypeFacts, OnCpu
  <2>2. CASE f = g
    BY <1>0, <1>1, <2>2
  <2>3. CASE f # g
    <3>1. PICK u \in Threads : cur[u] = f
      BY <1>0, <1>1, <2>3 DEF OwnInv
    <3>2. u # t
      BY <1>0, <2>1, <3>1 DEF TypeFacts
    <3>3. QED
      BY <1>0, <1>1, <3>1, <3>2
  <2>4. QED
    BY <2>2, <2>3
<1>2. ASSUME NEW t \in Threads, Post(t) PROVE \E u \in Threads : cur'[u] = f
  <2>1. cur[t] \in FiberIds
    BY <1>0, <1>2 DEF Post, TypeFacts, OnCpu
  <2>2. state'[cur[t]] # "EXEC"
    BY <1>0, <1>2, <2>1 DEF Post, AfterRun
  <2>3. f # cur[t] /\ state[f] = "EXEC"
    BY <1>0, <1>2, <2>2 DEF Post
  <2>4. PICK u \in Threads : cur[u] = f
    BY <2>3 DEF OwnInv
  <2>5. QED
    BY <1>0, <1>2, <2>3, <2>4 DEF Post
<1>3. ASSUME NEW t \in Threads, DispatchFiber(t) PROVE \E u \in Threads : cur'[u] = f
  <2>1. ft[t].fiber \in FiberIds
    BY <1>0, <1>3 DEF TypeFacts, DispatchFiber
  <2>2. QED
    BY <1>1, <1>3, <2>1 DEF DispatchFiber
<1>4. ASSUME NEW t \in Threads, NEW g \in FiberIds, DispatchCb(t, g)
      PROVE  \E u \in Threads : cur'[u] = f
  BY <1>1, <1>4 DEF DispatchCb
<1>5. ASSUME cur' = cur, state[f] = "EXEC" PROVE \E u \in Threads : cur'[u] = f
  BY <1>5 DEF OwnInv
<1>6. ASSUME NEW t \in Threads, Loop(t) PROVE \E u \in Threads : cur'[u] = f
  BY <1>2, <1>3, <1>4, <1>5, <1>6
     DEF Loop, PickTask, EnterIdle, ExitRun, QuietCheck, IdleCheck, DispatchDead, SwapOut, Back
<1>7. ASSUME NEW t \in Threads, Fiber(t) PROVE \E u \in Threads : cur'[u] = f
  <2>1. cur' = cur
    BY <1>7 DEF Fiber, Spawn, Arm, SwitchTo, YieldToHold, YieldToReady, Return, Throw
  <2>2. state[f] = "EXEC"
    BY <1>0, <1>7 DEF Fiber, Spawn, Arm, SwitchTo, YieldToHold, YieldToReady, Return, Throw
  <2>3. QED
    BY <1>5, <2>1, <2>2
<1>8. ASSUME Client PROVE \E u \in Threads : cur'[u] = f
  <2>1. cur' = cur
    BY <1>8 DEF Client, Start, ScheduleCb, ScheduleNull, ScheduleFiber
  <2>2. state[f] = "EXEC"
    BY <1>0, <1>8 DEF Client, Start, ScheduleCb, ScheduleNull, ScheduleFiber
  <2>3. QED
    BY <1>5, <2>1, <2>2
<1>9. QED
  BY <1>0, <1>5, <1>6, <1>7, <1>8
     DEF Next, Wake, Stop, StopBegin, StopFlag, StopQuiet, StopCheck, Join, Stopped, vars

-----------------------------------------------------------------------------
(* An entry somebody still has to run: its wake-up is not the only thing left. *)
Runnable(x) == x.fiber = NoFiber \/ state[x.fiber] # "HOLD"

(* Somebody is there for it: the owner before it joins, or a thread in run(). *)
Attended ==
    \/ pc[Caller] \in {"main", "stopFlag", "stopQuiet", "stopCheck"}
    \/ \E t \in Threads : pc[t] \in RunPC

DrainInv == (\E x \in Entries(fibers) : Runnable(x)) => Attended

LEMMA DrainStep ==
    ASSUME TypeInv, FiberInv, JobInv, ServePhase, PinInv, OwnInv, DrainInv, [Next]_vars
    PROVE  DrainInv'
<1>0. /\ TypeFacts /\ JobTypes /\ Caller \in Threads /\ Workers \subseteq Threads
      /\ (\A t \in Runners : t \in Threads) /\ pc \in [Threads -> PC]
      /\ (Caller \in Runners => UseCaller) /\ Caller \notin Workers
  BY TypeInvFacts, JobTypesHold, ThreadsFinite, ThreadAssumption DEF JobTypes, Runners, Threads
<1>1. ASSUME NEW t \in Threads, Loop(t) \/ Fiber(t), ~ExitRun(t) PROVE Attended'
  <2>1. pc'[t] \in RunPC
    BY <1>0, <1>1
       DEF Loop, Fiber, RunPC, PickTask, EnterIdle, QuietCheck, IdleCheck, LeaveIdle,
           DispatchFiber, DispatchDead, DispatchCb, SwapOut, Back, Post, Spawn, Arm, SwitchTo,
           YieldToHold, YieldToReady, Return, Throw, MayStep, InJob
  <2>2. QED
    BY <2>1 DEF Attended
<1>2. ASSUME NEW t \in Threads, ExitRun(t) PROVE DrainInv'
  <2>1. UNCHANGED <<fibers, state>> /\ pc[t] = "pick" /\ \A u \in Threads \ {t} : pc'[u] = pc[u]
    BY <1>0, <1>2 DEF ExitRun
  <2>2. SUFFICES ASSUME NEW x \in Entries(fibers), Runnable(x) PROVE Attended'
    BY <2>1 DEF DrainInv, Runnable, Entries
  <2>3. ~Eligible(t, x)
    BY <1>2 DEF ExitRun, NothingToPick, Entries
  <2>4. x.fiber \in FiberIds \cup {NoFiber}
    BY <1>0 DEF JobTypes, Task, FiberAndThread
  <2>5. CASE x.thread \notin {AnyThread, t}
    <3>1. PICK u \in Runners : u = x.thread /\ pc[u] \notin {"exit", "join"}
      BY <2>5 DEF PinInv, Served
    <3>2. u \in Threads \ {t} /\ pc'[u] = pc[u]
      BY <1>0, <2>1, <2>5, <3>1
    <3>3. CASE u = Caller
      <4>1. pc[Caller] \in RunPC \cup {"main", "stopFlag", "stopQuiet", "stopCheck", "stopped"}
        BY <1>0, <3>1, <3>3 DEF ServePhase, PC
      <4>2. pc[Caller] # "stopped"
        <5>1. t \in Workers
          BY <1>0, <3>2, <3>3 DEF Threads
        <5>2. QED
          BY <2>1, <5>1 DEF TypeInv, Resting
      <4>3. QED
        BY <1>0, <3>2, <3>3, <4>1, <4>2 DEF Attended
    <3>4. CASE u \in Workers
      <4>1. pc[u] \in RunPC \cup {"unborn"}
        BY <3>1, <3>4 DEF ServePhase
      <4>2. CASE pc[u] = "unborn"
        <5>1. pc[Caller] = "stopped" \/ (pc[Caller] = "main" /\ stopping)
          BY <3>4, <4>2 DEF ServePhase
        <5>2. t = Caller \/ pc[t] = "unborn"
          BY <1>0, <5>1 DEF TypeInv, Resting, Threads
        <5>3. QED
          BY <2>1, <5>1, <5>2
      <4>3. QED
        BY <3>2, <4>1, <4>2 DEF Attended
    <3>5. QED
      BY <1>0, <3>2, <3>3, <3>4 DEF Threads
  <2>6. CASE x.fiber # NoFiber /\ state[x.fiber] = "EXEC"
    <3>1. PICK u \in Threads : cur[u] = x.fiber
      BY <2>4, <2>6 DEF OwnInv
    <3>2. pc[u] \in OnCpu
      BY <1>0, <2>6, <3>1 DEF TypeFacts
    <3>3. u # t /\ pc[u] \in RunPC
      BY <2>1, <3>2 DEF OnCpu, RunPC
    <3>4. QED
      BY <2>1, <3>3 DEF Attended
  <2>7. QED
    BY <2>3, <2>5, <2>6 DEF Eligible
<1>3. ASSUME Client PROVE Attended'
  BY <1>0, <1>3 DEF Client, Start, ScheduleCb, ScheduleNull, ScheduleFiber, Attended
<1>4. ASSUME StopBegin \/ StopQuiet PROVE Attended'
  BY <1>0, <1>4 DEF StopBegin, StopQuiet, CallRoot, Attended, RunPC
<1>5. ASSUME StopFlag PROVE Attended'
  <2>1. CASE UseCaller
    BY <1>0, <1>5, <2>1 DEF StopFlag, Attended
  <2>2. CASE ~UseCaller
    <3>1. PICK w \in Workers : TRUE
      BY <2>2, ThreadAssumption
    <3>2. pc[w] \in RunPC
      BY <1>5 DEF StopFlag, ServePhase
    <3>3. pc'[w] = pc[w] /\ w \in Threads
      BY <1>0, <1>5 DEF StopFlag
    <3>4. QED
      BY <3>2, <3>3 DEF Attended
  <2>3. QED
    BY <2>1, <2>2
<1>6. ASSUME StopCheck PROVE DrainInv'
  <2>1. CASE StoppingNow
    BY <1>6, <2>1 DEF StopCheck, StoppingNow, DrainInv, Entries
  <2>2. CASE ~StoppingNow
    BY <1>0, <1>6, <2>2 DEF StopCheck, CallRoot, DrainInv, Attended, RunPC
  <2>3. QED
    BY <2>1, <2>2
<1>7. ASSUME Join PROVE DrainInv'
  <2>1. ~Attended
    BY <1>0, <1>7 DEF Join, Attended, RunPC, Threads
  <2>2. UNCHANGED <<fibers, state>>
    BY <1>7 DEF Join
  <2>3. QED
    BY <2>1, <2>2 DEF DrainInv, Runnable, Entries
<1>8. ASSUME NEW f \in FiberIds, Wake(f) PROVE DrainInv'
  <2>1. PICK e : e = FiberTask(f, AnyThread)
    OBVIOUS
  <2>2. e \in Task /\ e.fiber = f
    BY <2>1, TaskFacts DEF FiberTask
  <2>3. Entries(fibers)' = Entries(fibers) \cup {e} /\ UNCHANGED <<state, pc>> /\ f \in waiters
    BY <1>0, <1>8, <2>1, <2>2, EnqueuedEntries DEF JobTypes, Wake
  <2>4. Runnable(e) => Attended
    <3>1. state[f] \in {"HOLD", "EXEC"}
      BY <2>3 DEF JobInv, LeaveInv
    <3>2. CASE state[f] = "EXEC"
      <4>1. PICK u \in Threads : cur[u] = f
        BY <3>2 DEF OwnInv
      <4>2. pc[u] \in RunPC
        BY <1>0, <4>1 DEF TypeFacts, OnCpu, RunPC
      <4>3. QED
        BY <4>2 DEF Attended
    <3>3. QED
      BY <1>0, <2>2, <3>1, <3>2 DEF Runnable, TypeFacts
  <2>5. QED
    BY <2>3, <2>4 DEF DrainInv, Runnable, Attended
<1>9. ASSUME UNCHANGED vars PROVE DrainInv'
  BY <1>9 DEF vars, DrainInv, Runnable, Attended, Entries
<1>10. QED
  BY <1>0, <1>1, <1>2, <1>3, <1>4, <1>5, <1>6, <1>7, <1>8, <1>9 DEF Next, Stop, Stopped, DrainInv

-----------------------------------------------------------------------------
(* The inductive invariant of stop(). *)
StopInv == ServePhase /\ PinInv /\ OwnInv /\ DrainInv

LEMMA StopInit == Init => StopInv
<1>1. Init => PinInv /\ OwnInv /\ DrainInv
  BY DEF Init, PinInv, OwnInv, DrainInv, Entries
<1>2. QED
  BY <1>1, ServeInit DEF StopInv

LEMMA StopInvariant ==
    ASSUME Strict, ~PinAnywhere PROVE Spec => [](TypeInv /\ JobInv /\ StopInv)
<1>1. TypeInv /\ FiberInv /\ JobInv /\ StopInv /\ [Next]_vars => StopInv'
  BY ServeStep, PinStep, OwnStep, DrainStep DEF StopInv
<1>2. QED
  BY <1>1, StopInit, JobInvariant, PTL DEF Spec

(* No entry is left for a thread that has gone, however many threads leave    *)
(* run() in whatever order: a thread leaves only with nothing queued for it   *)
(* alone, and nobody but the owner before stop() and a job on that very       *)
(* thread names it (scheduler.cpp:92-133,150-245).                            *)
THEOREM QueueAlwaysServable == ASSUME Strict, ~PinAnywhere PROVE Spec => []QueueServable
<1>1. StopInv => QueueServable
  BY DEF StopInv, PinInv, Served, QueueServable, Entries
<1>2. QED
  BY <1>1, StopInvariant, PTL

(* stop() leaves nothing behind that could still run, although each thread    *)
(* leaves run() on its own reading of the queue and of the counters: whatever *)
(* is unfinished when it returns waits for a wake-up (scheduler.cpp:92-133,   *)
(* 150-245, iomanager.cpp:349-359).                                           *)
THEOREM StopAlwaysLeavesSuspended ==
    ASSUME Strict, ~PinAnywhere PROVE Spec => []StopLeavesOnlySuspended
<1>1. TypeInv /\ JobInv /\ StopInv => StopLeavesOnlySuspended
  <2> SUFFICES ASSUME TypeInv, JobInv, StopInv, pc[Caller] = "stopped", NEW j \in Jobs,
                      jobs[j].phase \notin {"new", "done"}
               PROVE  /\ jobs[j].phase = "started"
                      /\ \E f \in FiberIds : cb[f] = j /\ state[f] = "HOLD"
    BY DEF StopLeavesOnlySuspended
  <2>0. TypeFacts /\ JobTypes
    BY TypeInvFacts, JobTypesHold
  <2>1. jobs[j].phase \in {"queued", "started"} /\ j # NoJob
    BY <2>0 DEF JobTypes, JobRecord, Phase
  <2>2. \A t \in Threads : pc[t] \in {"stopped", "unborn"}
    BY DEF TypeInv, Resting, Threads
  <2>3. ~Attended /\ Waiting = Entries(fibers) /\ \A t \in Threads : cur[t] = NoFiber
    BY <2>0, <2>2 DEF Attended, RunPC, Waiting, Hands, TypeFacts, OnCpu
  <2>4. \A x \in Entries(fibers) : x.fiber # NoFiber /\ state[x.fiber] = "HOLD"
    BY <2>3 DEF StopInv, DrainInv, Runnable
  <2>5. \A x \in Waiting : x.cb # j
    BY <2>1, <2>3, <2>4 DEF JobInv, EntryInv
  <2>6. PICK f \in FiberIds : cb[f] = j /\ Cared(f)
    BY <2>1, <2>5 DEF JobInv, CareInv
  <2>7. state[f] # "EXEC"
    BY <2>0, <2>3 DEF StopInv, OwnInv, TypeFacts
  <2>8. state[f] = "HOLD"
    <3>1. CASE f \in waiters
      BY <2>7, <3>1 DEF JobInv, LeaveInv
    <3>2. CASE \E x \in Waiting : x.fiber = f
      BY <2>3, <2>4, <3>2
    <3>3. QED
      BY <2>0, <2>3, <2>6, <3>1, <3>2 DEF Cared, TypeFacts
  <2>9. jobs[j].phase = "started"
    BY <2>1, <2>6, <2>8 DEF JobInv, PhaseInv, Live
  <2>10. QED
    BY <2>6, <2>8, <2>9
<1>2. QED
  BY <1>1, StopInvariant, PTL
=============================================================================
