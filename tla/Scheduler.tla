------------------------------ MODULE Scheduler ------------------------------
(***************************************************************************)
(* The N:M coroutine scheduler (sylar/scheduler.{h,cpp}) together with the *)
(* coroutines it runs (sylar/fiber.cpp).                                   *)
(*                                                                         *)
(* Worker threads, and the thread that called stop() when use_caller is    *)
(* set, execute Scheduler::run: they pop an entry of fibers_ under mutex_, *)
(* swap into its fiber, and deal with the state the fiber left behind when *)
(* it swaps back.  A critical section of mutex_ is one step; everything    *)
(* the code does outside the mutex and another thread can see (state_,     *)
(* activeThreadCount_) is a step of its own.                               *)
(*                                                                         *)
(* A callback is an abstract job.  While it runs it may schedule another   *)
(* job, arm a waker (an I/O event, a timer) and suspend, move to another   *)
(* thread, yield, return or throw.  Waiting for work is a poll here:       *)
(* IOManager blocks in epoll_wait for at most 3 s before it polls again.   *)
(***************************************************************************)
EXTENDS Integers, Sequences, FiniteSets, SequencesExt

CONSTANTS
    Workers,      \* the threads start() creates
    Caller,       \* the thread that constructs, starts and stops the scheduler
    UseCaller,    \* use_caller: Caller executes run() inside stop()
    FiberIds,     \* fiber objects
    Jobs,         \* callbacks handed to schedule()
    MaxSteps,     \* bound: yields, waits and switches of one job
    MaxStarts,    \* bound: calls of start()
    IOM,          \* stopping() is IOManager's override: no pending event either
    Strict,       \* every fiber that armed its waker suspends next, as in the hooks
    PinAnywhere,  \* a running job may name another thread in schedule/switchTo
    AnyThread,    \* thread_ == -1
    NoFiber,      \* null Fiber::ptr
    NoJob         \* empty std::function

ASSUME ThreadAssumption ==
    /\ Caller \notin Workers
    /\ AnyThread \notin Workers \cup {Caller}
    /\ IsFiniteSet(Workers)
    /\ UseCaller \in BOOLEAN
    /\ UseCaller \/ Workers # {}

ASSUME FiberAssumption == NoFiber \notin FiberIds /\ NoJob \notin Jobs

ASSUME BoundAssumption ==
    /\ MaxSteps \in Nat /\ MaxStarts \in Nat
    /\ IOM \in BOOLEAN /\ Strict \in BOOLEAN /\ PinAnywhere \in BOOLEAN

VARIABLES
    fibers,    \* fibers_: the queue of [fiber, cb, thread]
    state,     \* Fiber::state_ of each fiber; "NONE" before its construction
    cb,        \* Fiber::cb_ of each fiber
    pc,        \* where each thread is
    ft,        \* run()'s local ft
    cbFiber,   \* run()'s local cb_fiber
    cur,       \* the fiber the thread swapped into and has not dealt with yet
    idleTerm,  \* run()'s idle_fiber has terminated
    active,    \* activeThreadCount_
    idle,      \* idleThreadCount_
    stopping,  \* stopping_
    autoStop,  \* autoStop_
    rootTerm,  \* rootFiber_ has terminated
    waiters,   \* fibers some waker (event, timer) will schedule once
    starts,    \* calls of start() so far
    jobs       \* history of each job: phase, requested thread, steps and runs

vars == <<fibers, state, cb, pc, ft, cbFiber, cur, idleTerm, active, idle,
          stopping, autoStop, rootTerm, waiters, starts, jobs>>

Threads == Workers \cup {Caller}
Runners == IF UseCaller THEN Threads ELSE Workers

FiberState == {"NONE", "INIT", "HOLD", "EXEC", "TERM", "READY", "EXCEPT"}
Phase      == {"new", "queued", "started", "done"}

(* Where run() is: "pick" before the critical section, "dispatch" with an  *)
(* entry in hand, "run" inside the fiber, "armed" after it armed a waker,  *)
(* "leave" once it has set state_ and will swap out, "back" after swapIn   *)
(* returned, "post" after activeThreadCount_--, "idle" and "check" inside  *)
(* idle().  The other values are those of a thread outside run().          *)
RunPC  == {"pick", "dispatch", "run", "armed", "leave", "back", "post",
           "idle", "check"}
PC     == RunPC \cup {"unborn", "exit", "main", "stopFlag", "stopQuiet",
                      "stopCheck", "join", "stopped"}

(* struct FiberAndThread *)
FiberAndThread == [fiber : FiberIds \cup {NoFiber}, cb : Jobs \cup {NoJob},
                   thread : Threads \cup {AnyThread}]

(* What fibers_ may hold: run() asserts that an entry is not empty. *)
Task == {e \in FiberAndThread : e.fiber # NoFiber \/ e.cb # NoJob}

(* FiberAndThread::reset() *)
NoTask == [fiber |-> NoFiber, cb |-> NoJob, thread |-> AnyThread]

FiberTask(f, t) == [fiber |-> f, cb |-> NoJob, thread |-> t]
CbTask(j, t)    == [fiber |-> NoFiber, cb |-> j, thread |-> t]

TypeOK ==
    /\ fibers \in Seq(Task)
    /\ state \in [FiberIds -> FiberState]
    /\ cb \in [FiberIds -> Jobs \cup {NoJob}]
    /\ pc \in [Threads -> PC]
    /\ ft \in [Threads -> FiberAndThread]
    /\ cbFiber \in [Threads -> FiberIds \cup {NoFiber}]
    /\ cur \in [Threads -> FiberIds \cup {NoFiber}]
    /\ idleTerm \in [Threads -> BOOLEAN]
    /\ active \in Int /\ idle \in Int
    /\ stopping \in BOOLEAN /\ autoStop \in BOOLEAN /\ rootTerm \in BOOLEAN
    /\ waiters \in SUBSET FiberIds
    /\ starts \in 0..MaxStarts
    /\ jobs \in [Jobs -> [phase : Phase, thread : Threads \cup {AnyThread},
                          steps : Nat, runs : Nat]]

Init ==
    /\ fibers = <<>>
    /\ state = [f \in FiberIds |-> "NONE"]
    /\ cb = [f \in FiberIds |-> NoJob]
    /\ pc = [t \in Threads |-> IF t = Caller THEN "main" ELSE "unborn"]
    /\ ft = [t \in Threads |-> NoTask]
    /\ cbFiber = [t \in Threads |-> NoFiber]
    /\ cur = [t \in Threads |-> NoFiber]
    /\ idleTerm = [t \in Threads |-> FALSE]
    /\ active = 0 /\ idle = 0
    /\ stopping = TRUE /\ autoStop = FALSE /\ rootTerm = FALSE
    /\ waiters = {}
    /\ starts = 0
    /\ jobs = [j \in Jobs |-> [phase |-> "new", thread |-> AnyThread,
                               steps |-> 0, runs |-> 0]]

-----------------------------------------------------------------------------
(* Mutant: empty entries are queued as well. *)
EnqueuedAlways(q, e) == Append(q, e)

(* scheduleNoLock: append, unless the entry is empty. *)
Enqueued(q, e) == IF e.fiber = NoFiber /\ e.cb = NoJob THEN q ELSE Append(q, e)

(* Mutants: a queued fiber is taken while it still runs; entries for any       *)
(* thread are overlooked.                                                     *)
EligibleRunning(t, e) == e.thread \in {AnyThread, t}
EligibleOwnOnly(t, e) ==
    e.thread = t /\ (e.fiber # NoFiber => state[e.fiber] # "EXEC")

(* What run() may take: an entry for this thread whose fiber is not running. *)
Eligible(t, e) ==
    /\ e.thread \in {AnyThread, t}
    /\ e.fiber # NoFiber => state[e.fiber] # "EXEC"

FirstEligible(t, i) ==
    /\ i \in 1..Len(fibers)
    /\ Eligible(t, fibers[i])
    /\ \A k \in 1..(i-1) : ~Eligible(t, fibers[k])

(* Mutant: stopping() forgets the two flags. *)
StoppingUnasked == fibers = <<>> /\ active = 0

(* Scheduler::stopping() *)
StoppingNow == autoStop /\ stopping /\ fibers = <<>> /\ active = 0

(* The part IOManager::stopping() reads first: no timer, pendingEventCount_ 0. *)
Quiet == IOM => waiters = {}

(* The threads a job running on t may name. *)
Pins(t) == IF PinAnywhere THEN Runners \cup {AnyThread} ELSE {t, AnyThread}

(* A wake-up of f is under way: registered with a waker or queued. *)
HasToken(f) == f \in waiters \/ \E i \in 1..Len(fibers) : fibers[i].fiber = f

-----------------------------------------------------------------------------
(* Scheduler::start(): one critical section; a running scheduler returns. *)
Start ==
    /\ pc[Caller] \in {"main", "stopped"} /\ starts < MaxStarts
    /\ stopping
    /\ stopping' = FALSE
    /\ starts' = starts + 1
    /\ pc' = [t \in Threads |-> IF t \in Workers THEN "pick" ELSE "main"]
    /\ idleTerm' = [t \in Threads |-> FALSE]
    /\ cbFiber' = [t \in Threads |-> NoFiber]
    /\ UNCHANGED <<fibers, state, cb, ft, cur, active, idle, autoStop, rootTerm,
                   waiters, jobs>>

Submitted(j, t) == [jobs EXCEPT ![j].phase = "queued", ![j].thread = t]

(* schedule(cb, thread) by the owner of the scheduler *)
ScheduleCb(j, t) ==
    /\ pc[Caller] = "main" /\ jobs[j].phase = "new"
    /\ fibers' = Enqueued(fibers, CbTask(j, t))
    /\ jobs' = Submitted(j, t)
    /\ UNCHANGED <<state, cb, pc, ft, cbFiber, cur, idleTerm, active, idle,
                   stopping, autoStop, rootTerm, waiters, starts>>

(* schedule(nullptr): an empty callback is not queued *)
ScheduleNull(t) ==
    /\ pc[Caller] = "main"
    /\ fibers' = Enqueued(fibers, CbTask(NoJob, t))
    /\ UNCHANGED <<state, cb, pc, ft, cbFiber, cur, idleTerm, active, idle,
                   stopping, autoStop, rootTerm, waiters, starts, jobs>>

(* schedule(fiber, thread) of a fiber the owner has just constructed *)
ScheduleFiber(j, t, f) ==
    /\ pc[Caller] = "main" /\ jobs[j].phase = "new"
    /\ state[f] = "NONE"
    /\ state' = [state EXCEPT ![f] = "INIT"]
    /\ cb' = [cb EXCEPT ![f] = j]
    /\ fibers' = Enqueued(fibers, FiberTask(f, t))
    /\ jobs' = Submitted(j, t)
    /\ UNCHANGED <<pc, ft, cbFiber, cur, idleTerm, active, idle,
                   stopping, autoStop, rootTerm, waiters, starts>>

-----------------------------------------------------------------------------
(* Mutant: activeThreadCount_ is not counted up. *)
PickTaskUncounted(t) ==
    /\ pc[t] = "pick"
    /\ \E i \in 1..Len(fibers) :
         /\ FirstEligible(t, i)
         /\ ft' = [ft EXCEPT ![t] = fibers[i]]
         /\ fibers' = RemoveAt(fibers, i)
    /\ pc' = [pc EXCEPT ![t] = "dispatch"]
    /\ UNCHANGED <<active, state, cb, cbFiber, cur, idleTerm, idle, stopping,
                   autoStop, rootTerm, waiters, starts, jobs>>

(* run(): the critical section that pops the first eligible entry *)
PickTask(t) ==
    /\ pc[t] = "pick"
    /\ \E i \in 1..Len(fibers) :
         /\ FirstEligible(t, i)
         /\ ft' = [ft EXCEPT ![t] = fibers[i]]
         /\ fibers' = RemoveAt(fibers, i)
    /\ active' = active + 1
    /\ pc' = [pc EXCEPT ![t] = "dispatch"]
    /\ UNCHANGED <<state, cb, cbFiber, cur, idleTerm, idle, stopping, autoStop,
                   rootTerm, waiters, starts, jobs>>

NothingToPick(t) == \A i \in 1..Len(fibers) : ~Eligible(t, fibers[i])

(* run(): nothing to take, so swap into the idle fiber *)
EnterIdle(t) ==
    /\ pc[t] = "pick" /\ NothingToPick(t) /\ ~idleTerm[t]
    /\ idle' = idle + 1
    /\ pc' = [pc EXCEPT ![t] = "idle"]
    /\ UNCHANGED <<fibers, state, cb, ft, cbFiber, cur, idleTerm, active,
                   stopping, autoStop, rootTerm, waiters, starts, jobs>>

(* run(): nothing to take and the idle fiber has terminated.  The caller's *)
(* run() is rootFiber_, which terminates and returns into stop().          *)
ExitRun(t) ==
    /\ pc[t] = "pick" /\ NothingToPick(t) /\ idleTerm[t]
    /\ pc' = [pc EXCEPT ![t] = IF t = Caller THEN "join" ELSE "exit"]
    /\ rootTerm' = (rootTerm \/ t = Caller)
    /\ UNCHANGED <<fibers, state, cb, ft, cbFiber, cur, idleTerm, active, idle,
                   stopping, autoStop, waiters, starts, jobs>>

LeaveIdle(t) == idle' = idle - 1 /\ pc' = [pc EXCEPT ![t] = "pick"]

(* idle(): IOManager::stopping() reads timers and pendingEventCount_ before *)
(* it calls the base class                                                  *)
QuietCheck(t) ==
    /\ pc[t] = "idle"
    /\ IF Quiet THEN pc' = [pc EXCEPT ![t] = "check"] /\ UNCHANGED idle
                ELSE LeaveIdle(t)
    /\ UNCHANGED <<fibers, state, cb, ft, cbFiber, cur, idleTerm, active,
                   stopping, autoStop, rootTerm, waiters, starts, jobs>>

(* idle(): Scheduler::stopping(), then the idle fiber yields or returns *)
IdleCheck(t) ==
    /\ pc[t] = "check"
    /\ idleTerm' = [idleTerm EXCEPT ![t] = StoppingNow]
    /\ LeaveIdle(t)
    /\ UNCHANGED <<fibers, state, cb, ft, cbFiber, cur, active,
                   stopping, autoStop, rootTerm, waiters, starts, jobs>>

-----------------------------------------------------------------------------
(* A fiber constructed or reset with a callback starts that job. *)
Started(j) == IF j = NoJob THEN jobs
              ELSE [jobs EXCEPT ![j].phase = "started", ![j].runs = @ + 1]

(* run(): the entry holds a live fiber, swapIn() *)
DispatchFiber(t) ==
    LET f == ft[t].fiber IN
    /\ pc[t] = "dispatch" /\ f # NoFiber
    /\ state[f] \notin {"TERM", "EXCEPT"}
    /\ state[f] # "EXEC"                        \* SYLAR_ASSERT in swapIn()
    /\ jobs' = IF state[f] = "INIT" THEN Started(cb[f]) ELSE jobs
    /\ state' = [state EXCEPT ![f] = "EXEC"]
    /\ cur' = [cur EXCEPT ![t] = f]
    /\ pc' = [pc EXCEPT ![t] = "run"]
    /\ UNCHANGED <<fibers, cb, ft, cbFiber, idleTerm, active, idle, stopping,
                   autoStop, rootTerm, waiters, starts>>

(* Mutant: the dead entry is skipped without counting down. *)
DispatchDeadUncounted(t) ==
    /\ pc[t] = "dispatch" /\ ft[t].fiber # NoFiber
    /\ state[ft[t].fiber] \in {"TERM", "EXCEPT"}
    /\ ft' = [ft EXCEPT ![t] = NoTask]
    /\ pc' = [pc EXCEPT ![t] = "pick"]
    /\ UNCHANGED <<active, fibers, state, cb, cbFiber, cur, idleTerm, idle,
                   stopping, autoStop, rootTerm, waiters, starts, jobs>>

(* run(): the entry's fiber is over by now; is_active, so count down *)
DispatchDead(t) ==
    LET f == ft[t].fiber IN
    /\ pc[t] = "dispatch" /\ f # NoFiber
    /\ state[f] \in {"TERM", "EXCEPT"}
    /\ active' = active - 1
    /\ ft' = [ft EXCEPT ![t] = NoTask]
    /\ pc' = [pc EXCEPT ![t] = "pick"]
    /\ UNCHANGED <<fibers, state, cb, cbFiber, cur, idleTerm, idle, stopping,
                   autoStop, rootTerm, waiters, starts, jobs>>

Resettable == {"TERM", "EXCEPT", "INIT"}

(* run(): the entry holds a callback; reuse cb_fiber or construct one *)
DispatchCb(t, f) ==
    LET j == ft[t].cb IN
    /\ pc[t] = "dispatch" /\ ft[t].fiber = NoFiber
    /\ IF cbFiber[t] # NoFiber
         THEN f = cbFiber[t] /\ state[f] \in Resettable  \* asserted by reset()
         ELSE state[f] = "NONE"
    /\ cb' = [cb EXCEPT ![f] = j]
    /\ state' = [state EXCEPT ![f] = "EXEC"]
    /\ cbFiber' = [cbFiber EXCEPT ![t] = f]
    /\ cur' = [cur EXCEPT ![t] = f]
    /\ ft' = [ft EXCEPT ![t] = NoTask]
    /\ jobs' = Started(j)
    /\ pc' = [pc EXCEPT ![t] = "run"]
    /\ UNCHANGED <<fibers, idleTerm, active, idle, stopping, autoStop, rootTerm,
                   waiters, starts>>

-----------------------------------------------------------------------------
(* The steps of the fiber on t.  An empty cb_ only throws (bad_function_call). *)
InJob(t) == pc[t] = "run" /\ cb[cur[t]] # NoJob
MayStep(t) == InJob(t) /\ jobs[cb[cur[t]]].steps < MaxSteps
Stepped(t) == [jobs EXCEPT ![cb[cur[t]]].steps = @ + 1]

(* A job calls schedule(cb, thread). *)
Spawn(t, j, p) ==
    /\ InJob(t) /\ jobs[j].phase = "new" /\ p \in Pins(t)
    /\ fibers' = Enqueued(fibers, CbTask(j, p))
    /\ jobs' = Submitted(j, p)
    /\ UNCHANGED <<state, cb, pc, ft, cbFiber, cur, idleTerm, active, idle,
                   stopping, autoStop, rootTerm, waiters, starts>>

(* A job registers its own fiber with a waker (addEvent, addTimer) and then  *)
(* suspends; unless Strict, a job that has its fiber to itself may go on and *)
(* even finish.  In a thread's cb_fiber, which is used again, it must not:   *)
(* the wake-up would name a fiber that runs another job.                     *)
Arm(t) ==
    /\ MayStep(t) /\ cur[t] \notin waiters
    /\ waiters' = waiters \cup {cur[t]}
    /\ jobs' = Stepped(t)
    /\ pc' = [pc EXCEPT ![t] = IF Strict \/ ft[t].fiber = NoFiber THEN "armed" ELSE "run"]
    /\ UNCHANGED <<fibers, state, cb, ft, cbFiber, cur, idleTerm, active, idle,
                   stopping, autoStop, rootTerm, starts>>

(* Scheduler::switchTo(thread): schedule the own fiber there, YieldToHold next *)
SwitchTo(t, p) ==
    /\ MayStep(t) /\ p \in Pins(t) \ {t, AnyThread}
    /\ fibers' = Enqueued(fibers, FiberTask(cur[t], p))
    /\ jobs' = [Stepped(t) EXCEPT ![cb[cur[t]]].thread = p]
    /\ pc' = [pc EXCEPT ![t] = "armed"]
    /\ UNCHANGED <<state, cb, ft, cbFiber, cur, idleTerm, active, idle,
                   stopping, autoStop, rootTerm, waiters, starts>>

(* Mutant: state_ = HOLD before the fiber has left its stack. *)
YieldToHoldEarly(t) ==
    /\ pc[t] = "armed" \/ (InJob(t) /\ HasToken(cur[t]))
    /\ state' = [state EXCEPT ![cur[t]] = "HOLD"]
    /\ pc' = [pc EXCEPT ![t] = "back"]
    /\ UNCHANGED <<fibers, cb, ft, cbFiber, cur, idleTerm, active, idle,
                   stopping, autoStop, rootTerm, waiters, starts, jobs>>

(* Fiber::YieldToHold(): state_ stays EXEC until run() has the thread back. *)
YieldToHold(t) ==
    /\ pc[t] = "armed" \/ (InJob(t) /\ HasToken(cur[t]))
    /\ pc' = [pc EXCEPT ![t] = "back"]
    /\ UNCHANGED <<fibers, state, cb, ft, cbFiber, cur, idleTerm, active, idle,
                   stopping, autoStop, rootTerm, waiters, starts, jobs>>

(* Fiber::YieldToReady(): state_ = READY, swapOut() is the next step. *)
YieldToReady(t) ==
    /\ MayStep(t)
    /\ state' = [state EXCEPT ![cur[t]] = "READY"]
    /\ jobs' = Stepped(t)
    /\ pc' = [pc EXCEPT ![t] = "leave"]
    /\ UNCHANGED <<fibers, cb, ft, cbFiber, cur, idleTerm, active, idle,
                   stopping, autoStop, rootTerm, waiters, starts>>

(* Fiber::MainFunc(): the callback returned *)
Return(t) ==
    /\ InJob(t)
    /\ state' = [state EXCEPT ![cur[t]] = "TERM"]
    /\ jobs' = [jobs EXCEPT ![cb[cur[t]]].phase = "done"]
    /\ cb' = [cb EXCEPT ![cur[t]] = NoJob]
    /\ pc' = [pc EXCEPT ![t] = "leave"]
    /\ UNCHANGED <<fibers, ft, cbFiber, cur, idleTerm, active, idle,
                   stopping, autoStop, rootTerm, waiters, starts>>

(* Fiber::MainFunc(): the callback threw; cb_ is kept *)
Throw(t) ==
    /\ pc[t] = "run"
    /\ state' = [state EXCEPT ![cur[t]] = "EXCEPT"]
    /\ jobs' = IF cb[cur[t]] = NoJob THEN jobs
               ELSE [jobs EXCEPT ![cb[cur[t]]].phase = "done"]
    /\ pc' = [pc EXCEPT ![t] = "leave"]
    /\ UNCHANGED <<fibers, cb, ft, cbFiber, cur, idleTerm, active, idle,
                   stopping, autoStop, rootTerm, waiters, starts>>

(* Fiber::swapOut() after state_ was set *)
SwapOut(t) ==
    /\ pc[t] = "leave"
    /\ pc' = [pc EXCEPT ![t] = "back"]
    /\ UNCHANGED <<fibers, state, cb, ft, cbFiber, cur, idleTerm, active, idle,
                   stopping, autoStop, rootTerm, waiters, starts, jobs>>

-----------------------------------------------------------------------------
(* run(): swapIn() has returned, activeThreadCount_-- *)
Back(t) ==
    /\ pc[t] = "back"
    /\ active' = active - 1
    /\ pc' = [pc EXCEPT ![t] = "post"]
    /\ UNCHANGED <<fibers, state, cb, ft, cbFiber, cur, idleTerm, idle,
                   stopping, autoStop, rootTerm, waiters, starts, jobs>>

(* Mutants: the pointer is cleared before it is scheduled; the callback is *)
(* scheduled in place of the fiber.                                         *)
RequeuedCleared(f) == FiberTask(NoFiber, AnyThread)
RequeuedCallback(f) == CbTask(cb[f], AnyThread)

(* What run() schedules again after the fiber f left state_ READY. *)
Requeued(f) == FiberTask(f, AnyThread)

(* The state_ of f after run() has dealt with it. *)
AfterRun(t, f) ==
    IF state[f] = "READY" THEN "READY"
    ELSE IF state[f] \in {"TERM", "EXCEPT"}
         THEN IF ft[t].fiber = NoFiber THEN "INIT" ELSE state[f]   \* reset(nullptr)
         ELSE "HOLD"

(* run() lets go of a cb_fiber that is not over: the fiber lives on elsewhere. *)
CbFiberAfter(t, f) ==
    IF ft[t].fiber = NoFiber /\ AfterRun(t, f) # "INIT" THEN NoFiber ELSE cbFiber[t]

(* run(): deal with the state the fiber left: schedule a READY one again,   *)
(* reset a finished cb_fiber for reuse, mark a suspended one HOLD           *)
Post(t) ==
    LET f == cur[t] IN
    /\ pc[t] = "post"
    /\ fibers' = IF state[f] = "READY" THEN Enqueued(fibers, Requeued(f)) ELSE fibers
    /\ state' = [state EXCEPT ![f] = AfterRun(t, f)]
    /\ cb' = [cb EXCEPT ![f] = IF AfterRun(t, f) = "INIT" THEN NoJob ELSE @]
    /\ cbFiber' = [cbFiber EXCEPT ![t] = CbFiberAfter(t, f)]
    /\ ft' = [ft EXCEPT ![t] = NoTask]
    /\ cur' = [cur EXCEPT ![t] = NoFiber]
    /\ pc' = [pc EXCEPT ![t] = "pick"]
    /\ UNCHANGED <<idleTerm, active, idle, stopping, autoStop, rootTerm,
                   waiters, starts, jobs>>

(* The waker fires: it forgets the fiber and schedules it on any thread. *)
Wake(f) ==
    /\ f \in waiters
    /\ waiters' = waiters \ {f}
    /\ fibers' = Enqueued(fibers, FiberTask(f, AnyThread))
    /\ UNCHANGED <<state, cb, pc, ft, cbFiber, cur, idleTerm, active, idle,
                   stopping, autoStop, rootTerm, starts, jobs>>

-----------------------------------------------------------------------------
(* Scheduler::stop(): autoStop_ = true.  The owner starts before it stops. *)
StopBegin ==
    /\ pc[Caller] = "main" /\ starts > 0
    /\ autoStop' = TRUE
    /\ pc' = [pc EXCEPT ![Caller] = "stopFlag"]
    /\ UNCHANGED <<fibers, state, cb, ft, cbFiber, cur, idleTerm, active, idle,
                   stopping, rootTerm, waiters, starts, jobs>>

(* stop(): stopping_ = true; only use_caller asks stopping() itself *)
StopFlag ==
    /\ pc[Caller] = "stopFlag"
    /\ stopping' = TRUE
    /\ pc' = [pc EXCEPT ![Caller] = IF UseCaller THEN "stopQuiet" ELSE "join"]
    /\ UNCHANGED <<fibers, state, cb, ft, cbFiber, cur, idleTerm, active, idle,
                   autoStop, rootTerm, waiters, starts, jobs>>

(* rootFiber_->call() enters run(), whose idle fiber and cb_fiber are new. *)
CallRoot ==
    /\ pc' = [pc EXCEPT ![Caller] = "pick"]
    /\ idleTerm' = [idleTerm EXCEPT ![Caller] = FALSE]
    /\ cbFiber' = [cbFiber EXCEPT ![Caller] = NoFiber]

(* stop(): the first half of IOManager::stopping() *)
StopQuiet ==
    /\ pc[Caller] = "stopQuiet"
    /\ IF Quiet THEN pc' = [pc EXCEPT ![Caller] = "stopCheck"]
                     /\ UNCHANGED <<idleTerm, cbFiber>>
                ELSE ~rootTerm /\ CallRoot
    /\ UNCHANGED <<fibers, state, cb, ft, cur, active, idle, stopping, autoStop,
                   rootTerm, waiters, starts, jobs>>

(* stop(): Scheduler::stopping(), or run the rest of the work here *)
StopCheck ==
    /\ pc[Caller] = "stopCheck"
    /\ IF StoppingNow THEN pc' = [pc EXCEPT ![Caller] = "join"]
                           /\ UNCHANGED <<idleTerm, cbFiber>>
                      ELSE ~rootTerm /\ CallRoot
    /\ UNCHANGED <<fibers, state, cb, ft, cur, active, idle, stopping, autoStop,
                   rootTerm, waiters, starts, jobs>>

(* Mutant: stop() does not wait for its threads. *)
JoinUnwaited ==
    /\ pc[Caller] = "join"
    /\ pc' = [t \in Threads |-> IF t = Caller THEN "stopped" ELSE "unborn"]
    /\ UNCHANGED <<fibers, state, cb, ft, cbFiber, cur, idleTerm, active, idle,
                   stopping, autoStop, rootTerm, waiters, starts, jobs>>

(* stop(): swap threads_ out and join every one of them *)
Join ==
    /\ pc[Caller] = "join"
    /\ \A w \in Workers : pc[w] = "exit"
    /\ pc' = [t \in Threads |-> IF t = Caller THEN "stopped" ELSE "unborn"]
    /\ UNCHANGED <<fibers, state, cb, ft, cbFiber, cur, idleTerm, active, idle,
                   stopping, autoStop, rootTerm, waiters, starts, jobs>>

(* stop() has returned for the last time. *)
Stopped ==
    /\ pc[Caller] = "stopped"
    /\ UNCHANGED vars

-----------------------------------------------------------------------------
(* One step of run() outside the fiber's own code *)
Loop(t) ==
    \/ PickTask(t) \/ EnterIdle(t) \/ ExitRun(t) \/ QuietCheck(t) \/ IdleCheck(t)
    \/ DispatchFiber(t) \/ DispatchDead(t) \/ \E f \in FiberIds : DispatchCb(t, f)
    \/ SwapOut(t) \/ Back(t) \/ Post(t)

(* One step of the fiber on t *)
Fiber(t) ==
    \/ \E j \in Jobs, p \in Runners \cup {AnyThread} : Spawn(t, j, p)
    \/ Arm(t) \/ YieldToHold(t) \/ YieldToReady(t) \/ Return(t) \/ Throw(t)
    \/ \E p \in Runners : SwitchTo(t, p)

(* One step of the owner outside run() *)
Stop == StopBegin \/ StopFlag \/ StopQuiet \/ StopCheck \/ Join

Client ==
    \/ Start
    \/ \E j \in Jobs, p \in Runners \cup {AnyThread} : ScheduleCb(j, p)
    \/ \E p \in Runners \cup {AnyThread} : ScheduleNull(p)
    \/ \E j \in Jobs, p \in Runners \cup {AnyThread}, f \in FiberIds :
         ScheduleFiber(j, p, f)

Next ==
    \/ \E t \in Runners : Loop(t) \/ Fiber(t)
    \/ \E f \in FiberIds : Wake(f)
    \/ Client \/ Stop \/ Stopped

Spec == Init /\ [][Next]_vars

(* Threads are scheduled by the kernel, an armed waker fires in the end, and *)
(* a stop() that has begun goes on; nobody has to call start or stop.        *)
Fairness ==
    /\ \A t \in Runners : WF_vars(Loop(t) \/ Fiber(t))
    /\ \A f \in FiberIds : WF_vars(Wake(f))
    /\ WF_vars(StopFlag \/ StopQuiet \/ StopCheck \/ Join)

LiveSpec == Spec /\ Fairness

-----------------------------------------------------------------------------
(* A fiber is in the hands of at most one thread, from swapIn() until run() *)
(* has dealt with the state it left (fiber.cpp:158, scheduler.cpp:189-225): *)
(* two threads on one stack, or one marking HOLD what the other resumed,    *)
(* would corrupt it.                                                        *)
Exclusive ==
    \A t, u \in Threads : t # u /\ cur[t] = cur[u] => cur[t] = NoFiber

(* The assertion of swapIn() (fiber.cpp:161) never fails: a fiber popped    *)
(* under the mutex is still not EXEC when the thread swaps into it, and a   *)
(* cb_fiber about to be reset is not in use (fiber.cpp:127).                *)
SwapInAsserts ==
    \A t \in Threads : pc[t] = "dispatch" =>
        IF ft[t].fiber # NoFiber THEN state[ft[t].fiber] # "EXEC"
        ELSE cbFiber[t] # NoFiber => state[cbFiber[t]] \in Resettable

(* activeThreadCount_ and idleThreadCount_ count the threads with an entry in *)
(* hand and the threads inside idle(), so that neither leaks or underflows on *)
(* any path through run() (scheduler.cpp:180,192,210,230,239-241).            *)
CountsExact ==
    /\ active = Cardinality({t \in Threads :
                    pc[t] \in {"dispatch", "run", "armed", "leave", "back"}})
    /\ idle = Cardinality({t \in Threads : pc[t] \in {"idle", "check"}})

Queued(j) == \E i \in 1..Len(fibers) : fibers[i].cb = j
InHand(j) == \E t \in Threads : pc[t] = "dispatch" /\ ft[t].cb = j
Held(f)   == \E t \in Threads : cur[t] = f \/ (pc[t] = "dispatch" /\ ft[t].fiber = f)

(* Nothing that was scheduled is forgotten: until it is done, a job is queued, *)
(* in a thread's hand, or the callback of a fiber that is running or that some *)
(* waker or queue entry will resume, whatever way the fiber left its thread.   *)
NothingForgotten ==
    \A j \in Jobs : jobs[j].phase \in {"queued", "started"} =>
        \/ Queued(j) \/ InHand(j)
        \/ \E f \in FiberIds : cb[f] = j /\ (Held(f) \/ HasToken(f))

(* The jobs that execute, with their threads: from swapIn() until the fiber *)
(* gives its thread back.                                                    *)
Executing ==
    {<<cb[cur[t]], t>> : t \in {u \in Threads : /\ pc[u] \in {"run", "armed"}
                                              /\ cb[cur[u]] # NoJob}}

Pool == INSTANCE JobPool
            WITH phase <- [j \in Jobs |-> jobs[j].phase],
                 wanted <- [j \in Jobs |-> jobs[j].thread],
                 entered <- [j \in Jobs |-> jobs[j].runs],
                 on <- Executing

(* The scheduler implements the job pool: a callback is entered at most once  *)
(* although its fiber is popped and queued again many times and cb_fiber      *)
(* objects are reused, and every step of run() and of a fiber moves a job the *)
(* way the pool allows or not at all (scheduler.cpp:135-250, fiber.cpp).      *)
ImplementsPool == Pool!PoolSpec

(* stop() returns only when the work is done: every job scheduled before or *)
(* during stop() has finished, with IOManager's stopping() also the ones    *)
(* that were suspended (scheduler.cpp:92-133, iomanager.cpp:349-359).       *)
StopMeansDone ==
    pc[Caller] = "stopped" =>
        \A j \in Jobs : jobs[j].phase \in {"new", "done"}

(* Whatever stop() leaves behind is suspended: when it returns, no job is   *)
(* still waiting for its first run and none is READY or in a thread's hands,*)
(* although each thread leaves run() on its own reading of the queue and    *)
(* the counters.  The waker of a suspended job may still queue it, in vain. *)
StopLeavesOnlySuspended ==
    pc[Caller] = "stopped" =>
        \A j \in Jobs : \/ jobs[j].phase \in {"new", "done"}
                        \/ /\ jobs[j].phase = "started"
                           /\ \E f \in FiberIds : cb[f] = j /\ state[f] = "HOLD"

(* Every queued entry names a thread that can still take it: a worker that   *)
(* has left run() never comes back for it, and stop() would wait for ever.   *)
QueueServable ==
    \A i \in 1..Len(fibers) :
        fibers[i].thread # AnyThread => pc[fibers[i].thread] \notin {"exit", "join"}

(* stop() returns: every thread leaves run() in the end, on whatever path   *)
(* its idle fiber terminates (scheduler.cpp:132,233).                       *)
StopReturns ==
    (pc[Caller] = "stopFlag") ~> (pc[Caller] = "stopped")

(* A job scheduled to a started scheduler is eventually done, through any   *)
(* sequence of waits and yields, unless stop() is called first.  The thread *)
(* that owns the scheduler takes its entries inside stop() only.            *)
JobsFinish ==
    \A j \in Jobs : (jobs[j].phase = "queued" /\ jobs[j].thread # Caller /\ starts > 0)
                        ~> (jobs[j].phase = "done" \/ autoStop)
=============================================================================
