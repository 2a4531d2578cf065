# A TLA+ verification project for sylar

sylar is a C++ server framework: coroutines (`Fiber`) multiplexed over threads
(`Scheduler`), an epoll event loop with timers (`IOManager`, `TimerManager`),
hooks that turn blocking system calls into suspensions (`hook.cpp`), and around
them configuration, logging, sockets, addresses and helpers. This project models
the concurrent core and what is built on it, checks it with TLC and proves most
of its safety with TLAPS.

All paths are relative to the repository; `sylar/x.cpp:n` is a line of it.

## 1. Inventory

| component | state it keeps | operations | what makes it correct |
|---|---|---|---|
| `Fiber` (`sylar/fiber.*`) | `state_`, `cb_`, a stack | `reset`, `swapIn`/`swapOut`, `call`/`back`, `YieldToReady`, `YieldToHold`, `MainFunc` | never on two threads, entered once, resumed only when suspended |
| `Scheduler` (`sylar/scheduler.*`) | queue `fibers_`, `activeThreadCount_`, `idleThreadCount_`, `stopping_`, `autoStop_`, threads | `schedule`, `start`, `stop`, `run`, `switchTo`, `stopping` | nothing lost or run twice, counters exact, `stop()` returns and only when the work is done |
| `TimerManager` (`sylar/timer.*`) | the ordered set `timers_`, `tickled_`, `previouseTime_` | `addTimer`, `cancel`, `refresh`, `reset`, `getNextTimer`, `listExpiredCb` | set and keys agree, one shot means one shot, not early, not forgotten |
| `IOManager` (`sylar/iomanager.*`) | `FdContext` table, event masks, waiters, `pendingEventCount_`, the epoll set, the tickle pipe | `addEvent`, `delEvent`, `cancelEvent`, `cancelAll`, `idle`, `tickle`, `stopping` | counter, mask, waiter and kernel registration agree; no edge is lost |
| hooks (`sylar/hook.*`) | thread-local `hook_enable` | `do_io`, `connect_with_timeout`, `sleep`, `close`, `fcntl`, `ioctl`, `setsockopt` | a wait ends by readiness, timeout or close, and reports which |
| `FdManager` (`sylar/fd_manager.*`) | table of `FdCtx`: socket, closed, non-blocking flags, timeouts | `get`, `del`, the setters | one context per descriptor, flags agree with the kernel |
| `Config` (`sylar/config.*`) | variables, values, listeners | `Lookup`, `setValue`, `addListener`, `LoadFromYaml` | listeners see every change in order |
| `Log` (`sylar/log.*`) | loggers, appenders, formatters | `addAppender`, `setFormatter`, `log`, pattern parsing | appender and formatter follow the logger's; patterns parse as documented |
| `Thread` (`sylar/thread.*`), `mutex.*` | thread id and name, semaphore | constructor handshake, `join`, RAII locks | the constructor returns after the thread has its id |
| `Socket` (`sylar/socket.*`) | descriptor, addresses, `isConnected_` | `bind`, `listen`, `accept`, `connect`, `close`, `cancelX` | connected exactly while the descriptor is usable |
| `Address`, `byte_sequence.h` | - | masks, broadcast and network addresses, byte order | agree with their arithmetic definitions |
| `Env` (`sylar/env.*`) | arguments, environment | `init`, `add`, `get` | the arguments read back as given |
| `util` (`sylar/util.*`), JSON helpers | - | URL and YAML/JSON conversions, `FSUtil` | conversions undo each other; a file operation answers what it did |
| `macro.h`, `singleton.h`, `noncopyable.h` | - | assertions, base classes | - |

How they interact: worker threads execute `Scheduler::run`; a running fiber
calls hooks, which register the fiber with `IOManager::addEvent` or `addTimer`
and suspend it with `YieldToHold`. A thread without work swaps into the idle
fiber, `IOManager::idle`, which sleeps in `epoll_wait` for at most 3 s or until
the first timer, collects expired callbacks (`listExpiredCb`), triggers the
waiters of ready descriptors (`triggerEvent`), and goes back to `run`. All
three share `Scheduler::schedule`. `Socket` objects call the hooked functions;
`FdManager` tells a hook whether a descriptor is a socket, what its user asked
for and which timeouts it has. A listener of the configuration variable `logs`
rebuilds the loggers whenever a file or a call changes the variable.

What is hard here is listed with its lines under `hazards` in `PROJECT.json`:
state that is tested under a mutex and changed outside it, wake-ups that arrive
before the fiber has left its stack, counters that `stopping()` reads one after
the other, epoll reports that are stale when they are handled, tables resized
after an unlock, clocks that go back, values truncated to `int`.

Not part of the model: everything under `deps/` (third-party code), TLS itself,
name resolution, time formatting, and what the logger writes; see section 6.

## 2. Modules

| module | models | composes |
|---|---|---|
| `Scheduler` | `sylar/scheduler.*`, `sylar/fiber.cpp`, `IOManager::stopping` | fibers, run loops, owner, wakers |
| `JobPool` | the promise of `Scheduler` to its clients | - |
| `TimerManager` | `sylar/timer.*`, the timer part of `IOManager::idle` and `tickle` | timers, idle threads, clock |
| `IOManager` | `sylar/iomanager.*` (events), `close()` of `sylar/hook.cpp` | callers, idle threads, epoll |
| `Hook` | `do_io`, `connect_with_timeout`, the sleeps, `close()` | fibers, timers, events, one descriptor |
| `FdManager` | `sylar/fd_manager.*`, `socket`, `fcntl`, `ioctl`, `setsockopt` | table and kernel |
| `Socket` | `sylar/socket.*` | `FdManager`, objects of three kinds |
| `Config` | `ConfigVar`, `LoadFromConfDir` | threads, listeners, one file |
| `Log` | `Logger`, appenders, `LogIniter` | `Config` |
| `Text` | `UrlEncode`, `UrlDecode`, `LogFormatter::init`, `Env::init` | - |
| `Casts` | `LexicalCast`, `YamlToJson`, `JsonToYaml`, `LogLevel`, `LogDefine` | - |
| `Addresses` | `sylar/address.cpp`, `sylar/byte_sequence.h` | - |
| `Files` | `FSUtil` | a tree of files |
| `Algorithms` | the reference definitions of the four above | `Text`, `Casts`, `Addresses`, `Files` |
| `SchedulerProofs`, `SchedulerJobProofs`, `SchedulerStopProofs` | theorems, each module on top of the one before | `Scheduler`, `JobPool` |
| `TimerManagerProofs`, `IOManagerProofs`, `HookProofs`, `SocketProofs` | theorems | the module each is named after |
| `ConfigProofs` | theorems about variables, the file and the loggers | `Log`, and with it `Config` |
| `MCScheduler`, `MCTimerManager`, `MCIOManager`, `MCHook`, `MCSocket`, `MCLog`, `MCAlgorithms` | instances for TLC | the module each is named after |

A definition marked "Mutant" is a plausible error in the definition that
follows it; `PROJECT.json` lists which property finds it.

### Scheduler

`fibers` is `fibers_`; `state`, `cb` are `state_` and `cb_` of each fiber; `ft`,
`cbFiber` and `idleTerm` are the locals of `run()`; `cur` is the fiber a thread
swapped into and has not dealt with; `active` and `idle` are the two counters.
The steps follow `run()`: `PickTask` is the critical section that pops the first
entry this thread may take and whose fiber is not EXEC; `DispatchFiber`,
`DispatchCb` and `DispatchDead` are the three branches after it; the fiber then
takes steps of its own (`Spawn`, `Arm`, `SwitchTo`, `YieldToHold`,
`YieldToReady`, `Return`, `Throw`), `Back` is `activeThreadCount_--`, `Post`
deals with the state the fiber left (READY: schedule again; finished callback
fiber: `reset(nullptr)`; otherwise HOLD). `EnterIdle`, `QuietCheck`, `IdleCheck`
are the idle fiber, whose `stopping()` is read in two steps when `IOM` is set,
because `IOManager::stopping` reads the timers and `pendingEventCount_` before
the base class takes the mutex. `Start`, `StopBegin`, `StopFlag`, `StopQuiet`,
`StopCheck`, `Join` are the owner.

One mutex section is one step; `state_` is written outside the mutex and is a
step of its own, which is where the interesting interleavings come from. A
callback is an abstract job that does any of the fiber's steps in any order, at
most `MaxSteps` suspensions. `waiters` stands for whatever will schedule the
fiber once: an event or a timer. `Wake` is its `schedule`; for a timer the code
collects the callback (`listExpiredCb`) and schedules it a little later
(`sylar/iomanager.cpp:398-402`), which the model does at once: the thread in
between is inside `run()` and takes the entry itself if no other does. Waiting
for work is a poll: `idle()` sleeps at
most 3 s and `run()` polls again, so the tickle only shortens the sleep.

Constants that describe the client: `Strict` (a fiber that armed its waker
suspends next, which is what every hook and `switchTo` does), `PinAnywhere` (a
job may name any thread in `schedule`, not only its own), `IOM`, `UseCaller`.
The owner starts the scheduler before it stops it. Even a client that is not
`Strict` suspends after arming when it runs as a callback: the thread reuses the
fiber of a finished callback for the next one (`sylar/scheduler.cpp:206,217`), and
a wake-up that comes later would resume another job.

`JobPool` says what a client may rely on: a job is entered once, on the thread it
was submitted for, executes on one thread at a time and alone there, may be
suspended and resumed on any thread, or redirected before it was resumed by
`switchTo`, and finishes from the thread it is on. `ImplementsPool` is the
refinement: `phase`, `wanted` and `entered` are `jobs`, and the job of a fiber is
`on` a thread while that thread is inside the fiber (`Executing`).

### TimerManager

`timers` is the `std::set` as pairs `<<key, timer>>`: an element keeps the key
it had when it was inserted, while `next` is the timer's field. `Construct` is
the constructor, which reads the clock before the lock; `AddTimer`, `Cancel`,
`Refresh`, `Reset` are one critical section each. A timer inserted at the front
sets `tickled_` under the lock and tickles after the unlock
(`sylar/timer.cpp:203-216`): `tickling` counts the calls in between, and
`InsertedAtFront` is the tickle. An idle thread goes through
`GetNextTimer` (with the cast to `int` and the cap of 3 s), `Timeout`,
`Tickled` or `OtherEvent` (three ways out of `epoll_wait`), `ReadClock`,
`ListExpiredCb` or `NoTimers`, `ScheduleCbs`, `Drain`. `Tick` advances the wall
clock and what is left of each sleep; `SetBack` sets the wall clock back.
`armedAt`, `fired` and `cancelled` are history variables. The clock starts at
twice the rollover threshold, as real clocks do, so `previouseTime_ - 1 h` does
not wrap. Callbacks are not empty, as every call in the repository passes one.

### IOManager

`fdContexts` and `size` are the table, with a number per context because a
resize can lose one and make another; `events` and `waiter` are the mask and
the EventContexts; `mutex` is a context's mutex where it is held over several
steps. `AddFind`, `AddGrow` and `AddEvent` / `AddFails` / `AddTwice` are
`addEvent` with its read-locked lookup, its write-locked resize and its section
under the context's mutex; `Find` begins `delEvent`, `cancelEvent`, `cancelAll`
and `close()`, `CancelFails`, `DelEvent`, `CancelEvent` and `CloseFd` finish
them. `EpollWait`, `SkipEvent`, `HandleEvent` are the loop of `idle()`;
`TriggerEvent` and `CountDown` are `triggerEvent` and `--pendingEventCount_`.
The kernel is external: an edge-triggered interest list (`interest`), a ready
list (`edge`), readiness that comes and goes (`Arrive`, `Use`), numbers that are
reused (`Reopen`), and `epoll_ctl` that fails for closed, registered and
unregistered descriptors. A failed assertion stops everything (`aborted`).
`dropped` is history: the descriptors a resize has taken out of the table, when a
caller that saw the old size resizes after another one that needed more. `Quiet`
is a bound: descriptors that are never ready.

`Careful` describes the client: one waiter per event, and nobody waits on a
descriptor that is being closed.

### Hook

One descriptor and the fibers that call hooked functions on it. `fiber` is where
each is in its call together with the call's `timer_info`; `timers` are armed
condition timers, `cbs` callbacks that were collected and not yet run, in the
two halves the code has (lock the weak pointer and mark; cancel the event).
`Call`, `TryIo` / `TryConnect`, `Arm`, `AddEvent` / `AddFails`, `Resume`, `Check`,
`SockError`, `Return` are `do_io` and `connect_with_timeout`; a retry shares its
`timer_info` with the first attempt and has a timer of its own. `CloseCancelAll`,
`CloseDel`, `CloseFd` are `close()`; `Socket` hands the number out again. Timers,
events and the scheduler appear as their modules promise: a timer expires once,
an event has one waiter, a waiter that was triggered runs. `EpollWait` and
`HandleEvent` are the two halves of `idle()`: what a thread was told (`report`) is
handled later, when the waiter may be another one, on another socket that has the
number (`sylar/iomanager.cpp:392,420-464`).

### FdManager and Socket

`kernel` is the kernel's table of sockets by number, each with a generation that
tells two sockets of one number apart; `datas` and `size` are the table of
`FdCtx`. `Create`, `Del`, `SetFl`, `GetFl`, `Fionbio`, `SetTimeout` are the
operations. `Socket` has one record per object (`sock_`, `isConnected_`, the
cached local address, the SSL session) and takes the steps at which locks and
system calls let others in: `NewSock` / `Reuse` / `Accept`, `Find` and `CreateCtx`
(`get(fd, true)` in its two halves), `InitSock` / `Bind` / `Connect` /
`WrongFamily`, and `Close`, `CloseDel`, `CloseFd`, `ForgetFd`: the number is the
kernel's again before `sock_` is -1 (`sylar/socket.cpp:303-304`), and in between
another object can get it. `Bind` leaves out the probe of a Unix path (a temporary
socket and an unlink), which changes none of this state. Each call is made by a thread
with the hooks on or off, because `set_hook_enable` is per thread and only
threads of a scheduler set it.

### Config and Log

`SetValue`, `Notify`, `Store` are `setValue`: listeners one by one under the read
lock, then the value under the write lock. `LoadStat`, `LoadFile`,
`LoadFromYaml` are `LoadFromConfDir` on one file, whose modification time counts
seconds; `lstat` and the locked comparison that follows it are one step, since
only the reading of the file decides what is loaded.

In `Log` one listener is `LogIniter`'s, which goes through the new and then the old
definitions logger by logger, each in several separately locked calls that the
program's calls come between: `NotifyStart`, `NotifyLogger` (`setLevel` and
`setFormatter`, or `setLevel` and `clearAppenders` of a logger that is no longer
defined), `NotifyClear`, `NotifyAppender`. `todo` holds the names left, `step` how
far the present one is, and `Earlier` says which name comes first. `appenders_` is
a function on numbers that keep the list's order, in two parts: `apps` are the
appenders `LogIniter` and the constructor made, which nobody else can reach, `refs`
those of the program (`held`), which it may add to several loggers, take out and
add again. `Program` is the program's own calls: `SetLoggerFormatter`,
`AddAppender`, `DelAppender`, `ClearAppenders`, and `SetAppenderFormatter`, whose
argument may be null. `addAppender` gives the logger's format to an appender that
has none and to no other (`sylar/log.cpp:343`).

`overlap`, `late`, `heard`, `applied`, `sneaked`, `touched` and `strayed` are history.

### Text, Casts, Addresses, Files, Algorithms

Parsers and conversions are recursive operators on sequences of characters, on
values and on trees; an environment action picks each bounded input once and the
invariants compare the code's operator with a reference written without it.
`Casts` tells apart how YAML reads a bare string: quotes, blanks and comments go,
some strings are null, and a content that would not be read as itself is printed
in quotes. `Files` is a state machine: a tree of files, directories and sockets,
one call of `FSUtil` per step, and per call one fault: a path that cannot be
changed, a directory below which even `lstat` fails, or one that cannot be listed.

## 3. Runs

Every run is a `.cfg` file; `tlc -config X.cfg MCModule` repeats it.

| run | instance | shows |
|---|---|---|
| `sched_pool` | 2 workers, 2 fibers, 2 jobs, 2 suspensions each, 2 starts, `PinAnywhere` | `TypeOK`, `Exclusive`, `SwapInAsserts`, `CountsExact`, `NothingForgotten`, `ImplementsPool` |
| `sched_stop` | 1 worker and the caller, `IOM`, not `Strict`, fair | `StopReturns`, `JobsFinish`, `QueueServable`, `StopLeavesOnlySuspended` |
| `sched_abandon` | 2 workers, `IOM`, one job | `StopMeansDone` is violated |
| `timer_core` | 2 idle threads, 1 timer, 2 periods, the clock set back once | `TypeOK`, `KeysMatch`, `OneShot` |
| `timer_watch` | 1 idle thread, 2 timers, fair | `FrontWatched`, `NotEarly`, `DueTimersFire` |
| `io_accounts` | 2 callers, 2 idle threads, both events, every call, errors, careless clients | `TypeOK`, `PendingExact`, `WaitersAccounted` |
| `io_edges` | 2 callers, 2 idle threads, two descriptors beyond the table, one of them never ready, adds and closes, errors, careful clients, fair | `Cancellable`, `ReadyWaiterWoken` |
| `io_stale` | 2 idle threads, both events | `TriggerAsserts` is violated |
| `hook` | one fiber receives, connects and sleeps with 2 timers, one closes, the number used twice, one idle thread with a report in hand, fair | `TypeOK`, `OwnTimeout`, `WaitersReachable`, `ConnectedIsUp`, `TimeoutEndsWait` |
| `sockets` | a UDP, a listening and a connecting SSL object, 2 numbers, 3 sockets | `TypeOK`, `OneOwner`, `CtxFollowsSocket`, `NonblockKept`, `MembersCurrent` |
| `config_log` | 2 threads, 3 calls of setters, loads and the program together, 3 values, 3 file contents, 2 loggers, 2 listeners, 1 appender of the program | `TypeOK`, `ListenersInformed`, `LoadedLatest`, `LoggersFollowConfig`, `InheritedFormat` |
| `algorithms` | strings of up to 5 characters, nested containers, 4 and 16 byte addresses, trees of depth 2 | `TextExact`, `CastsExact`, `AddressesExact`, `AnswersHonest`, each the conjunction of a statement per function |

**Bounds.** Two threads and two jobs give every pairwise race of run loops: one
thread can hold a fiber while the other pops its second entry, leaves or stops.
Two suspensions per job give yield-then-wait and wait-then-yield. `MaxStarts`
is 2 in `sched_pool`, so the leftovers of one round meet the next. With the
rollover threshold at 1 and the clock in 3..4, setting the clock back happens
both below and above the threshold. Two timers are needed for "the other one
becomes first". `MaxTickling` is the number of calls between their unlock and their
tickle: 2 in `timer_core`, 1 in `timer_watch`, where any number is proved. Two callers and two idle threads give every pair of call and
report; with a table of two places descriptors 2 and 3 grow it, to 3 and to 4
places, in either order (`fd * 1.5`), so that the second caller may make it smaller
again. `io_edges` has descriptor 3 never ready and no `delEvent` or `cancelEvent`,
to stay small with liveness; the same instance with readiness on both, every kind
of call and one idle thread satisfies `Cancellable` too (2.3 million states). Two timers of one
fiber let the callback of the first meet the second call or the retry. Two
numbers and three sockets let one number be closed, taken by another object and
closed again while the first object still has a call to make. Three calls let a
call overlap with one that began before and one that begins after it; `MaxWork`
bounds the setters, loads and logger calls together. One appender of the program
and two loggers let it be in both, or move with the format it got. One idle
thread holds a report while the number is closed, reused and connected. A pattern
of five characters holds a directive with its format and text on one side of it;
a tree of depth 2 holds a directory whose last entry can be removed while an
earlier one cannot. Symmetry is used for threads, fibers, jobs and waiters in
the runs without liveness; timers are ordered by address and are not symmetric.

**Stopping.** `hook`, `sockets`, `config_log` and `algorithms` do not check for
deadlock: their clients may have no more calls to make.

**Fairness.** `Scheduler`: weak fairness for each thread (the kernel schedules
it), for each armed waker (the event comes or its timeout does), and for a
`stop()` that has begun; nobody has to start, schedule or stop anything.
`TimerManager`: weak fairness of each idle thread and of time; a busy thread
ends its work. `IOManager`: weak fairness of a call that has begun and of each
thread inside `idle()`, which returns from `epoll_wait` at least every 3 s,
and strong fairness of getting a context's mutex, which is free again and again
because every section is short. The kernel owes nobody readiness. `Hook`, for
each fiber that makes calls that wait: weak fairness of its steps, of its timers
(time passes) and
of its collected callbacks, which are jobs of the scheduler; these are what
`JobsFinish` and `DueTimersFire` promise. The peer owes nothing.

**Findings** (details and quotes in `PROJECT.json`). `IOManager::stopping()` is
read in pieces and never asked again once the idle fiber has terminated, so two
workers can leave a suspended fiber behind (`sched_abandon`). `idle()` triggers
what was reported, not what is still awaited (`io_stale`).

**Limits of the passing runs.** Each passing run states the discipline under
which its properties hold, and changing one constant shows that it is needed:

- `SchedulerPool.cfg` with `Strict = FALSE`: a fiber with two wake-ups is popped
  twice, because EXEC is set after the unlock (`sylar/scheduler.cpp:172`,
  `sylar/fiber.cpp:161`); `Exclusive` and `SwapInAsserts` fail.
- `SchedulerStop.cfg` with `PinAnywhere = TRUE`: `activeThreadCount_--` precedes
  `schedule(ft.fiber_)` (`sylar/scheduler.cpp:192-196`), a worker leaves, and an
  entry pinned to it stays; `QueueServable` fails.
- `SchedulerStop.cfg` with `MaxStarts = 2`: a second `stop()` would call a root
  fiber that has terminated (`sylar/scheduler.cpp:123`); `StopReturns` fails.
- `TimerWatch.cfg` with two idle threads: `tickled_` suppresses the wake-up while
  the woken thread is busy, and the other one sleeps past the deadline, up to
  3 s (`sylar/timer.cpp:205`); `FrontWatched` fails.
- `TimerWatch.cfg` with `FromNow = {TRUE, FALSE}`: `reset(ms, false)` subtracts
  the new period from `next_` and adds it again, so the deadline stays
  (`sylar/timer.cpp:101`), and a `refresh` after it moves the deadline nearer
  without a tickle; `NotEarly` and `FrontWatched` fail.
- `TimerWatch.cfg` with two idle threads also breaks `NotEarly`: a thread that is
  held up between reading the clock and the lock for longer than the threshold
  looks like a clock set back (`sylar/timer.cpp:160,175`).
- `TimerWatch.cfg` with a period of half `IntRange` or more: the cast in
  `sylar/iomanager.cpp:385` gives a negative timeout, and the
  thread sleeps past the timer; `FrontWatched` fails.
- `IOEdges.cfg` with `Careful = FALSE`: an event added between `cancelAll` and
  `close_f` (`sylar/hook.cpp:410`) stays armed without a registration.

Other limits are part of the statements, and their comments name the line. In
`IOManager` `contextResize` may shrink the table another thread has just grown
(`sylar/iomanager.cpp:182`), and the waiters on the descriptors beyond it are lost
(`dropped`). In `Hook` a fiber that waits again between `cancelAll` and `close_f` waits for ever
(`late`), a wait marked before it began has no timeout (`TimeoutEndsWait`), and
connect reports success when somebody else's cancel woke it, or a report that
`epoll_wait` made before the wait began (`struck`). In
`Socket` an `FdCtx` survives a `close` without hooks (`stale`), FIONBIO 0 reaches
the kernel (`cleared`), and `connect` after `close` keeps the cached local address
(`gone`). In `Config` overlapping calls may store one value and announce another
last (`overlap`), a listener added between the halves of `setValue` misses it
(`late`), and a second change within a second is not loaded (`sneaked`). In `Log`
an appender that is added with the format of another logger or of an earlier time
keeps it, one that is in two loggers has the format set last, and one given a null
formatter while it is in a logger has none, which `log()` dereferences (`strayed`,
`sylar/log.cpp:100-117,343`). The program's formatters parse: the overloads that
take a pointer do not look at the pattern (`sylar/log.cpp:100,281`).

A job that yields or waits continues on any thread, whatever thread it was
scheduled for (`sylar/scheduler.cpp:196`); `JobPool` therefore asks for its
thread at the first entry only.

Inputs left out of `algorithms`: `%%` in a pattern, which a comment at
`sylar/log.cpp:526` announces and the parser does not handle; the empty format
`%d{}`; strings YAML reads as a collection or rejects; a host with an empty node
such as `:80`, and a bare IPv6 address, which `Lookup` splits at its first colon;
the empty Unix path, which is printed as `\0`; prefixes below 2 for IPv4 and 128
for IPv6, where a shift or an index is out of range; the level of an appender,
which is never read back; a definition without a name, for which `LexicalCast`
throws. A string in a container may change when it is written and read again (its
quotes, blanks or comment go, an empty one comes back as `~`): `ValueRoundTrip`
says that it still reads the same, and that strings as YAML prints them do not
change. `Rm` treats a socket as a directory and cannot remove it (`S_IFDIR` is not
one bit); `Rm` and `Unlink` answer success when `lstat` fails for whatever reason
(`sylar/util.cpp:255,299`); `Mv(x, x)` removes `x` and answers failure; `Mkdir` of
an existing file answers success. `RmExact`, `MvMoves` and `CreatesWhatItSays` say
so.

## 4. Proofs

Every theorem is `Spec => []P` or `Spec => A` for the specification and the
property a run checks, for every value of the constants that satisfies the named
`ASSUME` of the module (TLC evaluates them in every run) and the hypotheses the
theorem states. The inductive invariants below were checked with TLC on the
instances of section 3 before they were proved. A proof has one step per action
and, under it, one per conjunct the action can disturb.

**`SchedulerProofs`** (any set of threads, fibers and jobs).

- `TypeCorrect`. `TypeInv` adds `CurPC` (a thread holds a fiber exactly between
  `swapIn` and the end of `Post`), because the fiber's steps apply `cb` and
  `state` to `cur[t]`, and `Resting` (between `stop()` and `start()` there is no
  worker), because `Start` puts every worker at the head of `run()`.
- `ExclusiveAlways` and `SwapInAssertsAlways`, for a `Strict` client. `Exclusive`
  is not inductive: it depends on how many wake-ups of a fiber are under way.
  `FiberInv` adds `OwnerState` (the states a fiber in a thread's hands may be
  in), `OneToken` (at most one wake-up of a fiber is under way: an armed waker or
  a queue entry), `TokenInv` (a fiber with a wake-up under way is not over, and a
  thread that still holds it will not change `state_`), `HandInv` (the fiber of a
  popped entry belongs to the thread that popped it) and `CbInv` (a `cb_fiber` is
  the fiber its thread runs, or finished and free to be reset). The central case
  is `PickTask`: the EXEC test under the mutex and `OneToken` together say that
  nobody else can enter the fiber before `swapIn`.

**`SchedulerJobProofs`** (the same, with finitely many threads).

- `CountsAlwaysExact`, for any client: one thread moves at a time, and each action
  changes the counters by what its move changes.
- `NothingIsForgotten`, for a `Strict` client, from `JobInv`: an entry is in one
  place (`EntryInv`), a job has one home, an entry or a fiber (`HomeInv`), which
  tells its history (`PhaseInv`), a fiber leaves its thread suspended with a
  wake-up under way, READY, or over (`LeaveInv`), and the fiber of an unfinished
  job runs or will be resumed (`CareInv`). `LeaveInv` is what carries a job over
  the gap between `swapOut` and `Post`, where it is in no queue.
- `SchedulerImplementsPool`: the refinement of `JobPool`, from the same
  invariants. Each action maps to one step of the pool or to a stutter; dispatch
  of a callback is the pool's entry, and `Exclusive` gives that a thread executes
  one job and a job one thread.

**`SchedulerStopProofs`**, for a `Strict` client that pins work only to its own
thread (`~PinAnywhere`): `QueueAlwaysServable` and `StopAlwaysLeavesSuspended`,
with any number of rounds, workers, and with or without the caller. `ServePhase`
says where the threads are in each part of the owner's life, `PinInv` that a
pinned entry names a thread that has not left and will look at the queue once
more, `OwnInv` that an EXEC fiber is in a thread's hands, `DrainInv` that somebody
in `run()` attends to every entry that can run. The case that matters is a
thread leaving: its test under the mutex sees an empty queue and no active
thread, but another thread may be between `activeThreadCount_--` and `schedule`;
that thread is itself still in `run()`. What is left after `stop()` is in HOLD; its
waker may still put an entry into the queue, which nobody takes. The run `sched_stop` has a client that is
not `Strict`; for that one the two are only model-checked.

**`TimerManagerProofs`** (any timers, idle threads and periods).

- `TypeCorrect`, `KeysAlwaysMatch`, `OneShotAlways`, whatever the clock does.
  `TimerInv` says, element by element, that what is filed is filed under its
  present `next_` (`FiledUnderNext`), that a live timer with a callback is filed
  (`LiveIsFiled`), and that a timer that does not recur and still has its callback
  was neither collected nor cancelled (`CollectedOnce`).
- `NeverEarly`, while resets count from now (`FromNow` within `{TRUE}`) and under
  `[]Prompt`: no thread is held up between `GetCurrentMS` and the write lock
  (`sylar/timer.cpp:160,169`) while another one collects with a reading more than
  an hour later. The attempt to prove it without `Prompt` failed, and TLC shows
  why with two idle threads and a threshold of 0: `detectClockRollover` takes the
  old reading for a clock that was set back and collects every timer.
  `DeadlineInv` bounds `next_` from below by the start of the interval and the
  period; `ClockInv` says that every reading lies in the past.
- `NeverEarlyAlone`: with one idle thread, the default of `IOManager`, `Prompt`
  always holds, and with it `NotEarly`.
- `FrontAlwaysWatched`, with one idle thread, resets from now, and periods and
  `MAX_TIMEOUT` below half the range of `int`. `WatchInv`: a sleeping thread wakes
  up in time for every timer, the pipe is signalled, or a call is between its unlock
  and its tickle, and one of the last two holds whenever `tickled_` is set while it
  sleeps. Section 3 shows that each hypothesis is needed.

**`IOManagerProofs`** (finitely many threads and descriptors, any waiters, careful
clients or not, calls that fail): `TypeCorrect`, `PendingExactAlways`,
`WaitersAlwaysAccounted`. `IInv` adds to them `Table` (the table has a context at
every place it reaches), `Listed` (epoll reports only what is registered),
`Locals` (what a thread's place says of its locals), `Adding` (each `addEvent`
under way has a waiter of its own) and `Homes` (the EventContexts and the waiters
match one to one). `PendingExact` is a statement about cardinalities: each action
adds or removes one armed event or one thread that still has to count down.

- `CancellableAlways`, for `Careful` clients. `Cancellable` speaks of contexts
  nobody holds, and says nothing of what happens while one is held. `CancelInv`
  adds, for descriptors that no resize has dropped, `Grown` (one context each, made
  by the first resize that reaches it), `AllReached` (whoever refers to a context,
  a thread, a batch of reports, epoll, refers to one the table leads to),
  `OwnCall` and `Locked` (a context's mutex is held from the change of the
  registration to the last trigger), `Registered` (epoll knows exactly the events
  that stay: under a mutex that is held, the armed ones less those about to be
  triggered) and `Closing` (past `cancelAll` a careful client's descriptor has no
  event). The case that carries it is `GrowStep`: a resize in the wrong order
  harms what it drops and leaves every other context in its place. Section 3 shows
  that `Careful` is needed.

**`HookProofs`** (any fibers, timers and numbers of opens): `TypeCorrect`,
`OwnTimeoutAlways`, `WaitersAlwaysReachable` and the action property
`ConnectedAlwaysUp`. `TimerInv` numbers a fiber's timers: only the one armed last
can still expire, and a callback belongs to one that has, so that a callback left
from an earlier call is told from one of this call; `MarkInv` says that a marked
call has had a timer of its own expire, `PlaceInv` which calls can
be where, `WaitInv` that an event names the one call that waits for it,
`EpollInv` that whoever waits unregistered came late, `ConnInv` follows the
handshake of a connect that nothing else has struck, and `ReportInv` says that a
report of WRITE still to be handled is not older than such a connect's wait.

**`SocketProofs`** (any descriptors, objects and kinds): `TypeCorrect`,
`OneOwnerAlways`, `CtxAlwaysFollows`, `NonblockAlwaysKept`,
`MembersAlwaysCurrent`. `FdOk` says that a context left behind is in `stale` and
any other is its socket's, `CtxOk` what an object in the middle of a call knows of
the context (between the two halves of `get(fd, true)`, and between `del` and
`close_f`), `MembersOk` that what a closed socket leaves in an object is marked.

**`ConfigProofs`** (any threads, values, listeners, loggers and definitions, with
the log listener composed).

- `TypeCorrect`. Besides the types of `Config`'s variables it says that loggers
  and appenders only use patterns that parse, the constructor's or, where the
  program passes null, none, whatever the configuration holds; `IInv` and
  `LoggerInv` (`ShapeInv`, `HeldInv`, `RunInv`, `CountInv`) are the invariant.
- `ListenersAlwaysInformed` and `LoadedAlwaysLatest`. `HeardInv`: each
  listener was told of the value and of every one about to be stored by a thread
  that has told it; `CopyInv`: without overlap one thread is busy, and a copy is
  the value or the one about to be stored; `LoadInv`: a load under way has read
  what the file held at the remembered time; `ThreadInv`: one thread at a time
  adds a listener, and it is not there yet.
- `FormatAlwaysInherited`, overlapping calls included. `ShapeInv`: every call keeps a
  logger `Sound` (its own appenders that inherit have its format; a lemma per
  method of `Logger`). `HeldInv`: an appender of the program that inherits and has
  not strayed has the format of the logger that holds it, and only one does; the
  second half is what makes the first survive that logger's `setFormatter`.
- `LoggersAlwaysFollow`. `LoggersFollowConfig` speaks of a configuration at rest
  and is not inductive, because `LogIniter` changes one logger after the other,
  and changes it by a difference, before the value is stored. `FollowInv` says
  where each logger is: as the new value says once the run is past its name
  (`Past`), until then as the old one says, and while the run is at it (`AtName`)
  as far as its steps have got (`Partly`: the level and the format first, then the
  appenders up to the next one). Without overlap there is one busy thread, so there
  is one new value. Equal definitions leave a logger as it is, which is right
  because it already followed the old one. What `Follows` says of `loggers` is then
  turned into what `log()` writes, the fallback to the root logger included.

**Only model-checked.**

- Liveness, which is out of the prover's reach: `StopReturns`, `JobsFinish`,
  `DueTimersFire`, `ReadyWaiterWoken`, `TimeoutEndsWait`.
- What the recursive operators compute (`TextExact`, `CastsExact`,
  `AddressesExact`, `AnswersHonest`): induction over data.

## 5. What is left

1. `IdleWake`: `tickle`, `hasIdleThreads`, the pipe and the idle fiber composed
   with the queue, to show when scheduled work is picked up without waiting for
   the 3 s timeout.
2. The start handshake of `Thread`.

## 6. Not modelled

- `Thread` and `mutex.*`: threads exist when a model begins, a critical section
  is one step; `singleton.h`, `noncopyable.h`, `macro.h` have no behaviour.
- The register switch of ucontext, stack allocation, fiber ids.
- `Config::Lookup`'s name and type checks and the listing of variables.
- What the format items write, and the reopening of a log file every few
  seconds: output.
- `Address` name resolution and interfaces: I/O. `networdAddress` applies the host
  mask, not its complement, and so keeps the host bits; a comment at
  `sylar/address.cpp:388` doubts it too.
- `Env`: help text, environment variables, and the path it reads from
  `proc/%d/exe`, a relative name.
- `util`: back traces, time formatting, `SpeedLimit`, `ListAllFile`, `TrimRight`,
  `Symlink`, and the JSON and protobuf getters. They are single library calls
  or I/O.
- TLS: a session is the number it was given, the handshake succeeds or fails.
- Crashes and restarts: the framework keeps nothing across a restart except the
  files it only reads.
