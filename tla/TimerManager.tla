---------------------------- MODULE TimerManager ----------------------------
(***************************************************************************)
(* Timers (sylar/timer.{h,cpp}) and the part of IOManager::idle that waits *)
(* for them (sylar/iomanager.cpp).                                         *)
(*                                                                         *)
(* timers_ is a std::set ordered by next_, so an element is filed under    *)
(* the value next_ had when it was inserted: the set holds pairs           *)
(* <<key, timer>>.  Any thread may add, cancel, refresh or reset a timer;  *)
(* every such call is one critical section, except that the constructor    *)
(* reads the clock before the lock is taken and that an insertion at the   *)
(* front tickles after the lock is released.  An idle thread sleeps in     *)
(* epoll_wait, reads the clock, collects the expired callbacks under the   *)
(* lock and schedules them.  The wall clock can be set back; the timeout   *)
(* of epoll_wait does not depend on it.                                    *)
(***************************************************************************)
EXTENDS Integers, FiniteSets

CONSTANTS
    Idlers,      \* the scheduler's threads, as far as they execute idle()
    Timers,      \* timer objects; the order of their addresses is <
    Periods,     \* the ms arguments of addTimer and reset
    FromNow,     \* the from_now arguments of reset
    Hour,        \* 60 * 60 * 1000, the rollover threshold
    MaxTimeout,  \* MAX_TIMEOUT = 3000 of idle()
    IntRange,    \* 2^32, the number of values of int
    MaxTime,     \* bound: last value of the clock
    MaxTickling, \* bound: calls that have unlocked and are about to tickle
    MaxSetBack   \* bound: how often the clock is set back

ASSUME TimeAssumption ==
    /\ Timers \subseteq Nat
    /\ Periods \subseteq Nat /\ FromNow \subseteq BOOLEAN
    /\ Hour \in Nat /\ MaxTime \in Nat /\ MaxTimeout \in Nat /\ MaxSetBack \in Nat
    /\ IntRange \in Nat \ {0} /\ MaxTickling \in Nat
    /\ 2 * Hour + 1 <= MaxTime

VARIABLES
    now,        \* GetCurrentMS()
    setBacks,   \* how often the clock was set back
    previouse,  \* previouseTime_
    timers,     \* timers_
    stage,      \* of a timer object: "none", "ctor" (constructed) or "live" (added)
    next,       \* next_
    ms,         \* ms_
    recurring,  \* recurring_
    cb,         \* cb_ is not empty
    tickled,    \* tickled_
    tickling,   \* calls of addTimer between lock.unlock() and their tickle
    signal,     \* the tickle pipe has an unread byte epoll will report
    pc,         \* of each idler
    left,       \* what is left of its epoll_wait timeout; -1 is for ever
    viaPipe,    \* epoll_wait reported the tickle pipe to it
    clock,      \* the now_ms it read in listExpiredCb
    hand,       \* the callbacks listExpiredCb gave it, not scheduled yet
    armedAt,    \* history: the time a timer's current interval started
    fired,      \* history: how often a timer's callback was collected
    cancelled   \* history: timers whose cancel() returned true

timerVars == <<timers, stage, next, ms, recurring, cb, tickled, tickling>>
idlerVars == <<pc, left, viaPipe, clock, hand>>
vars == <<now, setBacks, previouse, timerVars, signal, idlerVars,
          armedAt, fired, cancelled>>

Time == Nat

TypeOK ==
    /\ now \in Time /\ previouse \in Time /\ setBacks \in 0..MaxSetBack
    /\ timers \subseteq (Time \X Timers)
    /\ stage \in [Timers -> {"none", "ctor", "live"}]
    /\ next \in [Timers -> Time]
    /\ ms \in [Timers -> Nat]
    /\ recurring \in [Timers -> BOOLEAN]
    /\ cb \in [Timers -> BOOLEAN]
    /\ tickled \in BOOLEAN /\ tickling \in 0..MaxTickling /\ signal \in BOOLEAN
    /\ pc \in [Idlers -> {"next", "wait", "read", "expire", "hand", "drain", "busy"}]
    /\ left \in [Idlers -> Int]
    /\ viaPipe \in [Idlers -> BOOLEAN]
    /\ clock \in [Idlers -> Time]
    /\ hand \in [Idlers -> SUBSET Timers]
    /\ armedAt \in [Timers -> Time]
    /\ fired \in [Timers -> Nat]
    /\ cancelled \subseteq Timers

(* The clock starts high enough that previouseTime_ - 1 h does not wrap. *)
Init ==
    /\ now = 2 * Hour + 1 /\ previouse = now /\ setBacks = 0
    /\ timers = {} /\ tickled = FALSE /\ tickling = 0 /\ signal = FALSE
    /\ stage = [t \in Timers |-> "none"]
    /\ next = [t \in Timers |-> 0]
    /\ ms = [t \in Timers |-> 0]
    /\ recurring = [t \in Timers |-> FALSE]
    /\ cb = [t \in Timers |-> FALSE]
    /\ pc = [i \in Idlers |-> "next"]
    /\ left = [i \in Idlers |-> 0]
    /\ viaPipe = [i \in Idlers |-> FALSE]
    /\ clock = [i \in Idlers |-> 0]
    /\ hand = [i \in Idlers |-> {}]
    /\ armedAt = [t \in Timers |-> 0]
    /\ fired = [t \in Timers |-> 0]
    /\ cancelled = {}

-----------------------------------------------------------------------------
(* Timer::Comparator on two elements of timers_ *)
Before(a, b) == a[1] < b[1] \/ (a[1] = b[1] /\ a[2] < b[2])

AtFront(S, e) == \A x \in S : x = e \/ Before(e, x)

(* timers_.find(shared_from_this()) != timers_.end() *)
Found(t) == <<next[t], t>> \in timers

Erased(t) == timers \ {<<next[t], t>>}

(* IOManager::tickle(): a byte is written if some thread is idle *)
TickleIf(b) == signal' = (signal \/ (b /\ \E i \in Idlers : pc[i] # "busy"))

(* Mutant: insert without a tickle. *)
InsertSilently(S, e) ==
    /\ timers' = S \cup {e}
    /\ UNCHANGED <<tickled, tickling>>

(* TimerManager::addTimer(val, lock), under the lock: insert; when the new     *)
(* element is the first and nobody has been tickled since the last            *)
(* getNextTimer, a tickle is owed                                             *)
Insert(S, e) ==
    LET atFront == AtFront(S, e) /\ ~tickled IN
    /\ timers' = S \cup {e}
    /\ tickled' = (tickled \/ atFront)
    /\ tickling' = IF atFront THEN tickling + 1 ELSE tickling
    /\ tickling' <= MaxTickling

(* addTimer(val, lock), after lock.unlock(): onTimerInsertedAtFront() *)
InsertedAtFront ==
    /\ tickling > 0
    /\ tickling' = tickling - 1
    /\ TickleIf(TRUE)
    /\ UNCHANGED <<now, setBacks, previouse, timers, stage, next, ms, recurring, cb, tickled,
                   idlerVars, armedAt, fired, cancelled>>

(* Timer::Timer, before the lock *)
Construct(t, m, r) ==
    /\ stage[t] = "none"
    /\ stage' = [stage EXCEPT ![t] = "ctor"]
    /\ next' = [next EXCEPT ![t] = now + m]
    /\ ms' = [ms EXCEPT ![t] = m]
    /\ recurring' = [recurring EXCEPT ![t] = r]
    /\ cb' = [cb EXCEPT ![t] = TRUE]
    /\ armedAt' = [armedAt EXCEPT ![t] = now]
    /\ UNCHANGED <<now, setBacks, previouse, timers, tickled, tickling, signal, idlerVars,
                   fired, cancelled>>

(* TimerManager::addTimer(ms, cb, recurring), under the lock *)
AddTimer(t) ==
    /\ stage[t] = "ctor"
    /\ stage' = [stage EXCEPT ![t] = "live"]
    /\ Insert(timers, <<next[t], t>>)
    /\ UNCHANGED <<now, setBacks, previouse, next, ms, recurring, cb, signal, idlerVars,
                   armedAt, fired, cancelled>>

(* Timer::cancel(): true when there was a callback; the iterator that find() *)
(* returns is erased unchecked                                               *)
Cancel(t) ==
    /\ stage[t] = "live" /\ cb[t]
    /\ cb' = [cb EXCEPT ![t] = FALSE]
    /\ timers' = Erased(t)
    /\ cancelled' = cancelled \cup {t}
    /\ UNCHANGED <<now, setBacks, previouse, stage, next, ms, recurring, tickled, tickling,
                   signal, idlerVars, armedAt, fired>>

(* Mutant: next_ changes while the timer stays filed. *)
RefreshInPlace(t) ==
    /\ stage[t] = "live" /\ cb[t] /\ Found(t)
    /\ next' = [next EXCEPT ![t] = now + ms[t]]
    /\ armedAt' = [armedAt EXCEPT ![t] = now]
    /\ UNCHANGED <<now, setBacks, previouse, timers, stage, ms, recurring, cb, tickled,
                   tickling, signal, idlerVars, fired, cancelled>>

(* Timer::refresh(): file the timer again under a new next_, without a tickle *)
Refresh(t) ==
    /\ stage[t] = "live" /\ cb[t] /\ Found(t)
    /\ next' = [next EXCEPT ![t] = now + ms[t]]
    /\ timers' = Erased(t) \cup {<<now + ms[t], t>>}
    /\ armedAt' = [armedAt EXCEPT ![t] = now]
    /\ UNCHANGED <<now, setBacks, previouse, stage, ms, recurring, cb, tickled, tickling,
                   signal, idlerVars, fired, cancelled>>

(* Mutant: the new period is subtracted from the start. *)
ResetNextMinus(t, m, fromNow) ==
    LET start == IF fromNow THEN now ELSE next[t] IN start - m

(* The deadline Timer::reset computes; without from_now, start = next_ - ms. *)
ResetNext(t, m, fromNow) ==
    LET start == IF fromNow THEN now ELSE next[t] - m IN start + m

(* Timer::reset(ms, from_now) *)
Reset(t, m, fromNow) ==
    /\ stage[t] = "live" /\ cb[t] /\ Found(t)
    /\ ~(ms[t] = m /\ ~fromNow)
    /\ next' = [next EXCEPT ![t] = ResetNext(t, m, fromNow)]
    /\ ms' = [ms EXCEPT ![t] = m]
    /\ Insert(Erased(t), <<ResetNext(t, m, fromNow), t>>)
    /\ armedAt' = [armedAt EXCEPT ![t] = IF fromNow THEN now ELSE @]
    /\ UNCHANGED <<now, setBacks, previouse, stage, recurring, cb, signal, idlerVars,
                   fired, cancelled>>

-----------------------------------------------------------------------------
(* (int)x *)
ToInt(x) ==
    LET r == x % IntRange IN IF 2 * r >= IntRange THEN r - IntRange ELSE r

(* The timeout idle() gives epoll_wait for the result n of getNextTimer. *)
WaitTime(n) ==
    LET t == ToInt(IF ToInt(n) > MaxTimeout THEN MaxTimeout ELSE n)
    IN IF t < 0 THEN -1 ELSE t

(* idle(): getNextTimer(), then epoll_wait with the timeout it leads to *)
GetNextTimer(i) ==
    /\ pc[i] = "next"
    /\ tickled' = FALSE
    /\ \/ timers = {} /\ left' = [left EXCEPT ![i] = MaxTimeout]
       \/ \E e \in timers :
            /\ AtFront(timers, e)
            /\ left' = [left EXCEPT ![i] = WaitTime(IF now >= e[1] THEN 0 ELSE e[1] - now)]
    /\ pc' = [pc EXCEPT ![i] = "wait"]
    /\ UNCHANGED <<now, setBacks, previouse, timers, stage, next, ms, recurring, cb,
                   tickling, signal, viaPipe, clock, hand, armedAt, fired, cancelled>>

(* epoll_wait returns: the timeout is over, the pipe was written, or another *)
(* descriptor is ready                                                       *)
WaitEnds(i, pipe) ==
    /\ pc[i] = "wait"
    /\ viaPipe' = [viaPipe EXCEPT ![i] = pipe]
    /\ signal' = (signal /\ ~pipe)
    /\ left' = [left EXCEPT ![i] = 0]
    /\ pc' = [pc EXCEPT ![i] = "read"]
    /\ UNCHANGED <<now, setBacks, previouse, timerVars, clock, hand,
                   armedAt, fired, cancelled>>

Timeout(i) == left[i] = 0 /\ WaitEnds(i, FALSE)
Tickled(i) == signal /\ WaitEnds(i, TRUE)
OtherEvent(i) == WaitEnds(i, FALSE)

(* listExpiredCb: the clock is read before the lock *)
ReadClock(i) ==
    /\ pc[i] = "read"
    /\ clock' = [clock EXCEPT ![i] = now]
    /\ pc' = [pc EXCEPT ![i] = "expire"]
    /\ UNCHANGED <<now, setBacks, previouse, timerVars, signal, left, viaPipe, hand,
                   armedAt, fired, cancelled>>

(* detectClockRollover *)
Rollover(c) == c < previouse /\ c < previouse - Hour

(* Mutants: off by one at the deadline; only what expired since the last call. *)
ExpiredEarly(c) == IF Rollover(c) THEN timers ELSE {e \in timers : e[1] <= c + 1}
ExpiredSince(c) ==
    IF Rollover(c) THEN timers ELSE {e \in timers : e[1] \in previouse..c}

(* The elements listExpiredCb removes: all of them after a rollover. *)
Expired(c) == IF Rollover(c) THEN timers ELSE {e \in timers : e[1] <= c}

(* listExpiredCb, under the lock: nothing to look at *)
NoTimers(i) ==
    /\ pc[i] = "expire" /\ timers = {}
    /\ clock' = [clock EXCEPT ![i] = 0]
    /\ pc' = [pc EXCEPT ![i] = "drain"]
    /\ UNCHANGED <<now, setBacks, previouse, timerVars, signal, left, viaPipe,
                   hand, armedAt, fired, cancelled>>

(* Mutant: every expired timer is filed again. *)
RefiledAll(due) == due

(* Of the expired timers, the ones that are filed again. *)
Refiled(due) == {t \in due : recurring[t]}

(* The history counts to two, which is all OneShot tells apart. *)
Saturated(n) == IF n > 2 THEN 2 ELSE n

(* listExpiredCb, under the lock: take the expired timers out, collect their *)
(* callbacks, file the recurring ones again and empty the others             *)
ListExpiredCb(i) ==
    LET c   == clock[i]
        due == {e[2] : e \in Expired(c)}
        rec == Refiled(due)
    IN
    /\ pc[i] = "expire" /\ timers # {}
    /\ previouse' = c
    /\ hand' = [hand EXCEPT ![i] = {t \in due : cb[t]}]
    /\ next' = [t \in Timers |-> IF t \in rec THEN c + ms[t] ELSE next[t]]
    /\ timers' = (timers \ Expired(c)) \cup {<<c + ms[t], t>> : t \in rec}
    /\ cb' = [t \in Timers |-> cb[t] /\ t \notin due \ rec]
    /\ fired' = [t \in Timers |-> IF t \in due THEN Saturated(fired[t] + 1) ELSE fired[t]]
    /\ armedAt' = [t \in Timers |-> IF t \in rec THEN c ELSE armedAt[t]]
    /\ clock' = [clock EXCEPT ![i] = 0]
    /\ pc' = [pc EXCEPT ![i] = IF due = {} THEN "drain" ELSE "hand"]
    /\ UNCHANGED <<now, setBacks, stage, ms, recurring, tickled, tickling, signal, left, viaPipe,
                   cancelled>>

(* idle(): schedule(cbs.begin(), cbs.end()), whose tickle() may wake a thread *)
ScheduleCbs(i) ==
    /\ pc[i] = "hand"
    /\ hand' = [hand EXCEPT ![i] = {}]
    /\ \E needTickle \in BOOLEAN : TickleIf(needTickle)
    /\ pc' = [pc EXCEPT ![i] = "drain"]
    /\ UNCHANGED <<now, setBacks, previouse, timerVars, left, viaPipe, clock,
                   armedAt, fired, cancelled>>

(* idle(): a thread woken through the pipe reads it empty; the idle fiber *)
(* swaps out, and run() finds work or comes back                          *)
Drain(i) ==
    /\ pc[i] = "drain"
    /\ signal' = (signal /\ ~viaPipe[i])
    /\ \E work \in BOOLEAN : pc' = [pc EXCEPT ![i] = IF work THEN "busy" ELSE "next"]
    /\ viaPipe' = [viaPipe EXCEPT ![i] = FALSE]
    /\ UNCHANGED <<now, setBacks, previouse, timerVars, left, clock, hand,
                   armedAt, fired, cancelled>>

(* run() has no work left for the thread *)
WorkDone(i) ==
    /\ pc[i] = "busy"
    /\ pc' = [pc EXCEPT ![i] = "next"]
    /\ UNCHANGED <<now, setBacks, previouse, timerVars, signal, left, viaPipe, clock,
                   hand, armedAt, fired, cancelled>>

-----------------------------------------------------------------------------
(* Time passes, on the wall clock (which stays at the bound once it is there) *)
(* and for the threads in epoll_wait.                                         *)
Sleeping(i) == pc[i] = "wait" /\ left[i] > 0

Tick ==
    /\ now < MaxTime \/ \E i \in Idlers : Sleeping(i)
    /\ now' = IF now < MaxTime THEN now + 1 ELSE now
    /\ left' = [i \in Idlers |-> IF Sleeping(i) THEN left[i] - 1 ELSE left[i]]
    /\ UNCHANGED <<setBacks, previouse, timerVars, signal, pc, viaPipe, clock, hand,
                   armedAt, fired, cancelled>>

(* Somebody sets the wall clock back. *)
SetBack(n) ==
    /\ setBacks < MaxSetBack /\ n < now
    /\ now' = n
    /\ setBacks' = setBacks + 1
    /\ UNCHANGED <<previouse, timerVars, signal, idlerVars, armedAt, fired, cancelled>>

Idle(i) ==
    \/ GetNextTimer(i) \/ Timeout(i) \/ Tickled(i) \/ ReadClock(i) \/ NoTimers(i)
    \/ ListExpiredCb(i) \/ ScheduleCbs(i) \/ Drain(i) \/ WorkDone(i)

Client(t) ==
    \/ \E m \in Periods, r \in BOOLEAN : Construct(t, m, r)
    \/ AddTimer(t) \/ Cancel(t) \/ Refresh(t)
    \/ \E m \in Periods, b \in FromNow : Reset(t, m, b)

Next ==
    \/ \E i \in Idlers : Idle(i) \/ OtherEvent(i)
    \/ \E t \in Timers : Client(t)
    \/ InsertedAtFront
    \/ Tick
    \/ \E n \in Hour..MaxTime : SetBack(n)

Spec == Init /\ [][Next]_vars

(* Threads run, and time passes; nothing is asked of the callers of timers. *)
LiveSpec == Spec /\ (\A i \in Idlers : WF_vars(Idle(i))) /\ WF_vars(InsertedAtFront) /\ WF_vars(Tick)

-----------------------------------------------------------------------------
(* A timer that has its callback is in timers_ under its present next_, and   *)
(* nothing else is: cancel() erases what find() returns without comparing it  *)
(* to end() (timer.cpp:57-58), and std::set loses an element whose key        *)
(* changes while it is filed.                                                 *)
KeysMatch ==
    timers = {<<next[t], t>> : t \in {u \in Timers : stage[u] = "live" /\ cb[u]}}

(* A timer that does not recur is collected at most once, and never after    *)
(* cancel() returned true, whichever idle threads race for it                *)
(* (timer.cpp:51-62,158-200).                                                *)
OneShot ==
    \A t \in Timers : /\ ~recurring[t] => fired[t] <= 1
                      /\ ~recurring[t] /\ t \in cancelled => fired[t] = 0

(* As long as the clock is not set back, a callback is not collected before   *)
(* its interval is over: ms after the timer was constructed, refreshed, reset *)
(* or last collected, also when a refresh or reset races with the collection. *)
(* It takes that no thread is held up for an hour between its clock reading   *)
(* and the lock while another collects: listExpiredCb() would take the old    *)
(* reading for a clock that was set back (timer.cpp:160,175).                 *)
NotEarly ==
    [][\A i \in Idlers : \A t \in hand'[i] \ hand[i] :
         setBacks = 0 => now >= armedAt[t] + ms[t]]_vars

(* An expired timer is collected, cancelled or given a later deadline, by    *)
(* threads that sleep at most MAX_TIMEOUT at a time (iomanager.cpp:373-398). *)
DueTimersFire ==
    \A t \in Timers :
        (Found(t) /\ next[t] <= now) ~> ~(Found(t) /\ next[t] <= now)

InTime(i) == left[i] = 0 \/ (left[i] > 0 /\ \A e \in timers : left[i] <= e[1] - now)

(* While a thread sleeps in epoll_wait, some thread looks at timers_ again no *)
(* later than the first timer's deadline: it is awake in idle(), is about to  *)
(* be woken, or its timeout ends in time.  timer.h declares for this purpose  *)
(* onTimerInsertedAtFront, "当有新的定时器插入到定时器的首部,执行该函数"; it is  *)
(* called after the unlock, so that for a moment the only promise is the call *)
(* that is about to tickle, also for those whose tickle tickled_ suppressed.  *)
(* It holds until the clock is set back, and as long as every reset counts    *)
(* from now: either lets refresh(), which wakes nobody, move a deadline to an *)
(* earlier time.                                                              *)
FrontWatched ==
    setBacks = 0 /\ timers # {} /\ (\E i \in Idlers : pc[i] = "wait") =>
        \/ tickling > 0
        \/ \E i \in Idlers : \/ pc[i] \notin {"wait", "busy"}
                             \/ pc[i] = "wait" /\ (signal \/ InTime(i))
=============================================================================
