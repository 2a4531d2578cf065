------------------------------ MODULE IOManager ------------------------------
(***************************************************************************)
(* The event half of IOManager (sylar/iomanager.{h,cpp}): the table of     *)
(* FdContexts, addEvent, delEvent, cancelEvent and cancelAll, the event    *)
(* loop of idle(), and the close() hook, which cancels and then closes.    *)
(*                                                                         *)
(* Callers are threads that run fibers and callbacks, Idlers are threads   *)
(* inside idle(); what moves a thread from one role to the other is the    *)
(* business of Scheduler.  A critical section is one step, except that     *)
(* triggerEvent() and --pendingEventCount_ are steps of their own: other   *)
(* threads see the queue and the counter between them.  epoll is modelled  *)
(* as the kernel implements it: edge-triggered, a ready list, readiness    *)
(* read when epoll_wait collects the list.                                 *)
(***************************************************************************)
EXTENDS Integers, FiniteSets

CONSTANTS
    Callers,     \* threads that call the API
    Idlers,      \* threads inside idle()
    Fds,         \* descriptors, small naturals
    Events,      \* the events in use, of READ and WRITE
    Waiters,     \* fibers or callbacks that wait for an event
    Kinds,       \* calls in use beside addEvent: del, cancel, cancelAll, close
    InitSize,    \* contextResize(32) in the constructor
    MaxCtx,      \* bound: FdContexts made for one descriptor
    MaxEvents,   \* MAX_EVNETS of one epoll_wait
    Errors,      \* EPOLLERR and EPOLLHUP happen
    Quiet,       \* bound: descriptors that never become ready
    Careful,     \* one waiter per event, nobody waits on what is being closed
    NoThread, NoWaiter

Threads == Callers \cup Idlers
Ctxs    == Fds \X (1..MaxCtx)
NoCtx   == <<0, 0>>

ASSUME IOAssumption ==
    /\ Callers \cap Idlers = {} /\ NoThread \notin Threads
    /\ IsFiniteSet(Threads) /\ IsFiniteSet(Fds)
    /\ NoWaiter \notin Waiters
    /\ Fds \subseteq Nat /\ Events \subseteq {"READ", "WRITE"}
    /\ Kinds \subseteq {"del", "cancel", "cancelAll", "close"}
    /\ InitSize \in Nat \ {0, 1} /\ MaxCtx \in Nat \ {0} /\ MaxEvents \in Nat \ {0}
    /\ Errors \in BOOLEAN /\ Careful \in BOOLEAN

VARIABLES
    size,      \* fdContexts_.size()
    fdContexts,\* which FdContext of a descriptor the table holds, 0 for none
    made,      \* FdContexts made for each descriptor
    dropped,   \* history: descriptors a smaller resize took out of the table
    events,    \* FdContext::events
    waiter,    \* EventContext {scheduler, fiber, cb} of each event
    mutex,     \* FdContext::mutex while it is held across steps
    pendingEventCount,
    pc,        \* where each thread is
    call,      \* the call a caller makes
    ctx,       \* local fd_ctx
    batch,     \* what epoll_wait returned and idle() has not handled yet
    hit,       \* the events still to be triggered: real_events in idle()
    status,    \* where each waiter is
    open,      \* kernel: open descriptors
    ready,     \* kernel: what each descriptor is ready for
    interest,  \* kernel: the epoll registration, data.ptr and events
    edge,      \* kernel: the epoll ready list
    aborted    \* an assertion failed

kernelVars == <<open, ready, interest, edge>>
tableVars  == <<size, fdContexts, made, dropped>>
vars == <<size, fdContexts, made, dropped, events, waiter, mutex, pendingEventCount, pc,
          call, ctx, batch, hit, status, open, ready, interest, edge, aborted>>

Unregistered == [ctx |-> 0, mask |-> {}]
NoCall == [kind |-> "none", fd |-> 0, event |-> "NONE", waiter |-> NoWaiter]

TypeOK ==
    /\ size \in Nat
    /\ fdContexts \in [Fds -> 0..MaxCtx] /\ made \in [Fds -> 0..MaxCtx]
    /\ dropped \in SUBSET Fds
    /\ events \in [Ctxs -> SUBSET Events]
    /\ waiter \in [Ctxs -> [Events -> Waiters \cup {NoWaiter}]]
    /\ mutex \in [Ctxs -> Threads \cup {NoThread}]
    /\ pendingEventCount \in Nat
    /\ pc \in [Threads -> {"free", "grow", "lock", "hit", "count", "close", "event"}]
    /\ call \in [Threads -> [kind : Kinds \cup {"none", "add"}, fd : Fds \cup {0},
                             event : Events \cup {"NONE"},
                             waiter : Waiters \cup {NoWaiter}]]
    /\ ctx \in [Threads -> Ctxs \cup {NoCtx}]
    /\ batch \in [Threads -> SUBSET (Ctxs \X SUBSET (Events \cup {"ERR"}))]
    /\ hit \in [Threads -> SUBSET Events]
    /\ status \in [Waiters -> {"out", "adding", "armed", "queued"}]
    /\ open \in SUBSET Fds
    /\ ready \in [Fds -> SUBSET (Events \cup {"ERR"})]
    /\ interest \in [Fds -> [ctx : 0..MaxCtx, mask : SUBSET Events]]
    /\ edge \in SUBSET Fds
    /\ aborted \in BOOLEAN

-----------------------------------------------------------------------------
(* Init: the constructor, which ends with contextResize(32). *)
Init ==
    /\ size = InitSize
    /\ fdContexts = [fd \in Fds |-> IF fd < InitSize THEN 1 ELSE 0]
    /\ made = [fd \in Fds |-> IF fd < InitSize THEN 1 ELSE 0]
    /\ dropped = {}
    /\ events = [c \in Ctxs |-> {}]
    /\ waiter = [c \in Ctxs |-> [e \in Events |-> NoWaiter]]
    /\ mutex = [c \in Ctxs |-> NoThread]
    /\ pendingEventCount = 0
    /\ pc = [t \in Threads |-> "free"]
    /\ call = [t \in Threads |-> NoCall]
    /\ ctx = [t \in Threads |-> NoCtx]
    /\ batch = [t \in Threads |-> {}]
    /\ hit = [t \in Threads |-> {}]
    /\ status = [w \in Waiters |-> "out"]
    /\ open = Fds
    /\ ready = [fd \in Fds |-> {}]
    /\ interest = [fd \in Fds |-> Unregistered]
    /\ edge = {}
    /\ aborted = FALSE

-----------------------------------------------------------------------------
(* epoll_ctl fails on a closed descriptor, with EEXIST and with ENOENT. *)
CtlOk(op, fd) == fd \in open /\ (op = "ADD" <=> interest[fd].ctx = 0)

(* A new registration or mask lists the descriptor if it is ready already. *)
EpollCtl(op, c, mask) ==
    LET fd == c[1] IN
    IF op = "DEL"
    THEN /\ interest' = [interest EXCEPT ![fd] = Unregistered]
         /\ edge' = edge \ {fd}
    ELSE /\ interest' = [interest EXCEPT ![fd] = [ctx |-> c[2], mask |-> mask]]
         /\ edge' = IF ready[fd] \cap (mask \cup {"ERR"}) # {} THEN edge \cup {fd} ELSE edge

AddOp(old) == IF old = {} THEN "ADD" ELSE "MOD"

LeftOp(left) == IF left = {} THEN "DEL" ELSE "MOD"

Unlocked(c) == mutex[c] = NoThread

(* Mutant: a context is not reset. *)
ClearedNot(c, e) == waiter

(* ++pendingEventCount_ and --pendingEventCount_ *)
Raised == pendingEventCount + 1
Lowered == pendingEventCount - 1

(* Nobody waits for the event yet. *)
Free(c, e) == e \notin events[c]

(* resetContext(), and what schedule(&ctx.fiber) and schedule(&ctx.cb) leave *)
Cleared(c, e) == [waiter EXCEPT ![c][e] = NoWaiter]

(* The thread leaves the call; a close() goes on to close_f. *)
Return(t) ==
    /\ pc' = [pc EXCEPT ![t] = IF call[t].kind = "close" THEN "close"
                               ELSE IF batch[t] # {} THEN "event" ELSE "free"]
    /\ call' = [call EXCEPT ![t] = IF @.kind = "close" THEN @ ELSE NoCall]
    /\ ctx' = [ctx EXCEPT ![t] = NoCtx]

-----------------------------------------------------------------------------
Busy(kinds, fd) == \E t \in Callers : call[t].kind \in kinds /\ call[t].fd = fd

(* What a careful client looks at before it waits for or closes a descriptor. *)
MayAdd(fd, e) ==
    /\ fd \in open /\ ~Busy({"close"}, fd)
    /\ \A k \in 1..MaxCtx : e \notin events[<<fd, k>>]
    /\ ~\E t \in Callers : call[t].kind = "add" /\ call[t].fd = fd /\ call[t].event = e

MayClose(fd) == fd \in open /\ ~Busy({"add", "close"}, fd)

(* addEvent: look the context up under the read lock *)
AddFind(t, fd, e, w) ==
    /\ pc[t] = "free" /\ status[w] = "out"
    /\ Careful => MayAdd(fd, e)
    /\ call' = [call EXCEPT ![t] = [kind |-> "add", fd |-> fd, event |-> e, waiter |-> w]]
    /\ status' = [status EXCEPT ![w] = "adding"]
    /\ IF size > fd
         THEN ctx' = [ctx EXCEPT ![t] = <<fd, fdContexts[fd]>>]
              /\ pc' = [pc EXCEPT ![t] = "lock"]
         ELSE pc' = [pc EXCEPT ![t] = "grow"] /\ UNCHANGED ctx
    /\ UNCHANGED <<tableVars, events, waiter, mutex, pendingEventCount, batch, hit,
                   kernelVars, aborted>>

(* The place of the table is empty. *)
Missing(fd) == fdContexts[fd] = 0

(* contextResize: a vector resize, then a new FdContext in every empty place. *)
(* A caller that looked at the size before another one resized may make the   *)
(* table smaller again: the places beyond it are gone, the FdContexts stay    *)
(* with epoll and whoever has a pointer.                                      *)
ContextResize(n) ==
    /\ size' = n
    /\ dropped' = dropped \cup {fd \in Fds : n <= fd /\ fd < size}
    /\ made' = [fd \in Fds |-> IF fd < n /\ Missing(fd) THEN made[fd] + 1 ELSE made[fd]]
    /\ fdContexts' = [fd \in Fds |-> IF fd >= n THEN 0
                                     ELSE IF Missing(fd) THEN made[fd] + 1
                                     ELSE fdContexts[fd]]

(* fd * 1.5, truncated *)
GrowTo(fd) == (3 * fd) \div 2

(* addEvent: the table was too small, resize it under the write lock *)
AddGrow(t) ==
    LET fd == call[t].fd IN
    /\ pc[t] = "grow"
    /\ ContextResize(GrowTo(fd))
    /\ \A d \in Fds : made'[d] <= MaxCtx
    /\ ctx' = [ctx EXCEPT ![t] = <<fd, fdContexts'[fd]>>]
    /\ pc' = [pc EXCEPT ![t] = "lock"]
    /\ UNCHANGED <<events, waiter, mutex, pendingEventCount, call, batch, hit,
                   status, kernelVars, aborted>>

(* addEvent: register the event and fill its EventContext *)
AddEvent(t) ==
    LET c == ctx[t]  e == call[t].event  w == call[t].waiter IN
    /\ pc[t] = "lock" /\ call[t].kind = "add" /\ Unlocked(c)
    /\ Free(c, e)
    /\ CtlOk(AddOp(events[c]), c[1])
    /\ EpollCtl(AddOp(events[c]), c, events[c] \cup {e})
    /\ pendingEventCount' = Raised
    /\ events' = [events EXCEPT ![c] = @ \cup {e}]
    /\ waiter' = [waiter EXCEPT ![c][e] = w]
    /\ status' = [status EXCEPT ![w] = "armed"]
    /\ Return(t)
    /\ UNCHANGED <<tableVars, mutex, batch, hit, open, ready, aborted>>

(* addEvent: epoll_ctl failed, -1 *)
AddFails(t) ==
    LET c == ctx[t]  w == call[t].waiter IN
    /\ pc[t] = "lock" /\ call[t].kind = "add" /\ Unlocked(c)
    /\ Free(c, call[t].event)
    /\ ~CtlOk(AddOp(events[c]), c[1])
    /\ status' = [status EXCEPT ![w] = "out"]
    /\ Return(t)
    /\ UNCHANGED <<tableVars, events, waiter, mutex, pendingEventCount, batch, hit,
                   kernelVars, aborted>>

(* addEvent: the assertion against a second waiter for the same event *)
AddTwice(t) ==
    /\ pc[t] = "lock" /\ call[t].kind = "add" /\ Unlocked(ctx[t])
    /\ call[t].event \in events[ctx[t]]
    /\ aborted' = TRUE
    /\ UNCHANGED <<tableVars, events, waiter, mutex, pendingEventCount, pc, call,
                   ctx, batch, hit, status, kernelVars>>

-----------------------------------------------------------------------------
(* delEvent, cancelEvent, cancelAll and close(): look the context up; a      *)
(* descriptor the table does not reach returns false                         *)
Find(t, k, fd, e) ==
    /\ pc[t] = "free"
    /\ k = "close" /\ Careful => MayClose(fd)
    /\ IF size > fd \/ k = "close"
         THEN call' = [call EXCEPT ![t] = [kind |-> k, fd |-> fd, event |-> e,
                                           waiter |-> NoWaiter]]
         ELSE UNCHANGED call
    /\ IF size > fd
         THEN ctx' = [ctx EXCEPT ![t] = <<fd, fdContexts[fd]>>]
              /\ pc' = [pc EXCEPT ![t] = "lock"]
         ELSE pc' = [pc EXCEPT ![t] = IF k = "close" THEN "close" ELSE "free"]
              /\ UNCHANGED ctx
    /\ UNCHANGED <<tableVars, events, waiter, mutex, pendingEventCount, batch, hit,
                   status, kernelVars, aborted>>

(* Mutant: every call cancels the one event it names. *)
WantedNamed(t) == events[ctx[t]] \cap {call[t].event}

(* What the call wants gone of the context it found. *)
Wanted(t) == IF call[t].kind \in {"del", "cancel"}
             THEN events[ctx[t]] \cap {call[t].event} ELSE events[ctx[t]]

Left(t) == events[ctx[t]] \ Wanted(t)

AtCancel(t) == pc[t] = "lock" /\ call[t].kind \in Kinds /\ Unlocked(ctx[t])

(* Mutant: the counter is lowered although epoll_ctl failed. *)
CancelFailsCounted(t) ==
    /\ AtCancel(t)
    /\ Wanted(t) = {} \/ ~CtlOk(LeftOp(Left(t)), ctx[t][1])
    /\ Return(t)
    /\ pendingEventCount' = IF Wanted(t) = {} THEN pendingEventCount ELSE Lowered
    /\ UNCHANGED <<tableVars, events, waiter, mutex, batch, hit, status, kernelVars, aborted>>

(* delEvent, cancelEvent, cancelAll: no such event, or epoll_ctl failed: false *)
CancelFails(t) ==
    /\ AtCancel(t)
    /\ Wanted(t) = {} \/ ~CtlOk(LeftOp(Left(t)), ctx[t][1])
    /\ Return(t)
    /\ UNCHANGED <<tableVars, events, waiter, mutex, pendingEventCount, batch, hit,
                   status, kernelVars, aborted>>

(* delEvent: forget the waiter, without a trigger *)
DelEvent(t) ==
    LET c == ctx[t]  e == call[t].event IN
    /\ AtCancel(t) /\ call[t].kind = "del"
    /\ Wanted(t) # {} /\ CtlOk(LeftOp(Left(t)), c[1])
    /\ EpollCtl(LeftOp(Left(t)), c, Left(t))
    /\ pendingEventCount' = Lowered
    /\ events' = [events EXCEPT ![c] = Left(t)]
    /\ status' = [status EXCEPT ![waiter[c][e]] = "out"]
    /\ waiter' = Cleared(c, e)
    /\ Return(t)
    /\ UNCHANGED <<tableVars, mutex, batch, hit, open, ready, aborted>>

(* cancelEvent, cancelAll: unregister; the triggers follow, mutex held *)
CancelEvent(t) ==
    LET c == ctx[t] IN
    /\ AtCancel(t) /\ call[t].kind # "del"
    /\ Wanted(t) # {} /\ CtlOk(LeftOp(Left(t)), c[1])
    /\ EpollCtl(LeftOp(Left(t)), c, Left(t))
    /\ hit' = [hit EXCEPT ![t] = Wanted(t)]
    /\ mutex' = [mutex EXCEPT ![c] = t]
    /\ pc' = [pc EXCEPT ![t] = "hit"]
    /\ UNCHANGED <<tableVars, events, waiter, pendingEventCount, call, ctx, batch,
                   status, open, ready, aborted>>

(* close(): close_f after cancelAll; the kernel drops the registration *)
CloseFd(t) ==
    LET fd == call[t].fd IN
    /\ pc[t] = "close"
    /\ open' = open \ {fd}
    /\ ready' = [ready EXCEPT ![fd] = {}]
    /\ interest' = [interest EXCEPT ![fd] = Unregistered]
    /\ edge' = edge \ {fd}
    /\ call' = [call EXCEPT ![t] = NoCall]
    /\ pc' = [pc EXCEPT ![t] = "free"]
    /\ UNCHANGED <<tableVars, events, waiter, mutex, pendingEventCount, ctx, batch,
                   hit, status, aborted>>

-----------------------------------------------------------------------------
Report(fd) == ready[fd] \cap (interest[fd].mask \cup {"ERR"})

(* What epoll_wait returns of the listed descriptors, all of it handled. *)
Handled(S) == {fd \in S : Report(fd) # {}}

(* idle(): epoll_wait collects the ready list and reads what is ready now *)
EpollWait(t) ==
    /\ pc[t] = "free" /\ edge # {}
    /\ \E S \in SUBSET edge :
         /\ Cardinality(S) = IF Cardinality(edge) < MaxEvents THEN Cardinality(edge)
                             ELSE MaxEvents
         /\ batch' = [batch EXCEPT ![t] =
              {<<<<fd, interest[fd].ctx>>, Report(fd)>> : fd \in Handled(S)}]
         /\ edge' = edge \ S
    /\ pc' = [pc EXCEPT ![t] = IF batch'[t] = {} THEN "free" ELSE "event"]
    /\ UNCHANGED <<tableVars, events, waiter, mutex, pendingEventCount, call, ctx,
                   hit, status, open, ready, interest, aborted>>

(* Mutants: EPOLLERR is taken for an event; errors wake nobody. *)
RealEventsRaw(c, evs) == evs \cup (IF "ERR" \in evs THEN events[c] ELSE {})
RealEventsNoError(c, evs) == evs \ {"ERR"}

(* An error counts as every event the context waits for. *)
RealEvents(c, evs) == (evs \ {"ERR"}) \cup (IF "ERR" \in evs THEN events[c] ELSE {})

LeftEvents(c, real) == events[c] \ real

(* idle(): nothing of it is awaited any more, or epoll_ctl failed: continue *)
SkipEvent(t) ==
    \E b \in batch[t] :
      LET c == b[1]  real == RealEvents(c, b[2])  left == LeftEvents(c, real) IN
      /\ pc[t] = "event" /\ Unlocked(c)
      /\ events[c] \cap real = {} \/ ~CtlOk(LeftOp(left), c[1])
      /\ batch' = [batch EXCEPT ![t] = @ \ {b}]
      /\ pc' = [pc EXCEPT ![t] = IF batch'[t] = {} THEN "free" ELSE "event"]
      /\ UNCHANGED <<tableVars, events, waiter, mutex, pendingEventCount, call, ctx,
                     hit, status, kernelVars, aborted>>

(* idle(): take the reported events off the registration; triggers follow *)
HandleEvent(t) ==
    \E b \in batch[t] :
      LET c == b[1]  real == RealEvents(c, b[2])  left == LeftEvents(c, real) IN
      /\ pc[t] = "event" /\ Unlocked(c)
      /\ events[c] \cap real # {} /\ CtlOk(LeftOp(left), c[1])
      /\ EpollCtl(LeftOp(left), c, left)
      /\ batch' = [batch EXCEPT ![t] = @ \ {b}]
      /\ hit' = [hit EXCEPT ![t] = real]
      /\ ctx' = [ctx EXCEPT ![t] = c]
      /\ mutex' = [mutex EXCEPT ![c] = t]
      /\ pc' = [pc EXCEPT ![t] = "hit"]
      /\ UNCHANGED <<tableVars, events, waiter, pendingEventCount, call, status,
                     open, ready, aborted>>

-----------------------------------------------------------------------------
(* READ is triggered before WRITE. *)
NextHit(t) == IF "READ" \in hit[t] THEN "READ" ELSE "WRITE"

(* triggerEvent(): schedule the waiter and clear its context *)
TriggerEvent(t) ==
    LET c == ctx[t]  e == NextHit(t) IN
    /\ pc[t] = "hit" /\ e \in events[c]
    /\ events' = [events EXCEPT ![c] = @ \ {e}]
    /\ status' = [status EXCEPT ![waiter[c][e]] = "queued"]
    /\ waiter' = Cleared(c, e)
    /\ pc' = [pc EXCEPT ![t] = "count"]
    /\ UNCHANGED <<tableVars, mutex, pendingEventCount, call, ctx, batch, hit,
                   kernelVars, aborted>>

(* triggerEvent(): its assertion *)
TriggerAborts(t) ==
    /\ pc[t] = "hit" /\ NextHit(t) \notin events[ctx[t]]
    /\ aborted' = TRUE
    /\ UNCHANGED <<tableVars, events, waiter, mutex, pendingEventCount, pc, call,
                   ctx, batch, hit, status, kernelVars>>

(* --pendingEventCount_, then the next trigger or the end of the section *)
CountDown(t) ==
    LET c == ctx[t]  rest == hit[t] \ {NextHit(t)} IN
    /\ pc[t] = "count"
    /\ pendingEventCount' = Lowered
    /\ hit' = [hit EXCEPT ![t] = rest]
    /\ IF rest # {}
         THEN pc' = [pc EXCEPT ![t] = "hit"] /\ UNCHANGED <<call, ctx, mutex>>
         ELSE Return(t) /\ mutex' = [mutex EXCEPT ![c] = NoThread]
    /\ UNCHANGED <<tableVars, events, waiter, batch, status, kernelVars, aborted>>

-----------------------------------------------------------------------------
(* The scheduler runs the waiter that was triggered. *)
Resume(w) ==
    /\ status[w] = "queued"
    /\ status' = [status EXCEPT ![w] = "out"]
    /\ UNCHANGED <<tableVars, events, waiter, mutex, pendingEventCount, pc, call,
                   ctx, batch, hit, kernelVars, aborted>>

(* Data, room or an error arrives: the wait queue puts a registered           *)
(* descriptor on the ready list.                                             *)
Arrive(fd, x) ==
    /\ fd \in open /\ x \notin ready[fd]
    /\ ready' = [ready EXCEPT ![fd] = @ \cup {x}]
    /\ edge' = IF interest[fd].ctx # 0 /\ x \in interest[fd].mask \cup {"ERR"}
               THEN edge \cup {fd} ELSE edge
    /\ UNCHANGED <<tableVars, events, waiter, mutex, pendingEventCount, pc, call,
                   ctx, batch, hit, status, open, interest, aborted>>

(* Data is read, the buffer fills up. *)
Use(fd, x) ==
    /\ x \in ready[fd] /\ x # "ERR"
    /\ ready' = [ready EXCEPT ![fd] = @ \ {x}]
    /\ UNCHANGED <<tableVars, events, waiter, mutex, pendingEventCount, pc, call,
                   ctx, batch, hit, status, open, interest, edge, aborted>>

(* The kernel hands the number out again. *)
Reopen(fd) ==
    /\ fd \notin open
    /\ open' = open \cup {fd}
    /\ UNCHANGED <<tableVars, events, waiter, mutex, pendingEventCount, pc, call,
                   ctx, batch, hit, status, ready, interest, edge, aborted>>

-----------------------------------------------------------------------------
Triggers(t) == TriggerEvent(t) \/ TriggerAborts(t) \/ CountDown(t)

(* A caller goes on with the call it has begun. *)
Proceed(t) ==
    \/ AddGrow(t) \/ AddEvent(t) \/ AddFails(t) \/ AddTwice(t)
    \/ CancelFails(t) \/ DelEvent(t) \/ CancelEvent(t) \/ CloseFd(t)
    \/ Triggers(t)

Begin(t) ==
    \/ \E fd \in Fds, e \in Events, w \in Waiters : AddFind(t, fd, e, w)
    \/ \E fd \in Fds, e \in Events, k \in Kinds \cap {"del", "cancel"} : Find(t, k, fd, e)
    \/ \E fd \in Fds, k \in Kinds \cap {"cancelAll", "close"} : Find(t, k, fd, "NONE")

Idle(t) == EpollWait(t) \/ SkipEvent(t) \/ HandleEvent(t) \/ Triggers(t)

Kernel ==
    \/ \E fd \in Fds \ Quiet, x \in Events \cup (IF Errors THEN {"ERR"} ELSE {}) : Arrive(fd, x)
    \/ \E fd \in Fds, x \in Events : Use(fd, x)
    \/ \E fd \in Fds : Reopen(fd)

Aborted == aborted /\ UNCHANGED vars

Next ==
    \/ /\ ~aborted
       /\ \/ \E t \in Callers : Begin(t) \/ Proceed(t)
          \/ \E t \in Idlers : Idle(t)
          \/ \E w \in Waiters : Resume(w)
          \/ Kernel
    \/ Aborted

Spec == Init /\ [][Next]_vars

(* A thread inside a call goes on, a thread inside idle() polls and gets a    *)
(* mutex that is free again and again.  Nobody has to call anything, and the  *)
(* kernel owes nobody any readiness.                                          *)
Fairness ==
    /\ \A t \in Callers : WF_vars(~aborted /\ Proceed(t))
    /\ \A t \in Idlers : /\ WF_vars(~aborted /\ Idle(t))
                         /\ SF_vars(~aborted /\ (SkipEvent(t) \/ HandleEvent(t)))

LiveSpec == Spec /\ Fairness

-----------------------------------------------------------------------------
(* pendingEventCount_ counts the armed events and the triggers that have not *)
(* counted down yet, on every path and whatever fails: stopping() relies on  *)
(* it to be 0 exactly when nobody waits (iomanager.cpp:207,253,287,322,352). *)
PendingExact ==
    pendingEventCount =
        Cardinality({x \in Ctxs \X Events : x[2] \in events[x[1]]})
        + Cardinality({t \in Threads : pc[t] = "count"})

(* Every waiter is accounted for: an armed waiter sits in exactly one        *)
(* EventContext, whose event is set, and an EventContext whose event is not  *)
(* set is empty, as addEvent asserts (iomanager.cpp:210), although events    *)
(* are added, deleted, cancelled and reported by several threads at once.    *)
WaitersAccounted ==
    /\ \A c \in Ctxs, e \in Events :
         /\ e \in events[c] <=> waiter[c][e] # NoWaiter
         /\ e \in events[c] => status[waiter[c][e]] = "armed"
    /\ \A w \in Waiters : status[w] = "armed" =>
         \E x \in Ctxs \X Events :
            {y \in Ctxs \X Events : waiter[y[1]][y[2]] = w} = {x}

(* An armed event can be cancelled, and so it is triggered in the end: the   *)
(* table leads to its context and epoll knows the context and the event.     *)
(* iomanager.h:125: "@attention 如果事件存在则触发事件".  Two callers that    *)
(* resize in the wrong order (iomanager.cpp:180-184) take that away from the *)
(* descriptors the table no longer reaches, and from no other.               *)
Cancellable ==
    \A c \in Ctxs : c[1] \notin dropped /\ events[c] # {} /\ Unlocked(c) =>
        /\ size > c[1] /\ fdContexts[c[1]] = c[2]
        /\ interest[c[1]] = [ctx |-> c[2], mask |-> events[c]]

(* triggerEvent() only meets events that are set: its assertion              *)
(* "SYLAR_ASSERT(events & event)" (iomanager.cpp:101) never fails.           *)
TriggerAsserts ==
    \A t \in Threads : pc[t] = "hit" => NextHit(t) \in events[ctx[t]]

(* No edge is lost: a waiter whose descriptor is ready is triggered, unless  *)
(* it is deleted, the readiness goes away, or the table lost the descriptor, *)
(* although epoll reports an edge once and to one thread only                *)
(* (iomanager.cpp:392,420-464).                                              *)
ReadyWaiterWoken ==
    \A fd \in Fds, e \in Events :
        (\E k \in 1..MaxCtx : e \in events[<<fd, k>>] /\ {e, "ERR"} \cap ready[fd] # {})
            ~> (\/ \A k \in 1..MaxCtx : e \notin events[<<fd, k>>]
                \/ {e, "ERR"} \cap ready[fd] = {}
                \/ fd \in dropped)
=============================================================================
