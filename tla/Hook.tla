-------------------------------- MODULE Hook --------------------------------
(***************************************************************************)
(* The blocking calls of sylar/hook.cpp on one descriptor: do_io with its  *)
(* retries, connect_with_timeout, the sleeps and close(), by the fibers of *)
(* one IOManager.                                                          *)
(*                                                                         *)
(* A call that would block arms a condition timer, registers its event and *)
(* suspends.  Timers, events and the scheduler are used through what their *)
(* own modules promise: a timer expires once, at any time after it was     *)
(* armed and unless it was cancelled before; its callback is collected     *)
(* first and run later, by another thread; an event has one waiter.  The   *)
(* timer_info of a call is shared by its retries and dies with the call,   *)
(* the callbacks hold it weakly.                                           *)
(***************************************************************************)
EXTENDS Integers, FiniteSets

CONSTANTS
    Fibers,    \* fibers that make hooked calls
    Ops,       \* the calls each of them makes
    MaxArms,   \* bound: timers each fiber arms
    MaxOpens,  \* bound: sockets that get the descriptor's number
    Idlers,    \* threads that wait in epoll_wait
    NoFiber

Events == {"READ", "WRITE"}

(* do_io's callers, by the event each of them waits for *)
ReadCalls  == {"accept", "read", "readv", "recv", "recvfrom", "recvmsg"}
WriteCalls == {"write", "writev", "send", "sendto", "sendmsg"}
Sleeps == {"sleep", "usleep", "nanosleep"}
Calls  == ReadCalls \cup WriteCalls \cup Sleeps \cup {"connect", "close"}

EventOf(op) == IF op \in ReadCalls THEN "READ" ELSE "WRITE"

ASSUME HookAssumption ==
    /\ NoFiber \notin Fibers /\ Ops \in [Fibers -> SUBSET Calls]
    /\ MaxArms \in [Fibers -> Nat] /\ MaxOpens \in Nat \ {0}

VARIABLES
    fiber,   \* where each fiber is in its call, and the call's timer_info
    arms,    \* how many timers each fiber has armed
    timers,  \* armed timers: owner, number, call
    cbs,     \* collected callbacks: timer, and how far each has got
    waiter,  \* the fiber in the EventContext of each event
    sock,    \* the descriptor: open, FdCtx, epoll registration, readiness
    opens,   \* sockets opened so far
    report,  \* what epoll_wait told each idle thread, until it is handled
    fired    \* history: the last timer of each fiber that expired

vars == <<fiber, arms, timers, cbs, waiter, sock, opens, report, fired>>

(* base: timers armed before the call; plain: the call is left to the plain   *)
(* function; cancelled: tinfo->cancelled; late: it registered while close()    *)
(* was past its cancelAll; struck: its connect was ended by a cancel that was  *)
(* not its own, its wait began with an older report of its event still to be   *)
(* handled, addEvent failed, or the descriptor was closed after connect_f.     *)
Idle == [pc |-> "idle", op |-> "none", timed |-> FALSE, plain |-> FALSE, base |-> 0,
         cancelled |-> FALSE, struck |-> FALSE, late |-> FALSE, res |-> "none"]

Fresh == [open |-> TRUE, ctx |-> TRUE, epoll |-> FALSE, ready |-> {}, conn |-> "new"]

(* An epoll_event: the events it tells, EPOLLERR or EPOLLHUP *)
NoReport == [events |-> {}, err |-> FALSE]

Timer == [owner : Fibers, arm : Nat, op : Calls]

TypeOK ==
    /\ fiber \in [Fibers ->
         [pc : {"idle", "try", "arm", "add", "hold", "wake", "check", "error",
                "cancelAll", "del", "close", "done"},
          op : Calls \cup {"none"}, timed : BOOLEAN, plain : BOOLEAN, base : Nat,
          cancelled : BOOLEAN, struck : BOOLEAN, late : BOOLEAN,
          res : {"none", "ok", "again", "bad", "refused", "failed", "timeout"}]]
    /\ arms \in [Fibers -> Nat] /\ \A f \in Fibers : arms[f] <= MaxArms[f]
    /\ timers \subseteq Timer
    /\ cbs \subseteq [timer : Timer, at : {"run", "cancel"}]
    /\ waiter \in [Events -> Fibers \cup {NoFiber}]
    /\ sock \in [open : BOOLEAN, ctx : BOOLEAN, epoll : BOOLEAN,
                 ready : SUBSET Events, conn : {"new", "pending", "up", "refused"}]
    /\ opens \in 0..MaxOpens
    /\ report \in [Idlers -> [events : SUBSET Events, err : BOOLEAN]]
    /\ fired \in [Fibers -> Nat]

Init ==
    /\ fiber = [f \in Fibers |-> Idle]
    /\ arms = [f \in Fibers |-> 0] /\ fired = [f \in Fibers |-> 0]
    /\ timers = {} /\ cbs = {}
    /\ waiter = [e \in Events |-> NoFiber]
    /\ sock = Fresh /\ opens = 1
    /\ report = [i \in Idlers |-> NoReport]

-----------------------------------------------------------------------------
At(f, pc) == fiber[f].pc = pc

Goto(f, pc) == fiber' = [fiber EXCEPT ![f].pc = pc]

Done(f, res) == fiber' = [fiber EXCEPT ![f].pc = "done", ![f].res = res]

WaitCalls == ReadCalls \cup WriteCalls \cup {"connect"}

(* No other call waits for the event: a second waiter fails an assertion of  *)
(* addEvent, which IOManager is about.                                       *)
EventFree(op) ==
    \A g \in Fibers : fiber[g].op \in WaitCalls => EventOf(fiber[g].op) # EventOf(op)

(* A fiber enters a hooked call.  Without an FdCtx, or when the user asked    *)
(* for non-blocking calls, the plain function gets the call; only connect     *)
(* fails without an FdCtx.                                                    *)
Call(f, op, timed, userNonblock) ==
    LET plain == op \in WaitCalls /\ (userNonblock \/ ~sock.ctx)
        noCtx == op = "connect" /\ ~sock.ctx
    IN
    /\ At(f, "idle")
    /\ op \in WaitCalls => EventFree(op)
    /\ op = "connect" => sock.conn = "new"
    /\ fiber' = [fiber EXCEPT ![f] =
         [Idle EXCEPT !.op = op, !.timed = op \in Sleeps \/ (timed /\ ~plain), !.base = arms[f],
                      !.plain = plain, !.res = IF noCtx THEN "bad" ELSE "none",
                      !.pc = IF op \in Sleeps THEN "arm"
                             ELSE IF noCtx THEN "done"
                             ELSE IF op # "close" THEN "try"
                             ELSE IF sock.ctx THEN "cancelAll" ELSE "close"]]
    /\ UNCHANGED <<arms, timers, cbs, waiter, sock, opens, report, fired>>

(* What the plain function answers at this moment. *)
Answer(op) == IF ~sock.open THEN "bad"
              ELSE IF EventOf(op) \in sock.ready THEN "ok" ELSE "again"

(* do_io: EAGAIN leads to a wait, EINTR to another try *)
TryIo(f) ==
    LET op == fiber[f].op IN
    /\ At(f, "try") /\ op # "connect"
    /\ IF Answer(op) = "again" /\ ~fiber[f].plain THEN Goto(f, "arm") ELSE Done(f, Answer(op))
    /\ sock' = [sock EXCEPT !.ready = @ \ {EventOf(op)}]
    /\ UNCHANGED <<arms, timers, cbs, waiter, opens, report, fired>>

(* connect_with_timeout: EINPROGRESS leads to a wait *)
TryConnect(f) ==
    /\ At(f, "try") /\ fiber[f].op = "connect"
    /\ IF ~sock.open THEN Done(f, "bad") /\ UNCHANGED sock
       ELSE \E now \in {"pending", "up", "refused"} :
              /\ sock' = [sock EXCEPT !.conn = now, !.ready = @ \ {"WRITE"}]
              /\ IF now # "pending" THEN Done(f, IF now = "up" THEN "ok" ELSE "refused")
                 ELSE IF fiber[f].plain THEN Done(f, "again") ELSE Goto(f, "arm")
    /\ UNCHANGED <<arms, timers, cbs, waiter, opens, report, fired>>

(* addConditionTimer, when the call has a timeout; a sleep suspends next *)
Arm(f) ==
    LET c == fiber[f] IN
    /\ At(f, "arm")
    /\ IF c.timed
         THEN /\ arms[f] < MaxArms[f]
              /\ arms' = [arms EXCEPT ![f] = @ + 1]
              /\ timers' = timers \cup {[owner |-> f, arm |-> arms[f] + 1, op |-> c.op]}
         ELSE UNCHANGED <<arms, timers>>
    /\ Goto(f, IF c.op \in Sleeps THEN "hold" ELSE "add")
    /\ UNCHANGED <<cbs, waiter, sock, opens, report, fired>>

(* epoll_ctl of addEvent succeeds: ADD for the first event, MOD for the next *)
MayRegister == sock.open /\ (sock.epoll <=> \E e \in Events : waiter[e] # NoFiber)

(* timer->cancel(): too late for a callback that was collected *)
Disarmed(f) == {t \in timers : t.owner # f}

Closing == \E g \in Fibers : fiber[g].pc \in {"del", "close"}

(* An idle thread has yet to handle what epoll_wait told it of the event. *)
Reported(e) == \E i \in Idlers : e \in report[i].events \/ report[i].err

(* iom->addEvent(fd, event), then YieldToHold *)
AddEvent(f) ==
    LET e == EventOf(fiber[f].op) IN
    /\ At(f, "add") /\ MayRegister
    /\ waiter' = [waiter EXCEPT ![e] = f]
    /\ sock' = [sock EXCEPT !.epoll = TRUE]
    /\ fiber' = [fiber EXCEPT ![f].pc = "hold", ![f].late = Closing,
                              ![f].struck = @ \/ (fiber[f].op = "connect" /\ Reported(e))]
    /\ UNCHANGED <<arms, timers, cbs, opens, report, fired>>

(* addEvent fails: do_io returns -1, connect asks for SO_ERROR all the same *)
AddFails(f) ==
    LET connect == fiber[f].op = "connect" IN
    /\ At(f, "add") /\ ~MayRegister
    /\ timers' = Disarmed(f)
    /\ fiber' = [fiber EXCEPT ![f].pc = IF connect THEN "error" ELSE "done",
                              ![f].res = IF connect THEN "none" ELSE "failed",
                              ![f].struck = connect]
    /\ UNCHANGED <<arms, cbs, waiter, sock, opens, report, fired>>

(* The fiber is back: timer->cancel() *)
Resume(f) ==
    /\ At(f, "wake")
    /\ timers' = Disarmed(f)
    /\ Goto(f, IF fiber[f].op \in Sleeps THEN "done" ELSE "check")
    /\ UNCHANGED <<arms, cbs, waiter, sock, opens, report, fired>>

(* Mutant: the errno is returned in place of -1. *)
CheckErrno(f) ==
    /\ At(f, "check")
    /\ IF fiber[f].cancelled THEN Done(f, "ETIMEDOUT") ELSE Goto(f, "try")
    /\ UNCHANGED <<arms, timers, cbs, waiter, sock, opens, report, fired>>

(* tinfo->cancelled ends the call with ETIMEDOUT; if not, do_io tries again *)
Check(f) ==
    /\ At(f, "check")
    /\ IF fiber[f].cancelled THEN Done(f, "timeout")
       ELSE Goto(f, IF fiber[f].op = "connect" THEN "error" ELSE "try")
    /\ UNCHANGED <<arms, timers, cbs, waiter, sock, opens, report, fired>>

(* Mutant: a wake means a connection. *)
SockErrorIgnored(f) ==
    /\ At(f, "error") /\ Done(f, "ok")
    /\ UNCHANGED <<arms, timers, cbs, waiter, sock, opens, report, fired>>

(* SO_ERROR after the wait of connect: 0 also when nothing is decided yet *)
SockError(f) ==
    /\ At(f, "error")
    /\ Done(f, IF ~sock.open THEN "bad" ELSE IF sock.conn = "refused" THEN "refused" ELSE "ok")
    /\ UNCHANGED <<arms, timers, cbs, waiter, sock, opens, report, fired>>

Return(f) ==
    /\ At(f, "done")
    /\ fiber' = [fiber EXCEPT ![f] = Idle]
    /\ UNCHANGED <<arms, timers, cbs, waiter, sock, opens, report, fired>>

-----------------------------------------------------------------------------
(* The waiters of the events E are scheduled; those in S are struck. *)
Trigger(E, S) ==
    LET woken == {waiter[e] : e \in E} \ {NoFiber}
        left  == {e \in Events \ E : waiter[e] # NoFiber}
    IN /\ fiber' = [f \in Fibers |->
             IF f \notin woken THEN fiber[f]
             ELSE [fiber[f] EXCEPT !.pc = "wake", !.late = FALSE,
                                   !.struck = @ \/ (f \in S /\ fiber[f].op = "connect")]]
       /\ waiter' = [e \in Events |-> IF e \in left THEN waiter[e] ELSE NoFiber]
       /\ sock' = [sock EXCEPT !.epoll = left # {}]

Waited(e) == waiter[e] # NoFiber /\ sock.epoll

(* IOManager::idle: epoll_wait reports what has happened of what is registered *)
EpollWait(i) ==
    LET E == {e \in sock.ready : Waited(e)}  err == sock.epoll /\ sock.conn = "refused" IN
    /\ report[i] = NoReport /\ (E # {} \/ err)
    /\ report' = [report EXCEPT ![i] = [events |-> E, err |-> err]]
    /\ UNCHANGED <<fiber, arms, timers, cbs, waiter, sock, opens, fired>>

(* real_events: an error is an event for whoever waits by now *)
RealEvents(i) ==
    report[i].events \cup (IF report[i].err THEN {e \in Events : waiter[e] # NoFiber} ELSE {})

(* The report is handled, however old it is: by now other fibers may wait for  *)
(* the events, on another socket.  Nothing is done when nobody waits or when    *)
(* epoll_ctl fails; an event that is no longer waited for beside one that is    *)
(* fails triggerEvent's assertion, which IOManager is about.                    *)
HandleEvent(i) ==
    LET E == RealEvents(i) IN
    /\ report[i] # NoReport
    /\ report' = [report EXCEPT ![i] = NoReport]
    /\ IF \E e \in E : Waited(e)
         THEN /\ \A e \in E : Waited(e)
              /\ Trigger(E, {})
         ELSE UNCHANGED <<fiber, waiter, sock>>
    /\ UNCHANGED <<arms, timers, cbs, opens, fired>>

(* cancelRead, cancelWrite, cancelAccept of Socket, by some other fiber *)
CancelFromOutside(e) ==
    /\ Waited(e)
    /\ Trigger({e}, Fibers)
    /\ UNCHANGED <<arms, timers, cbs, opens, report, fired>>

(* listExpiredCb: the timer is over, its callback goes to a thread *)
Expire(t) ==
    /\ t \in timers
    /\ timers' = timers \ {t}
    /\ cbs' = cbs \cup {[timer |-> t, at |-> "run"]}
    /\ fired' = [fired EXCEPT ![t.owner] = t.arm]
    /\ UNCHANGED <<fiber, arms, waiter, sock, opens, report>>

(* Mutant: the callback looks at whatever call the fiber is in. *)
TinfoAny(t) == fiber[t.owner].op \in WaitCalls /\ fiber[t.owner].pc # "done"

(* winfo.lock(): the call that armed the timer has not returned *)
Tinfo(t) == fiber[t.owner].op \in WaitCalls /\ t.arm > fiber[t.owner].base

(* The callback marks the call as timed out, unless it is over or marked. *)
RunCallback(c) ==
    LET t == c.timer  go == Tinfo(t) /\ ~fiber[t.owner].cancelled IN
    /\ c \in cbs /\ c.at = "run" /\ t.op \notin Sleeps
    /\ cbs' = (cbs \ {c}) \cup (IF go THEN {[c EXCEPT !.at = "cancel"]} ELSE {})
    /\ fiber' = IF go THEN [fiber EXCEPT ![t.owner].cancelled = TRUE] ELSE fiber
    /\ UNCHANGED <<arms, timers, waiter, sock, opens, report, fired>>

(* Mutant: the callback marks the call and leaves it where it is. *)
CancelEventNot(c) ==
    /\ c \in cbs /\ c.at = "cancel"
    /\ cbs' = cbs \ {c}
    /\ UNCHANGED <<fiber, arms, timers, waiter, sock, opens, report, fired>>

(* iom->cancelEvent(fd, event), which cancels whoever waits by now *)
CancelEvent(c) ==
    LET e == EventOf(c.timer.op)  w == waiter[e] IN
    /\ c \in cbs /\ c.at = "cancel"
    /\ cbs' = cbs \ {c}
    /\ IF Waited(e)
         THEN Trigger({e}, IF w = c.timer.owner /\ Tinfo(c.timer) THEN {} ELSE {w})
         ELSE UNCHANGED <<fiber, waiter, sock>>
    /\ UNCHANGED <<arms, timers, opens, report, fired>>

(* A sleep's callback schedules the fiber. *)
EndSleep(c) ==
    /\ c \in cbs /\ c.timer.op \in Sleeps
    /\ cbs' = cbs \ {c}
    /\ Goto(c.timer.owner, "wake")
    /\ UNCHANGED <<arms, timers, waiter, sock, opens, report, fired>>

-----------------------------------------------------------------------------
(* Mutant: close() cancels nobody. *)
CloseCancelNobody(f) ==
    /\ At(f, "cancelAll") /\ Goto(f, "del")
    /\ UNCHANGED <<arms, timers, cbs, waiter, sock, opens, report, fired>>

(* close(): iom->cancelAll(fd) *)
CloseCancelAll(f) ==
    /\ At(f, "cancelAll")
    /\ IF sock.epoll
         THEN LET woken == {waiter[e] : e \in Events} \ {NoFiber} IN
              /\ fiber' = [g \in Fibers |->
                   IF g = f THEN [fiber[g] EXCEPT !.pc = "del"]
                   ELSE IF g \in woken
                   THEN [fiber[g] EXCEPT !.pc = "wake", !.late = FALSE,
                                         !.struck = fiber[g].op = "connect"]
                   ELSE fiber[g]]
              /\ waiter' = [e \in Events |-> NoFiber]
              /\ sock' = [sock EXCEPT !.epoll = FALSE]
         ELSE Goto(f, "del") /\ UNCHANGED <<waiter, sock>>
    /\ UNCHANGED <<arms, timers, cbs, opens, report, fired>>

(* close(): FdMgr's del(fd) *)
CloseDel(f) ==
    /\ At(f, "del")
    /\ sock' = [sock EXCEPT !.ctx = FALSE]
    /\ Goto(f, "close")
    /\ UNCHANGED <<arms, timers, cbs, waiter, opens, report, fired>>

(* close_f; the kernel drops the registration *)
CloseFd(f) ==
    /\ At(f, "close")
    /\ sock' = [sock EXCEPT !.open = FALSE, !.epoll = FALSE, !.ready = {}, !.conn = "new"]
    /\ fiber' = [g \in Fibers |->
         IF g = f THEN [fiber[f] EXCEPT !.pc = "done", !.res = IF sock.open THEN "ok" ELSE "bad"]
         ELSE [fiber[g] EXCEPT !.struck = @ \/ (fiber[g].op = "connect" /\ fiber[g].pc # "try")]]
    /\ UNCHANGED <<arms, timers, cbs, waiter, opens, report, fired>>

(* socket(): the kernel hands the number out again, FdMgr makes an FdCtx *)
Socket ==
    /\ ~sock.open /\ opens < MaxOpens
    /\ sock' = Fresh /\ opens' = opens + 1
    /\ UNCHANGED <<fiber, arms, timers, cbs, waiter, report, fired>>

(* The peer: data or room arrives, a handshake ends. *)
Arrive(e) ==
    /\ sock.open /\ e \notin sock.ready
    /\ \E f \in Fibers, op \in ReadCalls \cup WriteCalls : op \in Ops[f] /\ EventOf(op) = e
    /\ e = "WRITE" => sock.conn # "pending"
    /\ sock' = [sock EXCEPT !.ready = @ \cup {e}]
    /\ UNCHANGED <<fiber, arms, timers, cbs, waiter, opens, report, fired>>

Handshake(end) ==
    /\ sock.conn = "pending"
    /\ sock' = [sock EXCEPT !.conn = end, !.ready = @ \cup {"WRITE"}]
    /\ UNCHANGED <<fiber, arms, timers, cbs, waiter, opens, report, fired>>

-----------------------------------------------------------------------------
Proceed(f) ==
    \/ TryIo(f) \/ TryConnect(f) \/ Arm(f) \/ AddEvent(f) \/ AddFails(f)
    \/ Resume(f) \/ Check(f) \/ SockError(f) \/ Return(f)
    \/ CloseCancelAll(f) \/ CloseDel(f) \/ CloseFd(f)

Callback(c) == RunCallback(c) \/ CancelEvent(c) \/ EndSleep(c)

Next ==
    \/ \E f \in Fibers :
         \/ \E op \in Ops[f], timed \in BOOLEAN, user \in BOOLEAN : Call(f, op, timed, user)
         \/ Proceed(f)
    \/ \E t \in timers : Expire(t)
    \/ \E c \in cbs : Callback(c)
    \/ \E i \in Idlers : EpollWait(i) \/ HandleEvent(i)
    \/ \E e \in Events : CancelFromOutside(e) \/ Arrive(e)
    \/ Socket \/ Handshake("up") \/ Handshake("refused")

Spec == Init /\ [][Next]_vars

(* The fibers that make calls which may wait. *)
Waiting == {f \in Fibers : Ops[f] # {"close"}}

(* Waiting fibers that may run do run, time passes, and a collected callback  *)
(* is a job of the scheduler, which finishes its jobs.  The peer, the idle    *)
(* threads and a fiber that closes owe nobody anything.                       *)
LiveSpec ==
    /\ Spec
    /\ \A f \in Waiting :
         /\ WF_vars(Proceed(f))
         /\ WF_vars(\E t \in timers : t.owner = f /\ Expire(t))
         /\ WF_vars(\E c \in cbs : c.timer.owner = f /\ Callback(c))

-----------------------------------------------------------------------------
(* A call ends with ETIMEDOUT only when a timer it armed itself has expired:  *)
(* callbacks of earlier calls, collected before timer->cancel() and run by    *)
(* another thread much later, cannot touch it (hook.cpp:147-157,173-181).     *)
OwnTimeout ==
    \A f \in Fibers : fiber[f].res = "timeout" => fired[f] > fiber[f].base

(* Whoever waits can be reached: the EventContext names the fiber, and epoll  *)
(* knows the descriptor, unless the fiber came back to wait while close()     *)
(* was between its cancelAll and close_f (hook.cpp:401-416).  That fiber      *)
(* waits for ever: neither an event nor its timer's cancelEvent finds it.     *)
WaitersReachable ==
    \A f \in Fibers : At(f, "hold") /\ fiber[f].op \in WaitCalls =>
        /\ waiter[EventOf(fiber[f].op)] = f
        /\ sock.epoll \/ fiber[f].late

(* When connect asks for SO_ERROR and returns 0, the connection is up, unless *)
(* a cancel that was not its own ended the wait, a report of its event that    *)
(* epoll_wait made before the wait began was still to be handled (of the       *)
(* number's previous socket, say), addEvent failed, or the descriptor was      *)
(* closed meanwhile: SO_ERROR is 0 as long as nothing is decided, and on       *)
(* another socket that got the number (hook.cpp:302-342,                       *)
(* iomanager.cpp:392,420-464).                                                 *)
ConnectedIsUp ==
    [][\A f \in Fibers : At(f, "error") /\ fiber'[f].res = "ok" =>
         sock.conn = "up" \/ fiber[f].struck]_vars

(* A wait with a timeout ends, data or no data: the timer marks the call and  *)
(* then cancels its wait.  The call must not be marked before it waits, by a  *)
(* timer that expired before addEvent or by a late callback of an earlier     *)
(* round: nothing wakes that wait (hook.cpp:145-163).                         *)
TimeoutEndsWait ==
    \A f \in Waiting :
        (At(f, "hold") /\ fiber[f].timed /\ ~fiber[f].cancelled)
            ~> (~At(f, "hold") \/ (fiber[f].op \in WaitCalls /\ ~sock.epoll))
=============================================================================
