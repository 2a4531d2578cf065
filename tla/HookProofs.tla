----------------------------- MODULE HookProofs -----------------------------
(* Proofs about Hook, for any set of fibers, whatever calls they make. *)
EXTENDS Hook, TLAPS

(* The fiber waits in its call for an event. *)
Holds(f) == fiber[f].pc = "hold" /\ fiber[f].op \in WaitCalls

(* Timers: the one a fiber has armed last is the only one that can still be  *)
(* armed, and a collected callback belongs to a timer that has expired.      *)
TimerInv ==
    /\ \A t \in timers :
         /\ t.arm = arms[t.owner] /\ fired[t.owner] < t.arm
         /\ t.op = fiber[t.owner].op
         /\ fiber[t.owner].pc \in {"add", "hold", "wake"}
         /\ t.op \in Sleeps => fiber[t.owner].pc = "hold"
    /\ \A c \in cbs :
         /\ c.timer.arm <= fired[c.timer.owner]
         /\ c.timer.op \in Sleeps =>
              /\ c.at = "run" /\ c.timer.arm = arms[c.timer.owner]
              /\ c.timer.op = fiber[c.timer.owner].op /\ fiber[c.timer.owner].pc = "hold"
         /\ c.at = "cancel" /\ Tinfo(c.timer) => fiber[c.timer.owner].cancelled
    /\ \A f \in Fibers : fired[f] <= arms[f] /\ fiber[f].base <= arms[f]

(* A call marked as timed out has had a timer of its own expire. *)
MarkInv ==
    \A f \in Fibers :
      /\ fiber[f].cancelled => fired[f] > fiber[f].base
      /\ fiber[f].res = "timeout" => fired[f] > fiber[f].base

(* Which calls can be where. *)
PlaceInv ==
    \A f \in Fibers :
      /\ fiber[f].pc \in {"try", "add", "check"} => fiber[f].op \in WaitCalls
      /\ fiber[f].pc = "error" => fiber[f].op = "connect"
      /\ fiber[f].pc \in {"cancelAll", "del", "close"} => fiber[f].op = "close"
      /\ fiber[f].pc \in {"arm", "hold", "wake"} => fiber[f].op \in WaitCalls \cup Sleeps
      /\ fiber[f].pc # "done" => fiber[f].res = "none"
      /\ fiber[f].op = "connect" /\ fiber[f].pc = "try" => ~fiber[f].struck

(* The EventContexts: one waiting call per event, and its fiber is named. *)
WaitInv ==
    /\ \A f, g \in Fibers :
         fiber[f].op \in WaitCalls /\ fiber[g].op \in WaitCalls
         /\ EventOf(fiber[f].op) = EventOf(fiber[g].op) => f = g
    /\ \A f \in Fibers : Holds(f) => waiter[EventOf(fiber[f].op)] = f
    /\ \A e \in Events : waiter[e] # NoFiber =>
         Holds(waiter[e]) /\ EventOf(fiber[waiter[e]].op) = e

(* Registration: who waits while close() is past cancelAll came late. *)
EpollInv ==
    /\ \A f \in Fibers : Holds(f) => sock.epoll \/ fiber[f].late
    /\ Closing \/ ~sock.ctx => \A f \in Fibers : Holds(f) => fiber[f].late
    /\ ~sock.ctx /\ sock.open => \E g \in Fibers : fiber[g].pc = "close"
    /\ ~sock.open => ~sock.epoll

(* The handshake of a connect that nothing has struck. *)
ConnInv ==
    /\ sock.conn = "pending" => sock.open /\ "WRITE" \notin sock.ready
    /\ ~sock.open => sock.conn = "new"
    /\ \A f \in Fibers : fiber[f].op = "connect" /\ ~fiber[f].struck =>
         /\ fiber[f].pc \in {"arm", "add", "hold"} => sock.conn # "new" /\ sock.open
         /\ fiber[f].pc \in {"wake", "check"} /\ ~fiber[f].cancelled =>
              sock.conn \in {"up", "refused"}
         /\ fiber[f].pc = "error" => sock.conn \in {"up", "refused"}

(* What an idle thread still has to handle says the truth about a connect that *)
(* began to wait before it was told.                                           *)
ReportInv ==
    \A f \in Fibers : fiber[f].op = "connect" /\ fiber[f].pc = "hold" /\ ~fiber[f].struck
                      /\ Reported("WRITE") => sock.conn # "pending"

IInv == TypeOK /\ TimerInv /\ MarkInv /\ PlaceInv /\ WaitInv /\ EpollInv /\ ConnInv

-----------------------------------------------------------------------------
(* What TypeOK says of one fiber, and of the descriptor. *)
Record ==
    [pc : {"idle", "try", "arm", "add", "hold", "wake", "check", "error",
           "cancelAll", "del", "close", "done"},
     op : Calls \cup {"none"}, timed : BOOLEAN, plain : BOOLEAN, base : Nat,
     cancelled : BOOLEAN, struck : BOOLEAN, late : BOOLEAN,
     res : {"none", "ok", "again", "bad", "refused", "failed", "timeout"}]

SockType == [open : BOOLEAN, ctx : BOOLEAN, epoll : BOOLEAN,
             ready : SUBSET Events, conn : {"new", "pending", "up", "refused"}]

ReportType == [events : SUBSET Events, err : BOOLEAN]

LEMMA TypeFacts ==
    TypeOK <=>
        /\ fiber \in [Fibers -> Record]
        /\ arms \in [Fibers -> Nat] /\ \A f \in Fibers : arms[f] <= MaxArms[f]
        /\ timers \subseteq Timer
        /\ cbs \subseteq [timer : Timer, at : {"run", "cancel"}]
        /\ waiter \in [Events -> Fibers \cup {NoFiber}]
        /\ sock \in SockType
        /\ opens \in 0..MaxOpens
        /\ report \in [Idlers -> ReportType]
        /\ fired \in [Fibers -> Nat]
BY Zenon DEF TypeOK, Record, SockType, ReportType

(* A step that moves one fiber to p and gives its call the result r. *)
Moved(f, p, r) ==
    /\ fiber' \in [Fibers -> Record]
    /\ \A g \in Fibers :
         /\ fiber'[g].pc = IF g = f THEN p ELSE fiber[g].pc
         /\ fiber'[g].op = fiber[g].op /\ fiber'[g].plain = fiber[g].plain
         /\ fiber'[g].base = fiber[g].base /\ fiber'[g].cancelled = fiber[g].cancelled
         /\ fiber'[g].struck = fiber[g].struck /\ fiber'[g].late = fiber[g].late
         /\ fiber'[g].res = IF g = f THEN r ELSE fiber[g].res

LEMMA GotoFacts ==
    ASSUME fiber \in [Fibers -> Record], NEW f \in Fibers,
           NEW p \in {"try", "arm", "add", "hold", "wake", "check", "error", "del", "close", "done"},
           Goto(f, p)
    PROVE  Moved(f, p, fiber[f].res)
BY DEF Goto, Record, Moved

LEMMA DoneFacts ==
    ASSUME fiber \in [Fibers -> Record], NEW f \in Fibers,
           NEW r \in {"none", "ok", "again", "bad", "refused", "failed", "timeout"}, Done(f, r)
    PROVE  Moved(f, "done", r)
<1> DEFINE new == [fiber[f] EXCEPT !.pc = "done", !.res = r]
<1>1. fiber' = [fiber EXCEPT ![f] = new]
  BY DEF Done
<1>2. new \in Record
  <2>1. fiber[f] \in Record
    OBVIOUS
  <2>2. QED
    BY <2>1 DEF Record
<1>3. /\ new.pc = "done" /\ new.op = fiber[f].op /\ new.plain = fiber[f].plain
      /\ new.base = fiber[f].base /\ new.cancelled = fiber[f].cancelled
      /\ new.struck = fiber[f].struck /\ new.late = fiber[f].late /\ new.res = r
  BY DEF Record
<1> HIDE DEF new
<1>4. fiber'[f] = new /\ \A g \in Fibers \ {f} : fiber'[g] = fiber[g]
  BY <1>1
<1>5. fiber' \in [Fibers -> Record]
  BY <1>1, <1>2
<1>6. QED
  BY <1>3, <1>4, <1>5 DEF Moved

(* Who is woken, and what is left of the registration. *)
LEMMA TriggerFacts ==
    ASSUME TypeOK, NEW E \in SUBSET Events, NEW S, Trigger(E, S)
    PROVE  /\ fiber' \in [Fibers -> Record]
           /\ waiter' \in [Events -> Fibers \cup {NoFiber}] /\ sock' \in SockType
           /\ \A g \in Fibers :
                /\ fiber'[g].pc = IF \E e \in E : waiter[e] = g THEN "wake" ELSE fiber[g].pc
                /\ fiber'[g].op = fiber[g].op /\ fiber'[g].plain = fiber[g].plain
                /\ fiber'[g].base = fiber[g].base /\ fiber'[g].cancelled = fiber[g].cancelled
                /\ fiber'[g].struck <=>
                     fiber[g].struck \/ ((\E e \in E : waiter[e] = g) /\ g \in S
                                         /\ fiber[g].op = "connect")
                /\ (~\E e \in E : waiter[e] = g) => fiber'[g].late = fiber[g].late
                /\ fiber'[g].res = fiber[g].res
           /\ \A e \in Events : waiter'[e] = IF e \in E THEN NoFiber ELSE waiter[e]
           /\ sock'.epoll <=> \E e \in Events \ E : waiter[e] # NoFiber
           /\ sock'.open = sock.open /\ sock'.ctx = sock.ctx
           /\ sock'.ready = sock.ready /\ sock'.conn = sock.conn
<1> DEFINE woken == {waiter[e] : e \in E} \ {NoFiber}
           left  == {e \in Events \ E : waiter[e] # NoFiber}
           new(g) == [fiber[g] EXCEPT !.pc = "wake", !.late = FALSE,
                                      !.struck = @ \/ (g \in S /\ fiber[g].op = "connect")]
<1>0. /\ fiber \in [Fibers -> Record] /\ sock \in SockType
      /\ waiter \in [Events -> Fibers \cup {NoFiber}]
  BY TypeFacts
<1>1. \A g \in Fibers : fiber'[g] = IF g \in woken THEN new(g) ELSE fiber[g]
  BY Zenon DEF Trigger
<1>2. /\ \A g \in Fibers : g \in woken <=> \E e \in E : waiter[e] = g
      /\ NoFiber \notin Fibers
  BY HookAssumption
<1>3. ASSUME NEW g \in Fibers
      PROVE  /\ new(g) \in Record /\ new(g).pc = "wake" /\ new(g).op = fiber[g].op
             /\ new(g).plain = fiber[g].plain /\ new(g).base = fiber[g].base
             /\ new(g).cancelled = fiber[g].cancelled
             /\ new(g).struck = (fiber[g].struck \/ (g \in S /\ fiber[g].op = "connect"))
             /\ new(g).res = fiber[g].res
  <2>1. fiber[g] \in Record
    BY <1>0
  <2>2. (fiber[g].struck \/ (g \in S /\ fiber[g].op = "connect")) \in BOOLEAN
    BY Zenon
  <2>3. QED
    BY <2>1, <2>2 DEF Record
<1>4. DOMAIN fiber' = Fibers /\ fiber' = [g \in Fibers |-> fiber'[g]]
  BY Zenon DEF Trigger
<1> HIDE DEF new, woken
<1>5. fiber' \in [Fibers -> Record]
  BY <1>0, <1>1, <1>3, <1>4
<1>6. ASSUME NEW g \in Fibers
      PROVE  /\ fiber'[g].pc = IF \E e \in E : waiter[e] = g THEN "wake" ELSE fiber[g].pc
             /\ fiber'[g].op = fiber[g].op /\ fiber'[g].plain = fiber[g].plain
             /\ fiber'[g].base = fiber[g].base /\ fiber'[g].cancelled = fiber[g].cancelled
             /\ fiber'[g].struck <=>
                  fiber[g].struck \/ ((\E e \in E : waiter[e] = g) /\ g \in S
                                      /\ fiber[g].op = "connect")
             /\ (~\E e \in E : waiter[e] = g) => fiber'[g].late = fiber[g].late
             /\ fiber'[g].res = fiber[g].res
  <2>1. CASE g \in woken
    <3>1. fiber'[g] = new(g) /\ \E e \in E : waiter[e] = g
      BY <1>1, <1>2, <2>1, Zenon
    <3>2. fiber'[g].struck <=> fiber[g].struck \/ ((\E e \in E : waiter[e] = g) /\ g \in S
                                                 /\ fiber[g].op = "connect")
      BY <1>3, <3>1, Zenon
    <3>3. QED
      BY <1>3, <3>1, <3>2
  <2>2. CASE g \notin woken
    BY <1>1, <1>2, <2>2
  <2>3. QED
    BY <2>1, <2>2
<1>7. /\ waiter' \in [Events -> Fibers \cup {NoFiber}]
      /\ \A e \in Events : waiter'[e] = IF e \in E THEN NoFiber ELSE waiter[e]
  BY <1>0 DEF Trigger
<1>8. sock' = [sock EXCEPT !.epoll = left # {}] /\ (left # {}) \in BOOLEAN
  BY Zenon DEF Trigger
<1>9. left # {} <=> \E e \in Events \ E : waiter[e] # NoFiber
  OBVIOUS
<1> HIDE DEF left
<1>10. /\ sock' \in SockType /\ sock'.epoll = (left # {})
       /\ sock'.open = sock.open /\ sock'.ctx = sock.ctx
       /\ sock'.ready = sock.ready /\ sock'.conn = sock.conn
  BY <1>0, <1>8 DEF SockType
<1>11. QED
  BY <1>5, <1>6, <1>7, <1>9, <1>10

-----------------------------------------------------------------------------
(* Timers and callbacks may go, calls stay: what a fiber's move must respect. *)
LEMMA TimerKeep ==
    ASSUME IInv, UNCHANGED <<arms, fired>>, timers' \subseteq timers, cbs' \subseteq cbs,
           \A g \in Fibers : /\ fiber'[g].op = fiber[g].op /\ fiber'[g].base = fiber[g].base
                             /\ fiber[g].cancelled => fiber'[g].cancelled,
           \A g \in Fibers :
             \/ fiber'[g].pc = fiber[g].pc
             \/ /\ fiber[g].pc \in {"add", "hold"} /\ fiber'[g].pc \in {"hold", "wake"}
                /\ fiber[g].op \in WaitCalls
             \/ /\ \A t \in timers' : t.owner # g
                /\ \A c \in cbs' : c.timer.op \in Sleeps => c.timer.owner # g
    PROVE  TimerInv'
<1>1. ASSUME NEW t \in timers'
      PROVE  /\ t.arm = arms'[t.owner] /\ fired'[t.owner] < t.arm
             /\ t.op = fiber'[t.owner].op
             /\ fiber'[t.owner].pc \in {"add", "hold", "wake"}
             /\ t.op \in Sleeps => fiber'[t.owner].pc = "hold"
  <2>1. t.owner \in Fibers
    BY TypeFacts DEF IInv, Timer
  <2>2. fiber[t.owner].op \in WaitCalls => fiber[t.owner].op \notin Sleeps
    BY DEF WaitCalls, Sleeps, ReadCalls, WriteCalls
  <2>3. QED
    BY <2>1, <2>2 DEF IInv, TimerInv
<1>2. ASSUME NEW c \in cbs'
      PROVE  /\ c.timer.arm <= fired'[c.timer.owner]
             /\ c.timer.op \in Sleeps =>
                  /\ c.at = "run" /\ c.timer.arm = arms'[c.timer.owner]
                  /\ c.timer.op = fiber'[c.timer.owner].op /\ fiber'[c.timer.owner].pc = "hold"
             /\ c.at = "cancel" /\ Tinfo(c.timer)' => fiber'[c.timer.owner].cancelled
  <2>1. c.timer.owner \in Fibers
    BY TypeFacts DEF IInv, Timer
  <2>2. fiber[c.timer.owner].op \in WaitCalls => fiber[c.timer.owner].op \notin Sleeps
    BY DEF WaitCalls, Sleeps, ReadCalls, WriteCalls
  <2>3. QED
    BY <2>1, <2>2 DEF IInv, TimerInv, Tinfo
<1>3. \A f \in Fibers : fired'[f] <= arms'[f] /\ fiber'[f].base <= arms'[f]
  BY DEF IInv, TimerInv
<1>4. QED
  BY <1>1, <1>2, <1>3, Zenon DEF TimerInv, Tinfo

(* A fiber that is where no timer is armed has none, and none that sleeps. *)
LEMMA NoTimer ==
    ASSUME IInv, NEW f \in Fibers, fiber[f].pc \notin {"add", "hold", "wake"}
    PROVE  /\ \A t \in timers : t.owner # f
           /\ \A c \in cbs : c.timer.op \in Sleeps => c.timer.owner # f
BY DEF IInv, TimerInv

LEMMA MarkKeep ==
    ASSUME IInv, UNCHANGED fired,
           \A g \in Fibers :
             /\ fiber'[g].base = fiber[g].base /\ fiber'[g].cancelled = fiber[g].cancelled
             /\ fiber'[g].res = "timeout" => fiber[g].res = "timeout" \/ fiber[g].cancelled
    PROVE  MarkInv'
BY DEF IInv, MarkInv

LEMMA WaitKeep ==
    ASSUME IInv, UNCHANGED waiter,
           \A g \in Fibers : /\ fiber'[g].op = fiber[g].op
                             /\ fiber[g].op \in WaitCalls =>
                                  (fiber'[g].pc = "hold" <=> fiber[g].pc = "hold")
    PROVE  WaitInv'
<1>1. \A g \in Fibers : Holds(g)' <=> Holds(g)
  BY DEF Holds
<1>2. \A e \in Events : waiter[e] # NoFiber => waiter[e] \in Fibers
  BY TypeFacts DEF IInv
<1>3. QED
  BY <1>1, <1>2 DEF IInv, WaitInv

LEMMA EpollKeep ==
    ASSUME IInv, sock'.epoll = sock.epoll, sock'.ctx = sock.ctx, sock'.open = sock.open,
           \A g \in Fibers :
             /\ fiber'[g].op = fiber[g].op /\ fiber'[g].late = fiber[g].late
             /\ fiber'[g].pc = "hold" /\ fiber[g].op \in WaitCalls => fiber[g].pc = "hold"
             /\ fiber'[g].pc \in {"del", "close"} => fiber[g].pc \in {"del", "close"}
             /\ fiber[g].pc = "close" => fiber'[g].pc = "close"
    PROVE  EpollInv'
<1>1. \A g \in Fibers : Holds(g)' => Holds(g)
  BY DEF Holds
<1>2. Closing' => Closing
  BY DEF Closing
<1>3. QED
  BY <1>1, <1>2 DEF IInv, EpollInv

(* One fiber of the handshake. *)
Conn(f) ==
    fiber[f].op = "connect" /\ ~fiber[f].struck =>
         /\ fiber[f].pc \in {"arm", "add", "hold"} => sock.conn # "new" /\ sock.open
         /\ fiber[f].pc \in {"wake", "check"} /\ ~fiber[f].cancelled =>
              sock.conn \in {"up", "refused"}
         /\ fiber[f].pc = "error" => sock.conn \in {"up", "refused"}

LEMMA ConnKeep ==
    ASSUME IInv, sock'.conn = sock.conn, sock'.open = sock.open,
           sock.conn = "pending" => "WRITE" \notin sock'.ready,
           \A g \in Fibers :
             \/ Conn(g)'
             \/ /\ fiber'[g].op = fiber[g].op /\ fiber'[g].pc = fiber[g].pc
                /\ fiber[g].struck => fiber'[g].struck
                /\ fiber[g].cancelled => fiber'[g].cancelled
    PROVE  ConnInv'
BY DEF IInv, ConnInv, Conn

-----------------------------------------------------------------------------
(* One lemma per action, or per group of actions of one shape. *)
LEMMA CallStep ==
    ASSUME IInv, NEW f \in Fibers, NEW op \in Calls, NEW timed \in BOOLEAN,
           NEW user \in BOOLEAN, Call(f, op, timed, user)
    PROVE  IInv'
<1> DEFINE plain == op \in WaitCalls /\ (user \/ ~sock.ctx)
           noCtx == op = "connect" /\ ~sock.ctx
           pc == IF op \in Sleeps THEN "arm"
                 ELSE IF noCtx THEN "done"
                 ELSE IF op # "close" THEN "try"
                 ELSE IF sock.ctx THEN "cancelAll" ELSE "close"
           new == [Idle EXCEPT !.op = op, !.timed = op \in Sleeps \/ (timed /\ ~plain),
                               !.base = arms[f], !.plain = plain,
                               !.res = IF noCtx THEN "bad" ELSE "none", !.pc = pc]
<1>1. /\ fiber \in [Fibers -> Record] /\ arms \in [Fibers -> Nat] /\ sock \in SockType
      /\ waiter \in [Events -> Fibers \cup {NoFiber}]
  BY TypeFacts DEF IInv
<1>2. /\ fiber' = [fiber EXCEPT ![f] = new] /\ fiber[f].pc = "idle"
      /\ op \in WaitCalls => EventFree(op)
      /\ UNCHANGED <<arms, timers, cbs, waiter, sock, opens, report, fired>>
  BY Zenon DEF Call, At
<1>3. /\ new.op = op /\ new.base = arms[f] /\ new.cancelled = FALSE /\ new.struck = FALSE
      /\ new.late = FALSE /\ new.res = (IF noCtx THEN "bad" ELSE "none") /\ new.pc = pc
      /\ new.timed = (op \in Sleeps \/ (timed /\ ~plain)) /\ new.plain = plain
      /\ DOMAIN new = DOMAIN Idle
  BY DEF Idle
<1>4. new \in Record
  <2>1. plain \in BOOLEAN /\ (op \in Sleeps \/ (timed /\ ~plain)) \in BOOLEAN
    BY Zenon
  <2>2. arms[f] \in Nat
    BY <1>1
  <2>3. pc \in {"arm", "done", "try", "cancelAll", "close"}
    OBVIOUS
  <2> HIDE DEF plain, pc
  <2>4. QED
    BY <2>1, <2>2, <2>3 DEF Idle, Record
<1>5. /\ op \in WaitCalls => op \notin Sleeps /\ op # "close"
      /\ op \in Sleeps => op # "close"
      /\ op \in WaitCalls \cup Sleeps \cup {"close"} /\ "connect" \in WaitCalls
      /\ op # "none"
  BY DEF WaitCalls, Calls, Sleeps, ReadCalls, WriteCalls
<1>6. /\ (op \in Sleeps => pc = "arm") /\ (op = "close" => pc \in {"cancelAll", "close"})
      /\ (op \in WaitCalls => pc \in {"try", "done"})
      /\ (new.res # "none" => pc = "done")
      /\ (pc = "close" => ~sock.ctx) /\ new.res \in {"bad", "none"}
      /\ pc \in {"arm", "done", "try", "cancelAll", "close"}
  BY <1>3, <1>5
<1> HIDE DEF new, pc
<1>7. /\ fiber'[f] = new /\ \A g \in Fibers \ {f} : fiber'[g] = fiber[g]
      /\ fiber' \in [Fibers -> Record]
  BY <1>1, <1>2, <1>4
<1>8. TypeOK'
  BY <1>2, <1>7, TypeFacts DEF IInv, TypeOK, Record
<1>9. TimerInv'
  <2>1. /\ \A t \in timers : t.owner # f
        /\ \A c \in cbs : c.timer.op \in Sleeps => c.timer.owner # f
    BY <1>2, NoTimer
  <2>2. \A c \in cbs : c.timer \in Timer
    BY TypeFacts DEF IInv
  <2>3. \A c \in cbs : c.timer.owner = f => ~Tinfo(c.timer)'
    BY <1>1, <1>3, <1>7, <2>2, TypeFacts DEF Tinfo, IInv, TimerInv, Timer
  <2>4. QED
    <3>1. ASSUME NEW t \in timers
          PROVE  /\ t.arm = arms[t.owner] /\ fired[t.owner] < t.arm
                 /\ t.op = fiber'[t.owner].op
                 /\ fiber'[t.owner].pc \in {"add", "hold", "wake"}
                 /\ t.op \in Sleeps => fiber'[t.owner].pc = "hold"
      <4>1. t.owner \in Fibers \ {f}
        BY <2>1, TypeFacts DEF IInv, Timer
      <4>2. QED
        BY <1>7, <4>1 DEF IInv, TimerInv
    <3>2. ASSUME NEW c \in cbs
          PROVE  /\ c.timer.arm <= fired[c.timer.owner]
                 /\ c.timer.op \in Sleeps =>
                      /\ c.at = "run" /\ c.timer.arm = arms[c.timer.owner]
                      /\ c.timer.op = fiber'[c.timer.owner].op
                      /\ fiber'[c.timer.owner].pc = "hold"
                 /\ c.at = "cancel" /\ Tinfo(c.timer)' => fiber'[c.timer.owner].cancelled
      <4>1. c.timer.owner \in Fibers
        BY <2>2 DEF Timer
      <4>2. CASE c.timer.owner = f
        BY <2>1, <2>3, <4>2 DEF IInv, TimerInv
      <4>3. CASE c.timer.owner # f
        <5>1. fiber'[c.timer.owner] = fiber[c.timer.owner] /\ (Tinfo(c.timer)' <=> Tinfo(c.timer))
          BY <1>7, <4>1, <4>3 DEF Tinfo
        <5>2. QED
          BY <5>1 DEF IInv, TimerInv
      <4>4. QED
        BY <4>2, <4>3
    <3>3. \A g \in Fibers : fired[g] <= arms[g] /\ fiber'[g].base <= arms[g]
      BY <1>1, <1>3, <1>7 DEF IInv, TimerInv
    <3>4. QED
      BY <1>2, <3>1, <3>2, <3>3, Zenon DEF TimerInv
<1>10. MarkInv'
  BY <1>2, <1>3, <1>6, <1>7 DEF IInv, MarkInv
<1>11. PlaceInv'
  BY <1>3, <1>5, <1>6, <1>7 DEF IInv, PlaceInv
<1>12. \A g \in Fibers : Holds(g)' <=> Holds(g)
  BY <1>2, <1>3, <1>6, <1>7 DEF Holds
<1>13. WaitInv'
  <2>1. \A g \in Fibers \ {f} : op \in WaitCalls /\ fiber[g].op \in WaitCalls =>
          EventOf(fiber[g].op) # EventOf(op)
    BY <1>2 DEF EventFree
  <2>2. \A e \in Events : waiter[e] # NoFiber => waiter[e] \in Fibers /\ waiter[e] # f
    BY <1>1, <1>2 DEF IInv, WaitInv, Holds
  <2>3. ~Holds(f)
    BY <1>2 DEF Holds
  <2>4. ASSUME NEW g \in Fibers, NEW h \in Fibers, fiber'[g].op \in WaitCalls,
               fiber'[h].op \in WaitCalls, EventOf(fiber'[g].op) = EventOf(fiber'[h].op)
        PROVE  g = h
    BY <1>3, <1>7, <2>1, <2>4 DEF IInv, WaitInv
  <2>5. \A g \in Fibers : Holds(g)' => waiter'[EventOf(fiber'[g].op)] = g
    BY <1>2, <1>7, <1>12, <2>3 DEF IInv, WaitInv
  <2>6. \A e \in Events : waiter'[e] # NoFiber =>
         Holds(waiter[e])' /\ EventOf(fiber'[waiter'[e]].op) = e
    BY <1>2, <1>7, <1>12, <2>2 DEF IInv, WaitInv
  <2>7. QED
    BY <1>2, <2>4, <2>5, <2>6 DEF WaitInv, Holds
<1>14. EpollInv'
  <2>1. Closing' => Closing \/ ~sock.ctx
    BY <1>3, <1>6, <1>7 DEF Closing
  <2>2. \A g \in Fibers : Holds(g)' => Holds(g) /\ fiber'[g].late = fiber[g].late
    BY <1>2, <1>7, <1>12 DEF Holds
  <2>3. \A g \in Fibers : fiber[g].pc = "close" => fiber'[g].pc = "close"
    BY <1>2, <1>7
  <2>4. QED
    BY <1>2, <2>1, <2>2, <2>3 DEF IInv, EpollInv
<1>15. ConnInv'
  BY <1>2, <1>3, <1>6, <1>7, <1>5 DEF IInv, ConnInv
<1>16. QED
  BY <1>8, <1>9, <1>10, <1>11, <1>13, <1>14, <1>15 DEF IInv

(* The calls are disjoint families. *)
LEMMA CallFacts ==
    /\ "connect" \in WaitCalls /\ "close" \notin WaitCalls \cup Sleeps /\ "connect" \notin Sleeps
    /\ \A op \in WaitCalls : op \notin Sleeps /\ op # "close" /\ op # "none"
    /\ \A op \in Sleeps : op # "close" /\ op # "none"
    /\ EventOf("connect") = "WRITE"
    /\ \A op : EventOf(op) \in Events
BY DEF WaitCalls, Sleeps, ReadCalls, WriteCalls, EventOf, Events

LEMMA TryIoStep == ASSUME IInv, NEW f \in Fibers, TryIo(f) PROVE IInv'
<1> DEFINE op == fiber[f].op
           e == EventOf(op)
<1>1. /\ fiber \in [Fibers -> Record] /\ sock \in SockType
      /\ fiber[f].pc = "try" /\ op \in WaitCalls /\ op # "connect"
      /\ sock' = [sock EXCEPT !.ready = @ \ {e}]
      /\ UNCHANGED <<arms, timers, cbs, waiter, opens, report, fired>>
  BY TypeFacts DEF IInv, TryIo, At, PlaceInv
<1>2. /\ sock' \in SockType /\ sock'.ready = sock.ready \ {e}
      /\ sock'.epoll = sock.epoll /\ sock'.ctx = sock.ctx /\ sock'.open = sock.open
      /\ sock'.conn = sock.conn
  BY <1>1 DEF SockType
<1>3. \E p \in {"arm", "done"}, r \in {"none", "bad", "ok", "again"} :
        (p # "done" => r = "none") /\ Moved(f, p, r)
  <2>1. CASE Goto(f, "arm")
    <3>1. fiber[f].res = "none"
      BY <1>1 DEF IInv, PlaceInv
    <3>2. QED
      BY <1>1, <2>1, <3>1, GotoFacts
  <2>2. CASE Done(f, Answer(op))
    <3>1. Answer(op) \in {"bad", "ok", "again"}
      BY DEF Answer
    <3>2. QED
      BY <1>1, <2>2, <3>1, DoneFacts
  <2>3. QED
    BY <2>1, <2>2, Zenon DEF TryIo
<1>4. PICK p \in {"arm", "done"}, r \in {"none", "bad", "ok", "again"} :
        (p # "done" => r = "none") /\ Moved(f, p, r)
  BY <1>3
<1> USE DEF Moved
<1>5. TypeOK'
  BY <1>1, <1>2, <1>4, TypeFacts DEF IInv, TypeOK, Record, SockType
<1>6. TimerInv'
  BY <1>1, <1>4, NoTimer, TimerKeep
<1>7. MarkInv'
  BY <1>1, <1>4, MarkKeep
<1>8. PlaceInv'
  BY <1>1, <1>4 DEF IInv, PlaceInv
<1>9. WaitInv'
  BY <1>1, <1>4, WaitKeep
<1>10. EpollInv'
  BY <1>1, <1>2, <1>4, EpollKeep
<1>11. ConnInv'
  <2>1. Conn(f)'
    BY <1>1, <1>4 DEF Conn
  <2>2. sock.conn = "pending" => "WRITE" \notin sock'.ready
    BY <1>2 DEF IInv, ConnInv
  <2>3. QED
    BY <1>2, <1>4, <2>1, <2>2, ConnKeep
<1>12. QED
  BY <1>5, <1>6, <1>7, <1>8, <1>9, <1>10, <1>11 DEF IInv

LEMMA TryConnectStep == ASSUME IInv, NEW f \in Fibers, TryConnect(f) PROVE IInv'
<1>1. /\ fiber \in [Fibers -> Record] /\ sock \in SockType
      /\ fiber[f].pc = "try" /\ fiber[f].op = "connect" /\ fiber[f].res = "none"
      /\ ~fiber[f].struck
      /\ UNCHANGED <<arms, timers, cbs, waiter, opens, report, fired>>
  BY TypeFacts DEF IInv, TryConnect, At, PlaceInv
<1>2. \E p \in {"arm", "done"}, r \in {"none", "bad", "ok", "again", "refused"} :
        /\ (p = "arm" => r = "none") /\ Moved(f, p, r)
        /\ sock' \in SockType /\ sock'.epoll = sock.epoll /\ sock'.ctx = sock.ctx
        /\ sock'.open = sock.open
        /\ \/ sock' = sock /\ p = "done"
           \/ /\ sock.open /\ sock'.conn # "new" /\ "WRITE" \notin sock'.ready
  <2>1. CASE ~sock.open
    BY <1>1, <2>1, DoneFacts DEF TryConnect
  <2>2. CASE sock.open
    <3>1. PICK now \in {"pending", "up", "refused"} :
            /\ sock' = [sock EXCEPT !.conn = now, !.ready = @ \ {"WRITE"}]
            /\ IF now # "pending" THEN Done(f, IF now = "up" THEN "ok" ELSE "refused")
               ELSE IF fiber[f].plain THEN Done(f, "again") ELSE Goto(f, "arm")
      BY <2>2, Zenon DEF TryConnect
    <3>2. /\ sock' \in SockType /\ sock'.epoll = sock.epoll /\ sock'.ctx = sock.ctx
          /\ sock'.open = sock.open /\ sock'.conn = now /\ "WRITE" \notin sock'.ready
      BY <1>1, <3>1 DEF SockType
    <3>3. \E p \in {"arm", "done"}, r \in {"none", "ok", "again", "refused"} :
            (p = "arm" => r = "none") /\ Moved(f, p, r)
      <4>1. ASSUME NEW r \in {"ok", "again", "refused"}, Done(f, r) PROVE Moved(f, "done", r)
        BY <1>1, <4>1, DoneFacts
      <4>2. ASSUME Goto(f, "arm") PROVE Moved(f, "arm", "none")
        BY <1>1, <4>2, GotoFacts
      <4>3. QED
        BY <3>1, <4>1, <4>2
    <3>4. QED
      BY <2>2, <3>2, <3>3
  <2>3. QED
    BY <2>1, <2>2
<1>3. PICK p \in {"arm", "done"}, r \in {"none", "bad", "ok", "again", "refused"} :
        /\ (p = "arm" => r = "none") /\ Moved(f, p, r)
        /\ sock' \in SockType /\ sock'.epoll = sock.epoll /\ sock'.ctx = sock.ctx
        /\ sock'.open = sock.open
        /\ \/ sock' = sock /\ p = "done"
           \/ /\ sock.open /\ sock'.conn # "new" /\ "WRITE" \notin sock'.ready
  BY <1>2
<1> USE DEF Moved
<1>4. TypeOK'
  BY <1>1, <1>3, TypeFacts DEF IInv, TypeOK, Record, SockType
<1>5. TimerInv'
  BY <1>1, <1>3, NoTimer, TimerKeep
<1>6. MarkInv'
  BY <1>1, <1>3, MarkKeep
<1>7. PlaceInv'
  BY <1>1, <1>3, CallFacts DEF IInv, PlaceInv
<1>8. WaitInv'
  BY <1>1, <1>3, WaitKeep
<1>9. EpollInv'
  BY <1>1, <1>3, EpollKeep
<1>10. ConnInv'
  <2>1. \A g \in Fibers \ {f} : fiber[g].op # "connect"
    BY <1>1, CallFacts DEF IInv, WaitInv
  <2>2. CASE sock' = sock
    BY <1>1, <1>3, <2>1, <2>2 DEF IInv, ConnInv
  <2>3. CASE sock.open /\ sock'.conn # "new" /\ "WRITE" \notin sock'.ready
    BY <1>1, <1>3, <2>1, <2>3 DEF ConnInv
  <2>4. QED
    BY <1>3, <2>2, <2>3
<1>11. QED
  BY <1>4, <1>5, <1>6, <1>7, <1>8, <1>9, <1>10 DEF IInv

LEMMA ArmStep == ASSUME IInv, NEW f \in Fibers, Arm(f) PROVE IInv'
<1> DEFINE op == fiber[f].op
           p == IF op \in Sleeps THEN "hold" ELSE "add"
           t0 == [owner |-> f, arm |-> arms[f] + 1, op |-> op]
<1>1. /\ fiber \in [Fibers -> Record] /\ arms \in [Fibers -> Nat] /\ fired \in [Fibers -> Nat]
      /\ timers \subseteq Timer /\ MaxArms \in [Fibers -> Nat]
      /\ fiber[f].pc = "arm" /\ op \in WaitCalls \cup Sleeps /\ fiber[f].res = "none"
      /\ UNCHANGED <<cbs, waiter, sock, opens, report, fired>>
  BY TypeFacts, HookAssumption DEF IInv, Arm, At, PlaceInv
<1>2. Moved(f, p, "none")
  <2>1. Goto(f, p) /\ p \in {"hold", "add"}
    BY DEF Arm
  <2>2. QED
    BY <1>1, <2>1, GotoFacts
<1>3. /\ op \in Calls /\ (op \in WaitCalls => op \notin Sleeps)
      /\ p \in {"hold", "add"} /\ (op \in Sleeps <=> p = "hold")
  BY <1>1, CallFacts DEF WaitCalls, Sleeps, Calls, ReadCalls, WriteCalls
<1>4. \/ arms' = arms /\ timers' = timers
      \/ /\ arms[f] < MaxArms[f] /\ arms' = [arms EXCEPT ![f] = @ + 1]
         /\ timers' = timers \cup {t0}
  BY DEF Arm
<1>5. /\ t0.owner = f /\ t0.arm = arms[f] + 1 /\ t0.op = op /\ t0 \in Timer
  BY <1>1, <1>3 DEF Timer
<1> HIDE DEF t0, p
<1>6. /\ arms' \in [Fibers -> Nat] /\ \A g \in Fibers \ {f} : arms'[g] = arms[g]
      /\ arms'[f] \in {arms[f], arms[f] + 1} /\ \A g \in Fibers : arms'[g] <= MaxArms[g]
      /\ timers' \subseteq timers \cup {t0} /\ (t0 \in timers' => arms'[f] = t0.arm \/ t0 \in timers)
  BY <1>1, <1>4, <1>5, TypeFacts DEF IInv
<1> USE DEF Moved
<1>7. TypeOK'
  BY <1>1, <1>2, <1>5, <1>6, TypeFacts DEF IInv, TypeOK, Record
<1>8. TimerInv'
  <2>1. /\ \A t \in timers : t.owner # f
        /\ \A c \in cbs : c.timer.op \in Sleeps => c.timer.owner # f
    BY <1>1, NoTimer
  <2>2. ASSUME NEW t \in timers'
        PROVE  /\ t.arm = arms'[t.owner] /\ fired'[t.owner] < t.arm
               /\ t.op = fiber'[t.owner].op
               /\ fiber'[t.owner].pc \in {"add", "hold", "wake"}
               /\ t.op \in Sleeps => fiber'[t.owner].pc = "hold"
    <3>1. CASE t = t0
      <4>1. arms'[f] = arms[f] + 1
        BY <1>5, <1>6, <2>1, <3>1
      <4>2. fired[f] <= arms[f]
        BY DEF IInv, TimerInv
      <4>3. QED
        BY <1>1, <1>2, <1>3, <1>5, <3>1, <4>1, <4>2
    <3>2. CASE t # t0
      <4>1. t \in timers /\ t.owner \in Fibers \ {f}
        BY <1>1, <1>6, <2>1, <3>2 DEF Timer
      <4>2. QED
        BY <1>1, <1>2, <1>6, <4>1 DEF IInv, TimerInv
    <3>3. QED
      BY <3>1, <3>2
  <2>3. ASSUME NEW c \in cbs
        PROVE  /\ c.timer.arm <= fired[c.timer.owner]
               /\ c.timer.op \in Sleeps =>
                    /\ c.at = "run" /\ c.timer.arm = arms'[c.timer.owner]
                    /\ c.timer.op = fiber'[c.timer.owner].op
                    /\ fiber'[c.timer.owner].pc = "hold"
               /\ c.at = "cancel" /\ Tinfo(c.timer)' => fiber'[c.timer.owner].cancelled
    <3>1. c.timer.owner \in Fibers
      BY TypeFacts DEF IInv, Timer
    <3>2. Tinfo(c.timer)' <=> Tinfo(c.timer)
      BY <1>2, <3>1 DEF Tinfo
    <3>3. QED
      BY <1>2, <1>6, <2>1, <3>1, <3>2 DEF IInv, TimerInv
  <2>4. \A g \in Fibers : fired[g] <= arms'[g] /\ fiber'[g].base <= arms'[g]
    BY <1>1, <1>2, <1>6 DEF IInv, TimerInv, Record
  <2>5. QED
    BY <1>1, <2>2, <2>3, <2>4, Zenon DEF TimerInv
<1>9. MarkInv'
  BY <1>1, <1>2, MarkKeep
<1>10. PlaceInv'
  BY <1>1, <1>2, <1>3 DEF IInv, PlaceInv
<1>11. WaitInv'
  BY <1>1, <1>2, <1>3, WaitKeep
<1>12. EpollInv'
  BY <1>1, <1>2, <1>3, EpollKeep
<1>13. ConnInv'
  <2>1. Conn(f)'
    BY <1>1, <1>2, <1>3, CallFacts DEF Conn, IInv, ConnInv
  <2>2. QED
    BY <1>1, <1>2, <2>1, ConnKeep DEF IInv, ConnInv
<1>14. QED
  BY <1>7, <1>8, <1>9, <1>10, <1>11, <1>12, <1>13 DEF IInv

LEMMA AddEventStep == ASSUME IInv, NEW f \in Fibers, AddEvent(f) PROVE IInv'
<1> DEFINE op == fiber[f].op
           e == EventOf(op)
           struck == fiber[f].struck \/ (op = "connect" /\ Reported(e))
           new == [fiber[f] EXCEPT !.pc = "hold", !.late = Closing, !.struck = struck]
<1>1. /\ fiber \in [Fibers -> Record] /\ sock \in SockType
      /\ waiter \in [Events -> Fibers \cup {NoFiber}] /\ NoFiber \notin Fibers
      /\ fiber[f].pc = "add" /\ op \in WaitCalls /\ e \in Events /\ fiber[f].res = "none"
      /\ sock.open /\ (sock.epoll <=> \E d \in Events : waiter[d] # NoFiber)
  BY TypeFacts, CallFacts, HookAssumption DEF IInv, AddEvent, At, PlaceInv, MayRegister
<1>2. /\ waiter' = [waiter EXCEPT ![e] = f] /\ sock' = [sock EXCEPT !.epoll = TRUE]
      /\ fiber' = [fiber EXCEPT ![f] = new]
      /\ UNCHANGED <<arms, timers, cbs, opens, report, fired>>
  BY DEF AddEvent
<1>3. Closing \in BOOLEAN /\ struck \in BOOLEAN /\ (fiber[f].struck => struck)
  BY Zenon DEF Closing
<1> HIDE DEF struck
<1>4. /\ new \in Record /\ new.pc = "hold" /\ new.op = op /\ new.base = fiber[f].base
      /\ new.cancelled = fiber[f].cancelled /\ new.struck = struck
      /\ new.late = Closing /\ new.res = "none"
  BY <1>1, <1>3 DEF Record
<1> HIDE DEF new
<1>5. /\ fiber' \in [Fibers -> Record] /\ fiber'[f] = new
      /\ \A g \in Fibers \ {f} : fiber'[g] = fiber[g]
  BY <1>1, <1>2, <1>4
<1>6. /\ sock' \in SockType /\ sock'.epoll = TRUE /\ sock'.ctx = sock.ctx /\ sock'.open = sock.open
      /\ sock'.conn = sock.conn /\ sock'.ready = sock.ready
  BY <1>1, <1>2 DEF SockType
<1>7. /\ waiter' \in [Events -> Fibers \cup {NoFiber}]
      /\ \A d \in Events : waiter'[d] = IF d = e THEN f ELSE waiter[d]
  BY <1>1, <1>2
<1>8. TypeOK'
  BY <1>2, <1>5, <1>6, <1>7, TypeFacts DEF IInv, TypeOK, Record, SockType
<1>9. TimerInv'
  BY <1>1, <1>2, <1>4, <1>5, TimerKeep
<1>10. MarkInv'
  BY <1>2, <1>4, <1>5, MarkKeep
<1>11. PlaceInv'
  BY <1>1, <1>4, <1>5 DEF IInv, PlaceInv
<1>12. \A g \in Fibers : Holds(g)' <=> Holds(g) \/ g = f
  BY <1>1, <1>4, <1>5 DEF Holds
<1>13. WaitInv'
  <2>1. \A g \in Fibers : fiber'[g].op = fiber[g].op
    BY <1>4, <1>5
  <2>2. \A g, h \in Fibers : fiber'[g].op \in WaitCalls /\ fiber'[h].op \in WaitCalls
          /\ EventOf(fiber'[g].op) = EventOf(fiber'[h].op) => g = h
    BY <2>1 DEF IInv, WaitInv
  <2>3. ASSUME NEW g \in Fibers, Holds(g)' PROVE waiter'[EventOf(fiber'[g].op)] = g
    <3>1. CASE g = f
      BY <1>1, <1>7, <2>1, <3>1
    <3>2. CASE g # f
      <4>1. Holds(g) /\ EventOf(fiber[g].op) # e /\ EventOf(fiber[g].op) \in Events
        BY <1>1, <1>12, <2>3, <3>2, CallFacts DEF IInv, WaitInv, Holds
      <4>2. QED
        BY <1>7, <2>1, <4>1 DEF IInv, WaitInv
    <3>3. QED
      BY <3>1, <3>2
  <2>4. ASSUME NEW d \in Events, waiter'[d] # NoFiber
        PROVE  Holds(waiter[d])' /\ EventOf(fiber'[waiter'[d]].op) = d
    <3>1. CASE d = e
      BY <1>7, <1>12, <2>1, <3>1 DEF Holds
    <3>2. CASE d # e
      <4>1. waiter'[d] = waiter[d] /\ waiter[d] \in Fibers
        BY <1>1, <1>7, <2>4, <3>2
      <4>2. Holds(waiter[d]) /\ EventOf(fiber[waiter[d]].op) = d
        BY <2>4, <4>1 DEF IInv, WaitInv
      <4>3. QED
        BY <1>12, <2>1, <4>1, <4>2 DEF Holds
    <3>3. QED
      BY <3>1, <3>2
  <2>5. QED
    BY <2>2, <2>3, <2>4, Zenon DEF WaitInv
<1>14. EpollInv'
  <2>1. Closing' <=> Closing
    BY <1>1, <1>4, <1>5 DEF Closing
  <2>2. Closing \/ ~sock.ctx => Closing
    BY <1>1 DEF IInv, EpollInv, Closing
  <2>3. fiber'[f].late <=> Closing
    BY <1>4, <1>5, Zenon
  <2>4. \A g \in Fibers \ {f} : (Holds(g)' <=> Holds(g)) /\ fiber'[g].late = fiber[g].late
    BY <1>5, <1>12
  <2>5. \A g \in Fibers : fiber[g].pc = "close" => fiber'[g].pc = "close"
    BY <1>1, <1>5
  <2>6. QED
    BY <1>1, <1>6, <2>1, <2>2, <2>3, <2>4, <2>5 DEF IInv, EpollInv
<1>15. ConnInv'
  <2>1. Conn(f)'
    BY <1>1, <1>3, <1>4, <1>5, <1>6 DEF Conn, IInv, ConnInv
  <2>2. QED
    BY <1>5, <1>6, <2>1, ConnKeep DEF IInv, ConnInv
<1>16. QED
  BY <1>8, <1>9, <1>10, <1>11, <1>13, <1>14, <1>15 DEF IInv

(* A fiber that does not wait goes on, and nothing but its own timer goes. *)
LEMMA MoveStep ==
    ASSUME IInv, NEW f \in Fibers, NEW p \in {"done", "check", "try", "error"},
           NEW r \in {"none", "ok", "bad", "refused", "timeout"}, Moved(f, p, r),
           timers' \subseteq timers, \A t \in timers' : t.owner # f,
           UNCHANGED <<arms, cbs, waiter, sock, opens, report, fired>>,
           fiber[f].pc \in {"wake", "check", "error"},
           p # "done" => r = "none", r = "timeout" => fiber[f].cancelled,
           p \in {"try", "check"} => fiber[f].op \in WaitCalls,
           p = "try" => fiber[f].op # "connect", p = "error" => fiber[f].op = "connect",
           Conn(f)'
    PROVE  IInv'
<1> USE DEF Moved
<1>1. TypeOK'
  BY TypeFacts DEF IInv, TypeOK, Record
<1>2. TimerInv'
  <2>1. \A c \in cbs' : c.timer.op \in Sleeps => c.timer.owner # f
    BY DEF IInv, TimerInv
  <2>2. QED
    BY <2>1, TimerKeep
<1>3. MarkInv'
  BY MarkKeep
<1>4. PlaceInv'
  BY DEF IInv, PlaceInv
<1>5. WaitInv'
  BY WaitKeep
<1>6. EpollInv'
  BY EpollKeep
<1>7. ConnInv'
  BY ConnKeep DEF IInv, ConnInv
<1>8. QED
  BY <1>1, <1>2, <1>3, <1>4, <1>5, <1>6, <1>7 DEF IInv

LEMMA ResumeStep == ASSUME IInv, NEW f \in Fibers, Resume(f) PROVE IInv'
<1> DEFINE p == IF fiber[f].op \in Sleeps THEN "done" ELSE "check"
<1>1. /\ fiber \in [Fibers -> Record] /\ fiber[f].pc = "wake" /\ fiber[f].res = "none"
      /\ fiber[f].op \in WaitCalls \cup Sleeps
      /\ timers' = Disarmed(f) /\ UNCHANGED <<arms, cbs, waiter, sock, opens, report, fired>>
  BY TypeFacts DEF IInv, Resume, At, PlaceInv
<1>2. Moved(f, p, "none")
  BY <1>1, GotoFacts DEF Resume
<1>3. timers' \subseteq timers /\ \A t \in timers' : t.owner # f
  BY <1>1 DEF Disarmed
<1>4. Conn(f)'
  BY <1>1, <1>2 DEF Conn, Moved, IInv, ConnInv
<1>5. QED
  BY <1>1, <1>2, <1>3, <1>4, MoveStep

LEMMA CheckStep == ASSUME IInv, NEW f \in Fibers, Check(f) PROVE IInv'
<1>1. /\ fiber \in [Fibers -> Record] /\ fiber[f].pc = "check" /\ fiber[f].res = "none"
      /\ fiber[f].op \in WaitCalls
      /\ UNCHANGED <<arms, timers, cbs, waiter, sock, opens, report, fired>>
  BY TypeFacts DEF IInv, Check, At, PlaceInv
<1>2. \A t \in timers' : t.owner # f
  BY <1>1, NoTimer
<1>3. CASE fiber[f].cancelled
  <2>1. Moved(f, "done", "timeout")
    BY <1>1, <1>3, DoneFacts DEF Check
  <2>2. Conn(f)'
    BY <2>1 DEF Conn, Moved
  <2>3. QED
    BY <1>1, <1>2, <1>3, <2>1, <2>2, MoveStep
<1>4. CASE ~fiber[f].cancelled
  <2> DEFINE p == IF fiber[f].op = "connect" THEN "error" ELSE "try"
  <2>1. Moved(f, p, "none")
    BY <1>1, <1>4, GotoFacts DEF Check
  <2>2. Conn(f)'
    BY <1>1, <1>4, <2>1 DEF Conn, Moved, IInv, ConnInv
  <2>3. QED
    BY <1>1, <1>2, <2>1, <2>2, MoveStep
<1>5. QED
  BY <1>3, <1>4

LEMMA SockErrorStep == ASSUME IInv, NEW f \in Fibers, SockError(f) PROVE IInv'
<1> DEFINE r == IF ~sock.open THEN "bad" ELSE IF sock.conn = "refused" THEN "refused" ELSE "ok"
<1>1. /\ fiber \in [Fibers -> Record] /\ fiber[f].pc = "error"
      /\ UNCHANGED <<arms, timers, cbs, waiter, sock, opens, report, fired>>
  BY TypeFacts DEF IInv, SockError, At
<1>2. \A t \in timers' : t.owner # f
  BY <1>1, NoTimer
<1>3. r \in {"bad", "refused", "ok"} /\ Done(f, r)
  BY DEF SockError
<1> HIDE DEF r
<1>4. Moved(f, "done", r)
  BY <1>1, <1>3, DoneFacts
<1>5. Conn(f)'
  BY <1>4 DEF Conn, Moved
<1>6. QED
  BY <1>1, <1>2, <1>3, <1>4, <1>5, MoveStep

LEMMA AddFailsStep == ASSUME IInv, NEW f \in Fibers, AddFails(f) PROVE IInv'
<1> DEFINE connect == fiber[f].op = "connect"
           new == [fiber[f] EXCEPT !.pc = IF connect THEN "error" ELSE "done",
                                   !.res = IF connect THEN "none" ELSE "failed",
                                   !.struck = connect]
<1>1. /\ fiber \in [Fibers -> Record] /\ fiber[f].pc = "add" /\ fiber[f].op \in WaitCalls
      /\ fiber' = [fiber EXCEPT ![f] = new] /\ timers' = Disarmed(f)
      /\ UNCHANGED <<arms, cbs, waiter, sock, opens, report, fired>>
  BY TypeFacts DEF IInv, AddFails, At, PlaceInv
<1>2. connect \in BOOLEAN
  BY Zenon
<1>3. /\ new \in Record /\ new.op = fiber[f].op /\ new.base = fiber[f].base
      /\ new.cancelled = fiber[f].cancelled /\ new.late = fiber[f].late
      /\ new.struck = connect
      /\ new.pc = (IF connect THEN "error" ELSE "done")
      /\ new.res = (IF connect THEN "none" ELSE "failed")
  BY <1>1, <1>2 DEF Record
<1>4. new.struck <=> connect
  BY <1>3, Zenon
<1> HIDE DEF new
<1>5. /\ fiber' \in [Fibers -> Record] /\ fiber'[f] = new
      /\ \A g \in Fibers \ {f} : fiber'[g] = fiber[g]
  BY <1>1, <1>3
<1>6. TypeOK'
  BY <1>1, <1>5, TypeFacts DEF IInv, TypeOK, Record, Disarmed
<1>7. TimerInv'
  <2>1. timers' \subseteq timers /\ \A t \in timers' : t.owner # f
    BY <1>1 DEF Disarmed
  <2>2. \A c \in cbs' : c.timer.op \in Sleeps => c.timer.owner # f
    BY <1>1 DEF IInv, TimerInv
  <2>3. QED
    BY <1>1, <1>3, <1>5, <2>1, <2>2, TimerKeep
<1>8. MarkInv'
  BY <1>1, <1>3, <1>5, MarkKeep
<1>9. PlaceInv'
  BY <1>1, <1>3, <1>5 DEF IInv, PlaceInv
<1>10. WaitInv'
  BY <1>1, <1>3, <1>5, WaitKeep
<1>11. EpollInv'
  BY <1>1, <1>3, <1>5, EpollKeep
<1>12. ConnInv'
  <2>1. Conn(f)'
    BY <1>3, <1>4, <1>5 DEF Conn
  <2>2. QED
    BY <1>1, <1>5, <2>1, ConnKeep DEF IInv, ConnInv
<1>13. QED
  BY <1>6, <1>7, <1>8, <1>9, <1>10, <1>11, <1>12 DEF IInv

LEMMA ReturnStep == ASSUME IInv, NEW f \in Fibers, Return(f) PROVE IInv'
<1>1. /\ fiber \in [Fibers -> Record] /\ fiber[f].pc = "done"
      /\ fiber' = [fiber EXCEPT ![f] = Idle]
      /\ waiter \in [Events -> Fibers \cup {NoFiber}]
      /\ UNCHANGED <<arms, timers, cbs, waiter, sock, opens, report, fired>>
  BY TypeFacts DEF IInv, Return, At
<1>2. /\ Idle \in Record /\ Idle.op = "none" /\ Idle.base = 0 /\ Idle.cancelled = FALSE
      /\ Idle.pc = "idle" /\ Idle.res = "none" /\ ~Idle.cancelled
  BY DEF Idle, Record
<1>3. /\ fiber' \in [Fibers -> Record] /\ fiber'[f] = Idle
      /\ \A g \in Fibers \ {f} : fiber'[g] = fiber[g]
  BY <1>1, <1>2
<1>4. TypeOK'
  BY <1>1, <1>3, TypeFacts DEF IInv, TypeOK, Record
<1>5. "none" \notin WaitCalls
  BY CallFacts
<1>6. TimerInv'
  <2>1. /\ \A t \in timers : t.owner \in Fibers \ {f}
        /\ \A c \in cbs : c.timer.op \in Sleeps => c.timer.owner \in Fibers \ {f}
        /\ \A c \in cbs : c.timer.owner \in Fibers
    BY <1>1, NoTimer, TypeFacts DEF IInv, Timer
  <2>2. \A c \in cbs : Tinfo(c.timer)' => Tinfo(c.timer) /\ c.timer.owner # f
    BY <1>2, <1>3, <1>5, <2>1 DEF Tinfo
  <2>3. \A g \in Fibers : fired'[g] <= arms'[g] /\ fiber'[g].base <= arms'[g]
    BY <1>1, <1>2, <1>3, TypeFacts DEF IInv, TimerInv
  <2>4. ASSUME NEW t \in timers'
        PROVE  /\ t.arm = arms'[t.owner] /\ fired'[t.owner] < t.arm
               /\ t.op = fiber'[t.owner].op
               /\ fiber'[t.owner].pc \in {"add", "hold", "wake"}
               /\ t.op \in Sleeps => fiber'[t.owner].pc = "hold"
    BY <1>1, <1>3, <2>1 DEF IInv, TimerInv
  <2>5. ASSUME NEW c \in cbs'
        PROVE  /\ c.timer.arm <= fired'[c.timer.owner]
               /\ c.timer.op \in Sleeps =>
                    /\ c.at = "run" /\ c.timer.arm = arms'[c.timer.owner]
                    /\ c.timer.op = fiber'[c.timer.owner].op
                    /\ fiber'[c.timer.owner].pc = "hold"
               /\ c.at = "cancel" /\ Tinfo(c.timer)' => fiber'[c.timer.owner].cancelled
    BY <1>1, <1>3, <2>1, <2>2 DEF IInv, TimerInv
  <2>6. QED
    BY <2>3, <2>4, <2>5, Zenon DEF TimerInv
<1>7. MarkInv'
  BY <1>1, <1>2, <1>3 DEF IInv, MarkInv
<1>8. PlaceInv'
  BY <1>2, <1>3 DEF IInv, PlaceInv
<1>9. \A g \in Fibers : (Holds(g)' <=> Holds(g)) /\ (Holds(g) => g # f)
  BY <1>1, <1>2, <1>3 DEF Holds
<1>10. WaitInv'
  <2>1. \A g, h \in Fibers : fiber'[g].op \in WaitCalls /\ fiber'[h].op \in WaitCalls
          /\ EventOf(fiber'[g].op) = EventOf(fiber'[h].op) => g = h
    BY <1>2, <1>3, <1>5 DEF IInv, WaitInv
  <2>2. \A g \in Fibers : Holds(g)' => waiter'[EventOf(fiber'[g].op)] = g
    BY <1>1, <1>3, <1>9 DEF IInv, WaitInv
  <2>3. ASSUME NEW d \in Events, waiter'[d] # NoFiber
        PROVE  Holds(waiter[d])' /\ EventOf(fiber'[waiter'[d]].op) = d
    <3>1. waiter[d] \in Fibers /\ Holds(waiter[d]) /\ EventOf(fiber[waiter[d]].op) = d
      BY <1>1, <2>3 DEF IInv, WaitInv
    <3>2. fiber'[waiter'[d]] = fiber[waiter[d]]
      BY <1>1, <1>3, <1>9, <3>1
    <3>3. QED
      BY <3>1, <3>2 DEF Holds
  <2>4. QED
    BY <2>1, <2>2, <2>3, Zenon DEF WaitInv
<1>11. EpollInv'
  <2>1. Closing' => Closing
    BY <1>2, <1>3 DEF Closing
  <2>2. \A g \in Fibers : Holds(g) => fiber'[g] = fiber[g]
    BY <1>3, <1>9
  <2>3. \A g \in Fibers : fiber[g].pc = "close" => fiber'[g].pc = "close"
    BY <1>1, <1>3
  <2>4. QED
    BY <1>1, <1>9, <2>1, <2>2, <2>3 DEF IInv, EpollInv
<1>12. ConnInv'
  BY <1>1, <1>2, <1>3 DEF IInv, ConnInv
<1>13. QED
  BY <1>4, <1>6, <1>7, <1>8, <1>10, <1>11, <1>12 DEF IInv

LEMMA TriggerOne ==
    ASSUME TypeOK, NEW e \in Events, NEW S, Trigger({e}, S)
    PROVE  /\ fiber' \in [Fibers -> Record]
           /\ waiter' \in [Events -> Fibers \cup {NoFiber}] /\ sock' \in SockType
           /\ \A g \in Fibers :
                /\ fiber'[g].pc = IF g = waiter[e] THEN "wake" ELSE fiber[g].pc
                /\ fiber'[g].op = fiber[g].op /\ fiber'[g].plain = fiber[g].plain
                /\ fiber'[g].base = fiber[g].base /\ fiber'[g].cancelled = fiber[g].cancelled
                /\ fiber'[g].struck <=>
                     fiber[g].struck \/ (g = waiter[e] /\ g \in S /\ fiber[g].op = "connect")
                /\ fiber'[g].res = fiber[g].res
           /\ \A d \in Events : waiter'[d] = IF d = e THEN NoFiber ELSE waiter[d]
           /\ sock'.epoll <=> \E d \in Events \ {e} : waiter[d] # NoFiber
           /\ sock'.open = sock.open /\ sock'.ctx = sock.ctx
           /\ sock'.ready = sock.ready /\ sock'.conn = sock.conn
<1> DEFINE E == {e}
<1>1. E \in SUBSET Events /\ Trigger(E, S)
  OBVIOUS
<1>2. \A g \in Fibers : (\E d \in E : waiter[d] = g) <=> g = waiter[e]
  OBVIOUS
<1>3. \A d \in Events : d \in E <=> d = e
  OBVIOUS
<1> HIDE DEF E
<1>4. /\ fiber' \in [Fibers -> Record]
      /\ waiter' \in [Events -> Fibers \cup {NoFiber}] /\ sock' \in SockType
      /\ \A g \in Fibers :
           /\ fiber'[g].pc = IF \E d \in E : waiter[d] = g THEN "wake" ELSE fiber[g].pc
           /\ fiber'[g].op = fiber[g].op /\ fiber'[g].plain = fiber[g].plain
           /\ fiber'[g].base = fiber[g].base /\ fiber'[g].cancelled = fiber[g].cancelled
           /\ fiber'[g].struck <=>
                fiber[g].struck \/ ((\E d \in E : waiter[d] = g) /\ g \in S
                                    /\ fiber[g].op = "connect")
           /\ (~\E d \in E : waiter[d] = g) => fiber'[g].late = fiber[g].late
           /\ fiber'[g].res = fiber[g].res
      /\ \A d \in Events : waiter'[d] = IF d \in E THEN NoFiber ELSE waiter[d]
      /\ sock'.epoll <=> \E d \in Events \ E : waiter[d] # NoFiber
      /\ sock'.open = sock.open /\ sock'.ctx = sock.ctx
      /\ sock'.ready = sock.ready /\ sock'.conn = sock.conn
  BY <1>1, TriggerFacts
<1>5. QED
  BY <1>2, <1>3, <1>4

(* Events are triggered: their waiters go on, the others wait on. *)
LEMMA TriggerStep ==
    ASSUME IInv, NEW E \in SUBSET Events, E # {}, \A e \in E : Waited(e), NEW S, Trigger(E, S),
           cbs' \subseteq cbs, UNCHANGED <<arms, timers, opens, fired>>,
           report' \in [Idlers -> ReportType],
           \A g \in Fibers : (\E e \in E : waiter[e] = g) => Conn(g)'
    PROVE  IInv'
<1> DEFINE woken(g) == \E e \in E : waiter[e] = g
<1>1. /\ waiter \in [Events -> Fibers \cup {NoFiber}] /\ NoFiber \notin Fibers
      /\ sock \in SockType /\ cbs \subseteq [timer : Timer, at : {"run", "cancel"}]
  BY TypeFacts, HookAssumption DEF IInv
<1>2. /\ sock.epoll
      /\ \A e \in E : /\ waiter[e] \in Fibers /\ Holds(waiter[e])
                      /\ EventOf(fiber[waiter[e]].op) = e
  BY <1>1 DEF Waited, IInv, WaitInv
<1>3. /\ fiber' \in [Fibers -> Record]
      /\ waiter' \in [Events -> Fibers \cup {NoFiber}] /\ sock' \in SockType
      /\ \A g \in Fibers :
           /\ fiber'[g].pc = IF woken(g) THEN "wake" ELSE fiber[g].pc
           /\ fiber'[g].op = fiber[g].op /\ fiber'[g].plain = fiber[g].plain
           /\ fiber'[g].base = fiber[g].base /\ fiber'[g].cancelled = fiber[g].cancelled
           /\ fiber'[g].struck <=>
                fiber[g].struck \/ (woken(g) /\ g \in S
                                    /\ fiber[g].op = "connect")
           /\ (~woken(g)) => fiber'[g].late = fiber[g].late
           /\ fiber'[g].res = fiber[g].res
      /\ \A d \in Events : waiter'[d] = IF d \in E THEN NoFiber ELSE waiter[d]
      /\ sock'.epoll <=> \E d \in Events \ E : waiter[d] # NoFiber
      /\ sock'.open = sock.open /\ sock'.ctx = sock.ctx
      /\ sock'.ready = sock.ready /\ sock'.conn = sock.conn
  BY TriggerFacts DEF IInv
<1>0. ASSUME NEW g \in Fibers, woken(g)
      PROVE  /\ fiber[g].pc = "hold" /\ fiber[g].op \in WaitCalls /\ EventOf(fiber[g].op) \in E
             /\ waiter[EventOf(fiber[g].op)] = g
  BY <1>0, <1>2 DEF Holds
<1> HIDE DEF woken
<1>4. TypeOK'
  BY <1>1, <1>3, TypeFacts DEF IInv, TypeOK, Record, SockType, ReportType
<1>5. TimerInv'
  BY <1>0, <1>3, TimerKeep
<1>6. MarkInv'
  BY <1>3, MarkKeep
<1>7. PlaceInv'
  BY <1>0, <1>3 DEF IInv, PlaceInv
<1>8. \A g \in Fibers : Holds(g)' <=> Holds(g) /\ ~woken(g)
  BY <1>3 DEF Holds
<1>9. WaitInv'
  <2>1. \A g, h \in Fibers : fiber'[g].op \in WaitCalls /\ fiber'[h].op \in WaitCalls
          /\ EventOf(fiber'[g].op) = EventOf(fiber'[h].op) => g = h
    BY <1>3 DEF IInv, WaitInv
  <2>2. ASSUME NEW g \in Fibers, Holds(g)' PROVE waiter'[EventOf(fiber'[g].op)] = g
    <3>1. Holds(g) /\ ~woken(g)
      BY <1>8, <2>2
    <3>2. EventOf(fiber[g].op) \in Events /\ waiter[EventOf(fiber[g].op)] = g
      BY <3>1, CallFacts DEF IInv, WaitInv
    <3>3. EventOf(fiber[g].op) \notin E
      BY <3>1, <3>2 DEF woken
    <3>4. QED
      BY <1>3, <3>1, <3>2, <3>3
  <2>3. ASSUME NEW d \in Events, waiter'[d] # NoFiber
        PROVE  Holds(waiter[d])' /\ EventOf(fiber'[waiter'[d]].op) = d
    <3>1. d \notin E /\ waiter'[d] = waiter[d] /\ waiter[d] \in Fibers
      BY <1>1, <1>3, <2>3
    <3>2. Holds(waiter[d]) /\ EventOf(fiber[waiter[d]].op) = d
      BY <2>3, <3>1 DEF IInv, WaitInv
    <3>3. ~woken(waiter[d])
      BY <1>0, <3>1, <3>2
    <3>4. QED
      BY <1>3, <3>1, <3>2, <3>3 DEF Holds
  <2>4. QED
    BY <2>1, <2>2, <2>3, Zenon DEF WaitInv
<1>10. EpollInv'
  <2>1. ASSUME NEW g \in Fibers, Holds(g)' PROVE sock'.epoll
    <3>1. Holds(g) /\ ~woken(g)
      BY <1>8, <2>1
    <3>2. EventOf(fiber[g].op) \in Events /\ waiter[EventOf(fiber[g].op)] = g
      BY <3>1, CallFacts DEF IInv, WaitInv
    <3>3. EventOf(fiber[g].op) \notin E
      BY <3>1, <3>2 DEF woken
    <3>4. QED
      BY <1>1, <1>3, <3>2, <3>3
  <2>2. Closing' => Closing
    BY <1>3 DEF Closing
  <2>3. \A g \in Fibers : fiber[g].pc = "close" => fiber'[g].pc = "close"
    BY <1>0, <1>3
  <2>4. \A g \in Fibers : Holds(g)' => Holds(g) /\ fiber'[g].late = fiber[g].late
    BY <1>3, <1>8
  <2>5. QED
    BY <1>2, <1>3, <2>1, <2>2, <2>3, <2>4 DEF IInv, EpollInv
<1>11. ConnInv'
  <2>1. \A g \in Fibers : woken(g) => Conn(g)'
    BY DEF woken
  <2>2. QED
    BY <1>3, <2>1, ConnKeep DEF IInv, ConnInv
<1>12. QED
  BY <1>4, <1>5, <1>6, <1>7, <1>9, <1>10, <1>11 DEF IInv

LEMMA TriggerOneStep ==
    ASSUME IInv, NEW e \in Events, Waited(e), NEW S, Trigger({e}, S),
           cbs' \subseteq cbs, UNCHANGED <<arms, timers, opens, report, fired>>,
           \A g \in Fibers : g = waiter[e] => Conn(g)'
    PROVE  IInv'
<1> DEFINE E == {e}
<1>1. /\ E \in SUBSET Events /\ E # {} /\ Trigger(E, S) /\ \A d \in E : Waited(d)
      /\ \A g \in Fibers : (\E d \in E : waiter[d] = g) => Conn(g)'
  OBVIOUS
<1>2. report' \in [Idlers -> ReportType]
  BY TypeFacts DEF IInv
<1> HIDE DEF E
<1>3. QED
  BY <1>1, <1>2, TriggerStep

LEMMA CancelFromOutsideStep ==
    ASSUME IInv, NEW e \in Events, CancelFromOutside(e) PROVE IInv'
<1>1. /\ Waited(e) /\ Trigger({e}, Fibers) /\ UNCHANGED <<arms, timers, cbs, opens, report, fired>>
  BY DEF CancelFromOutside
<1>2. ASSUME NEW g \in Fibers, g = waiter[e] PROVE Conn(g)'
  <2>1. fiber'[g].op = fiber[g].op /\ (fiber[g].op = "connect" => fiber'[g].struck)
    BY <1>1, <1>2, TriggerOne DEF IInv
  <2>2. QED
    BY <2>1 DEF Conn
<1>3. QED
  BY <1>1, <1>2, TriggerOneStep

LEMMA EpollWaitStep == ASSUME IInv, NEW i \in Idlers, EpollWait(i) PROVE IInv'
<1> DEFINE E == {e \in sock.ready : Waited(e)}
           err == sock.epoll /\ sock.conn = "refused"
           new == [events |-> E, err |-> err]
<1>1. /\ UNCHANGED <<fiber, arms, timers, cbs, waiter, sock, opens, fired>>
      /\ report' = [report EXCEPT ![i] = new]
  BY DEF EpollWait
<1>2. E \in SUBSET Events
  BY TypeFacts DEF IInv, SockType
<1>3. err \in BOOLEAN
  BY Zenon
<1> HIDE DEF E, err
<1>4. new \in ReportType
  BY <1>2, <1>3 DEF ReportType
<1>5. report' \in [Idlers -> ReportType]
  BY <1>1, <1>4, TypeFacts DEF IInv
<1>6. TypeOK'
  BY <1>1, <1>5, TypeFacts DEF IInv, TypeOK, ReportType
<1>7. QED
  BY <1>1, <1>6 DEF IInv, TimerInv, MarkInv, PlaceInv, WaitInv, EpollInv, ConnInv,
                    Tinfo, Holds, Closing

LEMMA HandleEventStep ==
    ASSUME IInv, ReportInv, NEW i \in Idlers, HandleEvent(i) PROVE IInv'
<1> DEFINE E == RealEvents(i)
<1>1. /\ UNCHANGED <<arms, timers, cbs, opens, fired>>
      /\ report \in [Idlers -> ReportType] /\ report[i] \in ReportType
      /\ report' = [report EXCEPT ![i] = NoReport]
  BY TypeFacts DEF HandleEvent, IInv
<1>2. report' \in [Idlers -> ReportType]
  BY <1>1 DEF NoReport, ReportType
<1>3. E \in SUBSET Events
  BY <1>1 DEF RealEvents, ReportType
<1>4. CASE \E e \in E : Waited(e)
  <2>1. E # {} /\ (\A e \in E : Waited(e)) /\ Trigger(E, {})
    BY <1>4 DEF HandleEvent
  <2> HIDE DEF E
  <2>2. ASSUME NEW g \in Fibers, NEW e \in E, waiter[e] = g PROVE Conn(g)'
    <3>1. /\ fiber'[g].pc = "wake" /\ fiber'[g].op = fiber[g].op /\ sock'.conn = sock.conn
          /\ fiber[g].struck => fiber'[g].struck
      <4>1. TypeOK
        BY DEF IInv
      <4>2. /\ \A h \in Fibers :
                 /\ fiber'[h].pc = IF \E d \in E : waiter[d] = h THEN "wake" ELSE fiber[h].pc
                 /\ fiber'[h].op = fiber[h].op /\ fiber'[h].plain = fiber[h].plain
                 /\ fiber'[h].base = fiber[h].base /\ fiber'[h].cancelled = fiber[h].cancelled
                 /\ fiber'[h].struck <=>
                      fiber[h].struck \/ ((\E d \in E : waiter[d] = h) /\ h \in {}
                                          /\ fiber[h].op = "connect")
                 /\ (~\E d \in E : waiter[d] = h) => fiber'[h].late = fiber[h].late
                 /\ fiber'[h].res = fiber[h].res
            /\ sock'.conn = sock.conn
        BY <1>3, <2>1, <4>1, TriggerFacts
      <4>3. QED
        BY <2>2, <4>2
    <3>2. fiber[g].pc = "hold" /\ EventOf(fiber[g].op) = e
      BY <1>3, <2>1, <2>2 DEF Waited, IInv, WaitInv, Holds
    <3>3. fiber[g].op = "connect" => Reported("WRITE")
      <4>1. e \in report[i].events \/ report[i].err
        BY <2>2 DEF E, RealEvents
      <4>2. fiber[g].op = "connect" => e = "WRITE"
        BY <3>2, CallFacts
      <4>3. QED
        BY <4>1, <4>2 DEF Reported
    <3>4. fiber[g].op = "connect" /\ ~fiber[g].struck => sock.conn # "pending"
      BY <3>2, <3>3 DEF ReportInv
    <3>5. fiber[g].op = "connect" /\ ~fiber[g].struck => sock.conn # "new"
      BY <3>2 DEF IInv, ConnInv
    <3>6. sock.conn \in {"new", "pending", "up", "refused"}
      BY TypeFacts DEF IInv, SockType
    <3>7. QED
      BY <3>1, <3>4, <3>5, <3>6 DEF Conn
  <2>3. \A g \in Fibers : (\E e \in E : waiter[e] = g) => Conn(g)'
    BY <2>2
  <2>4. QED
    BY <1>1, <1>2, <1>3, <2>1, <2>3, TriggerStep
<1>5. CASE ~\E e \in E : Waited(e)
  <2>1. UNCHANGED <<fiber, waiter, sock>>
    BY <1>5 DEF HandleEvent
  <2>2. TypeOK'
    BY <1>1, <1>2, <2>1, TypeFacts DEF IInv, TypeOK, ReportType
  <2>3. QED
    BY <1>1, <2>1, <2>2 DEF IInv, TimerInv, MarkInv, PlaceInv, WaitInv, EpollInv, ConnInv,
                            Tinfo, Holds, Closing
<1>6. QED
  BY <1>4, <1>5

LEMMA CancelEventStep == ASSUME IInv, NEW c \in cbs, CancelEvent(c) PROVE IInv'
<1> DEFINE t == c.timer
           e == EventOf(t.op)
           w == waiter[e]
           S == IF w = t.owner /\ Tinfo(t) THEN {} ELSE {w}
<1>1. /\ c.at = "cancel" /\ cbs' = cbs \ {c} /\ UNCHANGED <<arms, timers, opens, report, fired>>
      /\ e \in Events
  BY CallFacts DEF CancelEvent
<1>2. CASE Waited(e)
  <2>1. Trigger({e}, S)
    BY <1>2, Zenon DEF CancelEvent
  <2>2. ASSUME NEW g \in Fibers, g = w PROVE Conn(g)'
    <3>1. /\ fiber'[g].pc = "wake" /\ fiber'[g].op = fiber[g].op /\ sock'.conn = sock.conn
          /\ fiber'[g].struck <=> fiber[g].struck \/ (g \in S /\ fiber[g].op = "connect")
          /\ fiber'[g].cancelled = fiber[g].cancelled
      <4> HIDE DEF S, e
      <4>1. TypeOK
        BY DEF IInv
      <4>2. /\ \A h \in Fibers :
                 /\ fiber'[h].pc = IF h = waiter[e] THEN "wake" ELSE fiber[h].pc
                 /\ fiber'[h].op = fiber[h].op /\ fiber'[h].plain = fiber[h].plain
                 /\ fiber'[h].base = fiber[h].base /\ fiber'[h].cancelled = fiber[h].cancelled
                 /\ fiber'[h].struck <=>
                      fiber[h].struck \/ (h = waiter[e] /\ h \in S /\ fiber[h].op = "connect")
                 /\ fiber'[h].res = fiber[h].res
            /\ sock'.conn = sock.conn
        BY <1>1, <2>1, <4>1, TriggerOne
      <4>3. QED
        BY <2>2, <4>2
    <3>2. CASE w = t.owner /\ Tinfo(t)
      <4>1. fiber[g].cancelled
        BY <1>1, <2>2, <3>2 DEF IInv, TimerInv
      <4>2. QED
        BY <3>1, <4>1 DEF Conn
    <3>3. CASE ~(w = t.owner /\ Tinfo(t))
      BY <2>2, <3>1, <3>3 DEF Conn
    <3>4. QED
      BY <3>2, <3>3
  <2> HIDE DEF S, e
  <2>3. QED
    BY <1>1, <1>2, <2>1, <2>2, TriggerOneStep
<1>3. CASE ~Waited(e)
  <2>1. UNCHANGED <<fiber, waiter, sock>>
    BY <1>3 DEF CancelEvent
  <2>2. TypeOK'
    BY <1>1, <2>1, TypeFacts DEF IInv, TypeOK
  <2>3. TimerInv' /\ MarkInv'
    BY <1>1, <2>1, TimerKeep, MarkKeep
  <2>4. PlaceInv' /\ WaitInv' /\ EpollInv' /\ ConnInv'
    BY <2>1 DEF IInv, PlaceInv, WaitInv, EpollInv, ConnInv, Holds, Closing
  <2>5. QED
    BY <2>2, <2>3, <2>4 DEF IInv
<1>4. QED
  BY <1>2, <1>3

LEMMA ExpireStep == ASSUME IInv, NEW t \in timers, Expire(t) PROVE IInv'
<1> DEFINE o == t.owner
           c0 == [timer |-> t, at |-> "run"]
<1>1. /\ t \in Timer /\ o \in Fibers /\ t.arm \in Nat /\ fired \in [Fibers -> Nat]
      /\ timers \subseteq Timer /\ cbs \subseteq [timer : Timer, at : {"run", "cancel"}]
      /\ arms \in [Fibers -> Nat]
  BY TypeFacts DEF IInv, Timer
<1>2. /\ timers' = timers \ {t} /\ cbs' = cbs \cup {c0}
      /\ fired' = [fired EXCEPT ![o] = t.arm] /\ UNCHANGED <<fiber, arms, waiter, sock, opens, report>>
  BY DEF Expire
<1>3. c0.timer = t /\ c0.at = "run" /\ c0 \in [timer : Timer, at : {"run", "cancel"}]
  BY <1>1
<1> HIDE DEF c0
<1>4. /\ fired' \in [Fibers -> Nat] /\ fired'[o] = t.arm /\ fired[o] < t.arm /\ t.arm = arms[o]
      /\ \A g \in Fibers \ {o} : fired'[g] = fired[g]
  BY <1>1, <1>2 DEF IInv, TimerInv
<1>5. TypeOK'
  BY <1>1, <1>2, <1>3, <1>4, TypeFacts DEF IInv, TypeOK
<1>6. TimerInv'
  <2>1. ASSUME NEW u \in timers'
        PROVE  /\ u.arm = arms'[u.owner] /\ fired'[u.owner] < u.arm
               /\ u.op = fiber'[u.owner].op
               /\ fiber'[u.owner].pc \in {"add", "hold", "wake"}
               /\ u.op \in Sleeps => fiber'[u.owner].pc = "hold"
    <3>1. u \in timers /\ u # t /\ u.owner \in Fibers
      BY <1>1, <1>2 DEF Timer
    <3>2. u.owner = o => u.arm = t.arm /\ u.op = t.op
      BY <3>1 DEF IInv, TimerInv
    <3>3. u.owner # o
      BY <1>1, <3>1, <3>2 DEF Timer
    <3>4. QED
      BY <1>2, <1>4, <3>1, <3>3 DEF IInv, TimerInv
  <2>2. ASSUME NEW c \in cbs'
        PROVE  /\ c.timer.arm <= fired'[c.timer.owner]
               /\ c.timer.op \in Sleeps =>
                    /\ c.at = "run" /\ c.timer.arm = arms'[c.timer.owner]
                    /\ c.timer.op = fiber'[c.timer.owner].op
                    /\ fiber'[c.timer.owner].pc = "hold"
               /\ c.at = "cancel" /\ Tinfo(c.timer)' => fiber'[c.timer.owner].cancelled
    <3>1. CASE c = c0
      BY <1>1, <1>2, <1>3, <1>4, <3>1 DEF IInv, TimerInv
    <3>2. CASE c # c0
      <4>1. c \in cbs /\ c.timer.owner \in Fibers /\ c.timer.arm \in Nat
        BY <1>1, <1>2, <3>2 DEF Timer
      <4>2. c.timer.arm <= fired[c.timer.owner]
        BY <4>1 DEF IInv, TimerInv
      <4>3. c.timer.arm <= fired'[c.timer.owner]
        BY <1>1, <1>4, <4>1, <4>2
      <4>4. Tinfo(c.timer)' <=> Tinfo(c.timer)
        BY <1>2 DEF Tinfo
      <4>5. QED
        BY <1>2, <4>1, <4>3, <4>4 DEF IInv, TimerInv
    <3>3. QED
      BY <3>1, <3>2
  <2>3. \A g \in Fibers : fired'[g] <= arms'[g] /\ fiber'[g].base <= arms'[g]
    BY <1>1, <1>2, <1>4 DEF IInv, TimerInv
  <2>4. QED
    BY <2>1, <2>2, <2>3, Zenon DEF TimerInv
<1>7. MarkInv'
  <2>1. \A g \in Fibers : fiber[g].base \in Nat
    BY TypeFacts DEF IInv, Record
  <2>2. QED
    BY <1>1, <1>2, <1>4, <2>1 DEF IInv, MarkInv
<1>8. PlaceInv' /\ WaitInv' /\ EpollInv' /\ ConnInv'
  BY <1>2 DEF IInv, PlaceInv, WaitInv, EpollInv, ConnInv, Holds, Closing
<1>9. QED
  BY <1>5, <1>6, <1>7, <1>8 DEF IInv

LEMMA RunCallbackStep == ASSUME IInv, NEW c \in cbs, RunCallback(c) PROVE IInv'
<1> DEFINE t == c.timer
           o == t.owner
           c1 == [c EXCEPT !.at = "cancel"]
<1>1. /\ fiber \in [Fibers -> Record] /\ o \in Fibers /\ t \in Timer /\ t.arm \in Nat
      /\ cbs \subseteq [timer : Timer, at : {"run", "cancel"}] /\ fired \in [Fibers -> Nat]
      /\ t.op \notin Sleeps /\ UNCHANGED <<arms, timers, waiter, sock, opens, report, fired>>
  BY TypeFacts DEF IInv, RunCallback, Timer
<1>2. CASE Tinfo(t) /\ ~fiber[o].cancelled
  <2>1. cbs' = (cbs \ {c}) \cup {c1} /\ fiber' = [fiber EXCEPT ![o].cancelled = TRUE]
    BY <1>2, Zenon DEF RunCallback
  <2>2. c1 \in [timer : Timer, at : {"run", "cancel"}] /\ c1.timer = t /\ c1.at = "cancel"
    BY <1>1
  <2> HIDE DEF c1
  <2> DEFINE new == [fiber[o] EXCEPT !.cancelled = TRUE]
  <2>2a. fiber[o] \in Record
    BY <1>1
  <2>2b. /\ new \in Record /\ new.pc = fiber[o].pc
        /\ new.op = fiber[o].op /\ new.base = fiber[o].base /\ new.struck = fiber[o].struck
        /\ new.late = fiber[o].late /\ new.res = fiber[o].res /\ new.cancelled
    BY <2>2a DEF Record
  <2>2c. fiber' = [fiber EXCEPT ![o] = new]
    BY <2>1
  <2> HIDE DEF new
  <2>2d. /\ fiber' \in [Fibers -> Record] /\ fiber'[o] = new
        /\ \A g \in Fibers \ {o} : fiber'[g] = fiber[g]
    BY <1>1, <2>2b, <2>2c
  <2>3. /\ fiber' \in [Fibers -> Record]
        /\ \A g \in Fibers :
             /\ fiber'[g].pc = fiber[g].pc /\ fiber'[g].op = fiber[g].op
             /\ fiber'[g].base = fiber[g].base /\ fiber'[g].struck = fiber[g].struck
             /\ fiber'[g].late = fiber[g].late /\ fiber'[g].res = fiber[g].res
             /\ g # o => fiber'[g].cancelled = fiber[g].cancelled
    BY <2>2b, <2>2d
  <2>4. fiber'[o].cancelled
    BY <2>2b, <2>2d
  <2>5. TypeOK'
    BY <1>1, <2>1, <2>2, <2>3, TypeFacts DEF IInv, TypeOK, Record
  <2>6. t.arm <= fired[o] /\ t.arm > fiber[o].base /\ fiber[o].base \in Nat
    BY <1>1, <1>2 DEF IInv, TimerInv, Tinfo, Record
  <2>7. MarkInv'
    BY <1>1, <2>3, <2>6 DEF IInv, MarkInv
  <2>8. TimerInv'
    <3>1. ASSUME NEW u \in timers'
          PROVE  /\ u.arm = arms'[u.owner] /\ fired'[u.owner] < u.arm
                 /\ u.op = fiber'[u.owner].op
                 /\ fiber'[u.owner].pc \in {"add", "hold", "wake"}
                 /\ u.op \in Sleeps => fiber'[u.owner].pc = "hold"
      <4>1. u \in timers /\ u.owner \in Fibers
        BY <1>1, TypeFacts DEF IInv, Timer
      <4>2. QED
        BY <1>1, <2>3, <4>1 DEF IInv, TimerInv
    <3>2. ASSUME NEW d \in cbs'
          PROVE  /\ d.timer.arm <= fired'[d.timer.owner]
                 /\ d.timer.op \in Sleeps =>
                      /\ d.at = "run" /\ d.timer.arm = arms'[d.timer.owner]
                      /\ d.timer.op = fiber'[d.timer.owner].op
                      /\ fiber'[d.timer.owner].pc = "hold"
                 /\ d.at = "cancel" /\ Tinfo(d.timer)' => fiber'[d.timer.owner].cancelled
      <4>1. CASE d = c1
        BY <1>1, <2>2, <2>4, <2>6, <4>1
      <4>2. CASE d # c1
        <5>1. d \in cbs /\ d.timer.owner \in Fibers
          BY <1>1, <2>1, <4>2 DEF Timer
        <5>2. Tinfo(d.timer)' <=> Tinfo(d.timer)
          BY <2>3, <5>1 DEF Tinfo
        <5>3. fiber[d.timer.owner].cancelled => fiber'[d.timer.owner].cancelled
          BY <2>3, <2>4, <5>1
        <5>4. QED
          BY <1>1, <2>3, <5>1, <5>2, <5>3 DEF IInv, TimerInv
      <4>3. QED
        BY <4>1, <4>2
    <3>3. \A g \in Fibers : fired'[g] <= arms'[g] /\ fiber'[g].base <= arms'[g]
      BY <1>1, <2>3 DEF IInv, TimerInv
    <3>4. QED
      BY <3>1, <3>2, <3>3, Zenon DEF TimerInv
  <2>9. PlaceInv'
    BY <2>3 DEF IInv, PlaceInv
  <2>10. WaitInv'
    BY <1>1, <2>3, WaitKeep
  <2>11. EpollInv'
    BY <1>1, <2>3, EpollKeep
  <2>12. ConnInv'
    BY <1>1, <2>3, <2>4, ConnKeep DEF IInv, ConnInv
  <2>13. QED
    BY <2>5, <2>7, <2>8, <2>9, <2>10, <2>11, <2>12 DEF IInv
<1>3. CASE ~(Tinfo(t) /\ ~fiber[o].cancelled)
  <2>1. cbs' = (cbs \ {c}) \cup {} /\ fiber' = fiber
    BY <1>3, Zenon DEF RunCallback
  <2>2. cbs' \subseteq cbs
    BY <2>1
  <2>3. TypeOK'
    BY <1>1, <2>1, TypeFacts DEF IInv, TypeOK
  <2>4. TimerInv' /\ MarkInv'
    BY <1>1, <2>1, <2>2, TimerKeep, MarkKeep
  <2>5. PlaceInv' /\ WaitInv' /\ EpollInv' /\ ConnInv'
    BY <1>1, <2>1 DEF IInv, PlaceInv, WaitInv, EpollInv, ConnInv, Holds, Closing
  <2>6. QED
    BY <2>3, <2>4, <2>5 DEF IInv
<1>4. QED
  BY <1>2, <1>3

LEMMA EndSleepStep == ASSUME IInv, NEW c \in cbs, EndSleep(c) PROVE IInv'
<1> DEFINE o == c.timer.owner
<1>1. /\ fiber \in [Fibers -> Record] /\ o \in Fibers /\ timers \subseteq Timer
      /\ cbs \subseteq [timer : Timer, at : {"run", "cancel"}]
      /\ arms \in [Fibers -> Nat] /\ fired \in [Fibers -> Nat]
      /\ c.timer.op \in Sleeps /\ cbs' = cbs \ {c}
      /\ UNCHANGED <<arms, timers, waiter, sock, opens, report, fired>>
  BY TypeFacts DEF IInv, EndSleep, Timer
<1>2. /\ c.at = "run" /\ c.timer.arm = arms[o] /\ c.timer.op = fiber[o].op
      /\ fiber[o].pc = "hold" /\ c.timer.arm <= fired[o] /\ fiber[o].res = "none"
      /\ fiber[o].op \in Sleeps /\ fiber[o].op \notin WaitCalls
  BY <1>1, CallFacts DEF IInv, TimerInv, PlaceInv
<1>3. Moved(o, "wake", "none")
  BY <1>1, <1>2, GotoFacts DEF EndSleep
<1> USE DEF Moved
<1>4. TypeOK'
  BY <1>1, <1>3, TypeFacts DEF IInv, TypeOK, Record
<1>5. TimerInv'
  <2>1. \A t \in timers : t.owner # o
    <3> SUFFICES ASSUME NEW t \in timers, t.owner = o PROVE FALSE
      OBVIOUS
    <3>1. t.arm = arms[o] /\ fired[o] < t.arm
      BY DEF IInv, TimerInv
    <3>2. QED
      BY <1>1, <1>2, <3>1
  <2>2. ASSUME NEW d \in cbs', d.timer.op \in Sleeps, d.timer.owner = o PROVE FALSE
    <3>1. d \in cbs /\ d # c
      BY <1>1
    <3>2. d.at = "run" /\ d.timer.arm = arms[o] /\ d.timer.op = fiber[o].op
      BY <2>2, <3>1 DEF IInv, TimerInv
    <3>3. d.timer \in Timer /\ c.timer \in Timer
      BY <1>1, <3>1
    <3>4. d.timer = c.timer
      BY <1>2, <2>2, <3>2, <3>3 DEF Timer
    <3>5. QED
      BY <1>1, <1>2, <3>1, <3>2, <3>4
  <2>3. QED
    BY <1>1, <1>3, <2>1, <2>2, TimerKeep
<1>6. MarkInv'
  BY <1>1, <1>3, MarkKeep
<1>7. PlaceInv'
  BY <1>2, <1>3, CallFacts DEF IInv, PlaceInv
<1>8. WaitInv'
  BY <1>1, <1>2, <1>3, WaitKeep
<1>9. EpollInv'
  BY <1>1, <1>2, <1>3, EpollKeep
<1>10. ConnInv'
  <2>1. fiber'[o].op # "connect"
    BY <1>1, <1>2, <1>3, CallFacts
  <2>2. Conn(o)'
    BY <2>1 DEF Conn
  <2>3. QED
    BY <1>1, <1>3, <2>2, ConnKeep DEF IInv, ConnInv
<1>11. QED
  BY <1>4, <1>5, <1>6, <1>7, <1>8, <1>9, <1>10 DEF IInv

LEMMA CloseCancelAllStep == ASSUME IInv, NEW f \in Fibers, CloseCancelAll(f) PROVE IInv'
<1>1. /\ fiber \in [Fibers -> Record] /\ fiber[f].pc = "cancelAll" /\ fiber[f].op = "close"
      /\ fiber[f].op \notin WaitCalls /\ fiber[f].res = "none" /\ sock \in SockType
      /\ waiter \in [Events -> Fibers \cup {NoFiber}] /\ NoFiber \notin Fibers
      /\ UNCHANGED <<arms, timers, cbs, opens, report, fired>>
  BY TypeFacts, HookAssumption, CallFacts DEF IInv, CloseCancelAll, At, PlaceInv
<1>2. CASE sock.epoll
  <2> DEFINE woken == {waiter[e] : e \in Events} \ {NoFiber}
             n1 == [fiber[f] EXCEPT !.pc = "del"]
             n2(g) == [fiber[g] EXCEPT !.pc = "wake", !.late = FALSE,
                                       !.struck = fiber[g].op = "connect"]
  <2>1. /\ fiber' = [g \in Fibers |-> IF g = f THEN n1 ELSE IF g \in woken THEN n2(g) ELSE fiber[g]]
        /\ waiter' = [e \in Events |-> NoFiber]
        /\ sock' = [sock EXCEPT !.epoll = FALSE]
    BY <1>2, Zenon DEF CloseCancelAll
  <2>2. /\ n1 \in Record /\ n1.pc = "del" /\ n1.op = fiber[f].op /\ n1.base = fiber[f].base
        /\ n1.cancelled = fiber[f].cancelled /\ n1.struck = fiber[f].struck
        /\ n1.res = fiber[f].res /\ n1.late = fiber[f].late
    BY <1>1 DEF Record
  <2>3. ASSUME NEW g \in Fibers
        PROVE  /\ n2(g) \in Record /\ n2(g).pc = "wake" /\ n2(g).op = fiber[g].op
               /\ n2(g).base = fiber[g].base /\ n2(g).cancelled = fiber[g].cancelled
               /\ n2(g).struck = (fiber[g].op = "connect")
               /\ n2(g).res = fiber[g].res
    <3>1. fiber[g] \in Record /\ (fiber[g].op = "connect") \in BOOLEAN
      BY <1>1
    <3>2. QED
      BY <3>1 DEF Record
  <2>4. \A g \in Fibers : g \in woken <=> \E e \in Events : waiter[e] = g
    BY <1>1
  <2>5. /\ waiter' \in [Events -> Fibers \cup {NoFiber}] /\ sock' \in SockType
        /\ sock'.epoll = FALSE /\ sock'.open = sock.open /\ sock'.ctx = sock.ctx
        /\ sock'.ready = sock.ready /\ sock'.conn = sock.conn
        /\ \A e \in Events : waiter'[e] = NoFiber
    BY <1>1, <2>1 DEF SockType
  <2> HIDE DEF woken, n1, n2
  <2>6. /\ fiber' \in [Fibers -> Record] /\ fiber'[f] = n1
        /\ \A g \in Fibers \ {f} : fiber'[g] = IF g \in woken THEN n2(g) ELSE fiber[g]
    BY <1>1, <2>1, <2>2, <2>3
  <2>7. \A g \in Fibers : g \in woken => fiber[g].pc = "hold" /\ fiber[g].op \in WaitCalls
    <3> SUFFICES ASSUME NEW g \in Fibers, g \in woken
                 PROVE  fiber[g].pc = "hold" /\ fiber[g].op \in WaitCalls
      OBVIOUS
    <3>1. PICK e \in Events : waiter[e] = g
      BY <2>4
    <3>2. waiter[e] # NoFiber
      BY <1>1, <3>1
    <3>3. Holds(waiter[e])
      BY <3>2, Zenon DEF IInv, WaitInv
    <3>4. QED
      BY <3>1, <3>3 DEF Holds
  <2>8. ASSUME NEW g \in Fibers
        PROVE  /\ fiber'[g].op = fiber[g].op /\ fiber'[g].base = fiber[g].base
               /\ fiber'[g].cancelled = fiber[g].cancelled /\ fiber'[g].res = fiber[g].res
               /\ fiber'[g].pc = IF g = f THEN "del" ELSE IF g \in woken THEN "wake"
                                 ELSE fiber[g].pc
    BY <2>2, <2>3, <2>6
  <2>9. \A g \in Fibers : ~Holds(g)'
    <3> SUFFICES ASSUME NEW g \in Fibers, Holds(g)' PROVE FALSE
      OBVIOUS
    <3>1. g # f /\ g \notin woken /\ Holds(g)
      BY <2>8 DEF Holds
    <3>2. waiter[EventOf(fiber[g].op)] = g /\ EventOf(fiber[g].op) \in Events
      BY <3>1, CallFacts DEF IInv, WaitInv
    <3>3. QED
      BY <2>4, <3>1, <3>2
  <2>10. TypeOK'
    BY <1>1, <2>5, <2>6, TypeFacts DEF IInv, TypeOK, Record, SockType
  <2>11. TimerInv'
    <3>1. /\ \A t \in timers' : t.owner # f
          /\ \A c \in cbs' : c.timer.op \in Sleeps => c.timer.owner # f
      BY <1>1, NoTimer
    <3>2. QED
      BY <1>1, <2>7, <2>8, <3>1, TimerKeep
  <2>12. MarkInv'
    BY <1>1, <2>8, MarkKeep
  <2>13. PlaceInv'
    BY <1>1, <2>7, <2>8, <2>2, <2>6 DEF IInv, PlaceInv
  <2>14. WaitInv'
    <3>1. \A g, h \in Fibers : fiber'[g].op \in WaitCalls /\ fiber'[h].op \in WaitCalls
            /\ EventOf(fiber'[g].op) = EventOf(fiber'[h].op) => g = h
      BY <2>8 DEF IInv, WaitInv
    <3>2. QED
      BY <2>5, <2>9, <3>1, Zenon DEF WaitInv
  <2>15. EpollInv'
    <3>1. ~sock.ctx /\ sock.open => \E g \in Fibers : fiber'[g].pc = "close"
      <4> SUFFICES ASSUME ~sock.ctx, sock.open PROVE \E g \in Fibers : fiber'[g].pc = "close"
        OBVIOUS
      <4>1. PICK g \in Fibers : fiber[g].pc = "close"
        BY DEF IInv, EpollInv
      <4>2. fiber'[g].pc = "close"
        BY <1>1, <2>7, <2>8, <4>1
      <4>3. QED
        BY <4>2
    <3>2. QED
      BY <2>5, <2>9, <3>1 DEF EpollInv
  <2>16. ConnInv'
    <3>1. \A g \in Fibers : g \in woken /\ g # f => Conn(g)'
      <4> SUFFICES ASSUME NEW g \in Fibers, g \in woken, g # f PROVE Conn(g)'
        OBVIOUS
      <4>1. n2(g).op = fiber[g].op /\ n2(g).struck = (fiber[g].op = "connect")
        BY <2>3
      <4>2. fiber'[g] = n2(g)
        BY <2>6
      <4>3. fiber'[g].op = "connect" => fiber'[g].struck
        BY <4>1, <4>2, Zenon
      <4>4. QED
        BY <4>3, Zenon DEF Conn
    <3>2. Conn(f)'
      BY <1>1, <2>8, CallFacts DEF Conn
    <3>3. \A g \in Fibers : g \notin woken /\ g # f => fiber'[g] = fiber[g]
      BY <2>6
    <3>4. QED
      BY <2>5, <3>1, <3>2, <3>3, ConnKeep DEF IInv, ConnInv
  <2>17. QED
    BY <2>10, <2>11, <2>12, <2>13, <2>14, <2>15, <2>16 DEF IInv
<1>3. CASE ~sock.epoll
  <2>1. Goto(f, "del") /\ UNCHANGED <<waiter, sock>>
    BY <1>3 DEF CloseCancelAll
  <2>2. Moved(f, "del", "none")
    BY <1>1, <2>1, GotoFacts
  <2> USE DEF Moved
  <2>3. TypeOK'
    BY <1>1, <2>1, <2>2, TypeFacts DEF IInv, TypeOK, Record
  <2>4. TimerInv'
    BY <1>1, <2>2, NoTimer, TimerKeep
  <2>5. MarkInv'
    BY <1>1, <2>2, MarkKeep
  <2>6. PlaceInv'
    BY <1>1, <2>2 DEF IInv, PlaceInv
  <2>7. WaitInv'
    BY <1>1, <2>1, <2>2, WaitKeep
  <2>8. EpollInv'
    <3>1. \A g \in Fibers : Holds(g)' => Holds(g)
      BY <2>2 DEF Holds
    <3>2. \A g \in Fibers : Holds(g)' => fiber'[g].late
      BY <1>3, <2>2, <3>1 DEF IInv, EpollInv
    <3>3. \A g \in Fibers : fiber[g].pc = "close" => fiber'[g].pc = "close"
      BY <1>1, <2>2
    <3>4. QED
      BY <1>3, <2>1, <3>2, <3>3 DEF IInv, EpollInv
  <2>9. ConnInv'
    <3>1. Conn(f)'
      BY <1>1, <2>2, CallFacts DEF Conn
    <3>2. QED
      BY <2>1, <2>2, <3>1, ConnKeep DEF IInv, ConnInv
  <2>10. QED
    BY <2>3, <2>4, <2>5, <2>6, <2>7, <2>8, <2>9 DEF IInv
<1>4. QED
  BY <1>2, <1>3

LEMMA CloseDelStep == ASSUME IInv, NEW f \in Fibers, CloseDel(f) PROVE IInv'
<1>1. /\ fiber \in [Fibers -> Record] /\ fiber[f].pc = "del" /\ fiber[f].op = "close"
      /\ fiber[f].op \notin WaitCalls /\ fiber[f].res = "none" /\ sock \in SockType
      /\ sock' = [sock EXCEPT !.ctx = FALSE]
      /\ UNCHANGED <<arms, timers, cbs, waiter, opens, report, fired>>
  BY TypeFacts, CallFacts DEF IInv, CloseDel, At, PlaceInv
<1>2. /\ sock' \in SockType /\ sock'.ctx = FALSE /\ sock'.epoll = sock.epoll
      /\ sock'.open = sock.open /\ sock'.ready = sock.ready /\ sock'.conn = sock.conn
  BY <1>1 DEF SockType
<1>3. Moved(f, "close", "none")
  BY <1>1, GotoFacts DEF CloseDel
<1> USE DEF Moved
<1>4. TypeOK'
  BY <1>1, <1>2, <1>3, TypeFacts DEF IInv, TypeOK, Record, SockType
<1>5. TimerInv'
  BY <1>1, <1>3, NoTimer, TimerKeep
<1>6. MarkInv'
  BY <1>1, <1>3, MarkKeep
<1>7. PlaceInv'
  BY <1>1, <1>3 DEF IInv, PlaceInv
<1>8. WaitInv'
  BY <1>1, <1>3, WaitKeep
<1>9. EpollInv'
  <2>1. \A g \in Fibers : Holds(g)' => Holds(g)
    BY <1>3 DEF Holds
  <2>2. Closing
    BY <1>1 DEF Closing
  <2>3. \A g \in Fibers : Holds(g)' => fiber'[g].late
    BY <1>3, <2>1, <2>2 DEF IInv, EpollInv
  <2>4. fiber'[f].pc = "close"
    BY <1>3
  <2>5. QED
    BY <1>2, <2>3, <2>4 DEF IInv, EpollInv
<1>10. ConnInv'
  <2>1. Conn(f)'
    BY <1>1, <1>3, CallFacts DEF Conn
  <2>2. QED
    BY <1>2, <1>3, <2>1, ConnKeep DEF IInv, ConnInv
<1>11. QED
  BY <1>4, <1>5, <1>6, <1>7, <1>8, <1>9, <1>10 DEF IInv

LEMMA CloseFdStep == ASSUME IInv, NEW f \in Fibers, CloseFd(f) PROVE IInv'
<1> DEFINE n1 == [fiber[f] EXCEPT !.pc = "done", !.res = IF sock.open THEN "ok" ELSE "bad"]
           hit(g) == fiber[g].struck \/ (fiber[g].op = "connect" /\ fiber[g].pc # "try")
           n2(g) == [fiber[g] EXCEPT !.struck = @ \/ (fiber[g].op = "connect" /\ fiber[g].pc # "try")]
<1>1. /\ fiber \in [Fibers -> Record] /\ fiber[f].pc = "close" /\ fiber[f].op = "close"
      /\ fiber[f].op \notin WaitCalls /\ sock \in SockType
      /\ sock' = [sock EXCEPT !.open = FALSE, !.epoll = FALSE, !.ready = {}, !.conn = "new"]
      /\ UNCHANGED <<arms, timers, cbs, waiter, opens, report, fired>>
  BY TypeFacts, CallFacts DEF IInv, CloseFd, At, PlaceInv
<1>2. fiber' = [g \in Fibers |-> IF g = f THEN n1 ELSE n2(g)]
  BY Zenon DEF CloseFd
<1>3. /\ sock' \in SockType /\ sock'.ctx = sock.ctx /\ sock'.epoll = FALSE
      /\ sock'.open = FALSE /\ sock'.ready = {} /\ sock'.conn = "new"
  BY <1>1 DEF SockType
<1>4. /\ n1 \in Record /\ n1.pc = "done" /\ n1.op = fiber[f].op /\ n1.base = fiber[f].base
      /\ n1.cancelled = fiber[f].cancelled /\ n1.struck = fiber[f].struck
      /\ n1.res \in {"ok", "bad"} /\ n1.late = fiber[f].late
  BY <1>1 DEF Record
<1>5. ASSUME NEW g \in Fibers
      PROVE  /\ n2(g) \in Record /\ n2(g).pc = fiber[g].pc /\ n2(g).op = fiber[g].op
             /\ n2(g).base = fiber[g].base /\ n2(g).cancelled = fiber[g].cancelled
             /\ n2(g).struck = hit(g)
             /\ n2(g).res = fiber[g].res /\ n2(g).late = fiber[g].late
  <2>1. fiber[g] \in Record
    BY <1>1
  <2>2. hit(g) \in BOOLEAN
    BY Zenon
  <2>3. QED
    BY <2>1, <2>2 DEF Record
<1> HIDE DEF n1, n2
<1>6. /\ fiber' \in [Fibers -> Record] /\ fiber'[f] = n1
      /\ \A g \in Fibers \ {f} : fiber'[g] = n2(g)
  BY <1>1, <1>2, <1>4, <1>5
<1>7. \A g \in Fibers :
        /\ fiber'[g].op = fiber[g].op /\ fiber'[g].base = fiber[g].base
        /\ fiber'[g].cancelled = fiber[g].cancelled /\ fiber'[g].late = fiber[g].late
        /\ fiber'[g].pc = IF g = f THEN "done" ELSE fiber[g].pc
        /\ g # f => fiber'[g].res = fiber[g].res /\ fiber'[g].struck = hit(g)
        /\ g = f => fiber'[g].res \in {"ok", "bad"} /\ fiber'[g].struck = fiber[g].struck
  BY <1>4, <1>5, <1>6
<1>8. TypeOK'
  BY <1>1, <1>3, <1>6, TypeFacts DEF IInv, TypeOK, Record, SockType
<1>9. TimerInv'
  BY <1>1, <1>7, NoTimer, TimerKeep
<1>10. MarkInv'
  BY <1>1, <1>7, MarkKeep
<1>11. PlaceInv'
  <2>1. \A g \in Fibers : fiber'[g].op = "connect" /\ fiber'[g].pc = "try" => ~fiber'[g].struck
    <3> SUFFICES ASSUME NEW g \in Fibers, fiber'[g].op = "connect", fiber'[g].pc = "try"
                 PROVE  ~fiber'[g].struck
      OBVIOUS
    <3>1. g # f /\ fiber[g].op = "connect" /\ fiber[g].pc = "try"
      BY <1>7
    <3>2. ~hit(g)
      BY <3>1 DEF IInv, PlaceInv
    <3>3. fiber'[g].struck = hit(g)
      BY <1>7, <3>1
    <3>4. QED
      BY <3>2, <3>3, Zenon
  <2>2. QED
    BY <1>7, <2>1 DEF IInv, PlaceInv
<1>12. WaitInv'
  BY <1>1, <1>7, WaitKeep
<1>13. EpollInv'
  <2>1. \A g \in Fibers : Holds(g)' => Holds(g)
    BY <1>7 DEF Holds
  <2>2. Closing
    BY <1>1 DEF Closing
  <2>3. \A g \in Fibers : Holds(g)' => fiber'[g].late
    BY <1>7, <2>1, <2>2 DEF IInv, EpollInv
  <2>4. QED
    BY <1>3, <2>3 DEF EpollInv
<1>14. ConnInv'
  <2>1. \A g \in Fibers : Conn(g)'
    <3> SUFFICES ASSUME NEW g \in Fibers PROVE Conn(g)'
      OBVIOUS
    <3>1. CASE g = f
      BY <1>1, <1>7, <3>1, CallFacts DEF Conn
    <3>2. CASE g # f /\ fiber[g].pc = "try"
      BY <1>7, <3>2 DEF Conn
    <3>3. CASE g # f /\ fiber[g].pc # "try"
      BY <1>7, <3>3 DEF Conn
    <3>4. QED
      BY <3>1, <3>2, <3>3
  <2>2. QED
    BY <1>3, <2>1 DEF ConnInv, Conn
<1>15. QED
  BY <1>8, <1>9, <1>10, <1>11, <1>12, <1>13, <1>14 DEF IInv

(* The descriptor's number is handed out again. *)
LEMMA SocketStep == ASSUME IInv, Socket PROVE IInv'
<1>1. /\ ~sock.open /\ sock' = Fresh /\ opens < MaxOpens /\ opens' = opens + 1
      /\ UNCHANGED <<fiber, arms, timers, cbs, waiter, report, fired>> /\ sock \in SockType
      /\ opens \in 0..MaxOpens /\ MaxOpens \in Nat \ {0}
  BY TypeFacts, HookAssumption DEF IInv, Socket
<1>2. /\ Fresh \in SockType /\ Fresh.open /\ Fresh.ctx /\ Fresh.epoll = FALSE
      /\ Fresh.ready = {} /\ Fresh.conn = "new"
  BY DEF Fresh, SockType
<1>3. opens' \in 0..MaxOpens
  BY <1>1
<1>4. TypeOK'
  BY <1>1, <1>2, <1>3, TypeFacts DEF IInv, TypeOK, SockType
<1>5. TimerInv'
  BY <1>1, TimerKeep
<1>6. MarkInv'
  BY <1>1, MarkKeep
<1>7. PlaceInv'
  BY <1>1 DEF IInv, PlaceInv
<1>8. WaitInv'
  BY <1>1, WaitKeep
<1>9. \A g \in Fibers : (Holds(g)' <=> Holds(g)) /\ (Holds(g) => fiber'[g].late)
  BY <1>1 DEF Holds, IInv, EpollInv
<1>10. EpollInv'
  BY <1>1, <1>2, <1>9 DEF EpollInv
<1>11. ConnInv'
  BY <1>1, <1>2 DEF IInv, ConnInv
<1>12. QED
  BY <1>4, <1>5, <1>6, <1>7, <1>8, <1>10, <1>11 DEF IInv

(* The peer changes the readiness, and the handshake's end. *)
LEMMA PeerStep ==
    ASSUME IInv, (\E e \in Events : Arrive(e)) \/ Handshake("up") \/ Handshake("refused")
    PROVE  IInv'
<1>1. /\ UNCHANGED <<fiber, arms, timers, cbs, waiter, opens, report, fired>> /\ sock \in SockType
  BY TypeFacts DEF IInv, Arrive, Handshake
<1>2. /\ sock' \in SockType /\ sock'.epoll = sock.epoll /\ sock'.ctx = sock.ctx
      /\ sock'.open = sock.open /\ sock'.ready \subseteq Events
      /\ \/ sock'.conn = sock.conn /\ (sock.conn = "pending" => "WRITE" \notin sock'.ready)
         \/ sock.conn = "pending" /\ sock'.conn \in {"up", "refused"}
  <2>1. CASE \E e \in Events : Arrive(e)
    <3>1. PICK e \in Events : Arrive(e)
      BY <2>1
    <3>2. /\ sock' = [sock EXCEPT !.ready = @ \cup {e}] /\ (e = "WRITE" => sock.conn # "pending")
      BY <3>1 DEF Arrive
    <3>3. sock.conn = "pending" => "WRITE" \notin sock.ready
      BY DEF IInv, ConnInv
    <3>4. QED
      BY <1>1, <3>2, <3>3 DEF SockType
  <2>2. ASSUME NEW end \in {"up", "refused"}, Handshake(end)
        PROVE  /\ sock' \in SockType /\ sock'.epoll = sock.epoll /\ sock'.ctx = sock.ctx
               /\ sock'.open = sock.open /\ sock'.ready \subseteq Events
               /\ sock.conn = "pending" /\ sock'.conn \in {"up", "refused"}
    BY <1>1, <2>2 DEF Handshake, SockType, Events
  <2>3. QED
    BY <2>1, <2>2
<1>3. TypeOK'
  BY <1>1, <1>2, TypeFacts DEF IInv, TypeOK, SockType
<1>4. TimerInv' /\ MarkInv' /\ WaitInv'
  BY <1>1, TimerKeep, MarkKeep, WaitKeep
<1>5. PlaceInv'
  BY <1>1 DEF IInv, PlaceInv
<1>6. EpollInv'
  BY <1>1, <1>2, EpollKeep
<1>7. ConnInv'
  <2>1. CASE sock'.conn = sock.conn /\ (sock.conn = "pending" => "WRITE" \notin sock'.ready)
    BY <1>1, <1>2, <2>1, ConnKeep
  <2>2. CASE sock.conn = "pending" /\ sock'.conn \in {"up", "refused"}
    BY <1>1, <1>2, <2>2 DEF IInv, ConnInv
  <2>3. QED
    BY <1>2, <2>1, <2>2
<1>8. QED
  BY <1>3, <1>4, <1>5, <1>6, <1>7 DEF IInv

-----------------------------------------------------------------------------
LEMMA InvInit == Init => IInv
<1> SUFFICES ASSUME Init PROVE IInv
  OBVIOUS
<1>1. /\ Idle \in Record /\ Idle.op = "none" /\ Idle.base = 0 /\ Idle.cancelled = FALSE
      /\ Idle.pc = "idle" /\ Idle.res = "none"
  BY DEF Idle, Record
<1>2. /\ Fresh \in SockType /\ Fresh.open /\ Fresh.ctx /\ Fresh.epoll = FALSE
      /\ Fresh.ready = {} /\ Fresh.conn = "new"
  BY DEF Fresh, SockType
<1>3. /\ \A f \in Fibers : fiber[f] = Idle /\ arms[f] = 0 /\ fired[f] = 0
      /\ timers = {} /\ cbs = {} /\ sock = Fresh /\ opens = 1
      /\ \A e \in Events : waiter[e] = NoFiber
  BY DEF Init
<1>4. TypeOK
  <2>1. opens \in 0..MaxOpens /\ \A f \in Fibers : arms[f] <= MaxArms[f]
    BY <1>3, HookAssumption
  <2>2. fiber \in [Fibers -> Record]
    BY <1>1 DEF Init
  <2>3. report \in [Idlers -> ReportType]
    BY DEF Init, NoReport, ReportType
  <2>4. QED
    BY <1>2, <1>3, <2>1, <2>2, <2>3, TypeFacts DEF Init
<1>5. \A f \in Fibers : ~Holds(f) /\ fiber[f].op \notin WaitCalls
  BY <1>1, <1>3, CallFacts DEF Holds
<1>6. TimerInv
  BY <1>1, <1>3 DEF TimerInv
<1>7. MarkInv /\ PlaceInv
  BY <1>1, <1>3 DEF MarkInv, PlaceInv
<1>8. WaitInv
  BY <1>3, <1>5 DEF WaitInv
<1>9. EpollInv
  BY <1>2, <1>3, <1>5 DEF EpollInv
<1>10. ConnInv
  BY <1>1, <1>2, <1>3 DEF ConnInv
<1>11. QED
  BY <1>4, <1>6, <1>7, <1>8, <1>9, <1>10 DEF IInv

LEMMA InvStep == IInv /\ ReportInv /\ [Next]_vars => IInv'
<1> SUFFICES ASSUME IInv, ReportInv, [Next]_vars PROVE IInv'
  OBVIOUS
<1>1. ASSUME NEW f \in Fibers, NEW op \in Ops[f], NEW timed \in BOOLEAN, NEW user \in BOOLEAN,
             Call(f, op, timed, user)
      PROVE  IInv'
  <2>1. op \in Calls
    BY HookAssumption
  <2>2. QED
    BY <1>1, <2>1, CallStep
<1>2. ASSUME NEW f \in Fibers, Proceed(f) PROVE IInv'
  <2>1. CASE TryIo(f) \/ TryConnect(f)
    BY <2>1, TryIoStep, TryConnectStep
  <2>2. CASE Arm(f) \/ AddEvent(f) \/ AddFails(f)
    BY <2>2, ArmStep, AddEventStep, AddFailsStep
  <2>3. CASE Resume(f) \/ Check(f) \/ SockError(f) \/ Return(f)
    BY <2>3, ResumeStep, CheckStep, SockErrorStep, ReturnStep
  <2>4. CASE CloseCancelAll(f) \/ CloseDel(f) \/ CloseFd(f)
    BY <2>4, CloseCancelAllStep, CloseDelStep, CloseFdStep
  <2>5. QED
    BY <1>2, <2>1, <2>2, <2>3, <2>4 DEF Proceed
<1>3. ASSUME NEW c \in cbs, Callback(c) PROVE IInv'
  BY <1>3, RunCallbackStep, CancelEventStep, EndSleepStep DEF Callback
<1>4. ASSUME NEW t \in timers, Expire(t) PROVE IInv'
  BY <1>4, ExpireStep
<1>0. ASSUME NEW i \in Idlers, EpollWait(i) \/ HandleEvent(i) PROVE IInv'
  BY <1>0, EpollWaitStep, HandleEventStep
<1>5. ASSUME NEW e \in Events, CancelFromOutside(e) \/ Arrive(e) PROVE IInv'
  BY <1>5, CancelFromOutsideStep, PeerStep
<1>6. CASE Socket \/ Handshake("up") \/ Handshake("refused")
  BY <1>6, SocketStep, PeerStep
<1>7. CASE UNCHANGED vars
  BY <1>7 DEF vars, IInv, TypeOK, TimerInv, MarkInv, PlaceInv, WaitInv, EpollInv, ConnInv,
              Tinfo, Holds, Closing
<1>8. QED
  BY <1>0, <1>1, <1>2, <1>3, <1>4, <1>5, <1>6, <1>7 DEF Next

(* A connect that waits, and that nothing has struck. *)
Awaits(f) == fiber[f].op = "connect" /\ fiber[f].pc = "hold" /\ ~fiber[f].struck

LEMMA ReportKeep ==
    ASSUME ReportInv, \A g \in Fibers : Awaits(g)' => Awaits(g),
           Reported("WRITE")' => Reported("WRITE"),
           sock'.conn = "pending" => sock.conn = "pending"
    PROVE  ReportInv'
BY DEF ReportInv, Awaits

LEMMA ReportInit == Init => ReportInv
BY DEF Init, ReportInv, Idle

(* One fiber moves on, not to wait for an event. *)
LEMMA MovedAwaits ==
    ASSUME NEW f \in Fibers, NEW p, NEW q, Moved(f, p, q), p # "hold" \/ fiber[f].op \in Sleeps
    PROVE  \A g \in Fibers : Awaits(g)' => Awaits(g)
BY DEF Moved, Awaits, Sleeps

LEMMA TriggerAwaits ==
    ASSUME IInv, NEW E \in SUBSET Events, NEW S, Trigger(E, S)
    PROVE  sock'.conn = sock.conn /\ \A g \in Fibers : Awaits(g)' => Awaits(g)
<1>1. TypeOK
  BY DEF IInv
<1>2. /\ \A g \in Fibers :
           /\ fiber'[g].pc = IF \E e \in E : waiter[e] = g THEN "wake" ELSE fiber[g].pc
           /\ fiber'[g].op = fiber[g].op /\ fiber'[g].plain = fiber[g].plain
           /\ fiber'[g].base = fiber[g].base /\ fiber'[g].cancelled = fiber[g].cancelled
           /\ fiber'[g].struck <=>
                fiber[g].struck \/ ((\E e \in E : waiter[e] = g) /\ g \in S
                                    /\ fiber[g].op = "connect")
           /\ (~\E e \in E : waiter[e] = g) => fiber'[g].late = fiber[g].late
           /\ fiber'[g].res = fiber[g].res
      /\ sock'.conn = sock.conn
  BY <1>1, TriggerFacts
<1>3. QED
  BY <1>2 DEF Awaits

LEMMA ReportProceed ==
    ASSUME IInv, ReportInv, NEW f \in Fibers, Proceed(f) PROVE ReportInv'
<1>0. /\ fiber \in [Fibers -> Record] /\ fiber[f] \in Record /\ sock \in SockType
      /\ UNCHANGED report /\ Reported("WRITE")' = Reported("WRITE")
  BY TypeFacts DEF IInv, Proceed, Reported, TryIo, TryConnect, Arm, AddEvent, AddFails, Resume,
                   Check, SockError, Return, CloseCancelAll, CloseDel, CloseFd
<1>1. CASE TryIo(f)
  <2>1. sock'.conn = sock.conn
    BY <1>0, <1>1 DEF TryIo, SockType
  <2>2. \E p, q : Moved(f, p, q) /\ p # "hold"
    <3>1. CASE Goto(f, "arm")
      BY <1>0, <3>1, GotoFacts
    <3>2. CASE Done(f, Answer(fiber[f].op))
      <4>1. Answer(fiber[f].op) \in {"bad", "ok", "again"}
        BY DEF Answer
      <4>2. QED
        BY <1>0, <3>2, <4>1, DoneFacts
    <3>3. QED
      BY <1>1, <3>1, <3>2 DEF TryIo
  <2>3. QED
    BY <1>0, <2>1, <2>2, MovedAwaits, ReportKeep
<1>2. CASE TryConnect(f)
  <2>1. \E p, q : Moved(f, p, q) /\ p # "hold"
    <3>1. CASE Goto(f, "arm")
      BY <1>0, <3>1, GotoFacts
    <3>2. CASE \E q \in {"bad", "ok", "again", "refused"} : Done(f, q)
      BY <1>0, <3>2, DoneFacts
    <3>3. QED
      BY <1>2, <3>1, <3>2 DEF TryConnect
  <2>2. fiber[f].op = "connect"
    BY <1>2 DEF TryConnect
  <2>3. \A g \in Fibers : ~Awaits(g)'
    <3>1. \A g \in Fibers : fiber[g].op = "connect" => g = f
      BY <2>2, CallFacts DEF IInv, WaitInv, WaitCalls
    <3>2. QED
      BY <2>1, <3>1 DEF Moved, Awaits
  <2>4. QED
    BY <2>3 DEF ReportInv, Awaits
<1>3. CASE Arm(f) \/ Resume(f) \/ Check(f) \/ SockError(f) \/ CloseDel(f)
  <2>1. sock'.conn = sock.conn
    BY <1>0, <1>3 DEF Arm, Resume, Check, SockError, CloseDel, SockType
  <2>2. \E p, q : Moved(f, p, q) /\ (p # "hold" \/ fiber[f].op \in Sleeps)
    <3>1. CASE \E p \in {"add", "done", "check", "error", "try", "close"} : Goto(f, p)
      BY <1>0, <3>1, GotoFacts
    <3>2. CASE Goto(f, "hold") /\ fiber[f].op \in Sleeps
      BY <1>0, <3>2, GotoFacts
    <3>3. CASE \E q \in {"timeout", "bad", "refused", "ok"} : Done(f, q)
      BY <1>0, <3>3, DoneFacts
    <3>4. QED
      BY <1>3, <3>1, <3>2, <3>3 DEF Arm, Resume, Check, SockError, CloseDel
  <2>3. QED
    BY <1>0, <2>1, <2>2, MovedAwaits, ReportKeep
<1>4. CASE AddEvent(f)
  <2> DEFINE e == EventOf(fiber[f].op)
             struck == fiber[f].struck \/ (fiber[f].op = "connect" /\ Reported(e))
             new == [fiber[f] EXCEPT !.pc = "hold", !.late = Closing, !.struck = struck]
  <2>1. fiber' = [fiber EXCEPT ![f] = new] /\ sock' = [sock EXCEPT !.epoll = TRUE]
    BY <1>4 DEF AddEvent
  <2>2. new.op = fiber[f].op /\ new.struck = struck
    BY <1>0 DEF Record
  <2>3. fiber[f].op = "connect" => e = "WRITE"
    BY CallFacts
  <2>4. Reported("WRITE") /\ fiber[f].op = "connect" => struck
    BY <2>3
  <2> HIDE DEF struck, new, e
  <2>5. sock'.conn = sock.conn
    BY <1>0, <2>1 DEF SockType
  <2>6. fiber'[f] = new /\ \A g \in Fibers \ {f} : fiber'[g] = fiber[g]
    BY <1>0, <2>1
  <2>7. QED
    BY <1>0, <2>2, <2>4, <2>5, <2>6 DEF ReportInv
<1>5. CASE AddFails(f) \/ Return(f)
  <2>1. sock' = sock
    BY <1>5 DEF AddFails, Return
  <2>2. \E new : fiber' = [fiber EXCEPT ![f] = new] /\ new.pc # "hold"
    <3>1. CASE Return(f)
      <4>1. fiber' = [fiber EXCEPT ![f] = Idle] /\ Idle.pc # "hold"
        BY <3>1 DEF Return, Idle
      <4>2. QED
        BY <4>1, Zenon
    <3>2. CASE AddFails(f)
      <4> DEFINE connect == fiber[f].op = "connect"
                 new == [fiber[f] EXCEPT !.pc = IF connect THEN "error" ELSE "done",
                                         !.res = IF connect THEN "none" ELSE "failed",
                                         !.struck = connect]
      <4>1. fiber' = [fiber EXCEPT ![f] = new]
        BY <3>2 DEF AddFails
      <4>2. new.pc # "hold"
        BY <1>0 DEF Record
      <4> HIDE DEF new
      <4>3. QED
        BY <4>1, <4>2
    <3>3. QED
      BY <1>5, <3>1, <3>2
  <2>3. \A g \in Fibers : Awaits(g)' => Awaits(g)
    BY <1>0, <2>2 DEF Awaits
  <2>4. QED
    BY <1>0, <2>1, <2>3, ReportKeep
<1>6. CASE CloseCancelAll(f)
  <2>1. sock'.conn = sock.conn
    BY <1>0, <1>6 DEF CloseCancelAll, SockType
  <2>2. ASSUME NEW g \in Fibers, Awaits(g)' PROVE Awaits(g)
    <3>1. \/ fiber'[g] = fiber[g] \/ fiber'[g] = [fiber[g] EXCEPT !.pc = "del"]
          \/ fiber'[g] = [fiber[g] EXCEPT !.pc = "wake", !.late = FALSE,
                                          !.struck = fiber[g].op = "connect"]
      BY <1>0, <1>6 DEF CloseCancelAll, Goto
    <3>2. fiber[g] \in Record
      BY <1>0
    <3>3. QED
      BY <2>2, <3>1, <3>2 DEF Awaits, Record
  <2>3. QED
    BY <1>0, <2>1, <2>2, ReportKeep
<1>7. CASE CloseFd(f)
  <2>1. sock'.conn = "new"
    BY <1>0, <1>7 DEF CloseFd, SockType
  <2>2. QED
    BY <2>1 DEF ReportInv
<1>8. QED
  BY <1>1, <1>2, <1>3, <1>4, <1>5, <1>6, <1>7 DEF Proceed

LEMMA ReportStep == IInv /\ ReportInv /\ [Next]_vars => ReportInv'
<1> SUFFICES ASSUME IInv, ReportInv, [Next]_vars PROVE ReportInv'
  OBVIOUS
<1>0. fiber \in [Fibers -> Record] /\ sock \in SockType /\ report \in [Idlers -> ReportType]
  BY TypeFacts DEF IInv
<1>1. ASSUME NEW f \in Fibers, NEW op \in Ops[f], NEW timed \in BOOLEAN, NEW user \in BOOLEAN,
             Call(f, op, timed, user)
      PROVE  ReportInv'
  <2>1. UNCHANGED <<sock, report>>
    BY <1>1 DEF Call
  <2>2. \E new : fiber' = [fiber EXCEPT ![f] = new] /\ new.pc # "hold"
    <3> DEFINE plain == op \in WaitCalls /\ (user \/ ~sock.ctx)
               noCtx == op = "connect" /\ ~sock.ctx
               pc == IF op \in Sleeps THEN "arm" ELSE IF noCtx THEN "done"
                     ELSE IF op # "close" THEN "try"
                     ELSE IF sock.ctx THEN "cancelAll" ELSE "close"
               new == [Idle EXCEPT !.op = op, !.timed = op \in Sleeps \/ (timed /\ ~plain),
                                   !.base = arms[f], !.plain = plain,
                                   !.res = IF noCtx THEN "bad" ELSE "none", !.pc = pc]
    <3>1. fiber' = [fiber EXCEPT ![f] = new] /\ pc # "hold"
      BY <1>1 DEF Call
    <3> HIDE DEF pc, plain, noCtx
    <3>2. new.pc = pc
      BY DEF Idle
    <3> HIDE DEF new
    <3>3. QED
      BY <3>1, <3>2, Zenon
  <2>3. \A g \in Fibers : Awaits(g)' => Awaits(g)
    BY <1>0, <2>2 DEF Awaits
  <2>4. QED
    BY <2>1, <2>3, ReportKeep DEF Reported
<1>2. ASSUME NEW f \in Fibers, Proceed(f) PROVE ReportInv'
  BY <1>2, ReportProceed
<1>3. ASSUME NEW c \in cbs, Callback(c) PROVE ReportInv'
  <2>1. UNCHANGED report
    BY <1>3 DEF Callback, RunCallback, CancelEvent, EndSleep
  <2>2. sock'.conn = sock.conn /\ \A g \in Fibers : Awaits(g)' => Awaits(g)
    <3>1. CASE RunCallback(c)
      <4>1. \A g \in Fibers : fiber'[g] = fiber[g] \/ fiber'[g] = [fiber[g] EXCEPT !.cancelled = TRUE]
        BY <1>0, <3>1 DEF RunCallback
      <4>2. \A g \in Fibers : fiber[g] \in Record
        BY <1>0
      <4>3. \A g \in Fibers : /\ fiber'[g].op = fiber[g].op /\ fiber'[g].pc = fiber[g].pc
                               /\ fiber'[g].struck = fiber[g].struck
        BY <4>1, <4>2 DEF Record
      <4>4. QED
        BY <3>1, <4>3 DEF Awaits, RunCallback
    <3>2. CASE CancelEvent(c)
      <4>1. {EventOf(c.timer.op)} \in SUBSET Events
        BY CallFacts
      <4>2. UNCHANGED <<fiber, sock>> \/ \E S : Trigger({EventOf(c.timer.op)}, S)
        BY <3>2, Zenon DEF CancelEvent
      <4>3. QED
        BY <4>1, <4>2, TriggerAwaits DEF Awaits
    <3>3. CASE EndSleep(c)
      <4>1. Goto(c.timer.owner, "wake") /\ c.timer.owner \in Fibers /\ UNCHANGED sock
        BY <3>3, TypeFacts DEF EndSleep, IInv, Timer
      <4>2. Moved(c.timer.owner, "wake", fiber[c.timer.owner].res)
        BY <1>0, <4>1, GotoFacts
      <4>3. QED
        BY <4>1, <4>2, MovedAwaits
    <3>4. QED
      BY <1>3, <3>1, <3>2, <3>3 DEF Callback
  <2>3. QED
    BY <2>1, <2>2, ReportKeep DEF Reported
<1>4. ASSUME NEW t \in timers, Expire(t) PROVE ReportInv'
  BY <1>4, ReportKeep DEF Expire, Awaits, Reported
<1>5. ASSUME NEW e \in Events, CancelFromOutside(e) PROVE ReportInv'
  <2>1. {e} \in SUBSET Events /\ Trigger({e}, Fibers) /\ UNCHANGED report
    BY <1>5 DEF CancelFromOutside
  <2>2. sock'.conn = sock.conn /\ \A g \in Fibers : Awaits(g)' => Awaits(g)
    BY <2>1, TriggerAwaits
  <2>3. QED
    BY <2>1, <2>2, ReportKeep DEF Reported
<1>6. ASSUME NEW e \in Events, Arrive(e) PROVE ReportInv'
  <2>1. sock'.conn = sock.conn /\ UNCHANGED <<fiber, report>>
    BY <1>0, <1>6 DEF Arrive, SockType
  <2>2. QED
    BY <2>1, ReportKeep DEF Reported, Awaits
<1>7. CASE Socket \/ Handshake("up") \/ Handshake("refused")
  <2>1. sock'.conn # "pending"
    <3>1. CASE Socket
      BY <3>1 DEF Socket, Fresh
    <3>2. CASE Handshake("up")
      BY <1>0, <3>2 DEF Handshake, SockType
    <3>3. CASE Handshake("refused")
      BY <1>0, <3>3 DEF Handshake, SockType
    <3>4. QED
      BY <1>7, <3>1, <3>2, <3>3
  <2>2. QED
    BY <2>1 DEF ReportInv
<1>8. ASSUME NEW i \in Idlers, EpollWait(i) PROVE ReportInv'
  <2>1. UNCHANGED <<fiber, sock>>
    BY <1>8 DEF EpollWait
  <2>2. Reported("WRITE")' => Reported("WRITE") \/ sock.conn # "pending"
    <3>1. \A j \in Idlers \ {i} : report'[j] = report[j]
      BY <1>0, <1>8 DEF EpollWait
    <3>2. "WRITE" \in report'[i].events \/ report'[i].err =>
            "WRITE" \in sock.ready \/ sock.conn = "refused"
      BY <1>0, <1>8 DEF EpollWait
    <3>3. QED
      BY <3>1, <3>2 DEF Reported, IInv, ConnInv
  <2>3. QED
    BY <2>1, <2>2 DEF ReportInv
<1>9. ASSUME NEW i \in Idlers, HandleEvent(i) PROVE ReportInv'
  <2>1. RealEvents(i) \in SUBSET Events
    BY <1>0 DEF RealEvents, ReportType
  <2>2. UNCHANGED <<fiber, sock>> \/ Trigger(RealEvents(i), {})
    BY <1>9, Zenon DEF HandleEvent
  <2>3. sock'.conn = sock.conn /\ \A g \in Fibers : Awaits(g)' => Awaits(g)
    BY <2>1, <2>2, TriggerAwaits DEF Awaits
  <2>4. Reported("WRITE")' => Reported("WRITE")
    BY <1>0, <1>9 DEF HandleEvent, Reported, NoReport
  <2>5. QED
    BY <2>3, <2>4, ReportKeep
<1>10. CASE UNCHANGED vars
  BY <1>10 DEF vars, ReportInv, Reported
<1>11. QED
  BY <1>1, <1>2, <1>3, <1>4, <1>5, <1>6, <1>7, <1>8, <1>9, <1>10 DEF Next

LEMMA InvAlways == Spec => [](IInv /\ ReportInv)
<1>1. IInv /\ ReportInv /\ [Next]_vars => (IInv /\ ReportInv)'
  BY InvStep, ReportStep
<1>2. Init => IInv /\ ReportInv
  BY InvInit, ReportInit
<1>3. QED
  BY <1>1, <1>2, PTL DEF Spec

(* Every value stays in its type: a fiber arms no more timers than its bound, *)
(* and there is one EventContext per event (hook.cpp:118-196).                *)
THEOREM TypeCorrect == Spec => []TypeOK
<1>1. IInv => TypeOK
  BY DEF IInv
<1>2. QED
  BY <1>1, InvAlways, PTL

(* ETIMEDOUT is about the call's own timer: whatever callbacks of earlier     *)
(* calls run late, winfo.lock() keeps them away (hook.cpp:147-157,173-181).   *)
THEOREM OwnTimeoutAlways == Spec => []OwnTimeout
<1>1. IInv => OwnTimeout
  BY DEF IInv, MarkInv, OwnTimeout
<1>2. QED
  BY <1>1, InvAlways, PTL

(* A waiting fiber is named by its event, and epoll knows the descriptor,     *)
(* unless it came to wait between cancelAll and close_f (hook.cpp:401-416).   *)
THEOREM WaitersAlwaysReachable == Spec => []WaitersReachable
<1>1. IInv => WaitersReachable
  BY DEF IInv, WaitInv, EpollInv, Holds, At, WaitersReachable
<1>2. QED
  BY <1>1, InvAlways, PTL

(* At "error" a call's result comes from SO_ERROR and from nothing else. *)
LEMMA ErrorStep ==
    ASSUME IInv, [Next]_vars, NEW f \in Fibers, fiber[f].pc = "error"
    PROVE  fiber'[f].res = "none" \/ SockError(f)
<1>1. fiber \in [Fibers -> Record] /\ fiber[f] \in Record /\ fiber[f].res = "none"
  BY TypeFacts DEF IInv, PlaceInv
<1>2. ASSUME NEW g \in Fibers, NEW op \in Ops[g], NEW timed \in BOOLEAN, NEW user \in BOOLEAN,
             Call(g, op, timed, user)
      PROVE  fiber'[f].res = "none"
  <2>1. g # f
    BY <1>2 DEF Call, At
  <2>2. \E new : fiber' = [fiber EXCEPT ![g] = new]
    BY <1>2, Zenon DEF Call
  <2>3. QED
    BY <1>1, <2>1, <2>2
<1>3. ASSUME NEW g \in Fibers, Proceed(g), ~SockError(f) PROVE fiber'[f].res = "none"
  <2>1. CASE g = f
    BY <1>3, <2>1 DEF Proceed, TryIo, TryConnect, Arm, AddEvent, AddFails, Resume, Check, Return,
                      CloseCancelAll, CloseDel, CloseFd, At
  <2>2. CASE g # f
    <3>1. CASE TryIo(g) \/ TryConnect(g) \/ Arm(g) \/ Resume(g) \/ Check(g) \/ SockError(g)
      <4>1. \E p, r : Goto(g, p) \/ Done(g, r)
        BY <3>1, Zenon DEF TryIo, TryConnect, Arm, Resume, Check, SockError
      <4>2. QED
        BY <1>1, <2>2, <4>1 DEF Goto, Done
    <3>2. CASE AddEvent(g) \/ AddFails(g) \/ Return(g) \/ CloseDel(g)
      BY <1>1, <2>2, <3>2 DEF AddEvent, AddFails, Return, CloseDel, Goto
    <3>3. CASE CloseCancelAll(g)
      <4>1. fiber'[f] = fiber[f] \/ fiber'[f] = [fiber[f] EXCEPT !.pc = "wake", !.late = FALSE,
                                                   !.struck = fiber[f].op = "connect"]
        BY <1>1, <2>2, <3>3 DEF CloseCancelAll, Goto
      <4>2. QED
        BY <1>1, <4>1 DEF Record
    <3>4. CASE CloseFd(g)
      <4>1. \E b : fiber'[f] = [fiber[f] EXCEPT !.struck = b]
        BY <2>2, <3>4, Zenon DEF CloseFd
      <4>2. QED
        BY <1>1, <4>1 DEF Record
    <3>5. QED
      BY <1>3, <3>1, <3>2, <3>3, <3>4 DEF Proceed
  <2>3. QED
    BY <2>1, <2>2
<1>4. ASSUME NEW E \in SUBSET Events, NEW S, Trigger(E, S) PROVE fiber'[f].res = "none"
  <2>1. TypeOK
    BY DEF IInv
  <2>2. \A g \in Fibers : fiber'[g].res = fiber[g].res
    BY <1>4, <2>1, TriggerFacts
  <2>3. QED
    BY <1>1, <2>2
<1>5. ASSUME NEW c \in cbs, Callback(c) PROVE fiber'[f].res = "none"
  <2>1. CASE RunCallback(c)
    BY <1>1, <2>1 DEF RunCallback
  <2>2. CASE CancelEvent(c)
    <3>1. {EventOf(c.timer.op)} \in SUBSET Events
      BY CallFacts
    <3>2. fiber' = fiber \/ \E S : Trigger({EventOf(c.timer.op)}, S)
      BY <2>2, Zenon DEF CancelEvent
    <3>3. QED
      BY <1>1, <1>4, <3>1, <3>2
  <2>3. CASE EndSleep(c)
    BY <1>1, <2>3 DEF EndSleep, Goto
  <2>4. QED
    BY <1>5, <2>1, <2>2, <2>3 DEF Callback
<1>6. ASSUME NEW e \in Events, CancelFromOutside(e) PROVE fiber'[f].res = "none"
  <2>1. {e} \in SUBSET Events /\ Trigger({e}, Fibers)
    BY <1>6 DEF CancelFromOutside
  <2>2. QED
    BY <1>4, <2>1
<1>9. ASSUME NEW i \in Idlers, HandleEvent(i) PROVE fiber'[f].res = "none"
  <2>1. RealEvents(i) \in SUBSET Events
    BY TypeFacts DEF RealEvents, ReportType, IInv
  <2>2. fiber' = fiber \/ Trigger(RealEvents(i), {})
    BY <1>9, Zenon DEF HandleEvent
  <2>3. QED
    BY <1>1, <1>4, <2>1, <2>2
<1>7. CASE fiber' = fiber
  BY <1>1, <1>7
<1>8. QED
  BY <1>2, <1>3, <1>5, <1>6, <1>7, <1>9
     DEF Next, EpollWait, Expire, Arrive, Socket, Handshake, vars

(* connect returns 0 after a wait only when the connection is up, or when     *)
(* something other than its own event or timer may have ended the wait: a      *)
(* foreign cancel, an old report of the number, a close (hook.cpp:302-342,     *)
(* iomanager.cpp:392,420-464).                                                 *)
THEOREM ConnectedAlwaysUp == Spec => ConnectedIsUp
<1>1. ASSUME IInv, [Next]_vars, NEW f \in Fibers, At(f, "error"), fiber'[f].res = "ok"
      PROVE  sock.conn = "up" \/ fiber[f].struck
  <2>1. fiber[f].pc = "error" /\ fiber[f].res = "none" /\ fiber[f].op = "connect"
    BY <1>1 DEF At, IInv, PlaceInv
  <2>2. SockError(f)
    BY <1>1, <2>1, ErrorStep
  <2>3. fiber'[f].res = IF ~sock.open THEN "bad" ELSE IF sock.conn = "refused" THEN "refused" ELSE "ok"
    <3>1. fiber \in [Fibers -> Record]
      BY <1>1, TypeFacts DEF IInv
    <3>2. QED
      BY <2>2, <3>1 DEF SockError, Done, Record
  <2>4. sock.conn # "refused"
    BY <1>1, <2>3
  <2>5. ~fiber[f].struck => sock.conn \in {"up", "refused"}
    BY <1>1, <2>1 DEF IInv, ConnInv
  <2>6. QED
    BY <2>4, <2>5
<1>2. IInv /\ [Next]_vars =>
        [\A f \in Fibers : At(f, "error") /\ fiber'[f].res = "ok" =>
           sock.conn = "up" \/ fiber[f].struck]_vars
  BY <1>1
<1>3. QED
  BY <1>2, InvAlways, PTL DEF Spec, ConnectedIsUp

=============================================================================
