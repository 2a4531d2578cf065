-------------------------- MODULE IOManagerProofs --------------------------
(* Proofs about IOManager, for any finite number of threads and descriptors, *)
(* any set of waiters and both kinds of client, careful or not.              *)
EXTENDS IOManager, FiniteSetTheorems, TLAPS

(* The table has an FdContext at every place it reaches, and reaches 0 and   *)
(* 1 always: so fd * 1.5 is above any fd that is not reached.                *)
Table ==
    /\ size >= 2
    /\ \A fd \in Fds : fd < size => fdContexts[fd] # 0

(* epoll lists only what is registered. *)
Listed == \A fd \in edge : interest[fd].ctx # 0

(* What a thread's place in the code says of its locals. *)
Locals ==
    \A t \in Threads :
      /\ pc[t] \in {"free", "event"} => call[t].kind = "none"
      /\ pc[t] = "grow" => call[t].kind = "add" /\ call[t].fd >= 2
      /\ pc[t] \in {"lock", "hit", "count"} => ctx[t] \in Ctxs
      /\ pc[t] \in {"hit", "count"} => hit[t] # {} /\ call[t].kind # "add"
      /\ pc[t] = "close" => call[t].kind = "close"
      /\ call[t].kind # "none" => call[t].fd \in Fds
      /\ call[t].kind \in {"add", "del", "cancel"} => call[t].event \in Events

(* Each addEvent under way has a waiter of its own. *)
Adding ==
    /\ \A t \in Threads : call[t].kind = "add" =>
         /\ call[t].waiter \in Waiters
         /\ status[call[t].waiter] = "adding"
    /\ \A t, u \in Threads :
         call[t].kind = "add" /\ call[u].kind = "add" /\ call[t].waiter = call[u].waiter
            => t = u

(* The EventContexts and the waiters: a waiter sits in one of them at most,  *)
(* and in one at least while it is armed.                                    *)
Homes ==
    /\ \A c \in Ctxs, e \in Events :
         /\ e \in events[c] <=> waiter[c][e] # NoWaiter
         /\ e \in events[c] => status[waiter[c][e]] = "armed"
    /\ \A c, d \in Ctxs : \A e, f \in Events :
         waiter[c][e] = waiter[d][f] /\ waiter[c][e] # NoWaiter => c = d /\ e = f
    /\ \A w \in Waiters : status[w] = "armed" =>
         \E c \in Ctxs : \E e \in Events : waiter[c][e] = w

Armed == {x \in Ctxs \X Events : x[2] \in events[x[1]]}
Counting == {t \in Threads : pc[t] = "count"}

IInv == TypeOK /\ Table /\ Listed /\ Locals /\ Adding /\ Homes /\ PendingExact

-----------------------------------------------------------------------------
(* The sets that PendingExact counts are finite. *)
LEMMA FiniteSets2 ==
    ASSUME NEW S \in SUBSET (Ctxs \X Events), NEW T \in SUBSET Threads
    PROVE  /\ IsFiniteSet(S) /\ Cardinality(S) \in Nat
           /\ IsFiniteSet(T) /\ Cardinality(T) \in Nat
<1>1. IsFiniteSet(1..MaxCtx)
  BY FS_Interval, IOAssumption
<1>2. IsFiniteSet(Ctxs)
  BY <1>1, FS_Product, IOAssumption DEF Ctxs
<1>3. IsFiniteSet(Events)
  <2>1. IsFiniteSet({"READ"} \cup {"WRITE"})
    BY FS_Singleton, FS_Union
  <2>2. {"READ"} \cup {"WRITE"} = {"READ", "WRITE"}
    OBVIOUS
  <2>3. QED
    BY <2>1, <2>2, FS_Subset, IOAssumption
<1>4. IsFiniteSet(Ctxs \X Events)
  BY <1>2, <1>3, FS_Product
<1>5. IsFiniteSet(S) /\ IsFiniteSet(T)
  BY <1>4, FS_Subset, IOAssumption
<1>6. QED
  BY <1>5, FS_CardinalityType

LEMMA InitInv == Init => IInv
<1> SUFFICES ASSUME Init PROVE IInv
  OBVIOUS
<1> USE IOAssumption DEF Init, NoCall, Unregistered
<1>1. TypeOK
  <2>1. /\ fdContexts \in [Fds -> 0..MaxCtx] /\ made \in [Fds -> 0..MaxCtx]
        /\ size \in Nat /\ pendingEventCount \in Nat
    OBVIOUS
  <2>2. /\ events \in [Ctxs -> SUBSET Events]
        /\ waiter \in [Ctxs -> [Events -> Waiters \cup {NoWaiter}]]
        /\ mutex \in [Ctxs -> Threads \cup {NoThread}]
    OBVIOUS
  <2>3. /\ call \in [Threads -> [kind : Kinds \cup {"none", "add"}, fd : Fds \cup {0},
                                 event : Events \cup {"NONE"},
                                 waiter : Waiters \cup {NoWaiter}]]
    OBVIOUS
  <2>4. /\ ctx \in [Threads -> Ctxs \cup {NoCtx}]
        /\ batch \in [Threads -> SUBSET (Ctxs \X SUBSET (Events \cup {"ERR"}))]
        /\ hit \in [Threads -> SUBSET Events]
    OBVIOUS
  <2>5. /\ pc \in [Threads -> {"free", "grow", "lock", "hit", "count", "close", "event"}]
        /\ status \in [Waiters -> {"out", "adding", "armed", "queued"}]
        /\ open \in SUBSET Fds /\ edge \in SUBSET Fds
        /\ ready \in [Fds -> SUBSET (Events \cup {"ERR"})]
    OBVIOUS
  <2>6. interest \in [Fds -> [ctx : 0..MaxCtx, mask : SUBSET Events]]
    OBVIOUS
  <2>7. aborted \in BOOLEAN
    OBVIOUS
  <2>8. QED
    BY <2>1, <2>2, <2>3, <2>4, <2>5, <2>6, <2>7 DEF TypeOK
<1>2. Table /\ Listed
  BY DEF Table, Listed
<1>3. Locals /\ Adding
  BY DEF Locals, Adding
<1>4. Homes
  BY DEF Homes
<1>5. PendingExact
  <2>1. Armed = {}
    BY DEF Armed, Ctxs
  <2>2. Counting = {}
    BY DEF Counting
  <2>3. Cardinality(Armed) = 0 /\ Cardinality(Counting) = 0
    BY <2>1, <2>2, FS_EmptySet
  <2>4. pendingEventCount = 0
    OBVIOUS
  <2> HIDE DEF Init
  <2>5. QED
    BY <2>3, <2>4 DEF PendingExact, Armed, Counting
<1>6. QED
  BY <1>1, <1>2, <1>3, <1>4, <1>5 DEF IInv

-----------------------------------------------------------------------------
(* The table after contextResize: the place of fd is filled. *)
LEMMA GrowFacts ==
    ASSUME TypeOK, Table, NEW n \in Nat, n >= 2, ContextResize(n),
           \A d \in Fds : made'[d] <= MaxCtx
    PROVE  /\ size' \in Nat /\ Table'
           /\ fdContexts' \in [Fds -> 0..MaxCtx] /\ made' \in [Fds -> 0..MaxCtx]
           /\ \A fd \in Fds : fd < n => <<fd, fdContexts'[fd]>> \in Ctxs
<1> USE IOAssumption DEF TypeOK, ContextResize, Missing
<1>1. size' = n /\ made' \in [Fds -> 0..MaxCtx]
  OBVIOUS
<1>2. ASSUME NEW fd \in Fds
      PROVE  /\ fdContexts'[fd] \in 0..MaxCtx
             /\ fd < n => fdContexts'[fd] \in 1..MaxCtx
  OBVIOUS
<1>3. fdContexts' \in [Fds -> 0..MaxCtx]
  BY <1>2
<1>4. QED
  BY <1>1, <1>2, <1>3 DEF Table, Ctxs

(* What epoll_ctl leaves of the registrations and of the ready list. *)
LEMMA CtlFacts ==
    ASSUME TypeOK, Listed, NEW op \in {"ADD", "MOD", "DEL"}, NEW c \in Ctxs,
           NEW mask \in SUBSET Events, EpollCtl(op, c, mask)
    PROVE  /\ interest' \in [Fds -> [ctx : 0..MaxCtx, mask : SUBSET Events]]
           /\ edge' \in SUBSET Fds /\ Listed'
<1> USE IOAssumption DEF TypeOK, EpollCtl, Unregistered, Ctxs
<1> DEFINE fd == c[1]
<1>1. fd \in Fds /\ c[2] \in 1..MaxCtx
  OBVIOUS
<1>2. CASE op = "DEL"
  <2>1. interest' = [interest EXCEPT ![fd] = [ctx |-> 0, mask |-> {}]] /\ edge' = edge \ {fd}
    BY <1>2
  <2> HIDE DEF EpollCtl
  <2>2. interest' \in [Fds -> [ctx : 0..MaxCtx, mask : SUBSET Events]]
    BY <1>1, <2>1
  <2>3. edge' \in SUBSET Fds /\ \A d \in edge' : d \in edge /\ d \in Fds /\ d # fd
    BY <2>1
  <2>4. \A d \in Fds : d # fd => interest'[d] = interest[d]
    BY <1>1, <2>1
  <2>5. QED
    BY <2>2, <2>3, <2>4, Zenon DEF Listed
<1>3. CASE op # "DEL"
  <2>1. interest' = [interest EXCEPT ![fd] = [ctx |-> c[2], mask |-> mask]]
    BY <1>3
  <2>2. edge' \subseteq edge \cup {fd}
    BY <1>3
  <2> HIDE DEF EpollCtl
  <2>3. interest' \in [Fds -> [ctx : 0..MaxCtx, mask : SUBSET Events]]
    BY <1>1, <2>1
  <2>4. interest'[fd].ctx = c[2] /\ \A d \in Fds \ {fd} : interest'[d] = interest[d]
    BY <1>1, <2>1
  <2>5. edge' \in SUBSET Fds
    BY <1>1, <2>2
  <2>6. ASSUME NEW d \in edge' PROVE interest'[d].ctx # 0
    <3>1. d = fd => interest'[d].ctx # 0
      BY <1>1, <2>4
    <3>2. d # fd => d \in edge /\ d \in Fds /\ interest'[d] = interest[d]
      BY <2>2, <2>4, <2>5
    <3>3. QED
      BY <3>1, <3>2, Zenon DEF Listed
  <2>7. QED
    BY <2>3, <2>5, <2>6, Zenon DEF Listed
<1>4. QED
  BY <1>2, <1>3

(* What a thread that leaves a call looks like. *)
LEMMA ReturnFacts ==
    ASSUME TypeOK, NEW t \in Threads, Return(t)
    PROVE  /\ pc' \in [Threads -> {"free", "grow", "lock", "hit", "count", "close", "event"}]
           /\ call' \in [Threads -> [kind : Kinds \cup {"none", "add"}, fd : Fds \cup {0},
                                     event : Events \cup {"NONE"},
                                     waiter : Waiters \cup {NoWaiter}]]
           /\ ctx' \in [Threads -> Ctxs \cup {NoCtx}]
           /\ pc'[t] \in {"free", "close", "event"}
           /\ pc'[t] = "close" => call'[t].kind = "close"
           /\ pc'[t] # "close" => call'[t].kind = "none"
           /\ call'[t].kind # "none" => call'[t] = call[t] /\ call[t].kind = "close"
           /\ \A u \in Threads \ {t} : pc'[u] = pc[u] /\ call'[u] = call[u] /\ ctx'[u] = ctx[u]
<1> USE IOAssumption DEF TypeOK, Return, NoCall
<1>1. pc' \in [Threads -> {"free", "grow", "lock", "hit", "count", "close", "event"}]
  OBVIOUS
<1>2. call' \in [Threads -> [kind : Kinds \cup {"none", "add"}, fd : Fds \cup {0},
                            event : Events \cup {"NONE"},
                            waiter : Waiters \cup {NoWaiter}]]
  OBVIOUS
<1>3. ctx' \in [Threads -> Ctxs \cup {NoCtx}]
  OBVIOUS
<1>4. QED
  BY <1>1, <1>2, <1>3

(* A thread that leaves a call disturbs nobody's locals. *)
LEMMA ReturnLocals ==
    ASSUME TypeOK, Locals, NEW t \in Threads, Return(t),
           \A u \in Threads \ {t} : hit'[u] = hit[u]
    PROVE  Locals'
<1> SUFFICES ASSUME NEW u \in Threads
             PROVE  /\ pc'[u] \in {"free", "event"} => call'[u].kind = "none"
                    /\ pc'[u] = "grow" => call'[u].kind = "add" /\ call'[u].fd >= 2
                    /\ pc'[u] \in {"lock", "hit", "count"} => ctx'[u] \in Ctxs
                    /\ pc'[u] \in {"hit", "count"} => hit'[u] # {} /\ call'[u].kind # "add"
                    /\ pc'[u] = "close" => call'[u].kind = "close"
                    /\ call'[u].kind # "none" => call'[u].fd \in Fds
                    /\ call'[u].kind \in {"add", "del", "cancel"} => call'[u].event \in Events
  BY Zenon DEF Locals
<1>1. CASE u = t
  BY <1>1, ReturnFacts DEF Locals
<1>2. CASE u # t
  <2>1. pc'[u] = pc[u] /\ call'[u] = call[u] /\ ctx'[u] = ctx[u] /\ hit'[u] = hit[u]
    BY <1>2, ReturnFacts
  <2>2. QED
    BY <2>1 DEF Locals
<1>3. QED
  BY <1>1, <1>2

-----------------------------------------------------------------------------
(* Types and the locals of the threads. *)
LEMMA TypeStep ==
    ASSUME IInv, Next
    PROVE  /\ pendingEventCount' \in Nat => TypeOK'
           /\ Table' /\ Listed' /\ Locals'
<1> DEFINE Goal == /\ pendingEventCount' \in Nat => TypeOK'
                   /\ Table' /\ Listed' /\ Locals'
<1> USE IOAssumption DEF IInv
<1>0. Callers \subseteq Threads /\ Idlers \subseteq Threads
  BY DEF Threads
<1>1. ASSUME NEW t \in Callers, NEW fd \in Fds, NEW e \in Events, NEW w \in Waiters,
             AddFind(t, fd, e, w)
      PROVE  Goal
  <2>1. size > fd => <<fd, fdContexts[fd]>> \in Ctxs
    BY DEF TypeOK, Table, Ctxs
  <2>2. ~(size > fd) => fd >= 2
    BY DEF TypeOK, Table
  <2> DEFINE new == [kind |-> "add", fd |-> fd, event |-> e, waiter |-> w]
  <2>3. /\ t \in Threads /\ call' = [call EXCEPT ![t] = new]
        /\ UNCHANGED <<size, fdContexts, made, dropped, events, waiter, mutex, batch, hit, open, ready,
                       interest, edge, aborted>>
        /\ \/ /\ size > fd /\ pc' = [pc EXCEPT ![t] = "lock"]
              /\ ctx' = [ctx EXCEPT ![t] = <<fd, fdContexts[fd]>>]
           \/ ~(size > fd) /\ pc' = [pc EXCEPT ![t] = "grow"] /\ ctx' = ctx
    BY <1>0, <1>1 DEF AddFind, tableVars, kernelVars
  <2>4. Table' /\ Listed'
    BY <2>3 DEF Table, Listed
  <2>5. status' \in [Waiters -> {"out", "adding", "armed", "queued"}]
    BY <1>1 DEF AddFind, TypeOK
  <2>6. call' \in [Threads -> [kind : Kinds \cup {"none", "add"}, fd : Fds \cup {0},
                              event : Events \cup {"NONE"},
                              waiter : Waiters \cup {NoWaiter}]]
    BY <2>3 DEF TypeOK
  <2>7. /\ ctx' \in [Threads -> Ctxs \cup {NoCtx}]
        /\ pc' \in [Threads -> {"free", "grow", "lock", "hit", "count", "close", "event"}]
    <3>1. CASE size > fd /\ ctx' = [ctx EXCEPT ![t] = <<fd, fdContexts[fd]>>]
      <4> DEFINE place == <<fd, fdContexts[fd]>>
      <4>1. place \in Ctxs /\ ctx' = [ctx EXCEPT ![t] = place]
        BY <2>1, <3>1
      <4> HIDE DEF place
      <4>2. ctx' \in [Threads -> Ctxs \cup {NoCtx}]
        BY <4>1 DEF TypeOK
      <4>3. pc' \in [Threads -> {"free", "grow", "lock", "hit", "count", "close", "event"}]
        BY <2>3 DEF TypeOK
      <4>4. QED
        BY <4>2, <4>3
    <3>2. CASE ~(size > fd)
      BY <2>3, <3>2 DEF TypeOK
    <3>3. QED
      BY <2>3, <3>1, <3>2
  <2>8. pendingEventCount' \in Nat => TypeOK'
    BY <2>3, <2>5, <2>6, <2>7 DEF TypeOK
  <2>9. Locals'
    <3>1. /\ pc'[t] = "grow" => fd >= 2
          /\ pc'[t] \in {"grow", "lock"} /\ (pc'[t] = "lock" => ctx'[t] \in Ctxs)
      <4>1. \/ size > fd /\ pc'[t] = "lock" /\ ctx'[t] = <<fd, fdContexts[fd]>>
            \/ ~(size > fd) /\ pc'[t] = "grow"
        BY <2>3 DEF TypeOK
      <4>2. QED
        BY <2>1, <2>2, <4>1
    <3>2. \A u \in Threads \ {t} : pc'[u] = pc[u] /\ ctx'[u] = ctx[u] /\ call'[u] = call[u]
      BY <2>3 DEF TypeOK
    <3>3. call'[t] = new
      BY <2>3 DEF TypeOK
    <3>4. hit' = hit
      BY <2>3
    <3> HIDE <2>3
    <3>5. QED
      BY <2>3, <3>1, <3>2, <3>3, <3>4 DEF Locals
  <2>10. QED
    BY <2>4, <2>8, <2>9
<1>2. ASSUME NEW t \in Callers, AddGrow(t) PROVE Goal
  <2> USE <1>0, <1>2 DEF AddGrow, kernelVars
  <2> DEFINE fd == call[t].fd
  <2>1. fd \in Fds /\ fd >= 2 /\ fd \in Nat
    BY DEF Locals
  <2>2. GrowTo(fd) \in Nat /\ GrowTo(fd) > fd
    BY <2>1 DEF GrowTo
  <2>3. /\ size' \in Nat /\ Table'
        /\ fdContexts' \in [Fds -> 0..MaxCtx] /\ made' \in [Fds -> 0..MaxCtx]
        /\ <<fd, fdContexts'[fd]>> \in Ctxs
    BY <2>1, <2>2, GrowFacts
  <2>d. dropped' \in SUBSET Fds
    BY DEF ContextResize, TypeOK
  <2>4. pendingEventCount' \in Nat => TypeOK'
    BY <2>3, <2>d DEF TypeOK
  <2>5. Locals'
    BY <2>1, <2>3 DEF TypeOK, Locals
  <2>6. QED
    BY <2>3, <2>4, <2>5 DEF Listed
<1>3. ASSUME NEW t \in Callers, AddEvent(t) PROVE Goal
  <2> USE <1>0, <1>3 DEF AddEvent, tableVars
  <2> DEFINE c == ctx[t]
  <2>1. c \in Ctxs /\ call[t].event \in Events
    BY DEF Locals
  <2>2. AddOp(events[c]) \in {"ADD", "MOD", "DEL"}
    BY DEF AddOp
  <2>3. events[c] \cup {call[t].event} \in SUBSET Events
    BY <2>1 DEF TypeOK
  <2>4. /\ interest' \in [Fds -> [ctx : 0..MaxCtx, mask : SUBSET Events]]
        /\ edge' \in SUBSET Fds /\ Listed'
    BY <2>1, <2>2, <2>3, CtlFacts
  <2>5. pendingEventCount' \in Nat => TypeOK'
    <3>1. events' \in [Ctxs -> SUBSET Events]
      BY <2>1, <2>3 DEF TypeOK
    <3>2. waiter' \in [Ctxs -> [Events -> Waiters \cup {NoWaiter}]]
      BY <2>1 DEF TypeOK
    <3>3. status' \in [Waiters -> {"out", "adding", "armed", "queued"}]
      BY DEF TypeOK
    <3>4. QED
      BY <2>4, <3>1, <3>2, <3>3, ReturnFacts DEF TypeOK
  <2>6. Table' /\ Locals'
    BY ReturnLocals DEF Table
  <2>7. QED
    BY <2>4, <2>5, <2>6
<1>4. ASSUME NEW t \in Callers, AddFails(t) PROVE Goal
  <2> USE <1>0, <1>4 DEF AddFails, tableVars, kernelVars
  <2>1. status' \in [Waiters -> {"out", "adding", "armed", "queued"}]
    BY DEF TypeOK
  <2>2. pendingEventCount' \in Nat => TypeOK'
    BY <2>1, ReturnFacts DEF TypeOK
  <2>3. Table' /\ Listed' /\ Locals'
    BY ReturnLocals DEF Table, Listed
  <2>4. QED
    BY <2>2, <2>3
<1>5. ASSUME NEW t \in Callers, AddTwice(t) PROVE Goal
  BY <1>5 DEF AddTwice, tableVars, kernelVars, TypeOK, Table, Listed, Locals
<1>6. ASSUME NEW t \in Callers, NEW k \in Kinds, NEW fd \in Fds, NEW e \in Events \cup {"NONE"},
             k \in {"del", "cancel"} => e \in Events, Find(t, k, fd, e)
      PROVE  Goal
  <2>1. size > fd => <<fd, fdContexts[fd]>> \in Ctxs
    BY DEF TypeOK, Table, Ctxs
  <2> DEFINE new == [kind |-> k, fd |-> fd, event |-> e, waiter |-> NoWaiter]
  <2>2. /\ t \in Threads /\ pc[t] = "free"
        /\ UNCHANGED <<size, fdContexts, made, dropped, events, waiter, mutex, batch, hit, status, open,
                       ready, interest, edge, aborted>>
        /\ \/ /\ size > fd /\ pc' = [pc EXCEPT ![t] = "lock"]
              /\ ctx' = [ctx EXCEPT ![t] = <<fd, fdContexts[fd]>>]
              /\ call' = [call EXCEPT ![t] = new]
           \/ /\ k = "close" /\ pc' = [pc EXCEPT ![t] = "close"] /\ ctx' = ctx
              /\ call' = [call EXCEPT ![t] = new]
           \/ pc' = [pc EXCEPT ![t] = "free"] /\ ctx' = ctx /\ call' = call
    BY <1>0, <1>6 DEF Find, tableVars, kernelVars
  <2>3. Table' /\ Listed'
    BY <2>2 DEF Table, Listed
  <2>4. new \in [kind : Kinds \cup {"none", "add"}, fd : Fds \cup {0},
                 event : Events \cup {"NONE"}, waiter : Waiters \cup {NoWaiter}]
    OBVIOUS
  <2>5. call' \in [Threads -> [kind : Kinds \cup {"none", "add"}, fd : Fds \cup {0},
                              event : Events \cup {"NONE"},
                              waiter : Waiters \cup {NoWaiter}]]
    BY <2>2, <2>4 DEF TypeOK
  <2>6. /\ ctx' \in [Threads -> Ctxs \cup {NoCtx}]
        /\ pc' \in [Threads -> {"free", "grow", "lock", "hit", "count", "close", "event"}]
    <3>1. ASSUME size > fd, ctx' = [ctx EXCEPT ![t] = <<fd, fdContexts[fd]>>]
          PROVE  ctx' \in [Threads -> Ctxs \cup {NoCtx}]
      <4> DEFINE place == <<fd, fdContexts[fd]>>
      <4>1. place \in Ctxs /\ ctx' = [ctx EXCEPT ![t] = place]
        BY <2>1, <3>1
      <4> HIDE DEF place
      <4>2. ctx' \in [Threads -> Ctxs \cup {NoCtx}]
        BY <4>1 DEF TypeOK
      <4>3. QED
        BY <4>2
    <3>2. ctx' = ctx => ctx' \in [Threads -> Ctxs \cup {NoCtx}]
      BY DEF TypeOK
    <3>3. pc' \in [Threads -> {"free", "grow", "lock", "hit", "count", "close", "event"}]
      <4>1. \E p \in {"lock", "close", "free"} : pc' = [pc EXCEPT ![t] = p]
        BY <2>2
      <4>2. QED
        BY <4>1 DEF TypeOK
    <3>4. (size > fd /\ ctx' = [ctx EXCEPT ![t] = <<fd, fdContexts[fd]>>]) \/ ctx' = ctx
      BY <2>2
    <3>5. QED
      BY <3>1, <3>2, <3>3, <3>4
  <2>7. pendingEventCount' \in Nat => TypeOK'
    BY <2>2, <2>5, <2>6 DEF TypeOK
  <2>8. k # "add" /\ k # "none" /\ (k \in {"del", "cancel"} => e \in Events)
    BY <1>6
  <2>9. Locals'
    <3>1. \A u \in Threads \ {t} : pc'[u] = pc[u] /\ ctx'[u] = ctx[u] /\ call'[u] = call[u]
      BY <2>2 DEF TypeOK
    <3>2. \/ pc'[t] = "lock" /\ ctx'[t] \in Ctxs /\ call'[t] = new
          \/ pc'[t] = "close" /\ k = "close" /\ call'[t] = new
          \/ pc'[t] = "free" /\ call'[t].kind = "none"
      <4>1. CASE size > fd /\ pc' = [pc EXCEPT ![t] = "lock"]
                 /\ ctx' = [ctx EXCEPT ![t] = <<fd, fdContexts[fd]>>]
                 /\ call' = [call EXCEPT ![t] = new]
        BY <1>0, <2>1, <4>1 DEF TypeOK
      <4>2. CASE k = "close" /\ pc' = [pc EXCEPT ![t] = "close"]
                 /\ call' = [call EXCEPT ![t] = new]
        BY <1>0, <4>2 DEF TypeOK
      <4>3. CASE pc' = [pc EXCEPT ![t] = "free"] /\ call' = call
        BY <1>0, <2>2, <4>3 DEF TypeOK, Locals
      <4>4. QED
        BY <2>2, <4>1, <4>2, <4>3
    <3>3. hit' = hit
      BY <2>2
    <3>4. QED
      BY <2>8, <3>1, <3>2, <3>3 DEF Locals
  <2>10. QED
    BY <2>3, <2>7, <2>9
<1>7. ASSUME NEW t \in Callers, CancelFails(t) PROVE Goal
  <2> USE <1>0, <1>7 DEF CancelFails, tableVars, kernelVars
  <2>1. pendingEventCount' \in Nat => TypeOK'
    BY ReturnFacts DEF TypeOK
  <2>2. Table' /\ Listed' /\ Locals'
    BY ReturnLocals DEF Table, Listed
  <2>3. QED
    BY <2>1, <2>2
<1>8. ASSUME NEW t \in Callers, DelEvent(t) PROVE Goal
  <2> USE <1>0, <1>8 DEF DelEvent, tableVars
  <2> DEFINE c == ctx[t]
  <2>1. c \in Ctxs /\ call[t].event \in Events
    BY DEF Locals, AtCancel
  <2>2. LeftOp(Left(t)) \in {"ADD", "MOD", "DEL"} /\ Left(t) \in SUBSET Events
    BY <2>1 DEF LeftOp, Left, TypeOK
  <2>3. /\ interest' \in [Fds -> [ctx : 0..MaxCtx, mask : SUBSET Events]]
        /\ edge' \in SUBSET Fds /\ Listed'
    BY <2>1, <2>2, CtlFacts
  <2>4. pendingEventCount' \in Nat => TypeOK'
    <3>1. events' \in [Ctxs -> SUBSET Events]
      BY <2>1, <2>2 DEF TypeOK
    <3>2. waiter' \in [Ctxs -> [Events -> Waiters \cup {NoWaiter}]]
      BY <2>1 DEF TypeOK, Cleared
    <3>3. status' \in [Waiters -> {"out", "adding", "armed", "queued"}]
      BY DEF TypeOK
    <3>4. QED
      BY <2>3, <3>1, <3>2, <3>3, ReturnFacts DEF TypeOK
  <2>5. Table' /\ Locals'
    BY ReturnLocals DEF Table
  <2>6. QED
    BY <2>3, <2>4, <2>5
<1>9. ASSUME NEW t \in Callers, CancelEvent(t) PROVE Goal
  <2> USE <1>0, <1>9 DEF CancelEvent, tableVars
  <2> DEFINE c == ctx[t]
  <2>1. c \in Ctxs
    BY DEF Locals, AtCancel
  <2>2. /\ LeftOp(Left(t)) \in {"ADD", "MOD", "DEL"} /\ Left(t) \in SUBSET Events
        /\ Wanted(t) \in SUBSET Events
    BY <2>1 DEF LeftOp, Left, Wanted, TypeOK
  <2>3. /\ interest' \in [Fds -> [ctx : 0..MaxCtx, mask : SUBSET Events]]
        /\ edge' \in SUBSET Fds /\ Listed'
    BY <2>1, <2>2, CtlFacts
  <2>4. pendingEventCount' \in Nat => TypeOK'
    BY <2>1, <2>2, <2>3 DEF TypeOK
  <2>5. call[t].kind # "add"
    BY DEF AtCancel
  <2>6. Table' /\ Locals'
    BY <2>1, <2>5 DEF Table, Locals, TypeOK
  <2>7. QED
    BY <2>3, <2>4, <2>6
<1>10. ASSUME NEW t \in Callers, CloseFd(t) PROVE Goal
  <2> USE <1>0, <1>10 DEF CloseFd, tableVars, Unregistered, NoCall
  <2>1. pendingEventCount' \in Nat => TypeOK'
    <3>1. interest' \in [Fds -> [ctx : 0..MaxCtx, mask : SUBSET Events]]
      <4>1. [ctx |-> 0, mask |-> {}] \in [ctx : 0..MaxCtx, mask : SUBSET Events]
        OBVIOUS
      <4>2. interest' = [interest EXCEPT ![call[t].fd] = [ctx |-> 0, mask |-> {}]]
        OBVIOUS
      <4> HIDE <1>10 DEF CloseFd
      <4>3. QED
        BY <4>1, <4>2 DEF TypeOK
    <3>2. call' \in [Threads -> [kind : Kinds \cup {"none", "add"}, fd : Fds \cup {0},
                                event : Events \cup {"NONE"},
                                waiter : Waiters \cup {NoWaiter}]]
      BY DEF TypeOK
    <3>3. ready' \in [Fds -> SUBSET (Events \cup {"ERR"})]
      BY DEF TypeOK
    <3>4. QED
      BY <3>1, <3>2, <3>3 DEF TypeOK
  <2>2. Table' /\ Listed'
    BY DEF Table, Listed, TypeOK
  <2>3. Locals'
    BY DEF Locals, TypeOK
  <2>4. QED
    BY <2>1, <2>2, <2>3
<1>11. ASSUME NEW t \in Idlers, EpollWait(t) PROVE Goal
  <2> USE <1>0, <1>11 DEF EpollWait, tableVars
  <2>1. PICK S \in SUBSET edge :
          /\ batch' = [batch EXCEPT ![t] =
               {<<<<fd, interest[fd].ctx>>, Report(fd)>> : fd \in Handled(S)}]
          /\ edge' = edge \ S
    OBVIOUS
  <2>2. ASSUME NEW fd \in Handled(S)
        PROVE  <<<<fd, interest[fd].ctx>>, Report(fd)>>
                 \in Ctxs \X SUBSET (Events \cup {"ERR"})
    BY DEF Handled, Report, Listed, TypeOK, Ctxs
  <2>3. batch' \in [Threads -> SUBSET (Ctxs \X SUBSET (Events \cup {"ERR"}))]
    BY <2>1, <2>2 DEF TypeOK
  <2>4. pendingEventCount' \in Nat => TypeOK'
    BY <2>1, <2>3 DEF TypeOK
  <2>5. Table' /\ Listed' /\ Locals'
    BY <2>1 DEF Table, Listed, Locals, TypeOK
  <2>6. QED
    BY <2>4, <2>5
<1>12. ASSUME NEW t \in Idlers, SkipEvent(t) PROVE Goal
  <2> USE <1>0, <1>12 DEF SkipEvent, tableVars, kernelVars
  <2>1. pendingEventCount' \in Nat => TypeOK'
    BY DEF TypeOK
  <2>2. Table' /\ Listed'
    BY DEF Table, Listed
  <2>3. /\ pc[t] = "event" /\ pc' \in {[pc EXCEPT ![t] = "free"], [pc EXCEPT ![t] = "event"]}
        /\ UNCHANGED <<call, ctx, hit>>
    OBVIOUS
  <2>4. call[t].kind = "none"
    BY DEF Locals
  <2> HIDE DEF SkipEvent
  <2>5. Locals'
    BY <2>3, <2>4 DEF Locals, TypeOK
  <2>6. QED
    BY <2>1, <2>2, <2>5
<1>13. ASSUME NEW t \in Idlers, HandleEvent(t) PROVE Goal
  <2>1. PICK b \in batch[t] :
          LET c == b[1]  real == RealEvents(c, b[2])  left == LeftEvents(c, real) IN
          /\ pc[t] = "event"
          /\ events[c] \cap real # {}
          /\ EpollCtl(LeftOp(left), c, left)
          /\ batch' = [batch EXCEPT ![t] = @ \ {b}]
          /\ hit' = [hit EXCEPT ![t] = real]
          /\ ctx' = [ctx EXCEPT ![t] = c]
          /\ mutex' = [mutex EXCEPT ![c] = t]
          /\ pc' = [pc EXCEPT ![t] = "hit"]
          /\ UNCHANGED <<tableVars, events, waiter, pendingEventCount, call, status,
                         open, ready, aborted>>
    BY <1>13 DEF HandleEvent
  <2> DEFINE c == b[1]
             real == RealEvents(c, b[2])
             left == LeftEvents(c, real)
  <2>2. c \in Ctxs /\ b[2] \in SUBSET (Events \cup {"ERR"})
    BY <1>0 DEF TypeOK
  <2>3. /\ real \in SUBSET Events /\ left \in SUBSET Events
        /\ LeftOp(left) \in {"ADD", "MOD", "DEL"}
    BY <2>2 DEF RealEvents, LeftEvents, LeftOp, TypeOK
  <2> HIDE DEF real, left
  <2>4. /\ interest' \in [Fds -> [ctx : 0..MaxCtx, mask : SUBSET Events]]
        /\ edge' \in SUBSET Fds /\ Listed'
    BY <2>1, <2>2, <2>3, CtlFacts DEF real, left
  <2>5. /\ events[c] \cap real # {}
        /\ pc[t] = "event"
        /\ batch' = [batch EXCEPT ![t] = @ \ {b}]
        /\ hit' = [hit EXCEPT ![t] = real]
        /\ ctx' = [ctx EXCEPT ![t] = c]
        /\ mutex' = [mutex EXCEPT ![c] = t]
        /\ pc' = [pc EXCEPT ![t] = "hit"]
        /\ UNCHANGED <<size, fdContexts, made, dropped, events, waiter, call, status, open, ready, aborted>>
    BY <2>1 DEF real, left, tableVars
  <2>6. pendingEventCount' \in Nat => TypeOK'
    BY <1>0, <2>2, <2>3, <2>4, <2>5 DEF TypeOK
  <2>7. Table' /\ Locals'
    BY <1>0, <2>2, <2>5 DEF Table, Locals, TypeOK
  <2>8. QED
    BY <2>4, <2>6, <2>7
<1>14. ASSUME NEW t \in Threads, TriggerEvent(t) PROVE Goal
  <2> USE <1>14 DEF TriggerEvent, tableVars, kernelVars
  <2>1. ctx[t] \in Ctxs /\ NextHit(t) \in Events
    BY DEF Locals, TypeOK
  <2>2. pendingEventCount' \in Nat => TypeOK'
    <3>1. events' \in [Ctxs -> SUBSET Events]
      BY <2>1 DEF TypeOK
    <3>2. waiter' \in [Ctxs -> [Events -> Waiters \cup {NoWaiter}]]
      BY <2>1 DEF TypeOK, Cleared
    <3>3. status' \in [Waiters -> {"out", "adding", "armed", "queued"}]
      BY DEF TypeOK
    <3>4. QED
      BY <3>1, <3>2, <3>3 DEF TypeOK
  <2>3. Table' /\ Listed' /\ Locals'
    BY DEF Table, Listed, Locals, TypeOK
  <2>4. QED
    BY <2>2, <2>3
<1>15. ASSUME NEW t \in Threads, TriggerAborts(t) PROVE Goal
  BY <1>15 DEF TriggerAborts, tableVars, kernelVars, TypeOK, Table, Listed, Locals
<1>16. ASSUME NEW t \in Threads, CountDown(t) PROVE Goal
  <2> DEFINE rest == hit[t] \ {NextHit(t)}
  <2>1. /\ hit' = [hit EXCEPT ![t] = rest] /\ pc[t] = "count"
        /\ UNCHANGED <<size, fdContexts, made, dropped, events, waiter, batch, status, open, ready,
                       interest, edge, aborted>>
    BY <1>16 DEF CountDown, tableVars, kernelVars
  <2>2. hit' \in [Threads -> SUBSET Events]
    BY <2>1 DEF TypeOK
  <2>3. ctx[t] \in Ctxs
    BY <2>1 DEF Locals
  <2>4. CASE rest # {}
    <3>1. pc' = [pc EXCEPT ![t] = "hit"] /\ UNCHANGED <<call, ctx, mutex>>
      BY <1>16, <2>4 DEF CountDown
    <3>2. pendingEventCount' \in Nat => TypeOK'
      BY <2>1, <2>2, <3>1 DEF TypeOK
    <3>3. Table' /\ Listed' /\ Locals'
      BY <2>1, <2>4, <3>1 DEF Table, Listed, Locals, TypeOK
    <3>4. QED
      BY <3>2, <3>3
  <2>5. CASE rest = {}
    <3>1. Return(t) /\ mutex' = [mutex EXCEPT ![ctx[t]] = NoThread]
      BY <1>16, <2>5 DEF CountDown
    <3>2. pendingEventCount' \in Nat => TypeOK'
      BY <2>1, <2>2, <3>1, ReturnFacts DEF TypeOK
    <3>3. \A u \in Threads \ {t} : hit'[u] = hit[u]
      BY <2>1 DEF TypeOK
    <3>4. Locals'
      BY <3>1, <3>3, ReturnLocals
    <3>5. QED
      BY <2>1, <3>2, <3>4 DEF Table, Listed
  <2>6. QED
    BY <2>4, <2>5
<1>17. ASSUME NEW w \in Waiters, Resume(w) PROVE Goal
  BY <1>17 DEF Resume, tableVars, kernelVars, TypeOK, Table, Listed, Locals
<1>18. ASSUME NEW fd \in Fds, NEW x \in Events \cup {"ERR"}, Arrive(fd, x) PROVE Goal
  <2> USE <1>18 DEF Arrive, tableVars
  <2>1. ready' \in [Fds -> SUBSET (Events \cup {"ERR"})] /\ edge' \in SUBSET Fds
    BY DEF TypeOK
  <2>2. pendingEventCount' \in Nat => TypeOK'
    BY <2>1 DEF TypeOK
  <2>3. Table' /\ Listed' /\ Locals'
    BY DEF Table, Listed, Locals
  <2>4. QED
    BY <2>2, <2>3
<1>19. ASSUME NEW fd \in Fds, NEW x \in Events, Use(fd, x) PROVE Goal
  BY <1>19 DEF Use, tableVars, TypeOK, Table, Listed, Locals
<1>20. ASSUME NEW fd \in Fds, Reopen(fd) PROVE Goal
  BY <1>20 DEF Reopen, tableVars, TypeOK, Table, Listed, Locals
<1>21. ASSUME Aborted PROVE Goal
  BY <1>21 DEF Aborted, vars, TypeOK, Table, Listed, Locals
<1>22. QED
  <2> HIDE DEF IInv, Goal
  <2>1. ASSUME NEW t \in Callers, Begin(t) PROVE Goal
    BY <1>1, <1>6, <2>1 DEF Begin
  <2>2. ASSUME NEW t \in Callers, Proceed(t) PROVE Goal
    BY <1>0, <1>2, <1>3, <1>4, <1>5, <1>7, <1>8, <1>9, <1>10, <1>14, <1>15, <1>16, <2>2
       DEF Proceed, Triggers
  <2>3. ASSUME NEW t \in Idlers, Idle(t) PROVE Goal
    BY <1>0, <1>11, <1>12, <1>13, <1>14, <1>15, <1>16, <2>3 DEF Idle, Triggers
  <2>4. ASSUME Kernel PROVE Goal
    BY <1>18, <1>19, <1>20, <2>4 DEF Kernel
  <2>5. Goal
    BY <1>17, <1>21, <2>1, <2>2, <2>3, <2>4 DEF Next
  <2>6. QED
    BY <2>5 DEF Goal

-----------------------------------------------------------------------------
(* Two EventContexts with the same waiter are one. *)
LEMMA OneHome ==
    ASSUME Homes, NEW d \in Ctxs, NEW g \in Ctxs, NEW f \in Events, NEW h \in Events,
           waiter[d][f] = waiter[g][h], waiter[d][f] # NoWaiter
    PROVE  d = g /\ f = h
BY DEF Homes

(* Steps that arm and disarm nobody and begin no addEvent. *)
LEMMA HomesSame ==
    ASSUME IInv, UNCHANGED <<events, waiter, status>>,
           \A u \in Threads : call'[u] = call[u] \/ call'[u].kind # "add"
    PROVE  Adding' /\ Homes'
<1>1. Homes'
  BY DEF IInv, Homes
<1>2. Adding'
  BY DEF IInv, Adding
<1>3. QED
  BY <1>1, <1>2

(* The waiter of an event is taken out of its EventContext. *)
LEMMA Disarmed ==
    ASSUME IInv, NEW c \in Ctxs, NEW e \in Events, e \in events[c],
           NEW s \in {"out", "queued"},
           events' = [events EXCEPT ![c] = @ \ {e}],
           status' = [status EXCEPT ![waiter[c][e]] = s],
           waiter' = Cleared(c, e),
           \A u \in Threads : call'[u] = call[u] \/ call'[u].kind # "add"
    PROVE  Adding' /\ Homes'
<1> DEFINE w == waiter[c][e]
<1> USE IOAssumption DEF IInv
<1>1. w \in Waiters /\ status[w] = "armed"
  BY DEF TypeOK, Homes
<1>2. Adding'
  BY <1>1 DEF Adding, TypeOK
<1>3. \A d \in Ctxs : \A f \in Events :
        waiter'[d][f] = IF d = c /\ f = e THEN NoWaiter ELSE waiter[d][f]
  BY DEF Cleared, TypeOK
<1>4. \A d \in Ctxs : \A f \in Events :
        f \in events'[d] <=> f \in events[d] /\ ~(d = c /\ f = e)
  BY DEF TypeOK
<1>5. \A x \in Waiters : status'[x] = IF x = w THEN s ELSE status[x]
  BY DEF TypeOK
<1>6. \A d \in Ctxs : \A f \in Events : f \in events'[d] =>
        waiter[d][f] \in Waiters /\ waiter[d][f] # w
  BY <1>4 DEF TypeOK, Homes
<1>7. Homes'
  <2>1. ASSUME NEW d \in Ctxs, NEW f \in Events
        PROVE  /\ f \in events'[d] <=> waiter'[d][f] # NoWaiter
               /\ f \in events'[d] => status'[waiter'[d][f]] = "armed"
    BY <1>3, <1>4, <1>5, <1>6 DEF Homes
  <2>2. ASSUME NEW d \in Ctxs, NEW g \in Ctxs, NEW f \in Events, NEW h \in Events,
               waiter'[d][f] = waiter'[g][h], waiter'[d][f] # NoWaiter
        PROVE  d = g /\ f = h
    <3>1. waiter'[d][f] = waiter[d][f] /\ waiter'[g][h] = waiter[g][h]
      BY <1>3, <2>2
    <3>2. waiter[d][f] = waiter[g][h] /\ waiter[d][f] # NoWaiter
      BY <2>2, <3>1
    <3>3. QED
      BY <3>2, OneHome
  <2>3. ASSUME NEW x \in Waiters, status'[x] = "armed"
        PROVE  \E d \in Ctxs : \E f \in Events : waiter'[d][f] = x
    <3>1. x # w /\ status[x] = "armed"
      BY <1>5, <2>3
    <3>2. PICK d \in Ctxs : \E f \in Events : waiter[d][f] = x
      BY <3>1 DEF Homes
    <3>3. PICK f \in Events : waiter[d][f] = x
      BY <3>2
    <3>4. waiter'[d][f] = x
      BY <1>3, <3>1, <3>3
    <3>5. QED
      BY <3>4
  <2>4. QED
    BY <2>1, <2>2, <2>3 DEF Homes
<1>8. QED
  BY <1>2, <1>7

(* Every waiter stays where its status says. *)
LEMMA HomesStep == ASSUME IInv, Next PROVE Adding' /\ Homes'
<1> DEFINE Goal == Adding' /\ Homes'
<1> USE IOAssumption
<1>0. Callers \subseteq Threads /\ Idlers \subseteq Threads
  BY DEF Threads
<1>1. ASSUME NEW t \in Callers, NEW fd \in Fds, NEW e \in Events, NEW w \in Waiters,
             AddFind(t, fd, e, w)
      PROVE  Goal
  <2>1. /\ t \in Threads /\ UNCHANGED <<events, waiter>> /\ status[w] = "out"
        /\ call' = [call EXCEPT ![t] = [kind |-> "add", fd |-> fd, event |-> e, waiter |-> w]]
        /\ status' = [status EXCEPT ![w] = "adding"]
    BY <1>0, <1>1 DEF AddFind
  <2>2. \A x \in Waiters : status'[x] = IF x = w THEN "adding" ELSE status[x]
    BY <2>1 DEF IInv, TypeOK
  <2>3. Homes'
    BY <2>1, <2>2 DEF IInv, Homes, TypeOK
  <2>4. call'[t].kind = "add" /\ call'[t].waiter = w
        /\ \A u \in Threads \ {t} : call'[u] = call[u]
    BY <2>1 DEF IInv, TypeOK
  <2>5. \A u \in Threads \ {t} : call[u].kind = "add" => call[u].waiter # w
    BY <2>1 DEF IInv, Adding
  <2>6. Adding'
    BY <2>2, <2>4, <2>5 DEF IInv, Adding
  <2>7. QED
    BY <2>3, <2>6
<1>2. ASSUME NEW t \in Callers, AddEvent(t) PROVE Goal
  <2> DEFINE c == ctx[t]
             e == call[t].event
             w == call[t].waiter
  <2>1. /\ t \in Threads /\ c \in Ctxs /\ e \in Events /\ e \notin events[c]
        /\ call[t].kind = "add" /\ w \in Waiters /\ status[w] = "adding"
    BY <1>0, <1>2 DEF AddEvent, Free, IInv, Locals, Adding
  <2>2. /\ events' = [events EXCEPT ![c] = @ \cup {e}]
        /\ waiter' = [waiter EXCEPT ![c][e] = w]
        /\ status' = [status EXCEPT ![w] = "armed"]
        /\ Return(t)
    BY <1>2 DEF AddEvent
  <2>3. \A x \in Waiters : status'[x] = IF x = w THEN "armed" ELSE status[x]
    BY <2>1, <2>2 DEF IInv, TypeOK
  <2>4. \A d \in Ctxs : \A f \in Events :
          /\ waiter'[d][f] = IF d = c /\ f = e THEN w ELSE waiter[d][f]
          /\ f \in events'[d] <=> f \in events[d] \/ (d = c /\ f = e)
    BY <2>1, <2>2 DEF IInv, TypeOK
  <2>5. \A d \in Ctxs : \A f \in Events :
          waiter[d][f] # w /\ (f \in events[d] => waiter[d][f] \in Waiters)
    <3> SUFFICES ASSUME NEW d \in Ctxs, NEW f \in Events
                 PROVE  waiter[d][f] # w /\ (f \in events[d] => waiter[d][f] \in Waiters)
      OBVIOUS
    <3>1. waiter[d][f] \in Waiters \cup {NoWaiter}
      <4>1. waiter \in [Ctxs -> [Events -> Waiters \cup {NoWaiter}]]
        BY DEF IInv, TypeOK
      <4>2. QED
        BY <4>1
    <3>2. waiter[d][f] # NoWaiter => f \in events[d] /\ status[waiter[d][f]] = "armed"
      BY DEF IInv, Homes
    <3>3. f \in events[d] => waiter[d][f] # NoWaiter
      BY DEF IInv, Homes
    <3>4. QED
      BY <2>1, <3>1, <3>2, <3>3
  <2>6. Adding'
    <3>1. call'[t].kind # "add" /\ \A u \in Threads \ {t} : call'[u] = call[u]
      BY <2>1, <2>2, ReturnFacts DEF IInv
    <3>2. \A u \in Threads \ {t} : call[u].kind = "add" => call[u].waiter # w
      BY <2>1 DEF IInv, Adding
    <3>3. QED
      BY <2>3, <3>1, <3>2 DEF IInv, Adding
  <2>7. Homes'
    <3>1. ASSUME NEW d \in Ctxs, NEW f \in Events
          PROVE  /\ f \in events'[d] <=> waiter'[d][f] # NoWaiter
                 /\ f \in events'[d] => status'[waiter'[d][f]] = "armed"
      BY <2>1, <2>3, <2>4, <2>5 DEF IInv, Homes
    <3>2. ASSUME NEW d \in Ctxs, NEW g \in Ctxs, NEW f \in Events, NEW h \in Events,
                 waiter'[d][f] = waiter'[g][h], waiter'[d][f] # NoWaiter
          PROVE  d = g /\ f = h
      <4>1. CASE waiter'[d][f] = w
        <5> HIDE DEF c, e, w
        <5>0. waiter[d][f] # w /\ waiter'[d][f] = IF d = c /\ f = e THEN w ELSE waiter[d][f]
          BY <2>4, <2>5
        <5>1. d = c /\ f = e
          BY <4>1, <5>0
        <5>2. waiter'[g][h] = w
          BY <3>2, <4>1
        <5>3. waiter[g][h] # w /\ waiter'[g][h] = IF g = c /\ h = e THEN w ELSE waiter[g][h]
          BY <2>4, <2>5
        <5>4. g = c /\ h = e
          BY <5>2, <5>3
        <5>5. QED
          BY <5>1, <5>4
      <4>2. CASE waiter'[d][f] # w
        <5>1. waiter'[d][f] = waiter[d][f] /\ waiter'[g][h] = waiter[g][h]
          BY <2>4, <3>2, <4>2
        <5>2. waiter[d][f] = waiter[g][h] /\ waiter[d][f] # NoWaiter
          BY <3>2, <5>1
        <5>3. QED
          BY <5>2, OneHome DEF IInv
      <4>3. QED
        BY <4>1, <4>2
    <3>3. ASSUME NEW x \in Waiters, status'[x] = "armed"
          PROVE  \E d \in Ctxs : \E f \in Events : waiter'[d][f] = x
      <4>1. CASE x = w
        <5>1. waiter'[c][e] = x
          BY <2>1, <2>4, <4>1
        <5> HIDE DEF c, e
        <5>2. QED
          BY <2>1, <5>1
      <4>2. CASE x # w
        <5>1. status[x] = "armed"
          BY <2>3, <3>3, <4>2
        <5>2. PICK d \in Ctxs : \E f \in Events : waiter[d][f] = x
          BY <5>1 DEF IInv, Homes
        <5>3. PICK f \in Events : waiter[d][f] = x
          BY <5>2
        <5> HIDE DEF c, e, w
        <5>4. waiter[c][e] = NoWaiter /\ x # NoWaiter
          BY <2>1, IOAssumption DEF IInv, Homes
        <5>5. ~(d = c /\ f = e)
          BY <5>3, <5>4
        <5>6. QED
          BY <2>4, <5>3, <5>5
      <4>3. QED
        BY <4>1, <4>2
    <3> HIDE DEF c, e, w
    <3>4. \A d \in Ctxs, f \in Events :
            /\ f \in events'[d] <=> waiter'[d][f] # NoWaiter
            /\ f \in events'[d] => status'[waiter'[d][f]] = "armed"
      BY <3>1
    <3>5. \A d, g \in Ctxs : \A f, h \in Events :
            waiter'[d][f] = waiter'[g][h] /\ waiter'[d][f] # NoWaiter => d = g /\ f = h
      BY <3>2
    <3>6. \A x \in Waiters : status'[x] = "armed" =>
            \E d \in Ctxs : \E f \in Events : waiter'[d][f] = x
      BY <3>3
    <3>7. QED
      BY <3>4, <3>5, <3>6, Zenon DEF Homes
  <2>8. QED
    BY <2>6, <2>7
<1>3. ASSUME NEW t \in Callers, AddFails(t) PROVE Goal
  <2> DEFINE w == call[t].waiter
  <2>1. /\ t \in Threads /\ w \in Waiters /\ status[w] = "adding" /\ call[t].kind = "add"
        /\ UNCHANGED <<events, waiter>> /\ status' = [status EXCEPT ![w] = "out"]
        /\ Return(t)
    BY <1>0, <1>3 DEF AddFails, IInv, Adding
  <2>2. \A x \in Waiters : status'[x] = IF x = w THEN "out" ELSE status[x]
    BY <2>1 DEF IInv, TypeOK
  <2>3. Homes'
    BY <2>1, <2>2 DEF IInv, Homes, TypeOK
  <2>4. call'[t].kind # "add" /\ \A u \in Threads \ {t} : call'[u] = call[u]
    BY <2>1, ReturnFacts DEF IInv
  <2>5. \A u \in Threads \ {t} : call[u].kind = "add" => call[u].waiter # w
    BY <2>1 DEF IInv, Adding
  <2>6. Adding'
    BY <2>2, <2>4, <2>5 DEF IInv, Adding
  <2>7. QED
    BY <2>3, <2>6
<1>4. ASSUME NEW t \in Callers, DelEvent(t) PROVE Goal
  <2> DEFINE c == ctx[t]
             e == call[t].event
  <2>1. /\ t \in Threads /\ c \in Ctxs /\ e \in Events /\ e \in events[c]
        /\ Left(t) = events[c] \ {e}
    BY <1>0, <1>4 DEF DelEvent, AtCancel, Wanted, Left, IInv, Locals
  <2>2. /\ events' = [events EXCEPT ![c] = Left(t)]
        /\ status' = [status EXCEPT ![waiter[c][e]] = "out"]
        /\ waiter' = Cleared(c, e) /\ Return(t)
    BY <1>4 DEF DelEvent
  <2>3. events' = [events EXCEPT ![c] = @ \ {e}]
    BY <2>1, <2>2
  <2>4. \A u \in Threads : call'[u] = call[u] \/ call'[u].kind # "add"
    BY <2>1, <2>2, ReturnFacts DEF IInv
  <2>5. QED
    BY <2>1, <2>2, <2>3, <2>4, Disarmed
<1>5. ASSUME NEW t \in Threads, TriggerEvent(t) PROVE Goal
  <2> DEFINE c == ctx[t]
             e == NextHit(t)
  <2>1. c \in Ctxs /\ e \in events[c] /\ e \in Events
    BY <1>5 DEF TriggerEvent, IInv, Locals, TypeOK
  <2>2. /\ events' = [events EXCEPT ![c] = @ \ {e}]
        /\ status' = [status EXCEPT ![waiter[c][e]] = "queued"]
        /\ waiter' = Cleared(c, e) /\ call' = call
    BY <1>5 DEF TriggerEvent
  <2>3. QED
    BY <2>1, <2>2, Disarmed
<1>6. ASSUME NEW w \in Waiters, Resume(w) PROVE Goal
  <2>1. /\ UNCHANGED <<events, waiter, call>> /\ status[w] = "queued"
        /\ \A x \in Waiters : status'[x] = IF x = w THEN "out" ELSE status[x]
    BY <1>6 DEF Resume, IInv, TypeOK
  <2>2. Homes'
    BY <2>1 DEF IInv, Homes, TypeOK
  <2>3. Adding'
    BY <2>1 DEF IInv, Adding
  <2>4. QED
    BY <2>2, <2>3
<1>7. ASSUME UNCHANGED <<events, waiter, status, call>> PROVE Goal
  BY <1>7, HomesSame
<1>8. ASSUME NEW t \in Threads, UNCHANGED <<events, waiter, status>>, Return(t) PROVE Goal
  <2>1. \A u \in Threads : call'[u] = call[u] \/ call'[u].kind # "add"
    BY <1>8, ReturnFacts DEF IInv
  <2>2. QED
    BY <1>8, <2>1, HomesSame
<1>9. ASSUME NEW t \in Callers, NEW k \in Kinds, NEW fd \in Fds, NEW e, Find(t, k, fd, e)
      PROVE  Goal
  <2>1. \A u \in Threads : call'[u] = call[u] \/ call'[u].kind # "add"
    BY <1>9 DEF Find, IInv, TypeOK
  <2>2. QED
    BY <1>9, <2>1, HomesSame DEF Find
<1>10. ASSUME NEW t \in Callers, CloseFd(t) PROVE Goal
  <2>1. \A u \in Threads : call'[u] = call[u] \/ call'[u].kind # "add"
    BY <1>10 DEF CloseFd, NoCall, IInv, TypeOK
  <2>2. QED
    BY <1>10, <2>1, HomesSame DEF CloseFd
<1>11. ASSUME NEW t \in Threads, CountDown(t) PROVE Goal
  BY <1>7, <1>8, <1>11 DEF CountDown
<1>12. QED
  <2> HIDE DEF Goal
  <2>1. ASSUME NEW t \in Callers, Begin(t) PROVE Goal
    BY <1>1, <1>9, <2>1 DEF Begin
  <2>2. ASSUME NEW t \in Threads, Triggers(t) PROVE Goal
    BY <1>5, <1>7, <1>11, <2>2 DEF Triggers, TriggerAborts
  <2>3. ASSUME NEW t \in Callers, Proceed(t) PROVE Goal
    <3>1. AddGrow(t) \/ AddTwice(t) \/ CancelEvent(t) => Goal
      BY <1>7 DEF AddGrow, AddTwice, CancelEvent
    <3>2. CancelFails(t) => Goal
      BY <1>0, <1>8 DEF CancelFails
    <3>3. QED
      BY <1>0, <1>2, <1>3, <1>4, <1>10, <2>2, <2>3, <3>1, <3>2 DEF Proceed
  <2>4. ASSUME NEW t \in Idlers, Idle(t) PROVE Goal
    <3>1. EpollWait(t) \/ SkipEvent(t) \/ HandleEvent(t) => Goal
      BY <1>7 DEF EpollWait, SkipEvent, HandleEvent
    <3>2. QED
      BY <1>0, <2>2, <2>4, <3>1 DEF Idle
  <2>5. ASSUME Kernel PROVE Goal
    BY <1>7, <2>5 DEF Kernel, Arrive, Use, Reopen
  <2>6. ASSUME Aborted PROVE Goal
    BY <1>7, <2>6 DEF Aborted, vars
  <2>7. Goal
    BY <1>6, <2>1, <2>3, <2>4, <2>5, <2>6 DEF Next
  <2>8. QED
    BY <2>7 DEF Goal

-----------------------------------------------------------------------------
(* Steps that arm and disarm nobody and begin or end no trigger. *)
LEMMA CountSame ==
    ASSUME IInv, UNCHANGED <<events, pendingEventCount>>,
           \A u \in Threads : pc'[u] = "count" <=> pc[u] = "count"
    PROVE  PendingExact'
<1>1. Armed' = Armed
  BY DEF Armed
<1>2. Counting' = Counting
  BY DEF Counting
<1>3. QED
  BY <1>1, <1>2 DEF IInv, PendingExact, Armed, Counting

(* A thread that leaves a call and was not in a trigger. *)
LEMMA ReturnCounting ==
    ASSUME IInv, NEW t \in Threads, Return(t), pc[t] # "count"
    PROVE  \A u \in Threads : pc'[u] = "count" <=> pc[u] = "count"
BY ReturnFacts DEF IInv

(* One event less is armed. *)
LEMMA OneLess ==
    ASSUME IInv, NEW c \in Ctxs, NEW e \in Events, e \in events[c],
           events' = [events EXCEPT ![c] = @ \ {e}]
    PROVE  Cardinality(Armed') = Cardinality(Armed) - 1
<1>1. Armed' = Armed \ {<<c, e>>}
  BY DEF Armed, IInv, TypeOK
<1>2. <<c, e>> \in Armed
  BY DEF Armed
<1>3. Armed \in SUBSET (Ctxs \X Events)
  BY DEF Armed
<1>4. IsFiniteSet(Armed)
  BY <1>3, FiniteSets2
<1>5. QED
  BY <1>1, <1>2, <1>4, FS_RemoveElement

(* The counter is in step with what it counts. *)
LEMMA CountStep == ASSUME IInv, Next PROVE PendingExact' /\ pendingEventCount' \in Nat
<1> DEFINE Goal == PendingExact'
<1> USE IOAssumption
<1>0. Callers \subseteq Threads /\ Idlers \subseteq Threads
  BY DEF Threads
<1>a. /\ IsFiniteSet(Armed) /\ Cardinality(Armed) \in Nat
      /\ IsFiniteSet(Counting) /\ Cardinality(Counting) \in Nat
      /\ pendingEventCount = Cardinality(Armed) + Cardinality(Counting)
  <2>1. Armed \in SUBSET (Ctxs \X Events) /\ Counting \in SUBSET Threads
    BY DEF Armed, Counting
  <2>2. pendingEventCount = Cardinality(Armed) + Cardinality(Counting)
    BY DEF IInv, PendingExact, Armed, Counting
  <2>3. QED
    BY <2>1, <2>2, FiniteSets2
<1>b. ASSUME pendingEventCount' = Cardinality(Armed') + Cardinality(Counting') PROVE Goal
  BY <1>b DEF PendingExact, Armed, Counting
<1>1. ASSUME NEW t \in Callers, NEW fd \in Fds, NEW e \in Events, NEW w \in Waiters,
             AddFind(t, fd, e, w)
      PROVE  Goal
  <2>1. \A u \in Threads : pc'[u] = "count" <=> pc[u] = "count"
    BY <1>0, <1>1 DEF AddFind, IInv, TypeOK
  <2>2. QED
    BY <1>1, <2>1, CountSame DEF AddFind
<1>2. ASSUME NEW t \in Callers, AddEvent(t) PROVE Goal
  <2> DEFINE c == ctx[t]
             e == call[t].event
  <2>1. /\ t \in Threads /\ c \in Ctxs /\ e \in Events /\ e \notin events[c]
        /\ pc[t] = "lock" /\ Return(t)
        /\ events' = [events EXCEPT ![c] = @ \cup {e}]
        /\ pendingEventCount' = pendingEventCount + 1
    BY <1>0, <1>2 DEF AddEvent, Free, IInv, Locals, Raised
  <2>2. Armed' = Armed \cup {<<c, e>>}
    BY <2>1 DEF Armed, IInv, TypeOK
  <2>3. <<c, e>> \notin Armed
    BY <2>1 DEF Armed
  <2>4. Cardinality(Armed') = Cardinality(Armed) + 1
    BY <1>a, <2>2, <2>3, FS_AddElement
  <2>5. Counting' = Counting
    BY <2>1, ReturnCounting DEF Counting
  <2>6. QED
    BY <1>a, <1>b, <2>1, <2>4, <2>5
<1>3. ASSUME NEW t \in Callers, AddFails(t) \/ CancelFails(t) PROVE Goal
  <2>1. t \in Threads /\ pc[t] = "lock" /\ Return(t) /\ UNCHANGED <<events, pendingEventCount>>
    BY <1>0, <1>3 DEF AddFails, CancelFails, AtCancel
  <2>2. \A u \in Threads : pc'[u] = "count" <=> pc[u] = "count"
    BY <2>1, ReturnCounting
  <2>3. QED
    BY <2>1, <2>2, CountSame
<1>4. ASSUME NEW t \in Callers, DelEvent(t) PROVE Goal
  <2> DEFINE c == ctx[t]
             e == call[t].event
  <2>1. /\ t \in Threads /\ c \in Ctxs /\ e \in Events /\ e \in events[c]
        /\ Left(t) = events[c] \ {e}
    BY <1>0, <1>4 DEF DelEvent, AtCancel, Wanted, Left, IInv, Locals
  <2>2. /\ events' = [events EXCEPT ![c] = @ \ {e}] /\ Return(t) /\ pc[t] = "lock"
        /\ pendingEventCount' = pendingEventCount - 1
    BY <1>4, <2>1 DEF DelEvent, AtCancel, Lowered
  <2>3. Cardinality(Armed') = Cardinality(Armed) - 1
    BY <2>1, <2>2, OneLess
  <2>4. Counting' = Counting
    BY <2>1, <2>2, ReturnCounting DEF Counting
  <2>5. QED
    BY <1>a, <1>b, <2>2, <2>3, <2>4
<1>5. ASSUME NEW t \in Threads, TriggerEvent(t) PROVE Goal
  <2> DEFINE c == ctx[t]
             e == NextHit(t)
  <2>1. /\ c \in Ctxs /\ e \in events[c] /\ e \in Events /\ pc[t] = "hit"
        /\ events' = [events EXCEPT ![c] = @ \ {e}] /\ pc' = [pc EXCEPT ![t] = "count"]
        /\ UNCHANGED pendingEventCount
    BY <1>5 DEF TriggerEvent, IInv, Locals, TypeOK
  <2>2. Cardinality(Armed') = Cardinality(Armed) - 1
    BY <2>1, OneLess
  <2>3. Counting' = Counting \cup {t} /\ t \notin Counting
    BY <2>1 DEF Counting, IInv, TypeOK
  <2>4. Cardinality(Counting') = Cardinality(Counting) + 1
    BY <1>a, <2>3, FS_AddElement
  <2>5. QED
    BY <1>a, <1>b, <2>1, <2>2, <2>4
<1>6. ASSUME NEW t \in Threads, CountDown(t) PROVE Goal
  <2>1. pc[t] = "count" /\ UNCHANGED events /\ pendingEventCount' = pendingEventCount - 1
    BY <1>6 DEF CountDown, Lowered
  <2>2. pc'[t] # "count" /\ \A u \in Threads \ {t} : pc'[u] = pc[u]
    <3>1. CASE Return(t)
      BY <3>1, ReturnFacts DEF IInv
    <3>2. CASE pc' = [pc EXCEPT ![t] = "hit"]
      BY <3>2 DEF IInv, TypeOK
    <3>3. QED
      BY <1>6, <3>1, <3>2 DEF CountDown
  <2>3. Counting' = Counting \ {t} /\ t \in Counting
    BY <2>1, <2>2 DEF Counting
  <2>4. Cardinality(Counting') = Cardinality(Counting) - 1
    BY <1>a, <2>3, FS_RemoveElement
  <2>5. Armed' = Armed
    BY <2>1 DEF Armed
  <2>6. QED
    BY <1>a, <1>b, <2>1, <2>4, <2>5
<1>7. ASSUME UNCHANGED <<events, pendingEventCount, pc>> PROVE Goal
  BY <1>7, CountSame
<1>8. ASSUME NEW t \in Threads, NEW p \in {"free", "lock", "hit", "close", "event"},
             pc[t] # "count", pc' = [pc EXCEPT ![t] = p],
             UNCHANGED <<events, pendingEventCount>>
      PROVE  Goal
  <2>1. \A u \in Threads : pc'[u] = "count" <=> pc[u] = "count"
    BY <1>8 DEF IInv, TypeOK
  <2>2. QED
    BY <1>8, <2>1, CountSame
<1>9. QED
  <2> HIDE DEF Goal
  <2>1. ASSUME NEW t \in Callers, Begin(t) PROVE Goal
    <3>1. ASSUME NEW k, NEW fd \in Fds, NEW e, Find(t, k, fd, e) PROVE Goal
      <4>1. \E p \in {"free", "lock", "close"} : pc' = [pc EXCEPT ![t] = p]
        BY <3>1 DEF Find
      <4>2. pc[t] # "count" /\ UNCHANGED <<events, pendingEventCount>>
        BY <3>1 DEF Find
      <4>3. QED
        BY <1>0, <1>8, <4>1, <4>2
    <3>2. QED
      BY <1>1, <2>1, <3>1 DEF Begin
  <2>2. ASSUME NEW t \in Threads, Triggers(t) PROVE Goal
    BY <1>5, <1>6, <1>7, <2>2 DEF Triggers, TriggerAborts
  <2>3. ASSUME NEW t \in Callers, Proceed(t) PROVE Goal
    <3>1. AddTwice(t) => Goal
      BY <1>7 DEF AddTwice
    <3>2. AddGrow(t) => Goal
      BY <1>0, <1>8 DEF AddGrow
    <3>3. CancelEvent(t) => Goal
      BY <1>0, <1>8 DEF CancelEvent, AtCancel
    <3>4. CloseFd(t) => Goal
      BY <1>0, <1>8 DEF CloseFd
    <3>5. QED
      BY <1>0, <1>2, <1>3, <1>4, <2>2, <2>3, <3>1, <3>2, <3>3, <3>4 DEF Proceed
  <2>4. ASSUME NEW t \in Idlers, Idle(t) PROVE Goal
    <3>1. EpollWait(t) \/ SkipEvent(t) => Goal
      <4>1. EpollWait(t) \/ SkipEvent(t) =>
              /\ pc[t] # "count" /\ UNCHANGED <<events, pendingEventCount>>
              /\ \E p \in {"free", "event"} : pc' = [pc EXCEPT ![t] = p]
        BY DEF EpollWait, SkipEvent
      <4>2. QED
        BY <1>0, <1>8, <4>1
    <3>2. HandleEvent(t) => Goal
      BY <1>0, <1>8 DEF HandleEvent
    <3>3. QED
      BY <1>0, <2>2, <2>4, <3>1, <3>2 DEF Idle
  <2>5. ASSUME Kernel PROVE Goal
    BY <1>7, <2>5 DEF Kernel, Arrive, Use, Reopen
  <2>6. ASSUME Aborted PROVE Goal
    BY <1>7, <2>6 DEF Aborted, vars
  <2>7. ASSUME NEW w \in Waiters, Resume(w) PROVE Goal
    BY <1>7, <2>7 DEF Resume
  <2>8. Goal
    BY <2>1, <2>3, <2>4, <2>5, <2>6, <2>7 DEF Next
  <2>9. Armed' \in SUBSET (Ctxs \X Events) /\ Counting' \in SUBSET Threads
    BY DEF Armed, Counting
  <2>10. pendingEventCount' = Cardinality(Armed') + Cardinality(Counting')
    BY <2>8 DEF Goal, PendingExact, Armed, Counting
  <2>11. QED
    BY <2>8, <2>9, <2>10, FiniteSets2 DEF Goal

-----------------------------------------------------------------------------
LEMMA InvStep == IInv /\ [Next]_vars => IInv'
<1> SUFFICES ASSUME IInv, [Next]_vars PROVE IInv'
  OBVIOUS
<1>1. CASE Next
  BY <1>1, TypeStep, HomesStep, CountStep DEF IInv
<1>2. CASE UNCHANGED vars
  <2>1. UNCHANGED <<Armed, Counting>>
    BY <1>2 DEF vars, Armed, Counting
  <2>2. PendingExact'
    BY <1>2, <2>1 DEF IInv, vars, PendingExact, Armed, Counting
  <2>3. TypeOK' /\ Table' /\ Listed' /\ Locals'
    BY <1>2 DEF IInv, vars, TypeOK, Table, Listed, Locals
  <2>4. Adding' /\ Homes'
    BY <1>2 DEF IInv, vars, Adding, Homes
  <2>5. QED
    BY <2>2, <2>3, <2>4 DEF IInv
<1>3. QED
  BY <1>1, <1>2

LEMMA InvAlways == Spec => []IInv
BY InitInv, InvStep, PTL DEF Spec

(* Every variable of the event half keeps its type: pendingEventCount_, a    *)
(* size_t, never goes below zero, and no context that the table, a thread or *)
(* an epoll report names is missing (iomanager.cpp:148-198,253,287,322,352). *)
THEOREM TypeCorrect == Spec => []TypeOK
<1>1. IInv => TypeOK
  BY DEF IInv
<1>2. QED
  BY <1>1, InvAlways, PTL

(* pendingEventCount_ is exact whatever the threads interleave and whatever  *)
(* epoll_ctl refuses (iomanager.cpp:207,253,287,322,352).                    *)
THEOREM PendingExactAlways == Spec => []PendingExact
<1>1. IInv => PendingExact
  BY DEF IInv
<1>2. QED
  BY <1>1, InvAlways, PTL

(* No waiter is ever lost, in two EventContexts or left behind in one whose  *)
(* event is not set (iomanager.cpp:62-116,200-219).                          *)
THEOREM WaitersAlwaysAccounted == Spec => []WaitersAccounted
<1>1. IInv => WaitersAccounted
  <2> SUFFICES ASSUME IInv PROVE WaitersAccounted
    OBVIOUS
  <2>1. ASSUME NEW w \in Waiters, status[w] = "armed"
        PROVE  \E x \in Ctxs \X Events :
                 {y \in Ctxs \X Events : waiter[y[1]][y[2]] = w} = {x}
    <3>1. PICK c \in Ctxs : \E e \in Events : waiter[c][e] = w
      BY <2>1 DEF IInv, Homes
    <3>2. PICK e \in Events : waiter[c][e] = w
      BY <3>1
    <3>3. w # NoWaiter
      BY IOAssumption
    <3>4. ASSUME NEW y \in Ctxs \X Events, waiter[y[1]][y[2]] = w PROVE y = <<c, e>>
      <4>1. y[1] \in Ctxs /\ y[2] \in Events /\ y = <<y[1], y[2]>>
        OBVIOUS
      <4>2. y[1] = c /\ y[2] = e
        BY <3>2, <3>3, <3>4, <4>1 DEF IInv, Homes
      <4>3. QED
        BY <4>1, <4>2
    <3>5. {y \in Ctxs \X Events : waiter[y[1]][y[2]] = w} = {<<c, e>>}
      BY <3>2, <3>4
    <3>6. QED
      BY <3>5
  <2>2. QED
    BY <2>1 DEF IInv, Homes, WaitersAccounted
<1>2. QED
  BY <1>1, InvAlways, PTL
-----------------------------------------------------------------------------
(***************************************************************************)
(* Cancellable.  Descriptors that no resize has taken out of the table have *)
(* one FdContext, the one everybody refers to.                              *)
(***************************************************************************)
Grown ==
    /\ size >= InitSize
    /\ \A fd \in Fds \ dropped : /\ fdContexts[fd] = IF fd < size THEN 1 ELSE 0
                                 /\ made[fd] = fdContexts[fd]

(* The table leads to the context, unless its descriptor was dropped. *)
Reached(c) == c[1] \notin dropped => c[2] = 1 /\ c[1] < size

(* Whatever refers to a context refers to one the table leads to. *)
AllReached ==
    /\ \A t \in Threads : pc[t] \in {"lock", "hit", "count"} => Reached(ctx[t])
    /\ \A t \in Threads : \A b \in batch[t] : Reached(b[1])
    /\ \A c \in Ctxs : events[c] # {} => Reached(c)
    /\ \A fd \in Fds : interest[fd].ctx # 0 => Reached(<<fd, interest[fd].ctx>>)

(* Calls are the callers', and a call works on the context of its descriptor. *)
OwnCall ==
    \A t \in Threads :
      /\ call[t].kind # "none" => t \in Callers
      /\ pc[t] = "grow" => call[t].fd >= InitSize
      /\ pc[t] \in {"lock", "hit", "count"} /\ call[t].kind # "none" => ctx[t][1] = call[t].fd

(* A mutex is held from the change of the registration to the last trigger. *)
Locked ==
    /\ \A t \in Threads : pc[t] \in {"hit", "count"} => mutex[ctx[t]] = t
    /\ \A c \in Ctxs : mutex[c] # NoThread =>
         pc[mutex[c]] \in {"hit", "count"} /\ ctx[mutex[c]] = c
    /\ \A t \in Threads : pc[t] = "count" => NextHit(t) \notin events[ctx[t]]

(* The events that are armed and not about to be triggered. *)
Staying(c) == IF mutex[c] = NoThread THEN events[c] ELSE events[c] \ hit[mutex[c]]

(* epoll knows the context and exactly the events that stay. *)
Registered ==
    \A c \in Ctxs : c[1] \notin dropped =>
      /\ events[c] # {} => c[1] \in open
      /\ Staying(c) # {} => interest[c[1]] = [ctx |-> c[2], mask |-> Staying(c)]

(* Nobody adds to a descriptor that is being closed, and past cancelAll it has *)
(* no events.                                                                 *)
Closing ==
    \A t \in Threads : call[t].kind = "close" =>
      /\ \A u \in Threads : call[u].kind = "add" => call[u].fd # call[t].fd
      /\ pc[t] \in {"hit", "count"} => events[ctx[t]] \subseteq hit[t]
      /\ pc[t] = "close" /\ call[t].fd \notin dropped =>
           \A c \in Ctxs : c[1] = call[t].fd => events[c] = {}

CancelInv == Grown /\ AllReached /\ OwnCall /\ Locked /\ Registered /\ Closing

LEMMA CancelInit == Init => CancelInv
<1> SUFFICES ASSUME Init PROVE CancelInv
  OBVIOUS
<1> USE IOAssumption
<1>1. /\ \A t \in Threads : pc[t] = "free" /\ call[t].kind = "none" /\ batch[t] = {}
      /\ \A c \in Ctxs : events[c] = {} /\ mutex[c] = NoThread
      /\ \A fd \in Fds : interest[fd].ctx = 0
  BY DEF Init, NoCall, Unregistered
<1>2. Grown
  BY DEF Init, Grown
<1>3. AllReached /\ OwnCall /\ Locked /\ Closing
  BY <1>1 DEF AllReached, OwnCall, Locked, Closing
<1>4. Registered
  BY <1>1 DEF Registered, Staying
<1>5. QED
  BY <1>2, <1>3, <1>4 DEF CancelInv

(* Steps that leave the contexts, the registrations and the calls alone. *)
LEMMA QuietStep ==
    ASSUME IInv, CancelInv,
           UNCHANGED <<size, fdContexts, made, dropped, events, mutex, hit, call, ctx, interest>>,
           open \subseteq open',
           \A u \in Threads : \/ pc'[u] = pc[u]
                              \/ pc[u] \in {"free", "event"} /\ pc'[u] \in {"free", "event"},
           \A u \in Threads : \A b \in batch'[u] : Reached(b[1])
    PROVE  CancelInv'
<1>1. Grown'
  BY DEF CancelInv, Grown
<1>2. AllReached'
  BY DEF CancelInv, AllReached, Reached
<1>3. OwnCall'
  BY DEF CancelInv, OwnCall
<1>4. Locked'
  <2>1. \A c \in Ctxs : mutex[c] \in Threads \cup {NoThread}
    BY DEF IInv, TypeOK
  <2>2. QED
    BY <2>1 DEF CancelInv, Locked, NextHit
<1>5. Registered'
  BY DEF CancelInv, Registered, Staying
<1>6. Closing'
  BY DEF CancelInv, Closing
<1>7. QED
  BY <1>1, <1>2, <1>3, <1>4, <1>5, <1>6 DEF CancelInv

(* A call returns and has changed nothing; a close() finds no event left. *)
LEMMA BackStep ==
    ASSUME IInv, CancelInv, NEW t \in Threads, pc[t] = "lock", Return(t),
           UNCHANGED <<size, fdContexts, made, dropped, events, mutex, hit, interest, open, batch>>,
           call[t].kind = "close" /\ call[t].fd \notin dropped => events[ctx[t]] = {}
    PROVE  CancelInv'
<1>1. /\ pc'[t] \in {"free", "event", "close"} /\ (call'[t] = call[t] \/ call'[t].kind = "none")
      /\ pc'[t] = "close" => call[t].kind = "close"
      /\ \A u \in Threads \ {t} : pc'[u] = pc[u] /\ ctx'[u] = ctx[u] /\ call'[u] = call[u]
  BY ReturnFacts DEF Return, NoCall, IInv, TypeOK
<1>2. Grown'
  BY DEF CancelInv, Grown
<1>3. AllReached'
  BY <1>1 DEF CancelInv, AllReached, Reached
<1>4. OwnCall'
  BY <1>1 DEF CancelInv, OwnCall
<1>5. Locked'
  <2>1. \A c \in Ctxs : mutex[c] \in Threads \cup {NoThread}
    BY DEF IInv, TypeOK
  <2>2. QED
    BY <1>1, <2>1 DEF CancelInv, Locked, NextHit
<1>6. Registered'
  BY DEF CancelInv, Registered, Staying
<1>7. Closing'
  <2> SUFFICES ASSUME NEW v \in Threads, call'[v].kind = "close"
               PROVE  /\ \A u \in Threads : call'[u].kind = "add" => call'[u].fd # call'[v].fd
                      /\ pc'[v] \in {"hit", "count"} => events[ctx'[v]] \subseteq hit[v]
                      /\ pc'[v] = "close" /\ call'[v].fd \notin dropped =>
                           \A c \in Ctxs : c[1] = call'[v].fd => events[c] = {}
    BY DEF Closing
  <2>1. call[v].kind = "close" /\ call'[v] = call[v]
    BY <1>1
  <2>2. \A u \in Threads : call'[u].kind = "add" => call'[u].fd # call'[v].fd
    BY <1>1, <2>1 DEF CancelInv, Closing
  <2>3. CASE v = t
    <3>1. call[t].fd \notin dropped => \A c \in Ctxs : c[1] = call[t].fd => events[c] = {}
      <4> SUFFICES ASSUME call[t].fd \notin dropped,
                          NEW c \in Ctxs, c[1] = call[t].fd, events[c] # {} PROVE FALSE
        OBVIOUS
      <4>1. c[2] = 1 /\ ctx[t][2] = 1 /\ ctx[t][1] = call[t].fd /\ ctx[t] \in Ctxs
        BY <2>1, <2>3 DEF CancelInv, AllReached, Reached, OwnCall, IInv, Locals
      <4>2. c = ctx[t]
        BY <4>1 DEF Ctxs
      <4>3. QED
        BY <2>1, <2>3, <4>2
    <3>2. QED
      BY <1>1, <2>1, <2>2, <2>3, <3>1
  <2>4. CASE v # t
    BY <1>1, <2>1, <2>2, <2>4 DEF CancelInv, Closing
  <2>5. QED
    BY <2>3, <2>4
<1>8. QED
  BY <1>2, <1>3, <1>4, <1>5, <1>6, <1>7 DEF CancelInv

(* A call begins: addEvent, or a search for the context. *)
LEMMA BeginStep ==
    ASSUME IInv, CancelInv, NEW t \in Callers, NEW fd \in Fds, pc[t] = "free",
           UNCHANGED <<size, fdContexts, made, dropped, events, mutex, hit, interest, open, batch>>,
           \A u \in Threads \ {t} : pc'[u] = pc[u] /\ ctx'[u] = ctx[u] /\ call'[u] = call[u],
           call'[t].kind = "none" \/ call'[t].fd = fd,
           \/ pc'[t] = "lock" /\ ctx'[t] = <<fd, fdContexts[fd]>> /\ size > fd
           \/ pc'[t] = "grow" /\ ~(size > fd) /\ call'[t].kind = "add"
           \/ pc'[t] = "close" /\ ~(size > fd) /\ call'[t].kind = "close"
           \/ pc'[t] = "free" /\ call'[t].kind = "none",
           call'[t].kind = "add" => ~Busy({"close"}, fd),
           call'[t].kind = "close" => ~Busy({"add", "close"}, fd)
    PROVE  CancelInv'
<1>0. t \in Threads
  BY DEF Threads
<1>1. Grown'
  BY DEF CancelInv, Grown
<1>2. AllReached'
  <2>1. pc'[t] = "lock" => Reached(ctx'[t])
    BY DEF CancelInv, Grown, Reached
  <2>2. QED
    BY <1>0, <2>1 DEF CancelInv, AllReached, Reached
<1>3. OwnCall'
  <2>1. pc'[t] = "grow" => call'[t].fd >= InitSize
    BY IOAssumption DEF CancelInv, Grown, IInv, TypeOK
  <2>2. pc'[t] = "lock" => ctx'[t][1] = fd
    OBVIOUS
  <2>3. ASSUME NEW u \in Threads
        PROVE  /\ call'[u].kind # "none" => u \in Callers
               /\ pc'[u] = "grow" => call'[u].fd >= InitSize
               /\ pc'[u] \in {"lock", "hit", "count"} /\ call'[u].kind # "none"
                    => ctx'[u][1] = call'[u].fd
    BY <1>0, <2>1, <2>2 DEF CancelInv, OwnCall
  <2>4. QED
    BY <2>3 DEF OwnCall
<1>4. Locked'
  <2>1. \A c \in Ctxs : mutex[c] \in Threads \cup {NoThread}
    BY DEF IInv, TypeOK
  <2>2. QED
    BY <1>0, <2>1 DEF CancelInv, Locked, NextHit
<1>5. Registered'
  BY DEF CancelInv, Registered, Staying
<1>6. Closing'
  <2> SUFFICES ASSUME NEW v \in Threads, call'[v].kind = "close"
               PROVE  /\ \A u \in Threads : call'[u].kind = "add" => call'[u].fd # call'[v].fd
                      /\ pc'[v] \in {"hit", "count"} => events[ctx'[v]] \subseteq hit[v]
                      /\ pc'[v] = "close" /\ call'[v].fd \notin dropped =>
                           \A c \in Ctxs : c[1] = call'[v].fd => events[c] = {}
    BY DEF Closing
  <2>1. \A u \in Threads : call[u].kind # "none" => u \in Callers
    BY DEF CancelInv, OwnCall
  <2>2. ASSUME NEW u \in Threads, call'[u].kind = "add" PROVE call'[u].fd # call'[v].fd
    <3>1. CASE u = t
      BY <1>0, <2>1, <2>2, <3>1 DEF Busy
    <3>2. CASE v = t
      BY <1>0, <2>1, <2>2, <3>2 DEF Busy
    <3>3. CASE u # t /\ v # t
      BY <2>2, <3>3 DEF CancelInv, Closing
    <3>4. QED
      BY <3>1, <3>2, <3>3
  <2>3. ASSUME v = t, pc'[v] = "close", call'[v].fd \notin dropped,
               NEW c \in Ctxs, c[1] = call'[v].fd
        PROVE  events[c] = {}
    BY <2>3 DEF CancelInv, AllReached, Reached
  <2>4. CASE v = t
    BY <2>2, <2>3, <2>4
  <2>5. CASE v # t
    BY <2>2, <2>5 DEF CancelInv, Closing
  <2>6. QED
    BY <2>4, <2>5
<1>7. QED
  BY <1>1, <1>2, <1>3, <1>4, <1>5, <1>6 DEF CancelInv

(* contextResize: descriptors it does not take out of the table keep their    *)
(* context, or get the first one they have.                                   *)
LEMMA GrowStep ==
    ASSUME IInv, CancelInv, NEW t \in Callers, AddGrow(t) PROVE CancelInv'
<1> DEFINE fd == call[t].fd  n == GrowTo(fd)
<1>0. /\ t \in Threads /\ fd \in Fds /\ call[t].kind = "add" /\ fd >= InitSize /\ pc[t] = "grow"
  BY IOAssumption DEF Threads, AddGrow, IInv, Locals, CancelInv, OwnCall
<1>1. /\ size' = n /\ n \in Nat /\ fd < n /\ n >= InitSize
      /\ size \in Nat /\ \A d \in Fds : d \in Nat
  <2>0. fd \in Nat /\ InitSize \in Nat \ {0, 1}
    BY <1>0, IOAssumption
  <2>1. InitSize >= 2 /\ fd >= InitSize
    BY <1>0, <2>0
  <2>2. n \in Nat /\ fd < n /\ n >= InitSize
    BY <2>0, <2>1 DEF GrowTo
  <2>3. QED
    BY <2>2, IOAssumption DEF AddGrow, ContextResize, IInv, TypeOK
<1> HIDE DEF n
<1>2. /\ dropped \subseteq dropped'
      /\ \A d \in Fds : d \notin dropped' /\ d < size => d < size'
  BY <1>1 DEF AddGrow, ContextResize, n
<1>3. ASSUME NEW d \in Fds \ dropped'
      PROVE  fdContexts'[d] = (IF d < size' THEN 1 ELSE 0) /\ made'[d] = fdContexts'[d]
  <2>1. /\ made'[d] = IF d < n /\ fdContexts[d] = 0 THEN made[d] + 1 ELSE made[d]
        /\ fdContexts'[d] = IF d >= n THEN 0 ELSE
                            IF fdContexts[d] = 0 THEN made[d] + 1 ELSE fdContexts[d]
    BY DEF AddGrow, ContextResize, Missing, n
  <2>2. d \notin dropped /\ d \in Nat /\ (d < size => d < n)
    BY <1>1, <1>2
  <2>3. fdContexts[d] = (IF d < size THEN 1 ELSE 0) /\ made[d] = fdContexts[d]
    BY <2>2 DEF CancelInv, Grown
  <2>4. QED
    BY <1>1, <2>1, <2>2, <2>3
<1>4. Grown'
  BY <1>1, <1>3 DEF Grown
<1>5. /\ pc'[t] = "lock" /\ ctx'[t] = <<fd, fdContexts'[fd]>>
      /\ \A u \in Threads \ {t} : pc'[u] = pc[u] /\ ctx'[u] = ctx[u]
      /\ UNCHANGED <<call, events, mutex, hit, interest, open, batch>>
  BY <1>0 DEF AddGrow, kernelVars, IInv, TypeOK
<1>6. ASSUME NEW c, c[1] \in Fds, Reached(c) PROVE Reached(c)'
  BY <1>2, <1>6 DEF Reached
<1>7. AllReached'
  <2> DEFINE Here(c) == c[1] \notin dropped' => c[2] = 1 /\ c[1] < size'
  <2>1. Here(ctx'[t])
    BY <1>0, <1>1, <1>3, <1>5 DEF Reached
  <2>2. ASSUME NEW u \in Threads, pc'[u] \in {"lock", "hit", "count"} PROVE Here(ctx'[u])
    <3>1. CASE u = t
      BY <2>1, <3>1
    <3>2. CASE u # t
      <4>1. pc[u] \in {"lock", "hit", "count"} /\ ctx'[u] = ctx[u]
        BY <1>5, <2>2, <3>2
      <4>2. ctx[u] \in Ctxs /\ Reached(ctx[u])
        BY <4>1 DEF IInv, Locals, CancelInv, AllReached
      <4>3. ctx[u][1] \in Fds
        BY <4>2 DEF Ctxs
      <4>4. QED
        BY <1>6, <4>1, <4>2, <4>3 DEF Reached
    <3>3. QED
      BY <3>1, <3>2
  <2>3. ASSUME NEW u \in Threads, NEW b \in batch'[u] PROVE Reached(b[1])'
    <3>1. batch[u] \in SUBSET (Ctxs \X SUBSET (Events \cup {"ERR"}))
      BY DEF IInv, TypeOK
    <3>2. b \in batch[u] /\ b[1] \in Ctxs
      BY <1>5, <2>3, <3>1
    <3>3. Reached(b[1]) /\ b[1][1] \in Fds
      BY <3>2 DEF CancelInv, AllReached, Ctxs
    <3>4. QED
      BY <1>6, <3>3 DEF Reached
  <2>4. ASSUME NEW c \in Ctxs, events'[c] # {} PROVE Reached(c)'
    <3>1. Reached(c) /\ c[1] \in Fds
      BY <1>5, <2>4 DEF CancelInv, AllReached, Ctxs
    <3>2. QED
      BY <1>6, <3>1 DEF Reached
  <2>5. ASSUME NEW d \in Fds, interest'[d].ctx # 0 PROVE Reached(<<d, interest[d].ctx>>)'
    BY <1>2, <1>5, <2>5 DEF CancelInv, AllReached, Reached
  <2>6. QED
    BY <1>5, <2>2, <2>3, <2>4, <2>5 DEF AllReached, Reached
<1>8. OwnCall'
  BY <1>0, <1>5 DEF CancelInv, OwnCall
<1>9. Locked'
  <2>1. \A c \in Ctxs : mutex[c] \in Threads \cup {NoThread}
    BY DEF IInv, TypeOK
  <2>2. QED
    BY <1>0, <1>5, <2>1 DEF CancelInv, Locked, NextHit
<1>10. Registered'
  <2>1. \A c \in Ctxs : c[1] \notin dropped' => c[1] \notin dropped
    BY <1>2
  <2>2. QED
    BY <1>5, <2>1 DEF CancelInv, Registered, Staying
<1>11. Closing'
  BY <1>0, <1>2, <1>5 DEF CancelInv, Closing
<1>12. QED
  BY <1>4, <1>7, <1>8, <1>9, <1>10, <1>11 DEF CancelInv

(* close_f: the descriptor has no event left. *)
LEMMA CloseStep == ASSUME IInv, CancelInv, NEW t \in Callers, CloseFd(t) PROVE CancelInv'
<1> DEFINE fd == call[t].fd
<1>0. /\ t \in Threads /\ fd \in Fds /\ call[t].kind = "close" /\ pc[t] = "close"
  BY DEF Threads, CloseFd, IInv, Locals
<1>1. /\ pc'[t] = "free" /\ call'[t].kind = "none"
      /\ \A u \in Threads \ {t} : pc'[u] = pc[u] /\ call'[u] = call[u]
      /\ UNCHANGED <<size, fdContexts, made, dropped, events, mutex, hit, ctx, batch>>
      /\ open' = open \ {fd}
      /\ interest'[fd] = Unregistered /\ \A d \in Fds \ {fd} : interest'[d] = interest[d]
  BY <1>0 DEF CloseFd, NoCall, tableVars, IInv, TypeOK
<1>2. \A c \in Ctxs : c[1] = fd /\ c[1] \notin dropped => events[c] = {}
  BY <1>0 DEF CancelInv, Closing
<1>3. Grown'
  BY <1>1 DEF CancelInv, Grown
<1>4. AllReached'
  <2>1. \A d \in Fds : interest'[d].ctx # 0 => interest'[d] = interest[d] /\ interest[d].ctx # 0
    BY <1>0, <1>1 DEF Unregistered
  <2>2. QED
    BY <1>0, <1>1, <2>1 DEF CancelInv, AllReached, Reached
<1>5. OwnCall'
  BY <1>0, <1>1 DEF CancelInv, OwnCall
<1>6. Locked'
  <2>1. \A c \in Ctxs : mutex[c] \in Threads \cup {NoThread}
    BY DEF IInv, TypeOK
  <2>2. QED
    BY <1>0, <1>1, <2>1 DEF CancelInv, Locked, NextHit
<1>7. Registered'
  <2> SUFFICES ASSUME NEW c \in Ctxs, c[1] \notin dropped, events[c] # {}
               PROVE  /\ c[1] \in open'
                      /\ Staying(c) # {} => interest'[c[1]] = [ctx |-> c[2], mask |-> Staying(c)]
    BY <1>1 DEF Registered, Staying
  <2>1. c[1] \in Fds \ {fd}
    BY <1>2 DEF Ctxs
  <2>2. QED
    BY <1>1, <2>1 DEF CancelInv, Registered
<1>8. Closing'
  BY <1>0, <1>1 DEF CancelInv, Closing
<1>9. QED
  BY <1>3, <1>4, <1>5, <1>6, <1>7, <1>8 DEF CancelInv

(* Two contexts in use that belong to one descriptor are the same. *)
LEMMA SameContext ==
    ASSUME CancelInv, NEW c \in Ctxs, NEW d \in Ctxs, Reached(c), events[d] # {}, d[1] = c[1],
           c[1] \notin dropped
    PROVE  d = c
BY DEF CancelInv, AllReached, Reached, Ctxs

(* The registration of c is made to be S. *)
Rewritten(c, S) ==
    /\ interest'[c[1]] = IF S = {} THEN Unregistered ELSE [ctx |-> c[2], mask |-> S]
    /\ \A fd \in Fds \ {c[1]} : interest'[fd] = interest[fd]

LEMMA RewrittenReached ==
    ASSUME CancelInv, NEW c \in Ctxs, Reached(c), NEW S, Rewritten(c, S), size' = size
    PROVE  \A fd \in Fds \ dropped :
             interest'[fd].ctx # 0 => interest'[fd].ctx = 1 /\ fd < size'
<1> SUFFICES ASSUME NEW fd \in Fds \ dropped, interest'[fd].ctx # 0
             PROVE  interest'[fd].ctx = 1 /\ fd < size'
  OBVIOUS
<1>1. CASE fd = c[1]
  <2>1. S # {}
    BY <1>1 DEF Rewritten, Unregistered
  <2>2. interest'[fd].ctx = c[2]
    BY <1>1, <2>1 DEF Rewritten
  <2>3. QED
    BY <1>1, <2>2 DEF Reached
<1>2. CASE fd # c[1]
  BY <1>2 DEF Rewritten, CancelInv, AllReached, Reached
<1>3. QED
  BY <1>1, <1>2

(* A call changes the events of its context, and their registration. *)
LEMMA ChangeStep ==
    ASSUME IInv, CancelInv, NEW t \in Threads, pc[t] = "lock", Return(t),
           NEW c \in Ctxs, c = ctx[t], mutex[c] = NoThread, NEW S \in SUBSET Events,
           call[t].kind \notin {"close", "none"},
           UNCHANGED <<size, fdContexts, made, dropped, mutex, hit, open, batch>>,
           events'[c] = S, \A d \in Ctxs \ {c} : events'[d] = events[d],
           Rewritten(c, S), S # {} => c[1] \in open,
           ~(S \subseteq events[c]) => call[t].kind = "add"
    PROVE  CancelInv'
<1>1. /\ pc'[t] \in {"free", "event"} /\ call'[t].kind = "none"
      /\ \A u \in Threads \ {t} : pc'[u] = pc[u] /\ ctx'[u] = ctx[u] /\ call'[u] = call[u]
  BY ReturnFacts DEF Return, NoCall, IInv, TypeOK
<1>2. Reached(c) /\ c[1] \in Fds /\ c[1] = call[t].fd
  BY DEF CancelInv, AllReached, OwnCall, Ctxs
<1>3. \A u \in Threads : pc[u] \in {"hit", "count"} => ctx[u] # c /\ ctx[u] \in Ctxs
  BY IOAssumption DEF CancelInv, Locked, IInv, Locals
<1>4. Grown'
  BY DEF CancelInv, Grown
<1>5. AllReached'
  <2>1. \A fd \in Fds \ dropped : interest'[fd].ctx # 0 => interest'[fd].ctx = 1 /\ fd < size'
    BY <1>2, RewrittenReached
  <2>2. \A d \in Ctxs : events'[d] # {} => Reached(d)
    BY <1>2 DEF CancelInv, AllReached, Reached
  <2>3. \A u \in Threads : pc'[u] \in {"lock", "hit", "count"} => Reached(ctx'[u])
    BY <1>1 DEF CancelInv, AllReached, Reached
  <2>4. \A u \in Threads : \A b \in batch'[u] : Reached(b[1])
    BY DEF CancelInv, AllReached, Reached
  <2>5. QED
    BY <2>1, <2>2, <2>3, <2>4 DEF AllReached, Reached
<1>6. OwnCall'
  BY <1>1 DEF CancelInv, OwnCall
<1>7. Locked'
  <2>1. \A d \in Ctxs : mutex[d] \in Threads \cup {NoThread}
    BY DEF IInv, TypeOK
  <2>2. \A u \in Threads : pc'[u] \in {"hit", "count"} => mutex'[ctx'[u]] = u
    BY <1>1 DEF CancelInv, Locked
  <2>3. \A d \in Ctxs : mutex'[d] # NoThread =>
          pc'[mutex'[d]] \in {"hit", "count"} /\ ctx'[mutex'[d]] = d
    BY <1>1, <2>1 DEF CancelInv, Locked
  <2>4. ASSUME NEW u \in Threads, pc'[u] = "count" PROVE NextHit(u) \notin events'[ctx'[u]]
    <3>1. u # t /\ pc[u] = "count" /\ ctx'[u] = ctx[u]
      BY <1>1, <2>4
    <3>2. events'[ctx[u]] = events[ctx[u]]
      BY <1>3, <3>1
    <3>3. QED
      BY <3>1, <3>2 DEF CancelInv, Locked
  <2>5. QED
    BY <2>2, <2>3, <2>4 DEF Locked, NextHit
<1>8. Registered'
  <2> SUFFICES ASSUME NEW d \in Ctxs, d[1] \notin dropped
               PROVE  /\ events'[d] # {} => d[1] \in open
                      /\ Staying(d)' # {} => interest'[d[1]] = [ctx |-> d[2], mask |-> Staying(d)']
    BY DEF Registered
  <2>1. CASE d = c
    <3>1. Staying(d)' = S
      BY <2>1 DEF Staying
    <3>2. QED
      BY <2>1, <3>1 DEF Rewritten
  <2>2. CASE d # c
    <3>1. events'[d] = events[d] /\ Staying(d)' = Staying(d)
      BY <2>2 DEF Staying
    <3>2. CASE events[d] = {}
      BY <3>1, <3>2 DEF Staying
    <3>3. CASE events[d] # {}
      <4>1. d[1] \in Fds \ {c[1]}
        BY <1>2, <2>2, <3>3, SameContext DEF Ctxs
      <4>2. interest'[d[1]] = interest[d[1]]
        BY <4>1 DEF Rewritten
      <4>3. QED
        BY <3>1, <3>3, <4>2 DEF CancelInv, Registered
    <3>4. QED
      BY <3>2, <3>3
  <2>3. QED
    BY <2>1, <2>2
<1>9. Closing'
  <2> SUFFICES ASSUME NEW v \in Threads, call'[v].kind = "close"
               PROVE  /\ \A u \in Threads : call'[u].kind = "add" => call'[u].fd # call'[v].fd
                      /\ pc'[v] \in {"hit", "count"} => events'[ctx'[v]] \subseteq hit[v]
                      /\ pc'[v] = "close" /\ call'[v].fd \notin dropped =>
                           \A d \in Ctxs : d[1] = call'[v].fd => events'[d] = {}
    BY DEF Closing
  <2>1. v # t /\ call[v].kind = "close" /\ call'[v] = call[v] /\ pc'[v] = pc[v] /\ ctx'[v] = ctx[v]
    BY <1>1
  <2>2. \A u \in Threads : call'[u].kind = "add" => call'[u].fd # call'[v].fd
    BY <1>1, <2>1 DEF CancelInv, Closing
  <2>3. pc[v] \in {"hit", "count"} => events'[ctx[v]] \subseteq hit[v]
    BY <1>3, <2>1 DEF CancelInv, Closing
  <2>4. ASSUME pc[v] = "close", call[v].fd \notin dropped, NEW d \in Ctxs, d[1] = call[v].fd
        PROVE  events'[d] = {}
    <3>1. events[d] = {}
      BY <2>1, <2>4 DEF CancelInv, Closing
    <3>2. CASE d = c
      <4>1. call[t].kind # "add"
        BY <1>2, <2>1, <2>4, <3>2 DEF CancelInv, Closing
      <4>2. QED
        BY <3>1, <3>2, <4>1
    <3>3. QED
      BY <3>1, <3>2
  <2>5. QED
    BY <2>1, <2>2, <2>3, <2>4
<1>10. QED
  BY <1>4, <1>5, <1>6, <1>7, <1>8, <1>9 DEF CancelInv

(* The events H of a context come off its registration, to be triggered. *)
LEMMA TakeStep ==
    ASSUME IInv, CancelInv, NEW t \in Threads, pc[t] \in {"lock", "event"},
           NEW c \in Ctxs, Reached(c), mutex[c] = NoThread, NEW H \in SUBSET Events,
           UNCHANGED <<size, fdContexts, made, dropped, events, call, open>>,
           pc'[t] = "hit", ctx'[t] = c, hit'[t] = H, mutex'[c] = t,
           \A u \in Threads \ {t} : pc'[u] = pc[u] /\ ctx'[u] = ctx[u] /\ hit'[u] = hit[u],
           \A d \in Ctxs \ {c} : mutex'[d] = mutex[d],
           \A u \in Threads : batch'[u] \subseteq batch[u],
           Rewritten(c, events[c] \ H),
           call[t].kind # "none" => c[1] = call[t].fd,
           call[t].kind = "close" => events[c] \subseteq H
    PROVE  CancelInv'
<1>0. NoThread \notin Threads
  BY IOAssumption
<1>1. \A u \in Threads : pc[u] \in {"hit", "count"} => ctx[u] # c /\ ctx[u] \in Ctxs /\ u # t
  BY <1>0 DEF CancelInv, Locked, IInv, Locals
<1>2. \A d \in Ctxs : mutex[d] \in Threads \cup {NoThread} /\ mutex[d] # t
  <2>1. \A d \in Ctxs : mutex[d] \in Threads \cup {NoThread}
    BY DEF IInv, TypeOK
  <2>2. QED
    BY <1>0, <2>1 DEF CancelInv, Locked
<1>4. Grown'
  BY DEF CancelInv, Grown
<1>5. AllReached'
  <2>1. \A fd \in Fds \ dropped : interest'[fd].ctx # 0 => interest'[fd].ctx = 1 /\ fd < size'
    BY RewrittenReached
  <2>2. \A d \in Ctxs : events'[d] # {} => Reached(d)
    BY DEF CancelInv, AllReached, Reached
  <2>3. ASSUME NEW u \in Threads, pc'[u] \in {"lock", "hit", "count"}
        PROVE  Reached(ctx'[u])
    <3>1. CASE u = t
      BY <3>1
    <3>2. CASE u # t
      BY <2>3, <3>2 DEF CancelInv, AllReached
    <3>3. QED
      BY <3>1, <3>2
  <2>4. \A u \in Threads : \A b \in batch'[u] : Reached(b[1])
    BY DEF CancelInv, AllReached, Reached
  <2>5. QED
    BY <2>1, <2>2, <2>3, <2>4 DEF AllReached, Reached
<1>6. OwnCall'
  <2> SUFFICES ASSUME NEW u \in Threads
               PROVE  /\ call[u].kind # "none" => u \in Callers
                      /\ pc'[u] = "grow" => call[u].fd >= InitSize
                      /\ pc'[u] \in {"lock", "hit", "count"} /\ call[u].kind # "none"
                           => ctx'[u][1] = call[u].fd
    BY DEF OwnCall
  <2>1. CASE u = t
    BY <2>1 DEF CancelInv, OwnCall
  <2>2. CASE u # t
    BY <2>2 DEF CancelInv, OwnCall
  <2>3. QED
    BY <2>1, <2>2
<1>7. Locked'
  <2>1. ASSUME NEW u \in Threads, pc'[u] \in {"hit", "count"} PROVE mutex'[ctx'[u]] = u
    <3>1. CASE u = t
      BY <3>1
    <3>2. CASE u # t
      <4>1. pc[u] \in {"hit", "count"} /\ ctx'[u] = ctx[u]
        BY <2>1, <3>2
      <4>2. ctx[u] \in Ctxs \ {c} /\ mutex[ctx[u]] = u
        BY <1>1, <4>1 DEF CancelInv, Locked
      <4>3. QED
        BY <4>1, <4>2
    <3>3. QED
      BY <3>1, <3>2
  <2>2. ASSUME NEW d \in Ctxs, mutex'[d] # NoThread
        PROVE  pc'[mutex'[d]] \in {"hit", "count"} /\ ctx'[mutex'[d]] = d
    <3>1. CASE d = c
      BY <3>1
    <3>2. CASE d # c
      <4>1. mutex'[d] = mutex[d] /\ mutex[d] \in Threads \ {t}
        BY <1>2, <2>2, <3>2
      <4>2. QED
        BY <2>2, <4>1 DEF CancelInv, Locked
    <3>3. QED
      BY <3>1, <3>2
  <2>3. ASSUME NEW u \in Threads, pc'[u] = "count"
        PROVE  (IF "READ" \in hit'[u] THEN "READ" ELSE "WRITE") \notin events[ctx'[u]]
    <3>1. u # t /\ pc[u] = "count" /\ ctx'[u] = ctx[u] /\ hit'[u] = hit[u]
      BY <2>3
    <3>2. QED
      BY <3>1 DEF CancelInv, Locked, NextHit
  <2>4. QED
    BY <2>1, <2>2, <2>3 DEF Locked, NextHit
<1>8. Registered'
  <2> SUFFICES ASSUME NEW d \in Ctxs, d[1] \notin dropped
               PROVE  /\ events[d] # {} => d[1] \in open
                      /\ Staying(d)' # {} => interest'[d[1]] = [ctx |-> d[2], mask |-> Staying(d)']
    BY DEF Registered
  <2>0. events[d] # {} => d[1] \in open
    BY DEF CancelInv, Registered
  <2>1. CASE d = c
    <3>1. Staying(d)' = events[c] \ H
      BY <1>0, <2>1 DEF Staying
    <3>2. QED
      BY <2>0, <2>1, <3>1 DEF Rewritten
  <2>2. CASE d # c
    <3>1. Staying(d)' = Staying(d)
      <4>1. mutex'[d] = mutex[d]
        BY <2>2
      <4>2. mutex[d] # NoThread => hit'[mutex[d]] = hit[mutex[d]]
        BY <1>2
      <4>3. QED
        BY <4>1, <4>2 DEF Staying
    <3>2. CASE events[d] = {}
      BY <3>1, <3>2 DEF Staying
    <3>3. CASE events[d] # {}
      <4>1. d[1] \in Fds \ {c[1]}
        BY <2>2, <3>3, SameContext DEF Ctxs
      <4>2. interest'[d[1]] = interest[d[1]]
        BY <4>1 DEF Rewritten
      <4>3. QED
        BY <2>0, <3>1, <4>2 DEF CancelInv, Registered
    <3>4. QED
      BY <3>2, <3>3
  <2>3. QED
    BY <2>1, <2>2
<1>9. Closing'
  <2> SUFFICES ASSUME NEW v \in Threads, call[v].kind = "close"
               PROVE  /\ \A u \in Threads : call[u].kind = "add" => call[u].fd # call[v].fd
                      /\ pc'[v] \in {"hit", "count"} => events[ctx'[v]] \subseteq hit'[v]
                      /\ pc'[v] = "close" /\ call[v].fd \notin dropped =>
                           \A d \in Ctxs : d[1] = call[v].fd => events[d] = {}
    BY DEF Closing
  <2>1. \A u \in Threads : call[u].kind = "add" => call[u].fd # call[v].fd
    BY DEF CancelInv, Closing
  <2>2. CASE v = t
    BY <2>1, <2>2
  <2>3. CASE v # t
    BY <2>1, <2>3 DEF CancelInv, Closing
  <2>4. QED
    BY <2>2, <2>3
<1>10. QED
  BY <1>4, <1>5, <1>6, <1>7, <1>8, <1>9 DEF CancelInv

(* triggerEvent: the event goes, and was not among those that stay. *)
LEMMA TriggerStep ==
    ASSUME IInv, CancelInv, NEW t \in Threads, TriggerEvent(t) PROVE CancelInv'
<1> DEFINE c == ctx[t]  e == NextHit(t)
<1>1. /\ pc[t] = "hit" /\ pc'[t] = "count" /\ \A u \in Threads \ {t} : pc'[u] = pc[u]
      /\ c \in Ctxs /\ events'[c] = events[c] \ {e} /\ \A d \in Ctxs \ {c} : events'[d] = events[d]
      /\ UNCHANGED <<size, fdContexts, made, dropped, mutex, call, ctx, batch, hit, open, interest>>
  BY DEF TriggerEvent, tableVars, kernelVars, IInv, TypeOK, Locals
<1>2. e \in hit[t] /\ hit[t] # {}
  <2>1. hit[t] # {} /\ hit[t] \subseteq {"READ", "WRITE"}
    BY <1>1, IOAssumption DEF IInv, TypeOK, Locals
  <2>2. QED
    BY <2>1 DEF NextHit
<1>3. mutex[c] = t /\ t # NoThread
  BY <1>1, IOAssumption DEF CancelInv, Locked
<1>4. \A d \in Ctxs : mutex[d] \in Threads \cup {NoThread}
  BY DEF IInv, TypeOK
<1>5. \A d \in Ctxs : events'[d] \subseteq events[d]
  BY <1>1
<1> HIDE DEF c, e
<1>6. Grown'
  BY <1>1 DEF CancelInv, Grown
<1>7. AllReached'
  <2>1. \A u \in Threads : pc'[u] \in {"lock", "hit", "count"} => pc[u] \in {"lock", "hit", "count"}
    BY <1>1
  <2>2. \A d \in Ctxs : events'[d] # {} => events[d] # {}
    BY <1>5
  <2>3. QED
    BY <1>1, <2>1, <2>2 DEF CancelInv, AllReached, Reached
<1>8. OwnCall'
  BY <1>1 DEF CancelInv, OwnCall
<1>9. Locked'
  <2>1. \A u \in Threads : pc'[u] \in {"hit", "count"} <=> pc[u] \in {"hit", "count"}
    BY <1>1
  <2>2. \A u \in Threads : pc'[u] \in {"hit", "count"} => mutex[ctx[u]] = u
    BY <2>1 DEF CancelInv, Locked
  <2>3. \A d \in Ctxs : mutex[d] # NoThread => pc'[mutex[d]] \in {"hit", "count"} /\ ctx[mutex[d]] = d
    BY <1>4, <2>1 DEF CancelInv, Locked
  <2>4. ASSUME NEW u \in Threads, pc'[u] = "count" PROVE NextHit(u) \notin events'[ctx[u]]
    <3>1. CASE u = t
      BY <1>1, <3>1 DEF c, e
    <3>2. CASE u # t
      <4>1. pc[u] = "count" /\ ctx[u] \in Ctxs /\ NextHit(u) \notin events[ctx[u]]
        BY <1>1, <2>4, <3>2 DEF CancelInv, Locked, IInv, Locals
      <4>2. QED
        BY <1>5, <4>1
    <3>3. QED
      BY <3>1, <3>2
  <2>5. QED
    BY <1>1, <2>2, <2>3, <2>4 DEF Locked, NextHit
<1>10. Registered'
  <2> SUFFICES ASSUME NEW d \in Ctxs, d[1] \notin dropped
               PROVE  /\ events'[d] # {} => d[1] \in open
                      /\ Staying(d)' # {} => interest[d[1]] = [ctx |-> d[2], mask |-> Staying(d)']
    BY <1>1 DEF Registered
  <2>1. Staying(d)' = Staying(d)
    <3>1. CASE d = c
      BY <1>1, <1>2, <1>3, <3>1 DEF Staying
    <3>2. CASE d # c
      BY <1>1, <3>2 DEF Staying
    <3>3. QED
      BY <3>1, <3>2
  <2>2. QED
    BY <1>5, <2>1 DEF CancelInv, Registered
<1>11. Closing'
  <2> SUFFICES ASSUME NEW v \in Threads, call[v].kind = "close"
               PROVE  /\ \A u \in Threads : call[u].kind = "add" => call[u].fd # call[v].fd
                      /\ pc'[v] \in {"hit", "count"} => events'[ctx[v]] \subseteq hit[v]
                      /\ pc'[v] = "close" /\ call[v].fd \notin dropped =>
                           \A d \in Ctxs : d[1] = call[v].fd => events'[d] = {}
    BY <1>1 DEF Closing
  <2>1. \A u \in Threads : call[u].kind = "add" => call[u].fd # call[v].fd
    BY DEF CancelInv, Closing
  <2>2. ASSUME pc'[v] \in {"hit", "count"} PROVE events'[ctx[v]] \subseteq hit[v]
    <3>1. pc[v] \in {"hit", "count"}
      BY <1>1, <2>2
    <3>2. ctx[v] \in Ctxs /\ events[ctx[v]] \subseteq hit[v]
      BY <3>1 DEF CancelInv, Closing, IInv, Locals
    <3>3. QED
      BY <1>5, <3>2
  <2>3. ASSUME pc'[v] = "close", call[v].fd \notin dropped, NEW d \in Ctxs, d[1] = call[v].fd
        PROVE  events'[d] = {}
    <3>1. pc[v] = "close"
      BY <1>1, <2>3
    <3>2. events[d] = {}
      BY <2>3, <3>1 DEF CancelInv, Closing
    <3>3. QED
      BY <1>5, <3>2
  <2>4. QED
    BY <2>1, <2>2, <2>3
<1>12. QED
  BY <1>6, <1>7, <1>8, <1>9, <1>10, <1>11 DEF CancelInv

(* The counter goes down and another trigger follows. *)
LEMMA NextTriggerStep ==
    ASSUME IInv, CancelInv, NEW t \in Threads, CountDown(t), hit[t] \ {NextHit(t)} # {}
    PROVE  CancelInv'
<1> DEFINE c == ctx[t]  e == NextHit(t)
<1>1. /\ pc[t] = "count" /\ pc'[t] = "hit" /\ \A u \in Threads \ {t} : pc'[u] = pc[u]
      /\ c \in Ctxs /\ hit'[t] = hit[t] \ {e} /\ \A u \in Threads \ {t} : hit'[u] = hit[u]
      /\ UNCHANGED <<size, fdContexts, made, dropped, mutex, call, ctx, batch, events, open, interest>>
  BY DEF CountDown, tableVars, kernelVars, IInv, TypeOK, Locals
<1>2. e \notin events[c] /\ mutex[c] = t /\ t # NoThread
  BY <1>1, IOAssumption DEF CancelInv, Locked
<1>4. \A d \in Ctxs : mutex[d] \in Threads \cup {NoThread}
  BY DEF IInv, TypeOK
<1> HIDE DEF c, e
<1>6. Grown'
  BY <1>1 DEF CancelInv, Grown
<1>7. AllReached'
  <2>1. \A u \in Threads : pc'[u] \in {"lock", "hit", "count"} => pc[u] \in {"lock", "hit", "count"}
    BY <1>1
  <2>2. QED
    BY <1>1, <2>1 DEF CancelInv, AllReached, Reached
<1>8. OwnCall'
  BY <1>1 DEF CancelInv, OwnCall
<1>9. Locked'
  <2>1. \A u \in Threads : pc'[u] \in {"hit", "count"} <=> pc[u] \in {"hit", "count"}
    BY <1>1
  <2>2. \A u \in Threads : pc'[u] \in {"hit", "count"} => mutex[ctx[u]] = u
    BY <2>1 DEF CancelInv, Locked
  <2>3. \A d \in Ctxs : mutex[d] # NoThread => pc'[mutex[d]] \in {"hit", "count"} /\ ctx[mutex[d]] = d
    BY <1>4, <2>1 DEF CancelInv, Locked
  <2>4. ASSUME NEW u \in Threads, pc'[u] = "count"
        PROVE  (IF "READ" \in hit'[u] THEN "READ" ELSE "WRITE") \notin events[ctx[u]]
    <3>1. u # t /\ pc[u] = "count" /\ hit'[u] = hit[u]
      BY <1>1, <2>4
    <3>2. QED
      BY <3>1 DEF CancelInv, Locked, NextHit
  <2>5. QED
    BY <1>1, <2>2, <2>3, <2>4 DEF Locked, NextHit
<1>10. Registered'
  <2> SUFFICES ASSUME NEW d \in Ctxs PROVE Staying(d)' = Staying(d)
    BY <1>1 DEF CancelInv, Registered
  <2>1. CASE d = c
    BY <1>1, <1>2, <2>1 DEF Staying
  <2>2. CASE d # c
    <3>1. mutex[d] # t
      BY <1>2, <2>2 DEF CancelInv, Locked, c
    <3>2. mutex[d] # NoThread => hit'[mutex[d]] = hit[mutex[d]]
      BY <1>1, <1>4, <3>1
    <3>3. QED
      BY <1>1, <3>2 DEF Staying
  <2>3. QED
    BY <2>1, <2>2
<1>11. Closing'
  <2> SUFFICES ASSUME NEW v \in Threads, call[v].kind = "close"
               PROVE  /\ \A u \in Threads : call[u].kind = "add" => call[u].fd # call[v].fd
                      /\ pc'[v] \in {"hit", "count"} => events[ctx[v]] \subseteq hit'[v]
                      /\ pc'[v] = "close" /\ call[v].fd \notin dropped =>
                           \A d \in Ctxs : d[1] = call[v].fd => events[d] = {}
    BY <1>1 DEF Closing
  <2>1. CASE v = t
    <3>1. events[c] \subseteq hit[t]
      BY <1>1, <2>1 DEF CancelInv, Closing, c
    <3>2. QED
      BY <1>1, <1>2, <2>1, <3>1 DEF CancelInv, Closing, c
  <2>2. CASE v # t
    BY <1>1, <2>2 DEF CancelInv, Closing
  <2>3. QED
    BY <2>1, <2>2
<1>12. QED
  BY <1>6, <1>7, <1>8, <1>9, <1>10, <1>11 DEF CancelInv

(* The last trigger has counted: the mutex is released and the call returns. *)
LEMMA ReleaseStep ==
    ASSUME IInv, CancelInv, NEW t \in Threads, CountDown(t), hit[t] \ {NextHit(t)} = {}
    PROVE  CancelInv'
<1> DEFINE c == ctx[t]
<1>1. /\ pc[t] = "count" /\ Return(t) /\ c \in Ctxs
      /\ \A u \in Threads \ {t} : hit'[u] = hit[u]
      /\ mutex'[c] = NoThread /\ \A d \in Ctxs \ {c} : mutex'[d] = mutex[d]
      /\ UNCHANGED <<size, fdContexts, made, dropped, events, batch, open, interest>>
  BY DEF CountDown, tableVars, kernelVars, IInv, TypeOK, Locals
<1>2. /\ pc'[t] \in {"free", "event", "close"} /\ (call'[t] = call[t] \/ call'[t].kind = "none")
      /\ pc'[t] = "close" => call[t].kind = "close"
      /\ \A u \in Threads \ {t} : pc'[u] = pc[u] /\ ctx'[u] = ctx[u] /\ call'[u] = call[u]
  BY <1>1, ReturnFacts DEF Return, NoCall, IInv, TypeOK
<1>3. /\ mutex[c] = t /\ t # NoThread /\ Reached(c)
      /\ events[c] \ hit[t] = events[c]
  <2>1. NextHit(t) \notin events[c]
    BY <1>1 DEF CancelInv, Locked
  <2>2. hit[t] \subseteq {NextHit(t)}
    OBVIOUS
  <2>3. events[c] \ hit[t] = events[c]
    BY <2>1, <2>2
  <2>4. QED
    BY <1>1, <2>3, IOAssumption DEF CancelInv, Locked, AllReached
<1>4. \A d \in Ctxs : mutex[d] \in Threads \cup {NoThread} /\ (mutex[d] = t => d = c)
  <2>1. \A d \in Ctxs : mutex[d] \in Threads \cup {NoThread}
    BY DEF IInv, TypeOK
  <2>2. QED
    BY <1>3, <2>1 DEF CancelInv, Locked
<1>5. \A u \in Threads \ {t} : pc[u] \in {"hit", "count"} => ctx[u] \in Ctxs \ {c}
  BY <1>3 DEF CancelInv, Locked, IInv, Locals
<1> HIDE DEF c
<1>6. Grown'
  BY <1>1 DEF CancelInv, Grown
<1>7. AllReached'
  BY <1>1, <1>2 DEF CancelInv, AllReached, Reached
<1>8. OwnCall'
  BY <1>2 DEF CancelInv, OwnCall
<1>9. Locked'
  <2>1. \A u \in Threads : pc'[u] \in {"hit", "count"} => mutex'[ctx'[u]] = u
    BY <1>1, <1>2, <1>5 DEF CancelInv, Locked
  <2>2. ASSUME NEW d \in Ctxs, mutex'[d] # NoThread
        PROVE  pc'[mutex'[d]] \in {"hit", "count"} /\ ctx'[mutex'[d]] = d
    <3>1. mutex'[d] = mutex[d] /\ mutex[d] \in Threads \ {t}
      BY <1>1, <1>4, <2>2
    <3>2. QED
      BY <1>2, <2>2, <3>1 DEF CancelInv, Locked
  <2>3. ASSUME NEW u \in Threads, pc'[u] = "count"
        PROVE  (IF "READ" \in hit'[u] THEN "READ" ELSE "WRITE") \notin events[ctx'[u]]
    <3>1. u # t /\ pc[u] = "count" /\ ctx'[u] = ctx[u] /\ hit'[u] = hit[u]
      BY <1>1, <1>2, <2>3
    <3>2. QED
      BY <3>1 DEF CancelInv, Locked, NextHit
  <2>4. QED
    BY <1>1, <2>1, <2>2, <2>3 DEF Locked, NextHit
<1>10. Registered'
  <2> SUFFICES ASSUME NEW d \in Ctxs PROVE Staying(d)' = Staying(d)
    BY <1>1 DEF CancelInv, Registered
  <2>1. CASE d = c
    BY <1>1, <1>3, <2>1 DEF Staying
  <2>2. CASE d # c
    <3>1. mutex'[d] = mutex[d] /\ (mutex[d] # NoThread => mutex[d] \in Threads \ {t})
      BY <1>1, <1>4, <2>2
    <3>2. QED
      BY <1>1, <3>1 DEF Staying
  <2>3. QED
    BY <2>1, <2>2
<1>11. Closing'
  <2> SUFFICES ASSUME NEW v \in Threads, call'[v].kind = "close"
               PROVE  /\ \A u \in Threads : call'[u].kind = "add" => call'[u].fd # call'[v].fd
                      /\ pc'[v] \in {"hit", "count"} => events[ctx'[v]] \subseteq hit'[v]
                      /\ pc'[v] = "close" /\ call'[v].fd \notin dropped =>
                           \A d \in Ctxs : d[1] = call'[v].fd => events[d] = {}
    BY <1>1 DEF Closing
  <2>1. call[v].kind = "close" /\ call'[v] = call[v]
    BY <1>2
  <2>2. \A u \in Threads : call'[u].kind = "add" => call'[u].fd # call'[v].fd
    BY <1>2, <2>1 DEF CancelInv, Closing
  <2>3. CASE v = t
    <3>1. events[c] = {}
      <4>1. events[c] \subseteq hit[t]
        BY <1>1, <2>1, <2>3 DEF CancelInv, Closing, c
      <4>2. QED
        BY <1>3, <4>1
    <3>2. c[1] = call[t].fd
      BY <1>1, <2>1, <2>3 DEF CancelInv, OwnCall, c
    <3>3. call[t].fd \notin dropped => \A d \in Ctxs : d[1] = call[t].fd => events[d] = {}
      BY <1>1, <1>3, <3>1, <3>2, SameContext
    <3>4. QED
      BY <1>2, <2>1, <2>2, <2>3, <3>3
  <2>4. CASE v # t
    BY <1>1, <1>2, <2>1, <2>2, <2>4 DEF CancelInv, Closing
  <2>5. QED
    BY <2>3, <2>4
<1>12. QED
  BY <1>6, <1>7, <1>8, <1>9, <1>10, <1>11 DEF CancelInv

(* What epoll_ctl makes of a registration. *)
LEMMA CtlRewrites ==
    ASSUME TypeOK, NEW c \in Ctxs, NEW S \in SUBSET Events, NEW op,
           op = "DEL" <=> S = {}, EpollCtl(op, c, S)
    PROVE  Rewritten(c, S)
<1>1. c[1] \in Fds
  BY DEF Ctxs
<1>2. CASE op = "DEL"
  BY <1>1, <1>2 DEF EpollCtl, Rewritten, TypeOK
<1>3. CASE op # "DEL"
  BY <1>1, <1>3 DEF EpollCtl, Rewritten, TypeOK
<1>4. QED
  BY <1>2, <1>3

(* One step per action, for careful clients. *)
LEMMA CancelStep ==
    ASSUME Careful, IInv, CancelInv, Next PROVE CancelInv'
<1> USE IOAssumption
<1> DEFINE Goal == CancelInv'
<1>0. Callers \subseteq Threads /\ Idlers \subseteq Threads
  BY DEF Threads
<1>q. ASSUME UNCHANGED <<size, fdContexts, made, dropped, events, mutex, hit, call, ctx, interest, batch>>,
             open \subseteq open', UNCHANGED pc
      PROVE  Goal
  <2>1. \A u \in Threads : \A b \in batch'[u] : Reached(b[1])
    BY <1>q DEF CancelInv, AllReached
  <2>2. QED
    BY <1>q, <2>1, QuietStep
<1>1. ASSUME NEW t \in Callers, NEW fd \in Fds, NEW e \in Events, NEW w \in Waiters,
             AddFind(t, fd, e, w)
      PROVE  Goal
  <2>0. t \in Threads
    BY <1>0
  <2>1. /\ pc[t] = "free" /\ ~Busy({"close"}, fd)
        /\ UNCHANGED <<size, fdContexts, made, dropped, events, mutex, hit, interest, open, batch>>
    BY <1>1 DEF AddFind, MayAdd, tableVars, kernelVars
  <2>2. /\ call'[t].kind = "add" /\ call'[t].fd = fd
        /\ \A u \in Threads \ {t} : call'[u] = call[u]
    BY <1>1, <2>0 DEF AddFind, IInv, TypeOK
  <2>3. /\ \A u \in Threads \ {t} : pc'[u] = pc[u] /\ ctx'[u] = ctx[u]
        /\ \/ pc'[t] = "lock" /\ ctx'[t] = <<fd, fdContexts[fd]>> /\ size > fd
           \/ pc'[t] = "grow" /\ ~(size > fd)
    BY <1>1, <2>0 DEF AddFind, IInv, TypeOK
  <2>4. QED
    BY <2>1, <2>2, <2>3, BeginStep
<1>2. ASSUME NEW t \in Callers, AddGrow(t) PROVE Goal
  BY <1>2, GrowStep
<1>3. ASSUME NEW t \in Callers, AddEvent(t) PROVE Goal
  <2> DEFINE c == ctx[t]  S == events[c] \cup {call[t].event}
  <2>0. t \in Threads
    BY <1>0
  <2>1. /\ pc[t] = "lock" /\ call[t].kind = "add" /\ mutex[c] = NoThread /\ Return(t)
        /\ c \in Ctxs /\ call[t].event \in Events /\ c[1] \in open
        /\ UNCHANGED <<size, fdContexts, made, dropped, mutex, hit, open, batch>>
    BY <1>3, <2>0 DEF AddEvent, Unlocked, CtlOk, tableVars, IInv, Locals
  <2>2. S \in SUBSET Events /\ S # {}
    BY <2>1 DEF IInv, TypeOK
  <2>3. events'[c] = S /\ \A d \in Ctxs \ {c} : events'[d] = events[d]
    BY <1>3, <2>1 DEF AddEvent, IInv, TypeOK
  <2>4. Rewritten(c, S)
    <3>1. EpollCtl(AddOp(events[c]), c, S) /\ AddOp(events[c]) # "DEL"
      BY <1>3 DEF AddEvent, AddOp
    <3> HIDE DEF c, S
    <3>2. QED
      BY <2>1, <2>2, <3>1, CtlRewrites DEF IInv
  <2> HIDE DEF c, S
  <2>5. c = ctx[t]
    BY DEF c
  <2>6. QED
    BY <2>0, <2>1, <2>2, <2>3, <2>4, <2>5, ChangeStep
<1>4. ASSUME NEW t \in Callers, AddFails(t) PROVE Goal
  <2>1. /\ pc[t] = "lock" /\ call[t].kind = "add" /\ Return(t)
        /\ UNCHANGED <<size, fdContexts, made, dropped, events, mutex, hit, interest, open, batch>>
    BY <1>4 DEF AddFails, tableVars, kernelVars
  <2>2. QED
    BY <1>0, <2>1, BackStep
<1>5. ASSUME NEW t \in Callers, AddTwice(t) PROVE Goal
  BY <1>5, <1>q DEF AddTwice, tableVars, kernelVars
<1>6. ASSUME NEW t \in Callers, NEW fd \in Fds, NEW k \in Kinds, NEW e, Find(t, k, fd, e)
      PROVE  Goal
  <2>0. t \in Threads
    BY <1>0
  <2>1. /\ pc[t] = "free" /\ (k = "close" => ~Busy({"add", "close"}, fd))
        /\ UNCHANGED <<size, fdContexts, made, dropped, events, mutex, hit, interest, open, batch>>
    BY <1>6 DEF Find, MayClose, tableVars, kernelVars
  <2>2. /\ call[t].kind = "none" /\ k # "none" /\ k # "add"
    BY <2>0, <2>1 DEF IInv, Locals
  <2>3. /\ \A u \in Threads \ {t} : call'[u] = call[u]
        /\ IF size > fd \/ k = "close" THEN call'[t].kind = k /\ call'[t].fd = fd
           ELSE call'[t] = call[t]
    BY <1>6, <2>0 DEF Find, IInv, TypeOK
  <2>4. /\ \A u \in Threads \ {t} : pc'[u] = pc[u] /\ ctx'[u] = ctx[u]
        /\ IF size > fd THEN pc'[t] = "lock" /\ ctx'[t] = <<fd, fdContexts[fd]>>
           ELSE pc'[t] = IF k = "close" THEN "close" ELSE "free"
    BY <1>6, <2>0 DEF Find, IInv, TypeOK
  <2>5. /\ call'[t].kind = "none" \/ call'[t].fd = fd
        /\ \/ pc'[t] = "lock" /\ ctx'[t] = <<fd, fdContexts[fd]>> /\ size > fd
           \/ pc'[t] = "close" /\ ~(size > fd) /\ call'[t].kind = "close"
           \/ pc'[t] = "free" /\ call'[t].kind = "none"
        /\ call'[t].kind # "add"
        /\ call'[t].kind = "close" => k = "close"
    BY <2>2, <2>3, <2>4
  <2>6. QED
    BY <2>1, <2>3, <2>4, <2>5, BeginStep
<1>7. ASSUME NEW t \in Callers, CancelFails(t) PROVE Goal
  <2>0. t \in Threads
    BY <1>0
  <2>1. /\ pc[t] = "lock" /\ Return(t) /\ ctx[t] \in Ctxs /\ mutex[ctx[t]] = NoThread
        /\ UNCHANGED <<size, fdContexts, made, dropped, events, mutex, hit, interest, open, batch>>
    BY <1>7, <2>0 DEF CancelFails, AtCancel, Unlocked, tableVars, kernelVars, IInv, Locals
  <2>2. ASSUME call[t].kind = "close", call[t].fd \notin dropped, events[ctx[t]] # {}
        PROVE  FALSE
    <3>0. ctx[t][1] \notin dropped
      BY <2>0, <2>1, <2>2 DEF CancelInv, OwnCall
    <3>1. Wanted(t) = events[ctx[t]] /\ Left(t) = {}
      BY <2>2 DEF Wanted, Left
    <3>2. ~CtlOk("DEL", ctx[t][1])
      BY <1>7, <2>2, <3>1 DEF CancelFails, LeftOp
    <3>3. ctx[t][1] \in open /\ Staying(ctx[t]) # {}
      BY <2>1, <2>2, <3>0 DEF CancelInv, Registered, Staying
    <3>4. interest[ctx[t][1]] = [ctx |-> ctx[t][2], mask |-> Staying(ctx[t])]
      BY <2>1, <3>0, <3>3 DEF CancelInv, Registered
    <3>5. interest[ctx[t][1]].ctx # 0
      BY <2>1, <3>4 DEF Ctxs
    <3>6. QED
      BY <3>2, <3>3, <3>5 DEF CtlOk
  <2>3. QED
    BY <2>0, <2>1, <2>2, BackStep
<1>8. ASSUME NEW t \in Callers, DelEvent(t) PROVE Goal
  <2> DEFINE c == ctx[t]  S == Left(t)
  <2>0. t \in Threads
    BY <1>0
  <2>1. /\ pc[t] = "lock" /\ call[t].kind = "del" /\ mutex[c] = NoThread /\ Return(t)
        /\ c \in Ctxs /\ c[1] \in open
        /\ UNCHANGED <<size, fdContexts, made, dropped, mutex, hit, open, batch>>
    BY <1>8, <2>0 DEF DelEvent, AtCancel, Unlocked, CtlOk, tableVars, IInv, Locals
  <2>2. S \in SUBSET Events /\ S \subseteq events[c]
    BY <2>1 DEF IInv, TypeOK, Left
  <2>3. events'[c] = S /\ \A d \in Ctxs \ {c} : events'[d] = events[d]
    BY <1>8, <2>1 DEF DelEvent, IInv, TypeOK
  <2>4. Rewritten(c, S)
    <3>1. EpollCtl(LeftOp(S), c, S) /\ (LeftOp(S) = "DEL" <=> S = {})
      BY <1>8 DEF DelEvent, LeftOp
    <3> HIDE DEF c, S
    <3>2. QED
      BY <2>1, <2>2, <3>1, CtlRewrites DEF IInv
  <2> HIDE DEF c, S
  <2>5. c = ctx[t]
    BY DEF c
  <2>6. QED
    BY <2>0, <2>1, <2>2, <2>3, <2>4, <2>5, ChangeStep
<1>9. ASSUME NEW t \in Callers, CancelEvent(t) PROVE Goal
  <2> DEFINE c == ctx[t]  H == Wanted(t)
  <2>0. t \in Threads
    BY <1>0
  <2>1. /\ pc[t] = "lock" /\ mutex[c] = NoThread /\ c \in Ctxs
        /\ UNCHANGED <<size, fdContexts, made, dropped, events, call, open, ctx, batch>>
    BY <1>9, <2>0 DEF CancelEvent, AtCancel, Unlocked, tableVars, IInv, Locals
  <2>2. H \in SUBSET Events /\ (call[t].kind = "close" => events[c] \subseteq H)
    BY <2>1 DEF IInv, TypeOK, Wanted
  <2>3. /\ pc'[t] = "hit" /\ hit'[t] = H /\ mutex'[c] = t
        /\ \A u \in Threads \ {t} : pc'[u] = pc[u] /\ hit'[u] = hit[u]
        /\ \A d \in Ctxs \ {c} : mutex'[d] = mutex[d]
    BY <1>9, <2>0, <2>1 DEF CancelEvent, IInv, TypeOK
  <2>4. Reached(c) /\ (call[t].kind # "none" => c[1] = call[t].fd)
    BY <2>0, <2>1 DEF CancelInv, AllReached, OwnCall
  <2>5. Rewritten(c, events[c] \ H)
    <3> DEFINE S == events[c] \ H
    <3>1. EpollCtl(LeftOp(S), c, S) /\ (LeftOp(S) = "DEL" <=> S = {})
      BY <1>9 DEF CancelEvent, LeftOp, Left
    <3>2. S \in SUBSET Events
      BY <2>1 DEF IInv, TypeOK
    <3> HIDE DEF c, S
    <3>3. Rewritten(c, S)
      BY <2>1, <3>1, <3>2, CtlRewrites DEF IInv
    <3>4. QED
      BY <3>3 DEF S
  <2>6. ctx'[t] = c /\ (\A u \in Threads \ {t} : ctx'[u] = ctx[u]) /\
        (\A u \in Threads : batch'[u] \subseteq batch[u])
    BY <2>1
  <2> HIDE DEF c, H
  <2>7. QED
    BY <2>0, <2>1, <2>2, <2>3, <2>4, <2>5, <2>6, TakeStep
<1>10. ASSUME NEW t \in Callers, CloseFd(t) PROVE Goal
  BY <1>10, CloseStep
<1>11. ASSUME NEW t \in Idlers, EpollWait(t) PROVE Goal
  <2>0. t \in Threads
    BY <1>0
  <2>1. PICK W \in SUBSET edge : batch' = [batch EXCEPT ![t] =
              {<<<<fd, interest[fd].ctx>>, Report(fd)>> : fd \in Handled(W)}]
    BY <1>11 DEF EpollWait
  <2>2. /\ UNCHANGED <<size, fdContexts, made, dropped, events, mutex, hit, call, ctx, interest, open>>
        /\ \A u \in Threads : \/ pc'[u] = pc[u]
                              \/ pc[u] \in {"free", "event"} /\ pc'[u] \in {"free", "event"}
    BY <1>11, <2>0 DEF EpollWait, tableVars, IInv, TypeOK
  <2>3. ASSUME NEW u \in Threads, NEW b \in batch'[u] PROVE Reached(b[1])
    <3>1. CASE u = t
      <4>1. b \in {<<<<fd, interest[fd].ctx>>, Report(fd)>> : fd \in Handled(W)}
        BY <2>0, <2>1, <2>3, <3>1 DEF IInv, TypeOK
      <4>2. PICK fd \in Handled(W) : b = <<<<fd, interest[fd].ctx>>, Report(fd)>>
        BY <4>1
      <4>3. fd \in edge /\ fd \in Fds
        BY <2>1 DEF Handled, IInv, TypeOK
      <4>4. interest[fd].ctx # 0
        BY <4>3 DEF IInv, Listed
      <4>5. Reached(<<fd, interest[fd].ctx>>)
        BY <4>3, <4>4 DEF CancelInv, AllReached
      <4>6. QED
        BY <4>2, <4>5
    <3>2. CASE u # t
      <4>1. batch'[u] = batch[u]
        BY <2>1, <3>2 DEF IInv, TypeOK
      <4>2. QED
        BY <2>3, <4>1 DEF CancelInv, AllReached
    <3>3. QED
      BY <3>1, <3>2
  <2>4. QED
    BY <2>2, <2>3, QuietStep
<1>12. ASSUME NEW t \in Idlers, SkipEvent(t) PROVE Goal
  <2>0. t \in Threads
    BY <1>0
  <2>1. PICK b \in batch[t] : batch' = [batch EXCEPT ![t] = @ \ {b}]
    BY <1>12 DEF SkipEvent
  <2>2. /\ UNCHANGED <<size, fdContexts, made, dropped, events, mutex, hit, call, ctx, interest, open>>
        /\ \A u \in Threads : \/ pc'[u] = pc[u]
                              \/ pc[u] \in {"free", "event"} /\ pc'[u] \in {"free", "event"}
    BY <1>12, <2>0 DEF SkipEvent, tableVars, kernelVars, IInv, TypeOK
  <2>3. \A u \in Threads : batch'[u] \subseteq batch[u]
    BY <2>1 DEF IInv, TypeOK
  <2>4. \A u \in Threads : \A x \in batch'[u] : Reached(x[1])
    BY <2>3 DEF CancelInv, AllReached
  <2>5. QED
    BY <2>2, <2>4, QuietStep
<1>13. ASSUME NEW t \in Idlers, HandleEvent(t) PROVE Goal
  <2>0. t \in Threads
    BY <1>0
  <2>1. PICK b \in batch[t] :
          /\ mutex[b[1]] = NoThread
          /\ EpollCtl(LeftOp(events[b[1]] \ RealEvents(b[1], b[2])), b[1],
                      events[b[1]] \ RealEvents(b[1], b[2]))
          /\ batch' = [batch EXCEPT ![t] = @ \ {b}]
          /\ hit' = [hit EXCEPT ![t] = RealEvents(b[1], b[2])]
          /\ ctx' = [ctx EXCEPT ![t] = b[1]]
          /\ mutex' = [mutex EXCEPT ![b[1]] = t]
    BY <1>13 DEF HandleEvent, Unlocked, LeftEvents
  <2> DEFINE c == b[1]  H == RealEvents(b[1], b[2])  S == events[c] \ H
  <2>2. /\ pc[t] = "event" /\ pc' = [pc EXCEPT ![t] = "hit"]
        /\ UNCHANGED <<size, fdContexts, made, dropped, events, call, open>>
    BY <1>13 DEF HandleEvent, tableVars
  <2>3. b \in Ctxs \X SUBSET (Events \cup {"ERR"})
    BY <2>0, <2>1 DEF IInv, TypeOK
  <2>4. c \in Ctxs /\ H \in SUBSET Events /\ S \in SUBSET Events
    BY <2>3 DEF IInv, TypeOK, RealEvents
  <2>5. call[t].kind = "none" /\ Reached(c)
    BY <2>0, <2>2 DEF IInv, Locals, CancelInv, AllReached
  <2>6. /\ pc'[t] = "hit" /\ hit'[t] = H /\ mutex'[c] = t /\ ctx'[t] = c
        /\ \A u \in Threads \ {t} : pc'[u] = pc[u] /\ hit'[u] = hit[u] /\ ctx'[u] = ctx[u]
        /\ \A d \in Ctxs \ {c} : mutex'[d] = mutex[d]
        /\ \A u \in Threads : batch'[u] \subseteq batch[u]
    BY <2>0, <2>1, <2>2, <2>4 DEF IInv, TypeOK
  <2>7. Rewritten(c, S)
    <3>1. EpollCtl(LeftOp(S), c, S) /\ (LeftOp(S) = "DEL" <=> S = {})
      BY <2>1 DEF LeftOp
    <3> HIDE DEF c, S
    <3>2. QED
      BY <2>4, <3>1, CtlRewrites DEF IInv
  <2>8. mutex[c] = NoThread
    BY <2>1
  <2> HIDE DEF c, H
  <2>9. QED
    BY <2>0, <2>2, <2>4, <2>5, <2>6, <2>7, <2>8, TakeStep
<1>14. ASSUME NEW t \in Threads, TriggerEvent(t) PROVE Goal
  BY <1>14, TriggerStep
<1>15. ASSUME NEW t \in Threads, TriggerAborts(t) PROVE Goal
  BY <1>15, <1>q DEF TriggerAborts, tableVars, kernelVars
<1>16. ASSUME NEW t \in Threads, CountDown(t) PROVE Goal
  BY <1>16, NextTriggerStep, ReleaseStep
<1>17. ASSUME NEW w \in Waiters, Resume(w) PROVE Goal
  BY <1>17, <1>q DEF Resume, tableVars, kernelVars
<1>18. ASSUME NEW fd \in Fds, NEW x \in Events \cup {"ERR"}, Arrive(fd, x) PROVE Goal
  BY <1>18, <1>q DEF Arrive, tableVars
<1>19. ASSUME NEW fd \in Fds, NEW x \in Events, Use(fd, x) PROVE Goal
  BY <1>19, <1>q DEF Use, tableVars
<1>20. ASSUME NEW fd \in Fds, Reopen(fd) PROVE Goal
  BY <1>20, <1>q DEF Reopen, tableVars
<1>21. ASSUME Aborted PROVE Goal
  BY <1>21, <1>q DEF Aborted, vars
<1>22. QED
  <2> HIDE DEF Goal
  <2>1. ASSUME NEW t \in Callers, Begin(t) PROVE Goal
    BY <1>1, <1>6, <2>1 DEF Begin
  <2>2. ASSUME NEW t \in Callers, Proceed(t) PROVE Goal
    BY <1>0, <1>2, <1>3, <1>4, <1>5, <1>7, <1>8, <1>9, <1>10, <1>14, <1>15, <1>16, <2>2
       DEF Proceed, Triggers
  <2>3. ASSUME NEW t \in Idlers, Idle(t) PROVE Goal
    BY <1>0, <1>11, <1>12, <1>13, <1>14, <1>15, <1>16, <2>3 DEF Idle, Triggers
  <2>4. ASSUME Kernel PROVE Goal
    BY <1>18, <1>19, <1>20, <2>4 DEF Kernel
  <2>5. Goal
    BY <1>17, <1>21, <2>1, <2>2, <2>3, <2>4 DEF Next
  <2>6. QED
    BY <2>5 DEF Goal

(* An armed event can be cancelled: the table leads to its context and epoll *)
(* knows the context and exactly its events, however calls, reports, resizes *)
(* of the table and close() interleave (iomanager.cpp:155-205,275-362,       *)
(* 420-464), for clients that do not wait on what is being closed.  A resize *)
(* that makes the table smaller harms only the descriptors it leaves out.    *)
THEOREM CancellableAlways ==
    ASSUME Careful PROVE Spec => []Cancellable
<1>1. IInv /\ CancelInv /\ [Next]_vars => CancelInv'
  <2> SUFFICES ASSUME IInv, CancelInv, [Next]_vars PROVE CancelInv'
    OBVIOUS
  <2>1. CASE Next
    BY <2>1, CancelStep
  <2>2. CASE UNCHANGED vars
    BY <2>2, QuietStep DEF vars, CancelInv, AllReached
  <2>3. QED
    BY <2>1, <2>2
<1>2. IInv /\ CancelInv => Cancellable
  <2> SUFFICES ASSUME IInv, CancelInv, NEW c \in Ctxs, c[1] \notin dropped,
                      events[c] # {}, Unlocked(c)
               PROVE  /\ size > c[1] /\ fdContexts[c[1]] = c[2]
                      /\ interest[c[1]] = [ctx |-> c[2], mask |-> events[c]]
    BY DEF Cancellable
  <2>1. Staying(c) = events[c]
    BY DEF Staying, Unlocked
  <2>2. Reached(c) /\ c[1] \in Fds
    BY DEF CancelInv, AllReached, Ctxs
  <2>3. c[1] \in Nat /\ size \in Nat
    BY <2>2, IOAssumption DEF IInv, TypeOK
  <2>4. size > c[1] /\ fdContexts[c[1]] = c[2]
    BY <2>2, <2>3 DEF Reached, CancelInv, Grown
  <2>5. QED
    BY <2>1, <2>4 DEF CancelInv, Registered
<1>3. QED
  BY <1>1, <1>2, CancelInit, InvAlways, PTL DEF Spec
=============================================================================
