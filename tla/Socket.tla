-------------------------------- MODULE Socket --------------------------------
(***************************************************************************)
(* The Socket and SSLSocket objects of sylar/socket.cpp over the hooked    *)
(* descriptors of FdManager.  An object is used by one thread at a time,   *)
(* which may change between two calls and may run without the hooks; the   *)
(* calls of different objects interleave at every lock and system call.    *)
(***************************************************************************)
EXTENDS FdManager

CONSTANTS
    Objects,  \* socket objects
    Kind,     \* "tcp", "udp" or "ssl" for each of them
    Ops,      \* the calls made on each of them
    Tuned     \* bound: those whose options are set

ASSUME SocketAssumption == 
    /\ Kind \in [Objects -> {"tcp", "udp", "ssl"}]
    /\ Ops \in [Objects -> SUBSET {"udp", "bind", "connect", "reconnect"}]
    /\ Tuned \subseteq Objects

VARIABLE obj  \* the members of each object, and where its call is

vars == <<obj, fdVars>>

None == -1  \* sock_ == -1, and no SSL session

(* fd: sock_; conn: isConnected_; local: the socket whose address is cached  *)
(* in localAddress_, 0 for none; remote: remoteAddress_ is set; ssl: the     *)
(* number given to SSL_set_fd; gone: history, the cached address was kept    *)
(* over a close.                                                             *)
Unused == [pc |-> "idle", op |-> "none", hooked |-> FALSE, fd |-> None, conn |-> FALSE,
           local |-> 0, remote |-> FALSE, ssl |-> None, gone |-> FALSE]

TypeOK ==
    /\ FdTypeOK
    /\ obj \in [Objects ->
         [pc : {"idle", "find", "create", "call", "del", "close_f", "unset"},
          op : {"none", "udp", "bind", "connect", "accept", "close"},
          hooked : BOOLEAN, fd : Fds \cup {None}, conn : BOOLEAN, local : 0..MaxGen,
          remote : BOOLEAN, ssl : Fds \cup {None}, gone : BOOLEAN]]

Init == FdInit /\ obj = [o \in Objects |-> Unused]

-----------------------------------------------------------------------------
Idle(o) == obj[o].pc = "idle"

At(o, pc) == obj[o].pc = pc

Update(o, new) == obj' = [obj EXCEPT ![o] = new]

Goto(o, pc) == obj' = [obj EXCEPT ![o].pc = pc]

Returned(new) == [new EXCEPT !.pc = "idle", !.op = "none", !.hooked = FALSE]

(* What the calls that open a socket do first: CreateUDP, bind, connect (which *)
(* notes the peer) and reconnect (which needs one and drops localAddress_).    *)
Entered(o, op) ==
    LET s == obj[o] IN
    [s EXCEPT !.remote = op \in {"connect", "reconnect"} \/ s.remote,
              !.local = IF op = "reconnect" THEN 0 ELSE s.local,
              !.gone = op # "reconnect" /\ s.gone,
              !.op = IF op = "reconnect" THEN "connect" ELSE op]

MayEnter(o, op) ==
    /\ Idle(o)
    /\ op = "udp" <=> (Kind[o] = "udp" /\ obj[o] = Unused)
    /\ op = "reconnect" => obj[o].remote

(* newSock: the socket is there, and with the hooks on wants its FdCtx *)
NewSock(o, op, hooked) ==
    /\ MayEnter(o, op) /\ obj[o].fd = None /\ MayOpen
    /\ KernelOpen(hooked)
    /\ Update(o, [Entered(o, op) EXCEPT !.fd = LowestFree, !.hooked = hooked,
                                        !.pc = IF hooked THEN "find" ELSE "call"])
    /\ UNCHANGED <<datas, size, stale>>

(* newSock fails: CreateUDP calls the object connected all the same *)
NewSockFails(o, op) ==
    /\ MayEnter(o, op) /\ obj[o].fd = None /\ ~MayOpen
    /\ Update(o, Returned([Entered(o, op) EXCEPT !.conn = op = "udp" \/ @]))
    /\ UNCHANGED fdVars

(* bind or connect on a socket that is there *)
Reuse(o, op, hooked) ==
    /\ MayEnter(o, op) /\ obj[o].fd # None /\ op # "udp"
    /\ Update(o, [Entered(o, op) EXCEPT !.hooked = hooked, !.pc = "call"])
    /\ UNCHANGED fdVars

(* accept, by a thread with or without the hooks, into a fresh object n *)
Accept(o, n, hooked) ==
    /\ Idle(o) /\ obj[o].fd # None /\ ~obj[o].conn
    /\ obj[n] = Unused /\ Kind[n] = Kind[o] /\ Kind[n] # "udp" /\ MayOpen
    /\ KernelOpen(TRUE)
    /\ Update(n, [Unused EXCEPT !.op = "accept", !.fd = LowestFree, !.hooked = hooked,
                                !.pc = "find"])
    /\ UNCHANGED <<datas, size, stale>>

(* get(fd, true), first half, under the read lock *)
Find(o) ==
    /\ At(o, "find")
    /\ Goto(o, IF Managed(obj[o].fd) THEN "call" ELSE "create")
    /\ UNCHANGED fdVars

CreateCtx(o) ==
    /\ At(o, "create")
    /\ Create(obj[o].fd)
    /\ Goto(o, "call")
    /\ UNCHANGED <<gen, stale>>

(* getLocalAddress: asks the kernel only when nothing is cached *)
LocalAddress(s) == IF s.local # 0 THEN s.local ELSE kernel[s.fd].gen

(* Mutant: a session that is there is used again. *)
SessionKept(o, s) ==
    IF Kind[o] = "ssl" THEN (IF obj[o].ssl # None THEN obj[o].ssl ELSE s.fd) ELSE s.ssl

(* SSL_new and SSL_set_fd, whatever SSL_connect or SSL_accept then says *)
Session(o, s) == IF Kind[o] = "ssl" THEN s.fd ELSE s.ssl

Connected(o, s) ==
    [s EXCEPT !.conn = TRUE, !.remote = TRUE, !.local = LocalAddress(s), !.ssl = Session(o, s)]

(* initSock; Socket::init of an accepted socket needs its FdCtx *)
InitSock(o) ==
    LET s == obj[o] IN
    /\ At(o, "call") /\ s.op \in {"udp", "accept"}
    /\ Update(o, Returned(IF s.op = "udp" THEN [s EXCEPT !.conn = TRUE]
                          ELSE IF Managed(s.fd) THEN Connected(o, s)
                          ELSE [s EXCEPT !.fd = None]))
    /\ UNCHANGED fdVars

(* ::bind, or an address of the wrong family, or the Unix address of a live    *)
(* server: that is found out with a socket object of the call's own, and the    *)
(* file of a dead one is unlinked.                                              *)
Bind(o, ok) ==
    LET s == obj[o] IN
    /\ At(o, "call") /\ s.op = "bind"
    /\ Update(o, Returned([s EXCEPT !.local = IF ok THEN LocalAddress(s) ELSE @]))
    /\ UNCHANGED fdVars

(* Socket::close and the hooked close: is there an FdCtx to take care of? *)
Closing(s) ==
    LET t == [s EXCEPT !.conn = FALSE, !.gone = s.local # 0] IN
    IF s.fd = None THEN Returned(t)
    ELSE [t EXCEPT !.pc = IF s.hooked /\ Managed(s.fd) THEN "del" ELSE "close_f"]

(* ::connect: with the hooks on a number without FdCtx is no socket.  What    *)
(* fails is closed.                                                           *)
Connect(o, ok) ==
    LET s == obj[o] IN
    /\ At(o, "call") /\ s.op = "connect"
    /\ ok => ~s.hooked \/ Managed(s.fd)
    /\ Update(o, IF ok THEN Returned(Connected(o, s)) ELSE Closing(s))
    /\ UNCHANGED fdVars

(* connect with an address of another family: the socket stays *)
WrongFamily(o) ==
    /\ At(o, "call") /\ obj[o].op = "connect"
    /\ Update(o, Returned(obj[o]))
    /\ UNCHANGED fdVars

(* close() by the user or the destructor *)
Close(o, hooked) ==
    /\ Idle(o) /\ (obj[o].conn \/ obj[o].fd # None)
    /\ Update(o, Closing([obj[o] EXCEPT !.op = "close", !.hooked = hooked]))
    /\ UNCHANGED fdVars

(* cancelAll and FdMgr's del *)
CloseDel(o) ==
    /\ At(o, "del")
    /\ Del(obj[o].fd)
    /\ Goto(o, "close_f")
    /\ UNCHANGED <<kernel, size, gen>>

(* close_f: the number is free, and may be another object's, before sock_ is reset *)
CloseFd(o) ==
    /\ At(o, "close_f")
    /\ KernelClose(obj[o].fd, obj[o].hooked)
    /\ Goto(o, "unset")
    /\ UNCHANGED <<datas, size, gen>>

(* Mutant: sock_ keeps the number. *)
ForgetFdNever(o) ==
    /\ At(o, "unset")
    /\ Update(o, Returned(obj[o]))
    /\ UNCHANGED fdVars

(* sock_ = -1 *)
ForgetFd(o) ==
    /\ At(o, "unset")
    /\ Update(o, Returned([obj[o] EXCEPT !.fd = None]))
    /\ UNCHANGED fdVars

(* The options a user sets: timeouts, F_SETFL, FIONBIO *)
SetOption(o) ==
    LET fd == obj[o].fd IN
    /\ Idle(o) /\ fd # None /\ o \in Tuned
    /\ \/ \E hooked \in BOOLEAN, v \in Timeouts : SetTimeout(fd, hooked, v)
       \/ \E nonblock \in BOOLEAN : SetFl(fd, nonblock) \/ Fionbio(fd, nonblock)
    /\ UNCHANGED <<obj, size, gen, stale>>

Next ==
    \E o \in Objects :
        \/ \E op \in Ops[o] :
             \/ \E hooked \in BOOLEAN : NewSock(o, op, hooked) \/ Reuse(o, op, hooked)
             \/ NewSockFails(o, op)
        \/ \E n \in Objects, hooked \in BOOLEAN : Accept(o, n, hooked)
        \/ Find(o) \/ CreateCtx(o) \/ InitSock(o) \/ WrongFamily(o)
        \/ \E ok \in BOOLEAN : Bind(o, ok) \/ Connect(o, ok)
        \/ \E hooked \in BOOLEAN : Close(o, hooked)
        \/ CloseDel(o) \/ CloseFd(o) \/ ForgetFd(o) \/ SetOption(o)

Spec == Init /\ [][Next]_vars

-----------------------------------------------------------------------------
(* The number a send or recv of the object goes to.  Socket asks isConnected,  *)
(* SSLSocket only whether it has a session.                                    *)
PlainTarget(s) == IF s.conn THEN s.fd ELSE None

SslTarget(s) == s.ssl

Target(o) == IF Kind[o] = "ssl" THEN SslTarget(obj[o]) ELSE PlainTarget(obj[o])

(* The number an object may use: not the one it has closed and not yet forgotten. *)
Own(o) == IF At(o, "unset") THEN None ELSE obj[o].fd

(* Every open socket belongs to exactly one object, and every object's number  *)
(* is open: none is leaked by a failed call, none closed twice.  A number given *)
(* to another object between ::close(sock_) and sock_ = -1 is still named by    *)
(* the object that closed it, but only until that close returns: no later call  *)
(* of it uses or closes the other's socket (socket.cpp:294-307,146-176).        *)
OneOwner ==
    /\ \A fd \in Fds : IsOpen(fd) => \E o \in Objects : Own(o) = fd
    /\ \A o, p \in Objects : Own(o) # None =>
         IsOpen(Own(o)) /\ (Own(p) = Own(o) => p = o)

(* An FdCtx is that of the socket that has its number now, with the timeout    *)
(* set on that socket, and a socket opened with the hooks on has one, however   *)
(* closes and opens of one number interleave.  Only a thread without the hooks  *)
(* can leave an FdCtx behind, to be found by the number's next socket          *)
(* (hook.cpp:401-415, fd_manager.cpp:101-128).                                 *)
CtxFollowsSocket ==
    \A o \in Objects : LET fd == Own(o) IN
        fd # None /\ fd \notin stale =>
            /\ Managed(fd) => datas[fd].gen = kernel[fd].gen /\ datas[fd].to = kernel[fd].to
            /\ Idle(o) /\ kernel[fd].wanted => Managed(fd)

(* A managed socket is non-blocking in the kernel, so that a hooked call never *)
(* blocks its thread, and F_GETFL tells the user the mode that was asked for.   *)
(* FIONBIO 0 is the exception: it reaches the kernel (hook.cpp:417-454,513).    *)
NonblockKept ==
    \A o \in Objects : LET fd == obj[o].fd IN
        Idle(o) /\ fd # None /\ fd \notin stale =>
        /\ Managed(fd) => kernel[fd].nonblock \/ kernel[fd].cleared
        /\ GetFl(fd) = kernel[fd].asked

(* What an object keeps about its socket is about the socket it has now, after *)
(* any number of closes and reconnects: the local address it has cached, and    *)
(* the SSL session its transfers go over.  Exceptions are the address kept by   *)
(* connect and bind after a close, and the session a closed SSLSocket keeps     *)
(* until it connects again (socket.cpp:221-230,439-476,604-671,706-716).       *)
LocalAddressCurrent(s) ==
    s.conn /\ s.fd # None /\ s.local # 0 /\ ~s.gone => s.local = kernel[s.fd].gen

TransfersOnOwnSocket(o) ==
    Idle(o) /\ Target(o) # None /\ obj[o].conn => Target(o) = obj[o].fd

(* A connected object's cached address is that of its socket, and what it sends *)
(* and receives goes over its own socket (see the two parts above).             *)
MembersCurrent ==
    \A o \in Objects : LocalAddressCurrent(obj[o]) /\ TransfersOnOwnSocket(o)
=============================================================================
