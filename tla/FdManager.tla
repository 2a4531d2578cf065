------------------------------ MODULE FdManager ------------------------------
(***************************************************************************)
(* The table of descriptor contexts of sylar/fd_manager.cpp and the hooked *)
(* calls that keep it: socket, close, fcntl, ioctl and setsockopt of       *)
(* sylar/hook.cpp.  A thread runs with the hooks or without them; a number *)
(* the kernel hands out again belongs to another socket, told apart here   *)
(* by its generation.                                                      *)
(***************************************************************************)
EXTENDS Integers, FiniteSets

CONSTANTS
    MinFd,     \* the numbers below are taken
    MaxFd,     \* bound: the kernel has the numbers MinFd..MaxFd
    InitSize,  \* datas_.resize(64) of the constructor
    MaxGen,    \* bound: sockets the kernel opens
    Timeouts   \* receive timeouts a user may set

ASSUME FdAssumption ==
    /\ MinFd \in Nat /\ MaxFd \in Nat /\ MaxGen \in Nat
    /\ InitSize \in Nat \ {0, 1}  \* fd * 1.5 rounded down must exceed fd

VARIABLES
    kernel,  \* the kernel's sockets by number
    datas,   \* the FdCtx of each number, NoCtx if there is none
    size,    \* datas_.size()
    gen,     \* sockets opened so far
    stale    \* history: numbers closed behind the back of their FdCtx

fdVars == <<kernel, datas, size, gen, stale>>

Fds == MinFd..MaxFd

NoCtx == [gen |-> 0, user |-> FALSE, to |-> -1]

(* nonblock: O_NONBLOCK; the rest is history: wanted, an FdCtx is to be made   *)
(* for the socket; asked, what the user last said about blocking; cleared,     *)
(* FIONBIO cleared the flag since the last F_SETFL; to, the timeout set with   *)
(* the hooks on.                                                               *)
Closed == [gen |-> 0, nonblock |-> FALSE, wanted |-> FALSE, asked |-> FALSE, cleared |-> FALSE, to |-> -1]

FdTypeOK ==
    /\ kernel \in [Fds -> [gen : 0..MaxGen, nonblock : BOOLEAN, wanted : BOOLEAN, asked : BOOLEAN,
                           cleared : BOOLEAN, to : Timeouts \cup {-1}]]
    /\ datas \in [Fds -> [gen : 0..MaxGen, user : BOOLEAN, to : Timeouts \cup {-1}]]
    /\ size \in InitSize..((3 * MaxFd) \div 2 + InitSize)
    /\ gen \in 0..MaxGen
    /\ stale \subseteq Fds
    /\ \A fd \in Fds : fd >= size => datas[fd] = NoCtx

FdInit ==
    /\ kernel = [fd \in Fds |-> Closed] /\ datas = [fd \in Fds |-> NoCtx]
    /\ size = InitSize /\ gen = 0 /\ stale = {}

-----------------------------------------------------------------------------
IsOpen(fd) == kernel[fd].gen # 0

Free == {fd \in Fds : ~IsOpen(fd)}

(* The kernel opens a socket: the lowest number that is free *)
LowestFree == CHOOSE fd \in Free : \A other \in Free : fd <= other

MayOpen == Free # {} /\ gen < MaxGen

KernelOpen(wanted) ==
    /\ gen' = gen + 1
    /\ kernel' = [kernel EXCEPT ![LowestFree] =
         [Closed EXCEPT !.gen = gen + 1, !.wanted = wanted]]

(* get(fd): out of the table's range or an empty slot is no context *)
Managed(fd) == fd < size /\ datas[fd] # NoCtx

(* Mutant: the table grows to the number, not past it. *)
CreateShort(fd) ==
    /\ datas' = [datas EXCEPT ![fd] = [NoCtx EXCEPT !.gen = kernel[fd].gen]]
    /\ size' = IF fd >= size THEN fd ELSE size
    /\ kernel' = [kernel EXCEPT ![fd].nonblock = IF IsOpen(fd) THEN TRUE ELSE @]

(* The second half of get(fd, true), under the write lock: FdCtx::init makes *)
(* a socket non-blocking, the size is looked at again.                       *)
Create(fd) ==
    /\ datas' = [datas EXCEPT ![fd] = [NoCtx EXCEPT !.gen = kernel[fd].gen]]
    /\ size' = IF fd >= size THEN (3 * fd) \div 2 ELSE size
    /\ kernel' = [kernel EXCEPT ![fd].nonblock = IF IsOpen(fd) THEN TRUE ELSE @]

(* Mutant: the last slot of the table is taken to be outside. *)
DelOffByOne(fd) ==
    /\ datas' = IF size <= fd + 1 THEN datas ELSE [datas EXCEPT ![fd] = NoCtx]
    /\ stale' = stale \ {fd}

(* del(fd) *)
Del(fd) ==
    /\ datas' = [datas EXCEPT ![fd] = NoCtx]
    /\ stale' = stale \ {fd}

(* close_f; a thread without the hooks leaves the FdCtx where it is *)
KernelClose(fd, hooked) ==
    /\ kernel' = [kernel EXCEPT ![fd] = Closed]
    /\ stale' = IF Managed(fd) /\ ~hooked THEN stale \cup {fd} ELSE stale

(* Mutant: the kernel gets the user's flags as they are. *)
SetFlPlain(fd, nonblock) ==
    /\ datas' = IF Managed(fd) THEN [datas EXCEPT ![fd].user = nonblock] ELSE datas
    /\ kernel' = [kernel EXCEPT ![fd] =
         [@ EXCEPT !.nonblock = nonblock, !.asked = nonblock, !.cleared = FALSE]]

(* fcntl(F_SETFL), hooks on or off: the user's choice is noted, the kernel's  *)
(* socket stays non-blocking.                                                 *)
SetFl(fd, nonblock) ==
    /\ datas' = IF Managed(fd) THEN [datas EXCEPT ![fd].user = nonblock] ELSE datas
    /\ kernel' = [kernel EXCEPT ![fd] =
         [@ EXCEPT !.nonblock = nonblock \/ Managed(fd), !.asked = nonblock, !.cleared = FALSE]]

(* fcntl(F_GETFL): what the user is told *)
GetFl(fd) == IF Managed(fd) THEN datas[fd].user ELSE kernel[fd].nonblock

(* ioctl(FIONBIO): noted, and passed to the kernel as it is *)
Fionbio(fd, nonblock) ==
    /\ datas' = IF Managed(fd) THEN [datas EXCEPT ![fd].user = nonblock] ELSE datas
    /\ kernel' = [kernel EXCEPT ![fd] =
         [@ EXCEPT !.nonblock = nonblock, !.asked = nonblock, !.cleared = ~nonblock]]

(* setsockopt(SO_RCVTIMEO): only a hooked thread tells the context *)
SetTimeout(fd, hooked, v) ==
    LET told == hooked /\ Managed(fd) IN
    /\ datas' = IF told THEN [datas EXCEPT ![fd].to = v] ELSE datas
    /\ kernel' = IF told THEN [kernel EXCEPT ![fd].to = v] ELSE kernel
=============================================================================
