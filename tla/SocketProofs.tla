---------------------------- MODULE SocketProofs ----------------------------
(* Proofs about Socket, for any set of objects and any range of descriptors. *)
EXTENDS Socket, WellFoundedInduction, TLAPS

(* What holds of each descriptor's number, whether it is open or not: an FdCtx *)
(* left behind is stale, and any other one is its socket's.                    *)
FdOk(fd) ==
    /\ datas[fd].gen = 0 => datas[fd] = NoCtx
    /\ fd \in stale => datas[fd].gen # 0
    /\ kernel[fd].gen = 0 /\ datas[fd].gen # 0 => fd \in stale
    /\ kernel[fd].gen # 0 /\ datas[fd].gen # 0 /\ fd \notin stale =>
         /\ datas[fd].gen = kernel[fd].gen /\ datas[fd].to = kernel[fd].to
         /\ datas[fd].user = kernel[fd].asked
         /\ kernel[fd].nonblock \/ kernel[fd].cleared

(* What holds of each object and of the descriptor it has, wherever its call is: *)
(* the FdCtx is made once, on a socket nobody has touched, and is there until    *)
(* the call that closes the socket.                                              *)
CtxOk(o) == LET s == obj[o]  fd == s.fd IN
    /\ s.pc # "idle" => fd # None
    /\ s.pc \in {"find", "create"} =>
         /\ kernel[fd].wanted /\ kernel[fd].to = -1
         /\ ~kernel[fd].asked /\ ~kernel[fd].cleared /\ ~kernel[fd].nonblock
    /\ s.pc = "create" => datas[fd].gen = 0
    /\ fd # None /\ kernel[fd].wanted /\ s.pc \notin {"find", "create", "close_f", "unset"} =>
         datas[fd].gen # 0
    /\ s.pc = "close_f" /\ s.hooked => datas[fd].gen = 0
    /\ fd # None /\ datas[fd].gen = 0 /\ s.pc \notin {"close_f", "unset"} =>
         kernel[fd].nonblock = kernel[fd].asked
    /\ s.pc = "call" /\ s.op = "accept" => kernel[fd].wanted

(* The members: what a closed socket leaves behind is marked. *)
MembersOk(o) == LET s == obj[o] IN
    /\ s.local # 0 /\ ~s.gone => s.fd # None /\ s.local = kernel[s.fd].gen
    /\ Kind[o] = "ssl" /\ s.conn => s.ssl = s.fd /\ s.fd # None
    /\ s.op = "udp" => Kind[o] = "udp"
    /\ s.pc \in {"del", "close_f", "unset"} => ~s.conn /\ (s.local # 0 => s.gone)

IInv ==
    /\ TypeOK /\ OneOwner
    /\ \A fd \in Fds : FdOk(fd)
    /\ \A o \in Objects : CtxOk(o) /\ MembersOk(o)

-----------------------------------------------------------------------------
(* What TypeOK says of one object, one socket and one context. *)
Record ==
    [pc : {"idle", "find", "create", "call", "del", "close_f", "unset"},
     op : {"none", "udp", "bind", "connect", "accept", "close"},
     hooked : BOOLEAN, fd : Fds \cup {None}, conn : BOOLEAN, local : 0..MaxGen,
     remote : BOOLEAN, ssl : Fds \cup {None}, gone : BOOLEAN]

KernelType == [gen : 0..MaxGen, nonblock : BOOLEAN, wanted : BOOLEAN, asked : BOOLEAN,
               cleared : BOOLEAN, to : Timeouts \cup {-1}]

CtxType == [gen : 0..MaxGen, user : BOOLEAN, to : Timeouts \cup {-1}]

LEMMA TypeFacts ==
    TypeOK <=>
        /\ obj \in [Objects -> Record]
        /\ kernel \in [Fds -> KernelType]
        /\ datas \in [Fds -> CtxType]
        /\ size \in InitSize..((3 * MaxFd) \div 2 + InitSize)
        /\ gen \in 0..MaxGen
        /\ stale \subseteq Fds
        /\ \A fd \in Fds : fd >= size => datas[fd] = NoCtx
BY Zenon DEF TypeOK, FdTypeOK, Record, KernelType, CtxType

LEMMA NoneFacts == None \notin Fds /\ Fds \subseteq Nat
BY FdAssumption DEF None, Fds

(* The kernel has a lowest free number when it has a free one. *)
LEMMA LeastOf ==
    ASSUME NEW S \in SUBSET Nat, S # {}
    PROVE  \E m \in S : \A n \in S : m <= n
<1> DEFINE less == {p \in Nat \X Nat : p[1] < p[2]}
<1>1. IsWellFoundedOn(less, Nat)
  BY NatLessThanWellFounded DEF OpToRel
<1>2. PICK m \in S : \A n \in S : ~(<<n, m>> \in less)
  <2> HIDE DEF less
  <2>1. QED
    BY <1>1, WFMin
<1>3. ASSUME NEW n \in S PROVE m <= n
  <2>1. n < m => <<n, m>> \in less
    OBVIOUS
  <2> HIDE DEF less
  <2>2. QED
    BY <1>2, <2>1
<1>4. QED
  BY <1>3

LEMMA LowestFreeFacts ==
    ASSUME Free # {}
    PROVE  LowestFree \in Fds /\ kernel[LowestFree].gen = 0
<1>1. Free \subseteq Fds /\ Free \in SUBSET Nat
  BY NoneFacts DEF Free
<1>2. \E m \in Free : \A n \in Free : m <= n
  BY <1>1, LeastOf
<1>3. LowestFree \in Free
  BY <1>2 DEF LowestFree
<1>4. QED
  BY <1>1, <1>3 DEF Free, IsOpen

(* Whether a number has a context shows in the context itself. *)
LEMMA ManagedFacts ==
    ASSUME IInv, NEW fd \in Fds
    PROVE  Managed(fd) <=> datas[fd].gen # 0
<1>1. datas[fd] # NoCtx => fd < size
  <2>1. fd \in Nat /\ size \in Int /\ (fd >= size => datas[fd] = NoCtx)
    BY TypeFacts, NoneFacts, FdAssumption DEF IInv
  <2>2. QED
    BY <2>1
<1>2. datas[fd].gen = 0 <=> datas[fd] = NoCtx
  BY DEF IInv, FdOk, NoCtx
<1>3. QED
  BY <1>1, <1>2 DEF Managed

-----------------------------------------------------------------------------
(* A step of one object that leaves the table and the kernel alone. *)
LEMMA ObjStep ==
    ASSUME IInv, NEW o \in Objects, NEW new \in Record, Update(o, new), UNCHANGED fdVars,
           new.fd = obj[o].fd, (new.pc = "unset") <=> (obj[o].pc = "unset"),
           CtxOk(o)', MembersOk(o)'
    PROVE  IInv'
<1>1. /\ obj' \in [Objects -> Record] /\ obj'[o] = new
      /\ \A p \in Objects \ {o} : obj'[p] = obj[p]
  BY TypeFacts DEF IInv, Update
<1>2. TypeOK'
  BY <1>1, TypeFacts DEF IInv, TypeOK, FdTypeOK, Record, fdVars
<1>3. \A p \in Objects : Own(p)' = Own(p)
  BY <1>1 DEF Own, At
<1>4. OneOwner'
  BY <1>3 DEF IInv, OneOwner, IsOpen, fdVars
<1>5. \A fd \in Fds : FdOk(fd)'
  BY DEF IInv, FdOk, fdVars
<1>6. \A p \in Objects \ {o} : CtxOk(p)' /\ MembersOk(p)'
  BY <1>1 DEF IInv, CtxOk, MembersOk, fdVars
<1>7. QED
  BY <1>2, <1>4, <1>5, <1>6 DEF IInv

(* A step of one object on the number it has, gets or gives back. *)
LEMMA FdStep ==
    ASSUME IInv, NEW o \in Objects, NEW fd \in Fds, TypeOK',
           \A p \in Objects \ {o} : obj'[p] = obj[p] /\ Own(p) # fd,
           \A d \in Fds \ {fd} : /\ kernel'[d] = kernel[d] /\ datas'[d] = datas[d]
                                 /\ d \in stale' <=> d \in stale,
           Own(o) \in {fd, None}, Own(o)' \in {fd, None},
           kernel'[fd].gen # 0 <=> Own(o)' = fd,
           FdOk(fd)', CtxOk(o)', MembersOk(o)'
    PROVE  IInv'
<1>1. None \notin Fds /\ \A p \in Objects : Own(p) \in Fds \cup {None}
  BY NoneFacts, TypeFacts DEF IInv, Record, Own
<1>0. \A p \in Objects \ {o} : Own(p)' = Own(p)
  BY DEF Own, At
<1>2. OneOwner'
  <2>1. ASSUME NEW d \in Fds, kernel'[d].gen # 0 PROVE \E p \in Objects : Own(p)' = d
    <3>1. CASE d = fd
      BY <2>1, <3>1
    <3>2. CASE d # fd
      <4>1. PICK p \in Objects : Own(p) = d
        BY <2>1, <3>2 DEF IInv, OneOwner, IsOpen
      <4>2. p # o
        BY <1>1, <3>2, <4>1
      <4>3. QED
        BY <1>0, <4>1, <4>2
    <3>3. QED
      BY <3>1, <3>2
  <2>2. ASSUME NEW p \in Objects, NEW q \in Objects, Own(p)' # None
        PROVE  kernel'[Own(p)'].gen # 0 /\ (Own(q)' = Own(p)' => q = p)
    <3>1. CASE p = o
      BY <1>0, <1>1, <2>2, <3>1
    <3>2. CASE p # o
      <4>1. Own(p)' = Own(p) /\ Own(p) \in Fds \ {fd}
        BY <1>0, <1>1, <2>2, <3>2
      <4>2. kernel[Own(p)].gen # 0 /\ (Own(q) = Own(p) => q = p)
        BY <1>1, <2>2, <4>1 DEF IInv, OneOwner, IsOpen
      <4>3. QED
        BY <1>0, <1>1, <3>2, <4>1, <4>2
    <3>3. QED
      BY <3>1, <3>2
  <2>3. QED
    BY <2>1, <2>2 DEF OneOwner, IsOpen
<1>3. \A d \in Fds : FdOk(d)'
  BY DEF IInv, FdOk
<1>4. ASSUME NEW p \in Objects, p # o PROVE CtxOk(p)' /\ MembersOk(p)'
  <2>0. obj'[p] = obj[p] /\ CtxOk(p) /\ MembersOk(p)
    BY <1>4 DEF IInv
  <2>1. CASE Own(p) = None
    <3>1. obj[p].fd = None \/ obj[p].pc = "unset"
      BY <2>1 DEF Own, At
    <3>2. QED
      BY <2>0, <3>1 DEF CtxOk, MembersOk
  <2>2. CASE Own(p) # None
    <3>1. obj[p].fd \in Fds \ {fd}
      BY <1>1, <1>4, <2>2 DEF Own
    <3>2. kernel'[obj[p].fd] = kernel[obj[p].fd] /\ datas'[obj[p].fd] = datas[obj[p].fd]
      BY <3>1
    <3>3. QED
      BY <2>0, <3>1, <3>2 DEF CtxOk, MembersOk
  <2>3. QED
    BY <2>1, <2>2
<1>5. QED
  BY <1>2, <1>3, <1>4 DEF IInv

LEMMA EnteredFacts ==
    ASSUME IInv, NEW o \in Objects, NEW op \in {"udp", "bind", "connect", "reconnect"},
           MayEnter(o, op)
    PROVE  LET e == Entered(o, op)  s == obj[o] IN
           /\ e \in Record /\ e.pc = "idle" /\ e.fd = s.fd /\ e.conn = s.conn /\ e.ssl = s.ssl
           /\ e.op \in {"udp", "bind", "connect"} /\ (e.op = "udp" => Kind[o] = "udp")
           /\ e.local = (IF op = "reconnect" THEN 0 ELSE s.local)
           /\ e.gone = (op # "reconnect" /\ s.gone) /\ s.pc = "idle"
<1> DEFINE s == obj[o]
           remote == op \in {"connect", "reconnect"} \/ s.remote
           local == IF op = "reconnect" THEN 0 ELSE s.local
           gone == op # "reconnect" /\ s.gone
           opn == IF op = "reconnect" THEN "connect" ELSE op
           e == [s EXCEPT !.remote = remote, !.local = local, !.gone = gone, !.op = opn]
<1>1. s \in Record /\ s.pc = "idle"
  BY TypeFacts DEF IInv, MayEnter, Idle
<1>2. remote \in BOOLEAN /\ gone \in BOOLEAN
  BY <1>1, Zenon DEF Record
<1>3. local \in 0..MaxGen /\ opn \in {"udp", "bind", "connect"} /\ (opn = "udp" => Kind[o] = "udp")
  BY <1>1, FdAssumption DEF Record, MayEnter
<1>4. e = Entered(o, op)
  BY DEF Entered
<1> HIDE DEF remote, local, gone, opn
<1>5. /\ e \in Record /\ e.pc = "idle" /\ e.fd = s.fd /\ e.conn = s.conn /\ e.ssl = s.ssl
      /\ e.op = opn /\ e.local = local /\ e.gone = gone
  BY <1>1, <1>2, <1>3 DEF Record
<1> HIDE DEF e
<1>6. QED
  BY <1>1, <1>3, <1>4, <1>5 DEF local, gone

(* The kernel's new socket, on a number no object has. *)
LEMMA OpenFacts ==
    ASSUME IInv, MayOpen, NEW wanted \in BOOLEAN, KernelOpen(wanted)
    PROVE  LET fd == LowestFree IN
           /\ fd \in Fds /\ fd # None /\ kernel[fd].gen = 0
           /\ gen' \in 0..MaxGen /\ kernel' \in [Fds -> KernelType]
           /\ kernel'[fd].gen # 0 /\ kernel'[fd].wanted = wanted /\ kernel'[fd].to = -1
           /\ kernel'[fd].asked = FALSE /\ kernel'[fd].cleared = FALSE /\ kernel'[fd].nonblock = FALSE
           /\ \A d \in Fds \ {fd} : kernel'[d] = kernel[d]
           /\ \A p \in Objects : Own(p) # fd
<1> DEFINE fd == LowestFree
           k == [Closed EXCEPT !.gen = gen + 1, !.wanted = wanted]
<1>1. /\ gen \in 0..MaxGen /\ gen < MaxGen /\ MaxGen \in Nat /\ kernel \in [Fds -> KernelType]
      /\ \A p \in Objects : obj[p].fd \in Fds \cup {None}
  BY TypeFacts, FdAssumption DEF IInv, MayOpen, Record
<1>2. fd \in Fds /\ kernel[fd].gen = 0 /\ fd # None
  BY LowestFreeFacts, NoneFacts DEF MayOpen
<1>3. gen' = gen + 1 /\ kernel' = [kernel EXCEPT ![fd] = k]
  BY DEF KernelOpen
<1>5. gen + 1 \in 0..MaxGen /\ gen + 1 # 0
  BY <1>1
<1>6. /\ k \in KernelType /\ k.gen = gen + 1 /\ k.wanted = wanted /\ k.to = -1
      /\ k.asked = FALSE /\ k.cleared = FALSE /\ k.nonblock = FALSE
  BY <1>5 DEF KernelType, Closed
<1> HIDE DEF k, fd
<1>7. kernel' \in [Fds -> KernelType] /\ kernel'[fd] = k /\ \A d \in Fds \ {fd} : kernel'[d] = kernel[d]
  BY <1>1, <1>2, <1>3, <1>6
<1>8. \A p \in Objects : Own(p) # fd
  BY <1>2 DEF IInv, OneOwner, IsOpen
<1>9. QED
  BY <1>2, <1>3, <1>5, <1>6, <1>7, <1>8 DEF fd

LEMMA NewSockStep ==
    ASSUME IInv, NEW o \in Objects, NEW op \in {"udp", "bind", "connect", "reconnect"},
           NEW hooked \in BOOLEAN, NewSock(o, op, hooked)
    PROVE  IInv'
<1>0. PICK fd : fd = LowestFree
  OBVIOUS
<1> DEFINE e == Entered(o, op)
           pc == IF hooked THEN "find" ELSE "call"
           new == [e EXCEPT !.fd = fd, !.hooked = hooked, !.pc = pc]
<1>1. /\ e \in Record /\ e.conn = obj[o].conn /\ obj[o].fd = None /\ obj[o].pc = "idle"
      /\ e.op \in {"udp", "bind", "connect"} /\ (e.op = "udp" => Kind[o] = "udp")
      /\ e.local = (IF op = "reconnect" THEN 0 ELSE obj[o].local)
      /\ e.gone = (op # "reconnect" /\ obj[o].gone)
  BY EnteredFacts DEF NewSock
<1>2. /\ fd \in Fds /\ fd # None /\ kernel[fd].gen = 0
      /\ gen' \in 0..MaxGen /\ kernel' \in [Fds -> KernelType]
      /\ kernel'[fd].gen # 0 /\ kernel'[fd].wanted = hooked /\ kernel'[fd].to = -1
      /\ kernel'[fd].asked = FALSE /\ kernel'[fd].cleared = FALSE /\ kernel'[fd].nonblock = FALSE
      /\ \A d \in Fds \ {fd} : kernel'[d] = kernel[d]
      /\ \A p \in Objects : Own(p) # fd
  BY <1>0, OpenFacts DEF NewSock
<1>3. Update(o, new) /\ UNCHANGED <<datas, size, stale>>
  BY <1>0 DEF NewSock
<1>4. pc \in {"find", "call"} /\ (pc = "find" <=> hooked)
  OBVIOUS
<1> HIDE DEF e, pc
<1>5. /\ new \in Record /\ new.fd = fd /\ new.pc = pc /\ new.hooked = hooked
      /\ new.conn = e.conn /\ new.op = e.op /\ new.local = e.local /\ new.gone = e.gone
  BY <1>1, <1>2, <1>4 DEF Record
<1> HIDE DEF new
<1>6. /\ obj' \in [Objects -> Record] /\ obj'[o] = new
      /\ \A p \in Objects \ {o} : obj'[p] = obj[p]
  BY <1>3, <1>5, TypeFacts DEF IInv, Update
<1>7. TypeOK'
  BY <1>2, <1>3, <1>6, TypeFacts DEF IInv, TypeOK, FdTypeOK, Record, KernelType
<1>8. FdOk(fd)'
  <2>1. FdOk(fd)
    BY <1>2 DEF IInv
  <2>2. datas' = datas /\ stale' = stale
    BY <1>3
  <2>3. QED
    BY <1>2, <2>1, <2>2 DEF FdOk
<1>9. CtxOk(o)'
  BY <1>1, <1>2, <1>4, <1>5, <1>6 DEF CtxOk
<1>10. MembersOk(o)'
  <2>1. MembersOk(o)
    BY DEF IInv
  <2>2. (Kind[o] = "ssl" => ~new.conn) /\ (new.local # 0 => new.gone)
    BY <1>1, <1>5, <2>1 DEF MembersOk
  <2>3. QED
    BY <1>1, <1>4, <1>5, <1>6, <2>2 DEF MembersOk
<1>11. Own(o) = None /\ Own(o)' = fd
  BY <1>1, <1>4, <1>5, <1>6 DEF Own, At
<1>12. QED
  BY <1>2, <1>3, <1>6, <1>7, <1>8, <1>9, <1>10, <1>11, FdStep

LEMMA ReturnedFacts ==
    ASSUME NEW x \in Record
    PROVE  LET r == Returned(x) IN
           /\ r \in Record /\ r.pc = "idle" /\ r.op = "none" /\ r.hooked = FALSE
           /\ r.fd = x.fd /\ r.conn = x.conn /\ r.local = x.local /\ r.gone = x.gone
           /\ r.ssl = x.ssl
BY DEF Returned, Record

(* A call returns with its object's socket as it was. *)
LEMMA ReturnStep ==
    ASSUME IInv, NEW o \in Objects, obj[o].pc \in {"idle", "call"}, NEW x \in Record,
           Update(o, Returned(x)), UNCHANGED fdVars, x.fd = obj[o].fd,
           x.local # 0 /\ ~x.gone => x.fd # None /\ x.local = kernel[x.fd].gen,
           Kind[o] = "ssl" /\ x.conn => x.ssl = x.fd /\ x.fd # None
    PROVE  IInv'
<1>1. PICK r : r = Returned(x)
  OBVIOUS
<1>2. /\ r \in Record /\ r.pc = "idle" /\ r.op = "none" /\ r.hooked = FALSE
      /\ r.fd = x.fd /\ r.conn = x.conn /\ r.local = x.local /\ r.gone = x.gone
      /\ r.ssl = x.ssl
  BY <1>1, ReturnedFacts
<1>3. obj'[o] = r /\ UNCHANGED <<kernel, datas>>
  BY <1>1, TypeFacts DEF IInv, Update, fdVars
<1>4. CtxOk(o)'
  <2>1. CtxOk(o)
    BY DEF IInv
  <2>2. QED
    BY <1>2, <1>3, <2>1 DEF CtxOk
<1>5. MembersOk(o)'
  BY <1>2, <1>3 DEF MembersOk
<1>6. QED
  BY <1>1, <1>2, <1>4, <1>5, ObjStep

LEMMA NewSockFailsStep ==
    ASSUME IInv, NEW o \in Objects, NEW op \in {"udp", "bind", "connect", "reconnect"},
           NewSockFails(o, op)
    PROVE  IInv'
<1> DEFINE e == Entered(o, op)
           conn == op = "udp" \/ e.conn
           x == [e EXCEPT !.conn = conn]
<1>1. /\ e \in Record /\ e.fd = obj[o].fd /\ e.conn = obj[o].conn /\ obj[o].fd = None
      /\ obj[o].pc = "idle" /\ e.ssl = obj[o].ssl
      /\ e.local = (IF op = "reconnect" THEN 0 ELSE obj[o].local)
      /\ e.gone = (op # "reconnect" /\ obj[o].gone)
  BY EnteredFacts DEF NewSockFails
<1>2. op = "udp" => Kind[o] = "udp"
  BY DEF NewSockFails, MayEnter
<1>3. Update(o, Returned(x)) /\ UNCHANGED fdVars
  BY DEF NewSockFails
<1> HIDE DEF e
<1>4. conn \in BOOLEAN
  BY Zenon
<1>5. conn => op = "udp" \/ obj[o].conn
  BY <1>1
<1> HIDE DEF conn
<1>6. /\ x \in Record /\ x.fd = None /\ x.conn = conn /\ x.local = e.local
      /\ x.gone = e.gone /\ x.ssl = e.ssl
  BY <1>1, <1>4 DEF Record
<1> HIDE DEF x
<1>7. /\ x.local # 0 /\ ~x.gone => x.fd # None /\ x.local = kernel[x.fd].gen
      /\ Kind[o] = "ssl" /\ x.conn => x.ssl = x.fd /\ x.fd # None
  <2>1. MembersOk(o)
    BY DEF IInv
  <2>2. QED
    BY <1>1, <1>2, <1>5, <1>6, <2>1 DEF MembersOk
<1>8. QED
  BY <1>1, <1>3, <1>6, <1>7, ReturnStep

LEMMA ReuseStep ==
    ASSUME IInv, NEW o \in Objects, NEW op \in {"udp", "bind", "connect", "reconnect"},
           NEW hooked \in BOOLEAN, Reuse(o, op, hooked)
    PROVE  IInv'
<1> DEFINE e == Entered(o, op)
           new == [e EXCEPT !.hooked = hooked, !.pc = "call"]
<1>1. /\ e \in Record /\ e.fd = obj[o].fd /\ e.conn = obj[o].conn /\ obj[o].fd # None
      /\ obj[o].pc = "idle" /\ e.ssl = obj[o].ssl
      /\ e.op \in {"udp", "bind", "connect"} /\ (e.op = "udp" => Kind[o] = "udp")
      /\ e.local = (IF op = "reconnect" THEN 0 ELSE obj[o].local)
      /\ e.gone = (op # "reconnect" /\ obj[o].gone)
  BY EnteredFacts DEF Reuse
<1>2. Update(o, new) /\ UNCHANGED fdVars
  BY DEF Reuse
<1> HIDE DEF e
<1>3. /\ new \in Record /\ new.pc = "call" /\ new.fd = e.fd /\ new.conn = e.conn
      /\ new.local = e.local /\ new.gone = e.gone /\ new.ssl = e.ssl /\ new.op = e.op
  BY <1>1 DEF Record
<1>4. obj'[o] = new /\ UNCHANGED <<kernel, datas>>
  BY <1>2, TypeFacts DEF IInv, Update, fdVars
<1> HIDE DEF new
<1>5. CtxOk(o) /\ MembersOk(o)
  BY DEF IInv
<1>6. CtxOk(o)'
  BY <1>1, <1>3, <1>4, <1>5 DEF CtxOk
<1>7. MembersOk(o)'
  BY <1>1, <1>3, <1>4, <1>5 DEF MembersOk
<1>8. QED
  BY <1>1, <1>2, <1>3, <1>6, <1>7, ObjStep

LEMMA UnusedFacts ==
    /\ Unused \in Record /\ Unused.pc = "idle" /\ Unused.op = "none" /\ Unused.hooked = FALSE
    /\ Unused.fd = None /\ Unused.conn = FALSE /\ Unused.local = 0 /\ Unused.gone = FALSE
BY FdAssumption DEF Unused, Record

LEMMA AcceptStep ==
    ASSUME IInv, NEW o \in Objects, NEW n \in Objects, NEW hooked \in BOOLEAN,
           Accept(o, n, hooked)
    PROVE  IInv'
<1>0. PICK fd : fd = LowestFree
  OBVIOUS
<1> DEFINE new == [Unused EXCEPT !.op = "accept", !.fd = fd, !.hooked = hooked, !.pc = "find"]
<1>2. /\ fd \in Fds /\ fd # None /\ kernel[fd].gen = 0
      /\ gen' \in 0..MaxGen /\ kernel' \in [Fds -> KernelType]
      /\ kernel'[fd].gen # 0 /\ kernel'[fd].wanted = TRUE /\ kernel'[fd].to = -1
      /\ kernel'[fd].asked = FALSE /\ kernel'[fd].cleared = FALSE /\ kernel'[fd].nonblock = FALSE
      /\ \A d \in Fds \ {fd} : kernel'[d] = kernel[d]
      /\ \A p \in Objects : Own(p) # fd
  BY <1>0, OpenFacts DEF Accept
<1>3. Update(n, new) /\ UNCHANGED <<datas, size, stale>> /\ obj[n] = Unused
  BY <1>0 DEF Accept
<1>5. /\ new \in Record /\ new.fd = fd /\ new.pc = "find" /\ new.hooked = hooked
      /\ new.conn = FALSE /\ new.op = "accept" /\ new.local = 0
  BY <1>2, UnusedFacts DEF Record, Unused
<1> HIDE DEF new
<1>6. /\ obj' \in [Objects -> Record] /\ obj'[n] = new
      /\ \A p \in Objects \ {n} : obj'[p] = obj[p]
  BY <1>3, <1>5, TypeFacts DEF IInv, Update
<1>7. TypeOK'
  BY <1>2, <1>3, <1>6, TypeFacts DEF IInv, TypeOK, FdTypeOK, Record, KernelType
<1>8. FdOk(fd)'
  <2>1. FdOk(fd)
    BY <1>2 DEF IInv
  <2>2. datas' = datas /\ stale' = stale
    BY <1>3
  <2>3. QED
    BY <1>2, <2>1, <2>2 DEF FdOk
<1>9. CtxOk(n)'
  BY <1>2, <1>5, <1>6 DEF CtxOk
<1>10. MembersOk(n)'
  BY <1>5, <1>6 DEF MembersOk
<1>11. Own(n) = None /\ Own(n)' = fd
  BY <1>3, <1>5, <1>6, UnusedFacts DEF Own, At
<1>12. QED
  BY <1>2, <1>3, <1>6, <1>7, <1>8, <1>9, <1>10, <1>11, FdStep

LEMMA FindStep == ASSUME IInv, NEW o \in Objects, Find(o) PROVE IInv'
<1> DEFINE s == obj[o]
           pc == IF Managed(s.fd) THEN "call" ELSE "create"
           new == [s EXCEPT !.pc = pc]
<1>1. s \in Record /\ s.pc = "find" /\ Update(o, new) /\ UNCHANGED fdVars
  BY TypeFacts DEF IInv, Find, At, Goto, Update
<1>2. CtxOk(o) /\ MembersOk(o)
  BY DEF IInv
<1>3. s.fd \in Fds
  BY <1>1, <1>2 DEF CtxOk, Record
<1>4. (pc = "call" /\ datas[s.fd].gen # 0) \/ (pc = "create" /\ datas[s.fd].gen = 0)
  BY <1>3, ManagedFacts
<1> HIDE DEF pc
<1>5. /\ new \in Record /\ new.pc = pc /\ new.fd = s.fd /\ new.conn = s.conn /\ new.op = s.op
      /\ new.local = s.local /\ new.gone = s.gone /\ new.ssl = s.ssl /\ new.hooked = s.hooked
  BY <1>1, <1>4 DEF Record
<1>6. obj'[o] = new /\ UNCHANGED <<kernel, datas>>
  BY <1>1, TypeFacts DEF IInv, Update, fdVars
<1> HIDE DEF new
<1>7. CtxOk(o)'
  BY <1>1, <1>2, <1>3, <1>4, <1>5, <1>6 DEF CtxOk
<1>8. MembersOk(o)'
  BY <1>1, <1>2, <1>4, <1>5, <1>6 DEF MembersOk
<1>9. QED
  BY <1>1, <1>4, <1>5, <1>7, <1>8, ObjStep

LEMMA OwnFacts ==
    ASSUME IInv, NEW o \in Objects, obj[o].fd # None, obj[o].pc # "unset"
    PROVE  /\ Own(o) = obj[o].fd /\ obj[o].fd \in Fds /\ kernel[obj[o].fd].gen # 0
           /\ \A p \in Objects \ {o} : Own(p) # obj[o].fd
<1>1. Own(o) = obj[o].fd /\ obj[o].fd \in Fds
  BY TypeFacts DEF IInv, Record, Own, At
<1>2. QED
  BY <1>1 DEF IInv, OneOwner, IsOpen

LEMMA CreateCtxStep == ASSUME IInv, NEW o \in Objects, CreateCtx(o) PROVE IInv'
<1>1. PICK fd : fd = obj[o].fd
  OBVIOUS
<1> DEFINE s == obj[o]
           new == [s EXCEPT !.pc = "call"]
           c == [NoCtx EXCEPT !.gen = kernel[fd].gen]
           k == [kernel[fd] EXCEPT !.nonblock = TRUE]
<1>2. /\ s \in Record /\ s.pc = "create" /\ Update(o, new) /\ Create(fd)
      /\ UNCHANGED <<gen, stale>>
  BY <1>1, TypeFacts DEF IInv, CreateCtx, At, Goto, Update
<1>3. CtxOk(o) /\ MembersOk(o) /\ s.fd # None
  BY <1>2 DEF IInv, CtxOk
<1>4. fd \in Fds /\ kernel[fd].gen # 0 /\ Own(o) = fd /\ \A p \in Objects \ {o} : Own(p) # fd
  BY <1>1, <1>2, <1>3, OwnFacts
<1>5. /\ kernel \in [Fds -> KernelType] /\ datas \in [Fds -> CtxType]
      /\ size \in InitSize..((3 * MaxFd) \div 2 + InitSize)
      /\ \A d \in Fds : d >= size => datas[d] = NoCtx
  BY TypeFacts DEF IInv
<1>6. /\ new \in Record /\ new.pc = "call" /\ new.fd = s.fd /\ new.conn = s.conn /\ new.op = s.op
      /\ new.local = s.local /\ new.gone = s.gone /\ new.ssl = s.ssl /\ new.hooked = s.hooked
  BY <1>2 DEF Record
<1>7. /\ c \in CtxType /\ c.gen = kernel[fd].gen /\ c.user = FALSE /\ c.to = -1
  BY <1>4, <1>5 DEF NoCtx, CtxType, KernelType
<1>8. /\ k \in KernelType /\ k.gen = kernel[fd].gen /\ k.nonblock = TRUE
      /\ k.wanted = kernel[fd].wanted /\ k.asked = kernel[fd].asked
      /\ k.cleared = kernel[fd].cleared /\ k.to = kernel[fd].to
  BY <1>4, <1>5 DEF KernelType
<1>9. datas' = [datas EXCEPT ![fd] = c] /\ kernel' = [kernel EXCEPT ![fd] = k]
  BY <1>2, <1>4 DEF Create, IsOpen
<1> HIDE DEF c, k, new
<1>10. /\ datas' \in [Fds -> CtxType] /\ datas'[fd] = c /\ kernel' \in [Fds -> KernelType]
       /\ kernel'[fd] = k
       /\ \A d \in Fds \ {fd} : datas'[d] = datas[d] /\ kernel'[d] = kernel[d]
  BY <1>4, <1>5, <1>7, <1>8, <1>9
<1>11. /\ obj' \in [Objects -> Record] /\ obj'[o] = new
       /\ \A p \in Objects \ {o} : obj'[p] = obj[p]
  BY <1>2, <1>6, TypeFacts DEF IInv, Update
<1>12. /\ size' \in InitSize..((3 * MaxFd) \div 2 + InitSize)
       /\ size' > fd /\ size' >= size
  <2>1. /\ fd \in Nat /\ fd <= MaxFd /\ MaxFd \in Nat /\ InitSize \in Nat /\ InitSize >= 2
        /\ size \in Int /\ size >= InitSize
    BY <1>4, <1>5, FdAssumption DEF Fds
  <2>2. size' = IF fd >= size THEN (3 * fd) \div 2 ELSE size
    BY <1>2 DEF Create
  <2>3. CASE fd >= size
    BY <1>5, <2>1, <2>2, <2>3
  <2>4. CASE ~(fd >= size)
    BY <1>5, <2>1, <2>2, <2>4
  <2>5. QED
    BY <2>3, <2>4
<1>13. TypeOK'
  <2>1. \A d \in Fds : d >= size' => datas'[d] = NoCtx
    <3> SUFFICES ASSUME NEW d \in Fds, d >= size' PROVE datas'[d] = NoCtx
      OBVIOUS
    <3>1. d \in Nat /\ size' \in Int /\ size \in Int /\ fd \in Nat
      BY <1>4, <1>5, <1>12, NoneFacts, FdAssumption
    <3>2. d # fd /\ d >= size
      BY <1>12, <3>1
    <3>3. QED
      BY <1>5, <1>10, <3>2
  <2>2. QED
    BY <1>2, <1>10, <1>11, <1>12, <2>1, TypeFacts
       DEF IInv, TypeOK, FdTypeOK, Record, KernelType, CtxType
<1>14. kernel[fd].to = -1 /\ ~kernel[fd].asked /\ kernel[fd].asked \in BOOLEAN
  BY <1>1, <1>2, <1>3, <1>4, <1>5 DEF CtxOk, KernelType
<1>15. fd \notin stale
  <2>1. FdOk(fd) /\ datas[fd].gen = 0
    BY <1>1, <1>2, <1>3, <1>4 DEF IInv, CtxOk
  <2>2. QED
    BY <2>1 DEF FdOk
<1>16. FdOk(fd)'
  BY <1>2, <1>4, <1>7, <1>8, <1>10, <1>14, <1>15 DEF FdOk
<1>17. CtxOk(o)'
  BY <1>1, <1>2, <1>3, <1>4, <1>6, <1>7, <1>8, <1>10, <1>11 DEF CtxOk
<1>18. MembersOk(o)'
  BY <1>1, <1>2, <1>3, <1>6, <1>8, <1>10, <1>11 DEF MembersOk
<1>19. \A d \in Fds \ {fd} : d \in stale' <=> d \in stale
  BY <1>2
<1>20. Own(o)' = fd
  BY <1>1, <1>6, <1>11 DEF Own, At
<1>21. QED
  BY <1>4, <1>8, <1>10, <1>11, <1>13, <1>16, <1>17, <1>18, <1>19, <1>20, FdStep

LEMMA ConnectedFacts ==
    ASSUME IInv, NEW o \in Objects, obj[o].fd # None
    PROVE  LET s == obj[o]  x == Connected(o, s) IN
           /\ x \in Record /\ x.fd = s.fd /\ x.gone = s.gone
           /\ x.local = (IF s.local # 0 THEN s.local ELSE kernel[s.fd].gen)
           /\ Kind[o] = "ssl" => x.ssl = s.fd
<1> DEFINE s == obj[o]
           local == LocalAddress(s)
           ssl == Session(o, s)
           x == [s EXCEPT !.conn = TRUE, !.remote = TRUE, !.local = local, !.ssl = ssl]
<1>1. s \in Record /\ s.fd \in Fds /\ kernel[s.fd] \in KernelType
  BY TypeFacts DEF IInv, Record
<1>2. local \in 0..MaxGen /\ local = (IF s.local # 0 THEN s.local ELSE kernel[s.fd].gen)
  BY <1>1 DEF LocalAddress, Record, KernelType
<1>3. ssl \in Fds \cup {None} /\ (Kind[o] = "ssl" => ssl = s.fd)
  BY <1>1 DEF Session, Record
<1>4. x = Connected(o, s)
  BY DEF Connected
<1> HIDE DEF local, ssl
<1>5. x \in Record /\ x.fd = s.fd /\ x.gone = s.gone /\ x.local = local /\ x.ssl = ssl
  BY <1>1, <1>2, <1>3 DEF Record
<1> HIDE DEF x
<1>6. QED
  BY <1>2, <1>3, <1>4, <1>5

LEMMA InitSockStep == ASSUME IInv, NEW o \in Objects, InitSock(o) PROVE IInv'
<1> DEFINE s == obj[o]
           x == [s EXCEPT !.conn = TRUE]
<1>1. s \in Record /\ s.pc = "call" /\ s.op \in {"udp", "accept"} /\ UNCHANGED fdVars
  BY TypeFacts DEF IInv, InitSock, At
<1>2. CtxOk(o) /\ MembersOk(o) /\ s.fd # None
  BY <1>1 DEF IInv, CtxOk
<1>3. CASE s.op = "udp"
  <2>1. Update(o, Returned(x))
    BY <1>3 DEF InitSock
  <2>2. x \in Record /\ x.fd = s.fd /\ x.local = s.local /\ x.gone = s.gone /\ Kind[o] = "udp"
    BY <1>1, <1>2, <1>3 DEF Record, MembersOk
  <2> HIDE DEF x
  <2>3. QED
    BY <1>1, <1>2, <2>1, <2>2, ReturnStep DEF MembersOk
<1>4. CASE s.op = "accept"
  <2>1. Managed(s.fd)
    <3>1. datas[s.fd].gen # 0
      BY <1>1, <1>2, <1>4 DEF CtxOk
    <3>2. QED
      BY <1>1, <1>2, <3>1, OwnFacts, ManagedFacts
  <2>2. PICK y : y = Connected(o, s)
    OBVIOUS
  <2>3. Update(o, Returned(y))
    BY <1>4, <2>1, <2>2 DEF InitSock
  <2>4. /\ y \in Record /\ y.fd = s.fd /\ y.gone = s.gone
        /\ y.local = (IF s.local # 0 THEN s.local ELSE kernel[s.fd].gen)
        /\ Kind[o] = "ssl" => y.ssl = s.fd
    BY <1>2, <2>2, ConnectedFacts
  <2>5. /\ y.local # 0 /\ ~y.gone => y.fd # None /\ y.local = kernel[y.fd].gen
        /\ Kind[o] = "ssl" /\ y.conn => y.ssl = y.fd /\ y.fd # None
    BY <1>2, <2>4 DEF MembersOk
  <2>6. QED
    BY <1>1, <2>3, <2>4, <2>5, ReturnStep
<1>5. QED
  BY <1>1, <1>3, <1>4

LEMMA BindStep ==
    ASSUME IInv, NEW o \in Objects, NEW ok \in BOOLEAN, Bind(o, ok) PROVE IInv'
<1> DEFINE s == obj[o]
           local == IF ok THEN LocalAddress(s) ELSE s.local
           x == [s EXCEPT !.local = local]
<1>1. s \in Record /\ s.pc = "call" /\ UNCHANGED fdVars /\ Update(o, Returned(x))
  BY TypeFacts DEF IInv, Bind, At
<1>2. CtxOk(o) /\ MembersOk(o) /\ s.fd # None
  BY <1>1 DEF IInv, CtxOk
<1>3. kernel[s.fd] \in KernelType
  BY <1>1, <1>2, OwnFacts, TypeFacts DEF IInv
<1>4. local \in 0..MaxGen /\ local \in {s.local, kernel[s.fd].gen}
  BY <1>1, <1>3 DEF LocalAddress, Record, KernelType
<1> HIDE DEF local
<1>5. /\ x \in Record /\ x.fd = s.fd /\ x.local = local /\ x.gone = s.gone /\ x.conn = s.conn
      /\ x.ssl = s.ssl
  BY <1>1, <1>4 DEF Record
<1> HIDE DEF x
<1>6. /\ x.local # 0 /\ ~x.gone => x.fd # None /\ x.local = kernel[x.fd].gen
      /\ Kind[o] = "ssl" /\ x.conn => x.ssl = x.fd /\ x.fd # None
  BY <1>2, <1>4, <1>5 DEF MembersOk
<1>7. QED
  BY <1>1, <1>5, <1>6, ReturnStep

(* Socket::close begins: the object lets go of what it knew. *)
LEMMA ClosingStep ==
    ASSUME IInv, NEW o \in Objects, obj[o].pc \in {"idle", "call"}, NEW s \in Record,
           s.fd = obj[o].fd, s.op # "udp", s.pc = "idle" \/ s.fd # None,
           Update(o, Closing(s)), UNCHANGED fdVars
    PROVE  IInv'
<1> DEFINE t == [s EXCEPT !.conn = FALSE, !.gone = s.local # 0]
<1>1. t \in Record /\ t.conn = FALSE /\ t.gone = (s.local # 0) /\ t.local = s.local
      /\ t.fd = s.fd /\ t.op = s.op /\ t.hooked = s.hooked
  <2>1. (s.local # 0) \in BOOLEAN
    BY Zenon
  <2>2. QED
    BY <2>1 DEF Record
<1>2. CASE s.fd = None
  <2>1. Update(o, Returned(t))
    BY <1>2 DEF Closing
  <2> HIDE DEF t
  <2>2. QED
    BY <1>1, <1>2, <2>1, ReturnStep
<1>3. CASE s.fd # None
  <2> DEFINE pc == IF s.hooked /\ Managed(s.fd) THEN "del" ELSE "close_f"
             new == [t EXCEPT !.pc = pc]
  <2>1. Update(o, new)
    BY <1>3 DEF Closing
  <2>2. /\ pc \in {"del", "close_f"} /\ (pc = "del" => datas[s.fd].gen # 0)
        /\ (pc = "close_f" /\ s.hooked => datas[s.fd].gen = 0)
    BY <1>3, OwnFacts, ManagedFacts
  <2> HIDE DEF t, pc
  <2>3. /\ new \in Record /\ new.pc = pc /\ new.conn = FALSE /\ new.gone = (s.local # 0)
        /\ new.local = s.local /\ new.fd = s.fd /\ new.op = s.op /\ new.hooked = s.hooked
    BY <1>1, <2>2 DEF Record
  <2>4. obj'[o] = new /\ UNCHANGED <<kernel, datas>>
    BY <2>1, TypeFacts DEF IInv, Update, fdVars
  <2> HIDE DEF new
  <2>5. CtxOk(o)'
    BY <1>3, <2>2, <2>3, <2>4 DEF CtxOk
  <2>6. MembersOk(o)'
    BY <1>3, <2>2, <2>3, <2>4 DEF MembersOk
  <2>7. QED
    BY <2>1, <2>2, <2>3, <2>5, <2>6, ObjStep
<1>4. QED
  BY <1>2, <1>3

LEMMA ConnectStep ==
    ASSUME IInv, NEW o \in Objects, NEW ok \in BOOLEAN, Connect(o, ok) PROVE IInv'
<1> DEFINE s == obj[o]
<1>1. s \in Record /\ s.pc = "call" /\ s.op = "connect" /\ UNCHANGED fdVars
  BY TypeFacts DEF IInv, Connect, At
<1>2. CtxOk(o) /\ MembersOk(o) /\ s.fd # None
  BY <1>1 DEF IInv, CtxOk
<1>3. CASE ok
  <2>1. PICK y : y = Connected(o, s)
    OBVIOUS
  <2>2. Update(o, Returned(y))
    BY <1>3, <2>1 DEF Connect
  <2>3. /\ y \in Record /\ y.fd = s.fd /\ y.gone = s.gone
        /\ y.local = (IF s.local # 0 THEN s.local ELSE kernel[s.fd].gen)
        /\ Kind[o] = "ssl" => y.ssl = s.fd
    BY <1>2, <2>1, ConnectedFacts
  <2>4. /\ y.local # 0 /\ ~y.gone => y.fd # None /\ y.local = kernel[y.fd].gen
        /\ Kind[o] = "ssl" /\ y.conn => y.ssl = y.fd /\ y.fd # None
    BY <1>2, <2>3 DEF MembersOk
  <2>5. QED
    BY <1>1, <2>2, <2>3, <2>4, ReturnStep
<1>4. CASE ~ok
  <2>1. Update(o, Closing(s))
    BY <1>4 DEF Connect
  <2>2. PICK r : r = s
    OBVIOUS
  <2>3. QED
    BY <1>1, <1>2, <2>1, <2>2, ClosingStep
<1>5. QED
  BY <1>3, <1>4

LEMMA WrongFamilyStep == ASSUME IInv, NEW o \in Objects, WrongFamily(o) PROVE IInv'
<1>1. PICK s : s = obj[o]
  OBVIOUS
<1>2. s \in Record /\ s.pc = "call" /\ UNCHANGED fdVars /\ Update(o, Returned(s))
  BY <1>1, TypeFacts DEF IInv, WrongFamily, At
<1>3. MembersOk(o)
  BY DEF IInv
<1>4. QED
  BY <1>1, <1>2, <1>3, ReturnStep DEF MembersOk

LEMMA CloseStep ==
    ASSUME IInv, NEW o \in Objects, NEW hooked \in BOOLEAN, Close(o, hooked) PROVE IInv'
<1>1. PICK s : s = [obj[o] EXCEPT !.op = "close", !.hooked = hooked]
  OBVIOUS
<1>2. obj[o] \in Record /\ obj[o].pc = "idle" /\ UNCHANGED fdVars /\ Update(o, Closing(s))
  BY <1>1, TypeFacts DEF IInv, Close, Idle
<1>3. s \in Record /\ s.fd = obj[o].fd /\ s.op = "close" /\ s.pc = "idle"
  BY <1>1, <1>2 DEF Record
<1>4. QED
  BY <1>2, <1>3, ClosingStep

LEMMA CloseDelStep == ASSUME IInv, NEW o \in Objects, CloseDel(o) PROVE IInv'
<1>1. PICK fd : fd = obj[o].fd
  OBVIOUS
<1> DEFINE s == obj[o]
           new == [s EXCEPT !.pc = "close_f"]
<1>2. /\ s \in Record /\ s.pc = "del" /\ Update(o, new) /\ UNCHANGED <<kernel, size, gen>>
      /\ datas' = [datas EXCEPT ![fd] = NoCtx] /\ stale' = stale \ {fd}
  BY <1>1, TypeFacts DEF IInv, CloseDel, At, Goto, Update, Del
<1>3. CtxOk(o) /\ MembersOk(o) /\ s.fd # None
  BY <1>2 DEF IInv, CtxOk
<1>4. fd \in Fds /\ kernel[fd].gen # 0 /\ Own(o) = fd /\ \A p \in Objects \ {o} : Own(p) # fd
  BY <1>1, <1>2, <1>3, OwnFacts
<1>5. /\ new \in Record /\ new.pc = "close_f" /\ new.fd = s.fd /\ new.conn = s.conn
      /\ new.op = s.op /\ new.local = s.local /\ new.gone = s.gone /\ new.hooked = s.hooked
  BY <1>2 DEF Record
<1>6. NoCtx \in CtxType /\ NoCtx.gen = 0
  BY FdAssumption DEF NoCtx, CtxType
<1>7. /\ datas' \in [Fds -> CtxType] /\ datas'[fd] = NoCtx
      /\ \A d \in Fds \ {fd} : datas'[d] = datas[d] /\ (d \in stale' <=> d \in stale)
  BY <1>2, <1>4, <1>6, TypeFacts DEF IInv
<1> HIDE DEF new
<1>8. /\ obj' \in [Objects -> Record] /\ obj'[o] = new
      /\ \A p \in Objects \ {o} : obj'[p] = obj[p]
  BY <1>2, <1>5, TypeFacts DEF IInv, Update
<1>9. TypeOK'
  <2>1. \A d \in Fds : d >= size' => datas'[d] = NoCtx
    BY <1>2, <1>7, TypeFacts DEF IInv
  <2>2. stale' \subseteq Fds
    BY <1>2, TypeFacts DEF IInv
  <2>3. QED
    BY <1>2, <1>7, <1>8, <2>1, <2>2, TypeFacts
       DEF IInv, TypeOK, FdTypeOK, Record, CtxType
<1>10. FdOk(fd)'
  BY <1>2, <1>6, <1>7 DEF FdOk
<1>11. CtxOk(o)'
  BY <1>1, <1>2, <1>3, <1>5, <1>6, <1>7, <1>8 DEF CtxOk
<1>12. MembersOk(o)'
  BY <1>1, <1>2, <1>3, <1>5, <1>8 DEF MembersOk
<1>13. Own(o)' = fd
  BY <1>1, <1>5, <1>8 DEF Own, At
<1>14. QED
  BY <1>2, <1>4, <1>7, <1>8, <1>9, <1>10, <1>11, <1>12, <1>13, FdStep

LEMMA CloseFdStep == ASSUME IInv, NEW o \in Objects, CloseFd(o) PROVE IInv'
<1>1. PICK fd : fd = obj[o].fd
  OBVIOUS
<1> DEFINE s == obj[o]
           new == [s EXCEPT !.pc = "unset"]
<1>2. /\ s \in Record /\ s.pc = "close_f" /\ Update(o, new) /\ UNCHANGED <<datas, size, gen>>
      /\ kernel' = [kernel EXCEPT ![fd] = Closed]
      /\ stale' = IF Managed(fd) /\ ~s.hooked THEN stale \cup {fd} ELSE stale
  BY <1>1, TypeFacts DEF IInv, CloseFd, At, KernelClose, Goto, Update
<1>3. CtxOk(o) /\ MembersOk(o) /\ s.fd # None
  BY <1>2 DEF IInv, CtxOk
<1>4. fd \in Fds /\ kernel[fd].gen # 0 /\ Own(o) = fd /\ \A p \in Objects \ {o} : Own(p) # fd
  BY <1>1, <1>2, <1>3, OwnFacts
<1>7. /\ new \in Record /\ new.pc = "unset" /\ new.op = s.op /\ new.fd = s.fd
      /\ new.conn = s.conn /\ new.local = s.local /\ new.gone = s.gone
  BY <1>2 DEF Record
<1> HIDE DEF new
<1>8. /\ obj' \in [Objects -> Record] /\ obj'[o] = new
      /\ \A p \in Objects \ {o} : obj'[p] = obj[p]
  BY <1>2, <1>7, TypeFacts DEF IInv, Update
<1>9. Closed \in KernelType /\ Closed.gen = 0
  BY FdAssumption DEF Closed, KernelType
<1>10. /\ kernel' \in [Fds -> KernelType] /\ kernel'[fd] = Closed
       /\ \A d \in Fds \ {fd} : kernel'[d] = kernel[d] /\ (d \in stale' <=> d \in stale)
  BY <1>2, <1>4, <1>9, TypeFacts DEF IInv
<1>11. stale' \subseteq Fds
  BY <1>2, <1>4, TypeFacts DEF IInv
<1>12. TypeOK'
  BY <1>2, <1>8, <1>10, <1>11, TypeFacts DEF IInv, TypeOK, FdTypeOK, Record, KernelType
<1>13. FdOk(fd)'
  <2>1. FdOk(fd) /\ (Managed(fd) <=> datas[fd].gen # 0)
    BY <1>4, ManagedFacts DEF IInv
  <2>2. s.hooked => datas[fd].gen = 0
    BY <1>1, <1>2, <1>3 DEF CtxOk
  <2>3. /\ datas[fd].gen # 0 => fd \in stale'
        /\ fd \in stale' => datas[fd].gen # 0
    <3>1. CASE Managed(fd) /\ ~s.hooked
      BY <1>2, <2>1, <3>1
    <3>2. CASE ~(Managed(fd) /\ ~s.hooked)
      <4>1. stale' = stale /\ datas[fd].gen = 0
        BY <1>2, <2>1, <2>2, <3>2
      <4>2. QED
        BY <2>1, <4>1 DEF FdOk
    <3>3. QED
      BY <3>1, <3>2
  <2>4. datas' = datas
    BY <1>2
  <2>5. QED
    BY <1>9, <1>10, <2>1, <2>3, <2>4 DEF FdOk
<1>14. CtxOk(o)'
  BY <1>3, <1>7, <1>8 DEF CtxOk
<1>15. MembersOk(o)'
  BY <1>2, <1>3, <1>7, <1>8 DEF MembersOk
<1>16. Own(o)' = None /\ ~(kernel'[fd].gen # 0) /\ fd # None
  BY <1>4, <1>7, <1>8, <1>9, <1>10, NoneFacts DEF Own, At
<1>17. QED
  BY <1>2, <1>4, <1>8, <1>10, <1>12, <1>13, <1>14, <1>15, <1>16, FdStep

(* sock_ = -1: what the number is by now does not matter. *)
LEMMA ForgetFdStep == ASSUME IInv, NEW o \in Objects, ForgetFd(o) PROVE IInv'
<1> DEFINE s == obj[o]
           x == [s EXCEPT !.fd = None]
<1>1. s \in Record /\ s.pc = "unset" /\ Update(o, Returned(x)) /\ UNCHANGED fdVars
  BY TypeFacts DEF IInv, ForgetFd, At
<1>2. x \in Record /\ x.fd = None /\ x.conn = s.conn /\ x.local = s.local /\ x.gone = s.gone
  BY <1>1 DEF Record
<1>3. PICK new : new = Returned(x)
  OBVIOUS
<1> HIDE DEF x
<1>4. /\ new \in Record /\ new.pc = "idle" /\ new.op = "none" /\ new.fd = None
      /\ new.conn = s.conn /\ new.local = s.local /\ new.gone = s.gone
  BY <1>2, <1>3, ReturnedFacts
<1>5. /\ obj' \in [Objects -> Record] /\ obj'[o] = new
      /\ \A p \in Objects \ {o} : obj'[p] = obj[p]
  BY <1>1, <1>3, <1>4, TypeFacts DEF IInv, Update
<1>6. TypeOK'
  BY <1>1, <1>5, TypeFacts DEF IInv, TypeOK, FdTypeOK, Record, fdVars
<1>7. \A p \in Objects : Own(p)' = Own(p)
  BY <1>1, <1>4, <1>5 DEF Own, At
<1>8. OneOwner'
  BY <1>1, <1>7 DEF IInv, OneOwner, IsOpen, fdVars
<1>9. MembersOk(o)
  BY DEF IInv
<1>10. CtxOk(o)' /\ MembersOk(o)'
  BY <1>1, <1>4, <1>5, <1>9 DEF CtxOk, MembersOk
<1>11. \A p \in Objects \ {o} : CtxOk(p)' /\ MembersOk(p)'
  BY <1>1, <1>5 DEF IInv, CtxOk, MembersOk, fdVars
<1>12. \A fd \in Fds : FdOk(fd)'
  BY <1>1 DEF IInv, FdOk, fdVars
<1>13. QED
  BY <1>6, <1>8, <1>10, <1>11, <1>12 DEF IInv

(* An option is set on the socket of an object that is in no call. *)
LEMMA SetOptionStep == ASSUME IInv, NEW o \in Objects, SetOption(o) PROVE IInv'
<1>1. PICK fd : fd = obj[o].fd
  OBVIOUS
<1>2. /\ obj[o] \in Record /\ obj[o].pc = "idle" /\ fd # None /\ UNCHANGED <<obj, size, gen, stale>>
      /\ \/ \E hooked \in BOOLEAN, v \in Timeouts : SetTimeout(fd, hooked, v)
         \/ \E nonblock \in BOOLEAN : SetFl(fd, nonblock) \/ Fionbio(fd, nonblock)
  BY <1>1, TypeFacts DEF IInv, SetOption, Idle
<1>3. /\ fd \in Fds /\ kernel[fd].gen # 0 /\ Own(o) = fd /\ \A p \in Objects \ {o} : Own(p) # fd
      /\ kernel \in [Fds -> KernelType] /\ datas \in [Fds -> CtxType]
      /\ kernel[fd] \in KernelType /\ datas[fd] \in CtxType
      /\ Managed(fd) <=> datas[fd].gen # 0
  BY <1>1, <1>2, OwnFacts, TypeFacts, ManagedFacts DEF IInv
<1>4. FdOk(fd) /\ CtxOk(o) /\ MembersOk(o)
  BY <1>3 DEF IInv
<1> DEFINE Kept ==
      /\ kernel' \in [Fds -> KernelType] /\ datas' \in [Fds -> CtxType]
      /\ \A d \in Fds \ {fd} : kernel'[d] = kernel[d] /\ datas'[d] = datas[d]
      /\ kernel'[fd].gen = kernel[fd].gen /\ kernel'[fd].wanted = kernel[fd].wanted
      /\ datas'[fd].gen = datas[fd].gen /\ (datas[fd].gen = 0 => datas'[fd] = datas[fd])
      /\ FdOk(fd)' /\ (datas[fd].gen = 0 => kernel'[fd].nonblock = kernel'[fd].asked)
<1>5. ASSUME NEW hooked \in BOOLEAN, NEW v \in Timeouts, SetTimeout(fd, hooked, v) PROVE Kept
  <2>1. CASE hooked /\ Managed(fd)
    <3> DEFINE c == [datas[fd] EXCEPT !.to = v]
               k == [kernel[fd] EXCEPT !.to = v]
    <3>1. datas' = [datas EXCEPT ![fd] = c] /\ kernel' = [kernel EXCEPT ![fd] = k]
      BY <1>5, <2>1 DEF SetTimeout
    <3>2. /\ c \in CtxType /\ c.gen = datas[fd].gen /\ c.user = datas[fd].user /\ c.to = v
          /\ k \in KernelType /\ k.gen = kernel[fd].gen /\ k.wanted = kernel[fd].wanted
          /\ k.asked = kernel[fd].asked /\ k.cleared = kernel[fd].cleared
          /\ k.nonblock = kernel[fd].nonblock /\ k.to = v
      BY <1>3 DEF CtxType, KernelType
    <3> HIDE DEF c, k
    <3>3. /\ kernel' \in [Fds -> KernelType] /\ datas' \in [Fds -> CtxType]
          /\ kernel'[fd] = k /\ datas'[fd] = c
          /\ \A d \in Fds \ {fd} : kernel'[d] = kernel[d] /\ datas'[d] = datas[d]
      BY <1>3, <3>1, <3>2
    <3>4. QED
      BY <1>2, <1>3, <1>4, <2>1, <3>2, <3>3 DEF FdOk
  <2>2. CASE ~(hooked /\ Managed(fd))
    <3>1. datas' = datas /\ kernel' = kernel
      BY <1>5, <2>2 DEF SetTimeout
    <3>2. datas[fd].gen = 0 => kernel[fd].nonblock = kernel[fd].asked
      BY <1>1, <1>2, <1>4 DEF CtxOk
    <3>3. QED
      BY <1>2, <1>3, <1>4, <3>1, <3>2 DEF FdOk
  <2>3. QED
    BY <2>1, <2>2
<1>6. ASSUME NEW nonblock \in BOOLEAN, SetFl(fd, nonblock) \/ Fionbio(fd, nonblock) PROVE Kept
  <2>1. PICK nb \in BOOLEAN, cl \in BOOLEAN :
          /\ kernel' = [kernel EXCEPT ![fd] =
                          [@ EXCEPT !.nonblock = nb, !.asked = nonblock, !.cleared = cl]]
          /\ datas[fd].gen # 0 => nb \/ cl
          /\ datas[fd].gen = 0 => nb = nonblock
    <3>1. CASE SetFl(fd, nonblock)
      <4>1. (nonblock \/ Managed(fd)) \in BOOLEAN
        BY Zenon
      <4>2. /\ datas[fd].gen # 0 => nonblock \/ Managed(fd)
            /\ datas[fd].gen = 0 => (nonblock \/ Managed(fd)) = nonblock
        BY <1>3
      <4>3. QED
        BY <3>1, <4>1, <4>2, Zenon DEF SetFl
    <3>2. CASE Fionbio(fd, nonblock)
      <4>1. (~nonblock) \in BOOLEAN /\ (nonblock \/ ~nonblock)
        BY Zenon
      <4>2. QED
        BY <3>2, <4>1, Zenon DEF Fionbio
    <3>3. QED
      BY <1>6, <3>1, <3>2
  <2> DEFINE k == [kernel[fd] EXCEPT !.nonblock = nb, !.asked = nonblock, !.cleared = cl]
             c == [datas[fd] EXCEPT !.user = nonblock]
  <2>2. /\ kernel' = [kernel EXCEPT ![fd] = k]
        /\ datas' = IF Managed(fd) THEN [datas EXCEPT ![fd] = c] ELSE datas
    BY <1>6, <2>1 DEF SetFl, Fionbio
  <2>3. /\ c \in CtxType /\ c.gen = datas[fd].gen /\ c.user = nonblock /\ c.to = datas[fd].to
        /\ k \in KernelType /\ k.gen = kernel[fd].gen /\ k.wanted = kernel[fd].wanted
        /\ k.asked = nonblock /\ k.cleared = cl /\ k.nonblock = nb /\ k.to = kernel[fd].to
    BY <1>3 DEF CtxType, KernelType
  <2> HIDE DEF c, k
  <2>4. kernel' \in [Fds -> KernelType] /\ kernel'[fd] = k
        /\ \A d \in Fds \ {fd} : kernel'[d] = kernel[d]
    BY <1>3, <2>2, <2>3
  <2>5. CASE Managed(fd)
    <3>1. /\ datas' \in [Fds -> CtxType] /\ datas'[fd] = c
          /\ \A d \in Fds \ {fd} : datas'[d] = datas[d]
      BY <1>3, <2>2, <2>3, <2>5
    <3>2. QED
      BY <1>2, <1>3, <1>4, <2>1, <2>3, <2>4, <2>5, <3>1 DEF FdOk
  <2>6. CASE ~Managed(fd)
    BY <1>2, <1>3, <1>4, <2>1, <2>2, <2>3, <2>4, <2>6 DEF FdOk
  <2>7. QED
    BY <2>5, <2>6
<1>7. Kept
  BY <1>2, <1>5, <1>6
<1>8. TypeOK'
  <2>1. \A d \in Fds : d >= size' => datas'[d] = NoCtx
    <3> SUFFICES ASSUME NEW d \in Fds, d >= size' PROVE datas'[d] = NoCtx
      OBVIOUS
    <3>1. datas[d] = NoCtx
      BY <1>2, TypeFacts DEF IInv
    <3>2. QED
      BY <1>7, <3>1 DEF NoCtx
  <2>2. QED
    BY <1>2, <1>7, <2>1, TypeFacts DEF IInv, TypeOK, FdTypeOK, KernelType, CtxType
<1>9. CtxOk(o)'
  BY <1>1, <1>2, <1>3, <1>4, <1>7 DEF CtxOk
<1>10. MembersOk(o)'
  BY <1>1, <1>2, <1>4, <1>7 DEF MembersOk
<1>11. Own(o)' = fd
  BY <1>2, <1>3 DEF Own, At
<1>12. QED
  BY <1>2, <1>3, <1>7, <1>8, <1>9, <1>10, <1>11, FdStep

-----------------------------------------------------------------------------
LEMMA InvInit == Init => IInv
<1> SUFFICES ASSUME Init PROVE IInv
  OBVIOUS
<1>1. /\ Closed \in KernelType /\ Closed.gen = 0 /\ NoCtx \in CtxType /\ NoCtx.gen = 0
  BY FdAssumption DEF Closed, KernelType, NoCtx, CtxType
<1>2. /\ \A fd \in Fds : kernel[fd] = Closed /\ datas[fd] = NoCtx
      /\ \A o \in Objects : obj[o] = Unused
      /\ size = InitSize /\ gen = 0 /\ stale = {}
  BY DEF Init, FdInit
<1>3. TypeOK
  <2>1. size \in InitSize..((3 * MaxFd) \div 2 + InitSize) /\ gen \in 0..MaxGen
    BY <1>2, FdAssumption
  <2>2. /\ obj \in [Objects -> Record] /\ kernel \in [Fds -> KernelType]
        /\ datas \in [Fds -> CtxType]
    BY <1>1, UnusedFacts DEF Init, FdInit
  <2>3. QED
    BY <1>2, <2>1, <2>2, TypeFacts
<1>4. OneOwner
  BY <1>1, <1>2, UnusedFacts DEF OneOwner, IsOpen, Own, At
<1>5. \A fd \in Fds : FdOk(fd)
  BY <1>1, <1>2 DEF FdOk
<1>6. \A o \in Objects : CtxOk(o) /\ MembersOk(o)
  BY <1>2, UnusedFacts DEF CtxOk, MembersOk
<1>7. QED
  BY <1>3, <1>4, <1>5, <1>6 DEF IInv

LEMMA InvStep == IInv /\ [Next]_vars => IInv'
<1> SUFFICES ASSUME IInv, [Next]_vars PROVE IInv'
  OBVIOUS
<1>1. ASSUME NEW o \in Objects, NEW op \in Ops[o],
             \/ \E hooked \in BOOLEAN : NewSock(o, op, hooked) \/ Reuse(o, op, hooked)
             \/ NewSockFails(o, op)
      PROVE  IInv'
  <2>1. op \in {"udp", "bind", "connect", "reconnect"}
    BY SocketAssumption
  <2>2. QED
    BY <1>1, <2>1, NewSockStep, ReuseStep, NewSockFailsStep
<1>2. ASSUME NEW o \in Objects, NEW n \in Objects, NEW hooked \in BOOLEAN, Accept(o, n, hooked)
      PROVE  IInv'
  BY <1>2, AcceptStep
<1>3. ASSUME NEW o \in Objects, Find(o) \/ CreateCtx(o) \/ InitSock(o) \/ WrongFamily(o)
      PROVE  IInv'
  BY <1>3, FindStep, CreateCtxStep, InitSockStep, WrongFamilyStep
<1>4. ASSUME NEW o \in Objects, NEW ok \in BOOLEAN, Bind(o, ok) \/ Connect(o, ok) PROVE IInv'
  BY <1>4, BindStep, ConnectStep
<1>5. ASSUME NEW o \in Objects, NEW hooked \in BOOLEAN, Close(o, hooked) PROVE IInv'
  BY <1>5, CloseStep
<1>6. ASSUME NEW o \in Objects, CloseDel(o) \/ CloseFd(o) \/ ForgetFd(o) \/ SetOption(o)
      PROVE  IInv'
  BY <1>6, CloseDelStep, CloseFdStep, ForgetFdStep, SetOptionStep
<1>7. CASE UNCHANGED vars
  BY <1>7 DEF vars, fdVars, IInv, TypeOK, FdTypeOK, OneOwner, IsOpen, Own, At, FdOk, CtxOk, MembersOk
<1>8. QED
  BY <1>1, <1>2, <1>3, <1>4, <1>5, <1>6, <1>7 DEF Next

LEMMA InvAlways == Spec => []IInv
BY InvInit, InvStep, PTL DEF Spec

(* Every value stays in its type; in particular the table covers every number *)
(* that has a context, however it grows (fd_manager.cpp:101-128).             *)
THEOREM TypeCorrect == Spec => []TypeOK
<1>1. IInv => TypeOK
  BY DEF IInv
<1>2. QED
  BY <1>1, InvAlways, PTL

(* No socket is leaked, closed twice or shared, whichever calls fail: an open *)
(* number has one object, an object's number is open, and the number a close   *)
(* has freed is forgotten before the close returns, although another object may *)
(* have it by then (socket.cpp:294-307,146-176).                               *)
THEOREM OneOwnerAlways == Spec => []OneOwner
<1>1. IInv => OneOwner
  BY DEF IInv
<1>2. QED
  BY <1>1, InvAlways, PTL

(* The FdCtx found for a number is that of the socket that has it, unless it  *)
(* was closed without the hooks (hook.cpp:401-415, fd_manager.cpp:101-128).   *)
THEOREM CtxAlwaysFollows == Spec => []CtxFollowsSocket
<1>1. ASSUME IInv, NEW o \in Objects, Own(o) # None, Own(o) \notin stale
      PROVE  LET fd == Own(o) IN
             /\ Managed(fd) => datas[fd].gen = kernel[fd].gen /\ datas[fd].to = kernel[fd].to
             /\ Idle(o) /\ kernel[fd].wanted => Managed(fd)
  <2> DEFINE fd == obj[o].fd
  <2>0. Own(o) = fd /\ obj[o].pc # "unset"
    BY <1>1 DEF Own, At
  <2>1. fd \in Fds /\ kernel[fd].gen # 0 /\ (Managed(fd) <=> datas[fd].gen # 0)
    BY <1>1, <2>0, OwnFacts, ManagedFacts
  <2>2. FdOk(fd) /\ CtxOk(o)
    BY <1>1, <2>1 DEF IInv
  <2>3. Managed(fd) => datas[fd].gen = kernel[fd].gen /\ datas[fd].to = kernel[fd].to
    BY <1>1, <2>0, <2>1, <2>2 DEF FdOk
  <2>4. Idle(o) /\ kernel[fd].wanted => Managed(fd)
    BY <1>1, <2>0, <2>1, <2>2 DEF CtxOk, Idle
  <2>5. QED
    BY <2>0, <2>3, <2>4
<1>2. IInv => CtxFollowsSocket
  BY <1>1 DEF CtxFollowsSocket
<1>3. QED
  BY <1>2, InvAlways, PTL

(* A managed socket stays non-blocking, and F_GETFL gives back what the user  *)
(* asked for, FIONBIO 0 apart (hook.cpp:417-454,513).                         *)
THEOREM NonblockAlwaysKept == Spec => []NonblockKept
<1>1. ASSUME IInv, NEW o \in Objects, Idle(o), obj[o].fd # None, obj[o].fd \notin stale
      PROVE  LET fd == obj[o].fd IN
             /\ Managed(fd) => kernel[fd].nonblock \/ kernel[fd].cleared
             /\ GetFl(fd) = kernel[fd].asked
  <2> DEFINE fd == obj[o].fd
  <2>1. fd \in Fds /\ kernel[fd].gen # 0 /\ (Managed(fd) <=> datas[fd].gen # 0)
    BY <1>1, OwnFacts, ManagedFacts DEF Idle
  <2>2. FdOk(fd) /\ CtxOk(o)
    BY <1>1, <2>1 DEF IInv
  <2>3. /\ Managed(fd) => kernel[fd].nonblock \/ kernel[fd].cleared
        /\ Managed(fd) => datas[fd].user = kernel[fd].asked
    BY <1>1, <2>1, <2>2 DEF FdOk
  <2>4. ~Managed(fd) => kernel[fd].nonblock = kernel[fd].asked
    BY <1>1, <2>1, <2>2 DEF CtxOk, Idle
  <2>5. QED
    BY <2>3, <2>4 DEF GetFl
<1>2. IInv => NonblockKept
  BY <1>1 DEF NonblockKept
<1>3. QED
  BY <1>2, InvAlways, PTL

(* A connected object's cached address and SSL session are those of the       *)
(* socket it has, over any number of closes (socket.cpp:221-230,604-671).     *)
THEOREM MembersAlwaysCurrent == Spec => []MembersCurrent
<1>1. ASSUME IInv, NEW o \in Objects
      PROVE  LocalAddressCurrent(obj[o]) /\ TransfersOnOwnSocket(o)
  <2>1. MembersOk(o)
    BY <1>1 DEF IInv
  <2>2. LocalAddressCurrent(obj[o])
    BY <2>1 DEF MembersOk, LocalAddressCurrent
  <2>3. TransfersOnOwnSocket(o)
    BY <2>1 DEF MembersOk, TransfersOnOwnSocket, Target, PlainTarget, SslTarget
  <2>4. QED
    BY <2>2, <2>3
<1>2. IInv => MembersCurrent
  BY <1>1 DEF MembersCurrent
<1>3. QED
  BY <1>2, InvAlways, PTL

=============================================================================
