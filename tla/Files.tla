------------------------------- MODULE Files --------------------------------
(***************************************************************************)
(* FSUtil (util.cpp): Mkdir, Rm, Mv, Unlink and OpenForWrite on a small    *)
(* directory tree. fs maps the paths that exist to what is there; a path   *)
(* is the sequence of its names, the root <<>> always exists. Another      *)
(* process may put a file or a socket into a directory between two calls,  *)
(* and during a call something may be wrong with one path:                 *)
(*   - stuck: every system call that would create, remove or open it fails *)
(*     (no write permission, a busy file), while lstat still sees it;      *)
(*   - closed: the directory may not be searched, so that every call on    *)
(*     what is below it fails, lstat and access included;                  *)
(*   - unread: opendir of the directory fails.                             *)
(***************************************************************************)
EXTENDS Integers, Sequences, SequencesExt, FiniteSets

CONSTANTS Names,      \* the names of directory entries
          Depth       \* the longest path

ASSUME FilesAssumption == Depth \in Nat \ {0}

VARIABLES fs, call

filesVars == <<fs, call>>

Paths == BoundedSeq(Names, Depth) \ {<<>>}

Exists(f, p) == p = <<>> \/ p \in DOMAIN f

IsDir(f, p) == p = <<>> \/ (p \in DOMAIN f /\ f[p] = "dir")

\* The entries at or below p.
Subtree(f, p) == {q \in DOMAIN f : IsPrefix(p, q)}

Children(f, p) == {q \in Subtree(f, p) : Len(q) = Len(p) + 1}

Without(f, Q) == [q \in DOMAIN f \ Q |-> f[q]]

With(f, p, kind) == [q \in DOMAIN f \cup {p} |-> IF q = p THEN kind ELSE f[q]]

\* A call's outcome: what it returned and the tree it left.
Out(ret, f) == [ret |-> ret, fs |-> f]

NoCall == [op |-> "none", path |-> <<>>, to |-> <<>>, seen |-> TRUE, ret |-> TRUE]

FilesInit ==
    /\ fs = [p \in {} |-> "dir"]
    /\ call = NoCall

Faults == [kind : {"stuck", "closed", "unread"}, path : Paths \cup {<<>>}]

-----------------------------------------------------------------------------
\* System calls, external.

\* The directories above p may be searched.
Reached(p, fault) ==
    ~(fault.kind = "closed" /\ fault.path # p /\ IsPrefix(fault.path, p))

\* lstat and access succeed.
Seen(f, p, fault) == Exists(f, p) /\ Reached(p, fault)

Movable(p, fault) == Reached(p, fault) /\ fault # [kind |-> "stuck", path |-> p]

SysOpendir(f, p, fault) ==
    IsDir(f, p) /\ Reached(p, fault) /\ fault # [kind |-> "unread", path |-> p]

SysUnlink(f, p, fault) ==
    IF p \in DOMAIN f /\ ~IsDir(f, p) /\ Movable(p, fault) THEN Out(TRUE, Without(f, {p}))
    ELSE Out(FALSE, f)

SysRmdir(f, p, fault) ==
    IF IsDir(f, p) /\ Children(f, p) = {} /\ Movable(p, fault) THEN Out(TRUE, Without(f, {p}))
    ELSE Out(FALSE, f)

SysMkdir(f, p, fault) ==
    IF ~Exists(f, p) /\ IsDir(f, Front(p)) /\ Movable(p, fault) THEN Out(TRUE, With(f, p, "dir"))
    ELSE Out(FALSE, f)

\* open for writing creates the file; a directory or a socket cannot be opened.
SysOpen(f, p, fault) ==
    IF /\ IsDir(f, Front(p)) /\ Movable(p, fault)
       /\ p \in DOMAIN f => f[p] = "file"
    THEN Out(TRUE, With(f, p, "file")) ELSE Out(FALSE, f)

\* rename onto a path that does not exist; a tree does not move into itself, and
\* no path gets longer than Depth.
SysRename(f, from, to, fault) ==
    IF /\ Exists(f, from) /\ ~Exists(f, to) /\ IsDir(f, Front(to))
       /\ ~IsPrefix(from, to) /\ Movable(from, fault) /\ Movable(to, fault)
       /\ \A q \in Subtree(f, from) : Len(q) - Len(from) + Len(to) <= Depth
    THEN LET moved(q) == to \o SubSeq(q, Len(from) + 1, Len(q))
             rest == Without(f, Subtree(f, from))
         IN  Out(TRUE, [q \in DOMAIN rest \cup {moved(x) : x \in Subtree(f, from)} |->
                          IF q \in DOMAIN rest THEN rest[q]
                          ELSE f[from \o SubSeq(q, Len(to) + 1, Len(q))]])
    ELSE Out(FALSE, f)

-----------------------------------------------------------------------------
\* FSUtil.

\* Unlink(path, exist = false): what lstat does not find counts as removed,
\* whatever the reason.
Unlink(f, p, fault) == IF Seen(f, p, fault) THEN SysUnlink(f, p, fault) ELSE Out(TRUE, f)

\* st_mode & S_IFDIR: the bit is also set in the mode of a socket.
HasDirBit(f, p) == f[p] \in {"dir", "socket"}

\* Mutant: the result of rmdir is not looked at.
RmEndIgnored(r, p, fault) == Out(r.ret, SysRmdir(r.fs, p, fault).fs)

\* if (::rmdir(path)) ret = false; ret is that of the last entry until then.
RmEnd(r, p, fault) ==
    LET d == SysRmdir(r.fs, p, fault) IN Out(r.ret /\ d.ret, d.fs)

\* A socket is taken for a directory and opendir refuses it. The entries are
\* read in the order of todo, and each one's result overwrites the one before:
\* the order does not matter, since an entry that failed makes rmdir fail.
RECURSIVE Rm(_, _, _)
RECURSIVE RmEntries(_, _, _, _)
RmEntries(f, todo, ret, fault) ==
    IF todo = <<>> THEN Out(ret, f)
    ELSE LET r == Rm(f, Head(todo), fault) IN RmEntries(r.fs, Tail(todo), r.ret, fault)

Rm(f, p, fault) ==
    IF ~Seen(f, p, fault) THEN Out(TRUE, f)
    ELSE IF ~HasDirBit(f, p) THEN Unlink(f, p, fault)
    ELSE IF ~SysOpendir(f, p, fault) THEN Out(FALSE, f)
    ELSE RmEnd(RmEntries(f, SetToSeq(Children(f, p)), TRUE, fault), p, fault)

Mv(f, from, to, fault) ==
    LET r == Rm(f, to, fault)
    IN  IF r.ret THEN SysRename(r.fs, from, to, fault) ELSE r

\* __mkdir: anything that access finds will do.
MkdirOne(f, p, fault) == IF Seen(f, p, fault) THEN Out(TRUE, f) ELSE SysMkdir(f, p, fault)

\* Every prefix in turn, giving up at the first that fails.
RECURSIVE MkdirFrom(_, _, _, _)
MkdirFrom(f, p, n, fault) ==
    LET r == MkdirOne(f, SubSeq(p, 1, n), fault)
    IN  IF r.ret /\ n < Len(p) THEN MkdirFrom(r.fs, p, n + 1, fault) ELSE r

Mkdir(f, p, fault) == IF Seen(f, p, fault) THEN Out(TRUE, f) ELSE MkdirFrom(f, p, 1, fault)

\* The second attempt to open follows Mkdir(Dirname(filename)).
OpenForWrite(f, p, fault) ==
    LET o == SysOpen(f, p, fault)
    IN  IF o.ret THEN o ELSE SysOpen(Mkdir(o.fs, Front(p), fault).fs, p, fault)

-----------------------------------------------------------------------------
\* call holds the last call and its answer until the caller has seen it.
Done(op, p, to, fault, r) ==
    /\ call = NoCall
    /\ fs' = r.fs
    /\ call' = [op |-> op, path |-> p, to |-> to, seen |-> Reached(p, fault), ret |-> r.ret]

CallMkdir(p, fault) == Done("Mkdir", p, p, fault, Mkdir(fs, p, fault))
CallRm(p, fault) == Done("Rm", p, p, fault, Rm(fs, p, fault))
CallUnlink(p, fault) == Done("Unlink", p, p, fault, Unlink(fs, p, fault))
CallOpenForWrite(p, fault) == Done("OpenForWrite", p, p, fault, OpenForWrite(fs, p, fault))
CallMv(from, to, fault) == Done("Mv", from, to, fault, Mv(fs, from, to, fault))

\* Another process creates a file or binds a socket.
Plant(p, kind) ==
    /\ call = NoCall
    /\ ~Exists(fs, p) /\ IsDir(fs, Front(p))
    /\ fs' = With(fs, p, kind)
    /\ UNCHANGED call

Answered == call # NoCall /\ call' = NoCall /\ UNCHANGED fs

FilesNext ==
    \/ \E p \in Paths, fault \in Faults :
          \/ CallMkdir(p, fault)
          \/ CallRm(p, fault)
          \/ CallUnlink(p, fault)
          \/ CallOpenForWrite(p, fault)
          \/ \E to \in Paths : CallMv(p, to, fault)
    \/ \E p \in Paths : Plant(p, "file") \/ Plant(p, "socket")
    \/ Answered

-----------------------------------------------------------------------------
\* The entries outside Q are what they were.
OnlyBelow(Q) ==
    \A q \in DOMAIN fs \cup DOMAIN fs' :
        (\A p \in Q : ~IsPrefix(p, q)) => q \in DOMAIN fs \cap DOMAIN fs' /\ fs[q] = fs'[q]

\* Rm and Unlink report success exactly when nothing is left at the path,
\* although Rm keeps only the last entry's result and takes sockets for
\* directories, or when they could not look at the path: lstat that fails for
\* whatever reason counts as success, and then nothing has been removed.
\* Nothing outside the path is touched (FSUtil::Rm, FSUtil::Unlink).
RmExact ==
    call'.op \in {"Rm", "Unlink"} =>
        /\ call'.ret <=> ~call'.seen \/ ~Exists(fs', call'.path)
        /\ ~call'.seen => fs' = fs
        /\ OnlyBelow({call'.path})

\* Mv that reports success had a source and has moved all of it. One that
\* reports failure, for want of a source too, has created nothing and lost at
\* most what was at or below the target, which it removes before it knows
\* whether rename will succeed (FSUtil::Mv).
MvMoves ==
    call'.op = "Mv" =>
        LET from == call'.path
            to == call'.to
            moved(q) == to \o SubSeq(q, Len(from) + 1, Len(q))
        IN  /\ OnlyBelow({from, to})
            /\ call'.ret =>
                  /\ Exists(fs, from) /\ ~Exists(fs', from)
                  /\ Subtree(fs', to) = {moved(q) : q \in Subtree(fs, from)}
                  /\ \A q \in Subtree(fs, from) : fs'[moved(q)] = fs[q]
            /\ ~call'.ret =>
                  /\ \A q \in DOMAIN fs' : q \in DOMAIN fs /\ fs'[q] = fs[q]
                  /\ \A q \in DOMAIN fs \ DOMAIN fs' : IsPrefix(to, q)

\* Mkdir and OpenForWrite tell the truth: after success the path exists, and a
\* file opened for writing is a file (for Mkdir anything that is there already
\* will do, a file too). What they had to create on the way is never anything
\* but directories, and nothing that was there is lost (FSUtil::Mkdir,
\* FSUtil::OpenForWrite).
CreatesWhatItSays ==
    call'.op \in {"Mkdir", "OpenForWrite"} =>
        /\ call'.ret => Exists(fs', call'.path)
        /\ call'.ret /\ call'.op = "OpenForWrite" => fs'[call'.path] = "file"
        /\ \A q \in DOMAIN fs : q \in DOMAIN fs' /\ fs'[q] = fs[q]
        /\ \A q \in DOMAIN fs' \ DOMAIN fs :
              IsPrefix(q, call'.path) /\ (q # call'.path => fs'[q] = "dir")

\* What a call of FSUtil returns is what happened to the tree, even when one of
\* its system calls fails in the middle: Rm, Unlink, Mv, Mkdir and OpenForWrite
\* (util.cpp).
AnswersHonest == [][RmExact /\ MvMoves /\ CreatesWhatItSays]_filesVars
=============================================================================
