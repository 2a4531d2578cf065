------------------------------- MODULE Config -------------------------------
(***************************************************************************)
(* A ConfigVar of sylar/config.h with its listeners, and the file it is    *)
(* loaded from by LoadFromConfDir of sylar/config.cpp.                     *)
(*                                                                         *)
(* setValue calls the listeners under the read lock, lets go of it and     *)
(* stores under the write lock; loads remember a file's modification time, *)
(* in seconds, before they read it.                                        *)
(***************************************************************************)
EXTENDS Integers, Sequences, FiniteSets

CONSTANTS
    Threads,    \* threads that set the variable or load the file
    Values,     \* values of the variable
    Default,    \* its default value
    Listeners,  \* listeners of the program, which keep a copy of the value
    Contents,   \* what the file may hold: values, or Broken
    Broken,     \* a file yaml-cpp rejects, or a value FromStr throws at
    Nothing,    \* a listener that has no copy yet
    MaxCalls,   \* bound: calls of the threads
    MaxClock    \* bound: seconds

ASSUME ConfigAssumption ==
    /\ Default \in Values /\ Contents \subseteq Values \cup {Broken}
    /\ Broken \notin Values /\ Nothing \notin Values
    /\ MaxCalls \in Nat /\ MaxClock \in Nat

VARIABLES
    val,      \* val_
    cbs,      \* cbs_
    copy,     \* the value each listener has
    heard,    \* history: the values each listener has been given
    thr,      \* the threads
    file,     \* the file: content, and st_mtime
    seen,     \* s_file2modifytime of the file
    applied,  \* history: the content the last load that succeeded read
    clock,    \* wall clock, in seconds
    late,     \* history: listeners added while a value was about to be stored
    calls,    \* calls made so far
    overlap,  \* history: two calls were under way at one time
    sneaked   \* history: a change kept the file's modification time

configVars == <<val, cbs, copy, heard, thr, file, seen, applied, clock, late,
                calls, overlap, sneaked>>

AtRest == [pc |-> "idle", new |-> Default, told |-> {}, load |-> FALSE]

ConfigTypeOK ==
    /\ val \in Values /\ cbs \subseteq Listeners
    /\ copy \in [Listeners -> Values \cup {Nothing}]
    /\ heard \in [Listeners -> SUBSET Values]
    /\ thr \in [Threads -> [pc : {"idle", "load", "parse", "notify", "store", "add"},
                            new : Contents \cup Values, told : SUBSET Listeners,
                            load : BOOLEAN]]
    /\ file \in [content : Contents, mtime : 0..MaxClock]
    /\ seen \in -1..MaxClock /\ clock \in 0..MaxClock
    /\ applied \in Values /\ late \subseteq Listeners /\ calls \in 0..MaxCalls
    /\ overlap \in BOOLEAN /\ sneaked \in BOOLEAN

(* Listeners in "first" are added before any thread starts. *)
ConfigInit(first) ==
    /\ val = Default /\ cbs = first
    /\ copy = [l \in Listeners |-> IF l \in first THEN Default ELSE Nothing]
    /\ heard = [l \in Listeners |-> IF l \in first THEN {Default} ELSE {}]
    /\ thr = [t \in Threads |-> AtRest]
    /\ file \in [content : Contents, mtime : {0}] /\ seen = -1
    /\ applied = Default /\ clock = 0 /\ late = {} /\ calls = 0
    /\ overlap = FALSE /\ sneaked = FALSE

-----------------------------------------------------------------------------
Busy == {t \in Threads : thr[t].pc # "idle"}

(* Threads that hold the read lock of the variable *)
Readers == {t \in Threads : thr[t].pc = "notify"}

Begins(t) ==
    /\ calls < MaxCalls /\ calls' = calls + 1
    /\ overlap' = (overlap \/ Busy \ {t} # {})

(* Mutant: no listener is called while others are being called. *)
EnteredQuietly(t, v, load) ==
    IF v = val THEN AtRest
    ELSE [pc |-> IF cbs = {} \/ Readers # {} THEN "store" ELSE "notify", new |-> v,
          told |-> {}, load |-> load]

(* setValue: nothing to do for the value it has *)
Entered(t, v, load) ==
    IF v = val THEN AtRest
    ELSE [pc |-> IF cbs = {} THEN "store" ELSE "notify", new |-> v, told |-> {}, load |-> load]

SetValue(t, v) ==
    /\ thr[t].pc = "idle" /\ v # val
    /\ thr' = [thr EXCEPT ![t] = Entered(t, v, FALSE)]
    /\ Begins(t)
    /\ UNCHANGED <<val, cbs, copy, heard, file, seen, applied, clock, sneaked, late>>

(* One listener is called; after the last one the read lock is released. *)
Notify(t, l) ==
    LET told == thr[t].told \cup {l} IN
    /\ thr[t].pc = "notify" /\ l \in cbs \ thr[t].told
    /\ copy' = [copy EXCEPT ![l] = thr[t].new]
    /\ heard' = [heard EXCEPT ![l] = @ \cup {thr[t].new}]
    /\ thr' = [thr EXCEPT ![t].told = told, ![t].pc = IF told = cbs THEN "store" ELSE @]
    /\ UNCHANGED <<val, cbs, file, seen, applied, clock, calls, overlap, sneaked, late>>

(* The second half of setValue, under the write lock *)
Store(t) ==
    /\ thr[t].pc = "store" /\ Readers = {}
    /\ val' = thr[t].new
    /\ applied' = IF thr[t].load THEN thr[t].new ELSE applied
    /\ thr' = [thr EXCEPT ![t] = AtRest]
    /\ UNCHANGED <<cbs, copy, heard, file, seen, clock, calls, overlap, sneaked, late>>

(* A listener starts from getValue() and is added after that. *)
ReadFirst(t, l) ==
    /\ thr[t].pc = "idle" /\ l \notin cbs
    /\ \A u \in Threads : thr[u].pc # "add"
    /\ copy' = [copy EXCEPT ![l] = val]
    /\ heard' = [heard EXCEPT ![l] = {val}]
    /\ thr' = [thr EXCEPT ![t].pc = "add", ![t].told = {l}]
    /\ Begins(t)
    /\ UNCHANGED <<val, cbs, file, seen, applied, clock, sneaked, late>>

AddListener(t) ==
    /\ thr[t].pc = "add" /\ Readers = {}
    /\ cbs' = cbs \cup thr[t].told
    /\ late' = IF \E u \in Threads : thr[u].pc = "store"
                  \/ \E l \in thr[t].told : copy[l] # val
               THEN late \cup thr[t].told ELSE late
    /\ thr' = [thr EXCEPT ![t] = AtRest]
    /\ UNCHANGED <<val, copy, heard, file, seen, applied, clock, calls, overlap, sneaked>>

(* delListener *)
DelListener(l) ==
    /\ l \in cbs /\ Readers = {}
    /\ cbs' = cbs \ {l} /\ late' = late \ {l}
    /\ copy' = [copy EXCEPT ![l] = Nothing] /\ heard' = [heard EXCEPT ![l] = {}]
    /\ UNCHANGED <<val, thr, file, seen, applied, clock, calls, overlap, sneaked>>

-----------------------------------------------------------------------------
(* LoadFromConfDir: unless it is forced, a file is read when its modification *)
(* time is not the one remembered, and the new one is remembered at once.     *)
LoadStat(t, force) ==
    /\ thr[t].pc = "idle"
    /\ force \/ seen # file.mtime
    /\ seen' = file.mtime
    /\ thr' = [thr EXCEPT ![t].pc = "load"]
    /\ Begins(t)
    /\ UNCHANGED <<val, cbs, copy, heard, file, applied, clock, sneaked, late>>

(* YAML::LoadFile *)
LoadFile(t) ==
    /\ thr[t].pc = "load"
    /\ thr' = [thr EXCEPT ![t].pc = "parse", ![t].new = file.content]
    /\ UNCHANGED <<val, cbs, copy, heard, file, seen, applied, clock, calls, overlap, sneaked, late>>

(* Mutant: the time is taken once more after the read. *)
LoadFromYamlLate(t) ==
    LET c == thr[t].new IN
    /\ thr[t].pc = "parse"
    /\ seen' = file.mtime
    /\ IF c = Broken THEN thr' = [thr EXCEPT ![t] = AtRest] /\ UNCHANGED applied
       ELSE /\ thr' = [thr EXCEPT ![t] = Entered(t, c, TRUE)]
            /\ applied' = IF c = val THEN c ELSE applied
    /\ UNCHANGED <<val, cbs, copy, heard, file, clock, calls, overlap, sneaked, late>>

(* LoadFromYaml: fromString catches what FromStr throws, LoadFromConfDir what  *)
(* yaml-cpp throws; both are logged and nobody is told.                       *)
LoadFromYaml(t) ==
    LET c == thr[t].new IN
    /\ thr[t].pc = "parse"
    /\ IF c = Broken THEN thr' = [thr EXCEPT ![t] = AtRest] /\ UNCHANGED applied
       ELSE /\ thr' = [thr EXCEPT ![t] = Entered(t, c, TRUE)]
            /\ applied' = IF c = val THEN c ELSE applied
    /\ UNCHANGED <<val, cbs, copy, heard, file, seen, clock, calls, overlap, sneaked, late>>

(* An editor writes the file; time passes. *)
WriteFile(c) ==
    /\ c # file.content
    /\ file' = [content |-> c, mtime |-> clock]
    /\ sneaked' = (sneaked \/ clock = file.mtime)
    /\ UNCHANGED <<val, cbs, copy, heard, thr, seen, applied, clock, calls, overlap, late>>

Tick ==
    /\ clock < MaxClock /\ clock' = clock + 1
    /\ UNCHANGED <<val, cbs, copy, heard, thr, file, seen, applied, calls, overlap, sneaked, late>>

ConfigStep(t) ==
    \/ \E v \in Values : SetValue(t, v)
    \/ Store(t) \/ AddListener(t) \/ LoadFile(t) \/ LoadFromYaml(t)
    \/ \E force \in BOOLEAN : LoadStat(t, force)

Environment == Tick \/ \E c \in Contents : WriteFile(c)

-----------------------------------------------------------------------------
(* A listener has the variable's value whenever no call is under way, as long  *)
(* as no two calls overlapped.  Calls that do overlap may tell the listeners   *)
(* one order of values and store another (config.h:388-402), and a listener    *)
(* added between the two halves of setValue is never told.                     *)
CopiesFollow ==
    ~overlap /\ Busy = {} => \A l \in cbs : copy[l] = val

(* However calls overlap, no value is stored that the listeners were not told  *)
(* of, unless the listener was added while a value was about to be stored.     *)
Announced ==
    \A l \in cbs \ late : val \in heard[l]

(* Listeners know the value: each has it when no call is under way, and none    *)
(* was passed over, as far as the two parts above go (config.h:388-417).       *)
ListenersInformed == CopiesFollow /\ Announced

(* A file whose modification time is remembered has been read: no change made  *)
(* between lstat and the read, or while a load is under way, is lost.  What is  *)
(* lost are files that fail to parse, until they change again, and changes      *)
(* within one second (config.cpp:94-110).                                      *)
LoadedLatest ==
    Busy = {} /\ ~overlap /\ ~sneaked /\ seen = file.mtime /\ file.content # Broken
        => applied = file.content
=============================================================================
