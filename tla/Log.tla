--------------------------------- MODULE Log ---------------------------------
(***************************************************************************)
(* The loggers of sylar/log.cpp and the listener of the variable "logs"    *)
(* that keeps them as the configuration says (LogIniter), on top of        *)
(* Config.  A value of the variable is a LogDefine, or none, for every     *)
(* logger's name; a set of LogDefines is ordered and unique by name.       *)
(*                                                                         *)
(* The appenders of a logger are in the order of the numbers they have.    *)
(* Those made by LogIniter, and the one the root logger starts with,       *)
(* belong to one logger, since nobody else has a pointer to them (apps);   *)
(* those the program made itself are objects it may add to several         *)
(* loggers, take out and add again (refs, held).                           *)
(***************************************************************************)
EXTENDS Config

CONSTANTS
    NameOrder,    \* the loggers' names in the order of std::set, "root" among them
    NoDefine,     \* a name the configuration does not mention
    LogListener,  \* the listener of LogIniter
    Texts,        \* file names and patterns a LogDefine may have, "" for none
    Formats,      \* patterns that parse
    Handles,      \* the appenders the program made
    MaxChanges,   \* bound: changes the program makes to loggers and appenders
    MaxWork       \* bound: calls of the threads and changes together

Names == {NameOrder[i] : i \in DOMAIN NameOrder}
Levels == 1..5
Unknown == 0

(* LogDefine and LogAppenderDefine *)
AppenderDefines == [type : {1, 2}, file : Texts, fmt : Texts]
Defines == [level : {Unknown} \cup Levels, fmt : Texts, apps : Seq(AppenderDefines)]

ASSUME LogAssumption ==
    /\ LogListener \in Listeners /\ MaxChanges \in Nat /\ "root" \in Names
    /\ "" \in Texts /\ Formats \subseteq Texts \ {""}
    /\ \A n \in Names : Default[n] = NoDefine
    /\ \A v \in Values : \A n \in Names : v[n] = NoDefine \/ v[n] \in Defines

VARIABLES
    loggers,  \* level_, formatter_ and appenders_ of each logger
    held,     \* the program's appenders
    todo,     \* names left in a run of LogIniter's listener, per thread
    step,     \* the name a run is at, and how far it is with it
    daemon,   \* the program was started with -d
    changes,  \* how many the program has made
    touched,  \* history: loggers the program changed since they were configured
    strayed   \* history: appenders without a format of their own that were added
              \* to a logger with the format of another, or lost theirs in a logger

logVars == <<loggers, held, todo, step, daemon, changes, touched, strayed>>

vars == <<configVars, logVars>>

DefaultFormat == "%d%t%N%F%p%c%f%l%m%n"

(* A null formatter_ *)
NoFormat == ""

Valid(f) == f \in Formats

Used == Formats \cup {DefaultFormat, NoFormat}

(* StdoutLogAppender; without a format, until it is added to a logger *)
Stdout(f) == [type |-> 2, file |-> "", level |-> 1, fmt |-> f, own |-> FALSE]

NoAppenders == [i \in {} |-> i]

(* Logger's constructor; the root logger gets a StdoutLogAppender *)
Fresh(n) == [level |-> 1, fmt |-> DefaultFormat,
             apps |-> [i \in (IF n = "root" THEN {1} ELSE {}) |-> Stdout(DefaultFormat)],
             refs |-> NoAppenders]

(* No name is under way in a run. *)
NoStep == [name |-> "", next |-> 0]

Holds(n, h) == \E i \in DOMAIN loggers[n].refs : loggers[n].refs[i] = h

AppenderOK(a) ==
    a \in [type : {1, 2}, file : Texts, level : {Unknown, 1}, fmt : Used, own : BOOLEAN]

TypeOK ==
    /\ ConfigTypeOK
    /\ DOMAIN loggers = Names /\ DOMAIN todo = Threads /\ DOMAIN step = Threads
    /\ \A n \in Names :
         /\ loggers[n].level \in {Unknown} \cup Levels
         /\ loggers[n].fmt \in Used
         /\ \A i \in DOMAIN loggers[n].apps : AppenderOK(loggers[n].apps[i])
         /\ \A i \in DOMAIN loggers[n].refs : loggers[n].refs[i] \in Handles
    /\ DOMAIN held = Handles /\ \A h \in Handles : AppenderOK(held[h])
    /\ \A t \in Threads :
         /\ todo[t] \subseteq Names /\ (todo[t] # {} => thr[t].pc = "notify")
         /\ step[t] = NoStep \/ (step[t].name \in todo[t] /\ step[t].next \in Nat \ {0})
    /\ changes \in 0..MaxChanges /\ touched \subseteq Names /\ strayed \subseteq Handles

Init ==
    /\ ConfigInit({LogListener})
    /\ loggers = [n \in Names |-> Fresh(n)]
    /\ held = [h \in Handles |-> Stdout(NoFormat)]
    /\ todo = [t \in Threads |-> {}] /\ step = [t \in Threads |-> NoStep]
    /\ daemon \in BOOLEAN /\ changes = 0 /\ touched = {} /\ strayed = {}

-----------------------------------------------------------------------------
(* The methods of Logger: what becomes of logger g, and of the appenders it    *)
(* shares.                                                                     *)

(* Mutant: the appenders are not told of the logger's new format. *)
SetFormatterAlone(g, f) == [level |-> g.level, fmt |-> f, apps |-> g.apps, refs |-> g.refs]

(* Logger::setFormatter: appenders without a format of their own follow *)
SetFormatter(g, f) ==
    [level |-> g.level, fmt |-> f, refs |-> g.refs,
     apps |-> [i \in DOMAIN g.apps |->
                 IF g.apps[i].own THEN g.apps[i] ELSE [g.apps[i] EXCEPT !.fmt = f]]]

Reformatted(n, f) ==
    [h \in Handles |-> IF Holds(n, h) /\ ~held[h].own THEN [held[h] EXCEPT !.fmt = f] ELSE held[h]]

(* setLevel *)
WithLevel(g, level) == [level |-> level, fmt |-> g.fmt, apps |-> g.apps, refs |-> g.refs]

WithAppenders(g, apps, refs) == [level |-> g.level, fmt |-> g.fmt, apps |-> apps, refs |-> refs]

Cleared(g) == WithAppenders(g, NoAppenders, NoAppenders)

(* push_back: behind every appender, the numbers need not be without gaps *)
Back(g, i) ==
    CHOOSE k \in {i} \cup {j + 1 : j \in DOMAIN g.apps \cup DOMAIN g.refs} :
        k >= i /\ \A j \in DOMAIN g.apps \cup DOMAIN g.refs : j < k

Put(apps, k, a) == [i \in DOMAIN apps \cup {k} |-> IF i = k THEN a ELSE apps[i]]

(* addAppender, of an appender of its own or of the program's *)
AddOwn(g, i, a) == WithAppenders(g, Put(g.apps, Back(g, i), a), g.refs)

AddRef(g, h) == WithAppenders(g, g.apps, Put(g.refs, Back(g, 1), h))

(* delAppender erases the first place the appender is at. *)
DelRef(g, h) ==
    LET places == {i \in DOMAIN g.refs : g.refs[i] = h}
        first == CHOOSE i \in places : \A j \in places : i <= j
    IN  WithAppenders(g, g.apps, [i \in DOMAIN g.refs \ {first} |-> g.refs[i]])

-----------------------------------------------------------------------------
(* Mutant: a change of the appenders alone is no change. *)
SameDefineNoAppenders(d, e) == d.level = e.level /\ d.fmt = e.fmt

(* LogDefine::operator== *)
SameDefine(d, e) == d.level = e.level /\ d.fmt = e.fmt /\ d.apps = e.apps

(* A LogAppenderDefine made into an appender of a logger with format f: the   *)
(* level is never read from the configuration, and stays UNKNOW; a pattern    *)
(* that does not parse is dropped; addAppender gives the logger's format to   *)
(* an appender without one.                                                   *)
Appender(a, f) ==
    [type |-> a.type, file |-> a.file, level |-> Unknown,
     fmt |-> IF Valid(a.fmt) THEN a.fmt ELSE f, own |-> Valid(a.fmt)]

(* A daemon has no standard output. *)
Effective(apps) == [i \in {j \in DOMAIN apps : apps[j].type = 1 \/ ~daemon} |-> apps[i]]

(* Mutant: a pattern is not looked at before it is used. *)
FormattedUnchecked(n, d) ==
    LET g == WithLevel(loggers[n], d.level) IN IF d.fmt # "" THEN SetFormatter(g, d.fmt) ELSE g

(* setLevel, and setFormatter with a pattern that parses *)
Formatted(n, d) ==
    LET g == WithLevel(loggers[n], d.level) IN IF Valid(d.fmt) THEN SetFormatter(g, d.fmt) ELSE g

(* A run of the listener deals with every name that is in one of the values.   *)
Mentioned(old, new) == {n \in Names : new[n] # NoDefine \/ old[n] # NoDefine}

Precedes(m, n) ==
    \E i, j \in DOMAIN NameOrder : i < j /\ NameOrder[i] = m /\ NameOrder[j] = n

(* It goes through the new value, then through the old one.                    *)
Earlier(new, m, n) ==
    IF (new[m] # NoDefine) = (new[n] # NoDefine) THEN Precedes(m, n) ELSE new[m] # NoDefine

Pending(t) == thr[t].pc = "notify" /\ LogListener \in cbs \ thr[t].told

NotifyStart(t) ==
    /\ Pending(t) /\ todo[t] = {}
    /\ todo' = [todo EXCEPT ![t] = Mentioned(val, thr[t].new)]
    /\ UNCHANGED <<configVars, loggers, held, step, daemon, changes, touched, strayed>>

(* The run is through with name n, and after the last one with its listener.   *)
Through(t, n) ==
    /\ todo' = [todo EXCEPT ![t] = @ \ {n}]
    /\ step' = [step EXCEPT ![t] = NoStep]
    /\ IF todo[t] = {n} THEN Notify(t, LogListener) ELSE UNCHANGED configVars

Reaches(t, n, k) ==
    /\ step' = [step EXCEPT ![t] = [name |-> n, next |-> k]]
    /\ UNCHANGED <<configVars, todo>>

(* The run comes to the next name.  A name with the same definition in both    *)
(* values is passed over; a logger the new value does not mention loses its    *)
(* level and its appenders; the others get their level and their format, and   *)
(* their appenders after that, each under a lock of its own.                   *)
NotifyLogger(t) ==
    \E n \in todo[t] :
      LET old == val[n]  new == thr[t].new[n] IN
      /\ Pending(t) /\ step[t] = NoStep
      /\ \A m \in todo[t] \ {n} : Earlier(thr[t].new, n, m)
      /\ \/ /\ new # NoDefine /\ old # NoDefine /\ SameDefine(new, old)
            /\ Through(t, n)
            /\ UNCHANGED <<loggers, held, touched>>
         \/ /\ new # NoDefine /\ ~(old # NoDefine /\ SameDefine(new, old))
            /\ loggers' = [loggers EXCEPT ![n] = Formatted(n, new)]
            /\ held' = IF Valid(new.fmt) THEN Reformatted(n, new.fmt) ELSE held
            /\ touched' = touched \ {n}
            /\ Reaches(t, n, 1)
         \/ /\ new = NoDefine
            /\ loggers' = [loggers EXCEPT ![n] = Cleared(WithLevel(@, Unknown))]
            /\ touched' = touched \ {n}
            /\ Through(t, n)
            /\ UNCHANGED held
      /\ UNCHANGED <<daemon, changes, strayed>>

(* The definition the run is working on *)
Definition(t) == thr[t].new[step[t].name]

(* next: 1 when the appenders are to be cleared, i + 1 when the i-th is next.  *)
Proceeds(t, k) ==
    LET n == step[t].name IN
    IF k > Len(Definition(t).apps) THEN Through(t, n) ELSE Reaches(t, n, k + 1)

NotifyClear(t) ==
    /\ step[t].next = 1
    /\ loggers' = [loggers EXCEPT ![step[t].name] = Cleared(@)]
    /\ Proceeds(t, 1)
    /\ UNCHANGED <<held, daemon, changes, touched, strayed>>

NotifyAppender(t) ==
    LET i == step[t].next - 1
        e == Effective(Definition(t).apps)
    IN  /\ step[t].next > 1
        /\ loggers' = [loggers EXCEPT ![step[t].name] =
                         IF i \in DOMAIN e THEN AddOwn(@, i, Appender(e[i], @.fmt)) ELSE @]
        /\ Proceeds(t, i + 1)
        /\ UNCHANGED <<held, daemon, changes, touched, strayed>>

-----------------------------------------------------------------------------
(* The program changes loggers and its appenders at any time, runs of the      *)
(* listener included.  Patterns are given as LogFormatters that parse, or as a *)
(* null pointer.                                                               *)
Changes ==
    /\ changes < MaxChanges /\ changes' = changes + 1
    /\ UNCHANGED <<configVars, todo, step, daemon>>

SetLoggerFormatter(n, f) ==
    /\ Changes
    /\ loggers' = [loggers EXCEPT ![n] = SetFormatter(@, f)]
    /\ held' = Reformatted(n, f)
    /\ touched' = touched \cup {n} /\ UNCHANGED strayed

(* Only an appender without any format is given the logger's. *)
AddAppender(n, h) ==
    /\ Changes
    /\ loggers' = [loggers EXCEPT ![n] = AddRef(@, h)]
    /\ held' = IF held[h].fmt = NoFormat THEN [held EXCEPT ![h].fmt = loggers[n].fmt] ELSE held
    /\ strayed' = IF ~held[h].own /\ (\/ held[h].fmt \notin {NoFormat, loggers[n].fmt}
                                       \/ \E m \in Names \ {n} : Holds(m, h))
                  THEN strayed \cup {h} ELSE strayed
    /\ touched' = touched \cup {n}

DelAppender(n, h) ==
    /\ Changes /\ Holds(n, h)
    /\ loggers' = [loggers EXCEPT ![n] = DelRef(@, h)]
    /\ touched' = touched \cup {n} /\ UNCHANGED <<held, strayed>>

ClearAppenders(n) ==
    /\ Changes
    /\ loggers' = [loggers EXCEPT ![n] = Cleared(@)]
    /\ touched' = touched \cup {n} /\ UNCHANGED <<held, strayed>>

(* LogAppender::setFormatter; without a formatter it has none of its own. *)
SetAppenderFormatter(h, f) ==
    /\ Changes
    /\ held' = [held EXCEPT ![h].fmt = f, ![h].own = (f # NoFormat)]
    /\ strayed' = CASE f # NoFormat -> strayed
                    [] f = NoFormat /\ (\E n \in Names : Holds(n, h)) -> strayed \cup {h}
                    [] OTHER -> strayed \ {h}
    /\ UNCHANGED <<loggers, touched>>

Program ==
    \/ \E n \in Names, f \in Formats \cup {NoFormat} : SetLoggerFormatter(n, f)
    \/ \E n \in Names, h \in Handles : AddAppender(n, h) \/ DelAppender(n, h)
    \/ \E n \in Names : ClearAppenders(n)
    \/ \E h \in Handles, f \in Formats \cup {NoFormat} : SetAppenderFormatter(h, f)

Step ==
    \/ \E t \in Threads :
         \/ ConfigStep(t) /\ UNCHANGED logVars
         \/ \E l \in Listeners \ {LogListener} :
              (Notify(t, l) \/ ReadFirst(t, l)) /\ UNCHANGED logVars
         \/ NotifyStart(t) \/ NotifyLogger(t) \/ NotifyClear(t) \/ NotifyAppender(t)
    \/ \E l \in Listeners \ {LogListener} : DelListener(l) /\ UNCHANGED logVars
    \/ Environment /\ UNCHANGED logVars
    \/ Program

Next == Step /\ calls' + changes' <= MaxWork

Spec == Init /\ [][Next]_vars

-----------------------------------------------------------------------------
(* Logger::log: the appenders a message of the level reaches, or those of the  *)
(* root logger when the logger has none                                        *)
Places(n) == DOMAIN loggers[n].apps \cup DOMAIN loggers[n].refs

At(n, i) ==
    IF i \in DOMAIN loggers[n].refs THEN held[loggers[n].refs[i]] ELSE loggers[n].apps[i]

Takers(n, lvl) ==
    [i \in {j \in Places(n) : lvl >= loggers[n].level /\ lvl >= At(n, j).level} |-> At(n, i)]

Output(n, lvl) ==
    IF n # "root" /\ Places(n) = {} /\ lvl >= loggers[n].level
      THEN Takers("root", lvl) ELSE Takers(n, lvl)

(* What a LogDefine asks for; a format that is missing or does not parse       *)
(* leaves open which one is used.                                              *)
AsDefined(n, d, lvl) ==
    LET e == Effective(d.apps)  out == Output(n, lvl) IN
    IF lvl < d.level THEN DOMAIN out = {}
    ELSE IF DOMAIN e = {} THEN IF n = "root" THEN DOMAIN out = {} ELSE out = Takers("root", lvl)
    ELSE /\ DOMAIN out = DOMAIN e
         /\ \A i \in DOMAIN e :
              /\ out[i].type = e[i].type /\ out[i].file = e[i].file
              /\ Valid(e[i].fmt) => out[i].fmt = e[i].fmt
              /\ ~Valid(e[i].fmt) /\ Valid(d.fmt) => out[i].fmt = d.fmt

(* Once no call is under way, every logger the program left alone writes what  *)
(* the configuration says, wherever it came from: the file, setValue, or a     *)
(* chain of changes, each applied as a difference to the one before.  Calls    *)
(* that overlapped may leave the loggers of another value (log.cpp:829-905).   *)
LoggersFollowConfig ==
    ~overlap /\ Busy = {} =>
        \A n \in Names \ touched, lvl \in Levels :
            IF val[n] # NoDefine THEN AsDefined(n, val[n], lvl)
            ELSE n # "root" => Output(n, lvl) = Takers("root", lvl)

(* An appender without a format of its own writes in its logger's format,      *)
(* whichever of setFormatter, addAppender and the steps of a new configuration *)
(* came last.  addAppender gives the format only to an appender that has none  *)
(* (log.cpp:343), so that one added with the format of another logger, or of   *)
(* an earlier time, keeps it; so does one that is in two loggers, and one that *)
(* was given a null formatter in a logger has none.                            *)
InheritedFormat ==
    \A n \in Names :
        /\ \A i \in DOMAIN loggers[n].apps :
             ~loggers[n].apps[i].own => loggers[n].apps[i].fmt = loggers[n].fmt
        /\ \A h \in Handles \ strayed :
             Holds(n, h) /\ ~held[h].own => held[h].fmt = loggers[n].fmt
=============================================================================
