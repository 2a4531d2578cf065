---------------------------- MODULE ConfigProofs ----------------------------
(* Proofs about Config as Log uses it and about Log, for any threads, values, *)
(* listeners, names of loggers and definitions.                               *)
EXTENDS Log, TLAPS

(* Thread t has told listener l the value it is about to store. *)
Told(t, l) == thr[t].pc = "store" \/ (thr[t].pc = "notify" /\ l \in thr[t].told)

(* The threads: who notifies has told listeners that are there, and who adds  *)
(* a listener is the only one that does, and has not added it yet.            *)
ThreadInv ==
    /\ \A t \in Threads : thr[t].pc = "notify" => thr[t].told \subseteq cbs
    /\ \A t \in Threads : thr[t].pc \in {"notify", "store"} => thr[t].new \in Values
    /\ \A t, u \in Threads : thr[t].pc = "add" /\ thr[u].pc = "add" => t = u
    /\ \A t \in Threads : thr[t].pc = "add" =>
         \A l \in thr[t].told : l \notin cbs /\ copy[l] \in heard[l]

(* What a listener was told of: the value, and each one about to be stored. *)
HeardInv ==
    /\ \A l \in cbs \ late : val \in heard[l]
    /\ \A t \in Threads : \A l \in cbs \ late : Told(t, l) => thr[t].new \in heard[l]

(* As long as no two calls overlapped, one thread is busy and the copies are  *)
(* those of the value or, once told, of the one about to be stored.           *)
CopyInv ==
    ~overlap =>
      /\ \A t, u \in Busy : t = u
      /\ \A l \in cbs : (\A t \in Threads : ~Told(t, l)) => copy[l] = val
      /\ \A l \in cbs : \A t \in Threads : Told(t, l) => copy[l] = thr[t].new
      /\ \A t \in Threads : thr[t].pc = "add" => \A l \in thr[t].told : copy[l] = val

(* A load that is under way, and what it has read. *)
Loading(t) == thr[t].pc \in {"load", "parse"} \/ (thr[t].pc \in {"notify", "store"} /\ thr[t].load)
HasRead(t) == thr[t].pc = "parse" \/ (thr[t].pc \in {"notify", "store"} /\ thr[t].load)

(* The file: as long as its time tells changes apart, what was read under the *)
(* time that is remembered is what the file holds.                            *)
LoadInv ==
    /\ seen <= file.mtime /\ file.mtime <= clock
    /\ ~overlap /\ ~sneaked /\ seen = file.mtime =>
         /\ \A t \in Threads : HasRead(t) => thr[t].new = file.content
         /\ (\A t \in Threads : ~Loading(t)) /\ file.content # Broken =>
              applied = file.content

IInv == ConfigTypeOK /\ ThreadInv /\ HeardInv /\ CopyInv /\ LoadInv

-----------------------------------------------------------------------------
(* What ConfigTypeOK says of one thread. *)
Record == [pc : {"idle", "load", "parse", "notify", "store", "add"},
           new : Contents \cup Values, told : SUBSET Listeners, load : BOOLEAN]

LEMMA TypeFacts ==
    ConfigTypeOK <=>
        /\ val \in Values /\ cbs \subseteq Listeners
        /\ copy \in [Listeners -> Values \cup {Nothing}]
        /\ heard \in [Listeners -> SUBSET Values]
        /\ thr \in [Threads -> Record]
        /\ file \in [content : Contents, mtime : 0..MaxClock]
        /\ seen \in -1..MaxClock /\ clock \in 0..MaxClock
        /\ applied \in Values /\ late \subseteq Listeners /\ calls \in 0..MaxCalls
        /\ overlap \in BOOLEAN /\ sneaked \in BOOLEAN
BY Zenon DEF ConfigTypeOK, Record

LEMMA RestFacts ==
    /\ AtRest \in Record /\ AtRest.pc = "idle" /\ AtRest.new = Default
    /\ AtRest.told = {} /\ AtRest.load = FALSE
BY ConfigAssumption DEF AtRest, Record

(* Thread t moves to the record new, and the others stay. *)
Moved(t, new) == thr' = [thr EXCEPT ![t] = new]

LEMMA MovedFacts ==
    ASSUME thr \in [Threads -> Record], NEW t \in Threads, NEW new \in Record, Moved(t, new)
    PROVE  /\ thr' \in [Threads -> Record] /\ thr'[t] = new
           /\ \A u \in Threads \ {t} : thr'[u] = thr[u]
BY DEF Moved

(* A call begins: two calls that are under way at one time are noted. *)
LEMMA BeginsFacts ==
    ASSUME IInv, NEW t \in Threads, Begins(t)
    PROVE  /\ calls' \in 0..MaxCalls /\ overlap' \in BOOLEAN /\ (overlap => overlap')
           /\ ~overlap' => \A u \in Threads \ {t} : thr[u].pc = "idle"
<1>1. calls \in 0..MaxCalls /\ calls < MaxCalls /\ calls' = calls + 1 /\ MaxCalls \in Nat
  BY TypeFacts, ConfigAssumption DEF IInv, Begins
<1>2. overlap' = (overlap \/ Busy \ {t} # {})
  BY DEF Begins
<1>3. overlap' \in BOOLEAN
  BY <1>2, Zenon
<1>4. (overlap => overlap') /\ (~overlap' => Busy \ {t} = {})
  BY <1>2
<1>5. QED
  BY <1>1, <1>3, <1>4 DEF Busy

(* One thread is busy at most, as long as no two calls overlapped. *)
LEMMA Alone ==
    ASSUME IInv, ~overlap, NEW t \in Threads, thr[t].pc # "idle"
    PROVE  \A u \in Threads \ {t} : thr[u].pc = "idle"
BY DEF IInv, CopyInv, Busy

LEMMA SetValueStep ==
    ASSUME IInv, NEW t \in Threads, NEW v \in Values, SetValue(t, v) PROVE IInv'
<1>1. PICK e : e = Entered(t, v, FALSE)
  OBVIOUS
<1>2. /\ thr[t].pc = "idle" /\ v # val /\ Moved(t, e) /\ Begins(t)
      /\ UNCHANGED <<val, cbs, copy, heard, file, seen, applied, clock, sneaked, late>>
  BY <1>1 DEF SetValue, Moved
<1>3. /\ e \in Record /\ e.new = v /\ e.told = {} /\ e.load = FALSE
      /\ e.pc = (IF cbs = {} THEN "store" ELSE "notify")
  BY <1>1, <1>2, TypeFacts DEF IInv, Entered, Record
<1>4. /\ thr' \in [Threads -> Record] /\ thr'[t] = e
      /\ \A u \in Threads \ {t} : thr'[u] = thr[u]
  BY <1>2, <1>3, MovedFacts, TypeFacts DEF IInv
<1>5. /\ calls' \in 0..MaxCalls /\ overlap' \in BOOLEAN /\ (overlap => overlap')
      /\ ~overlap' => \A u \in Threads \ {t} : thr[u].pc = "idle"
  BY <1>2, BeginsFacts
<1>6. ConfigTypeOK'
  BY <1>2, <1>4, <1>5, TypeFacts DEF IInv, ConfigTypeOK, Record
<1>7. ThreadInv'
  BY <1>2, <1>3, <1>4 DEF IInv, ThreadInv
<1>8. HeardInv'
  BY <1>2, <1>3, <1>4 DEF IInv, HeardInv, Told
<1>9. CopyInv'
  <2> SUFFICES ASSUME ~overlap' PROVE CopyInv'
    BY DEF CopyInv
  <2>1. ~overlap /\ \A u \in Threads \ {t} : thr'[u].pc = "idle"
    BY <1>4, <1>5
  <2>2. \A u \in Threads, l \in cbs : ~Told(u, l) /\ ~Told(u, l)'
    BY <1>2, <1>3, <1>4, <1>5, <2>1 DEF Told
  <2>3. \A l \in cbs : copy[l] = val
    BY <2>1, <2>2 DEF IInv, CopyInv
  <2>4. QED
    BY <1>2, <1>3, <1>4, <2>1, <2>2, <2>3 DEF CopyInv, Busy
<1>10. LoadInv'
  <2>1. \A u \in Threads : (HasRead(u)' <=> HasRead(u)) /\ (Loading(u)' <=> Loading(u))
                           /\ (HasRead(u) => thr'[u] = thr[u])
    BY <1>2, <1>3, <1>4 DEF HasRead, Loading
  <2>2. QED
    BY <1>2, <1>5, <2>1 DEF IInv, LoadInv
<1>11. QED
  BY <1>6, <1>7, <1>8, <1>9, <1>10 DEF IInv

LEMMA NotifyStep ==
    ASSUME IInv, NEW t \in Threads, NEW l \in Listeners, Notify(t, l) PROVE IInv'
<1>1. PICK r : r = [thr[t] EXCEPT !.told = @ \cup {l},
                                  !.pc = IF thr[t].told \cup {l} = cbs THEN "store" ELSE @]
  OBVIOUS
<1>2. PICK v : v = thr[t].new
  OBVIOUS
<1>3. /\ thr \in [Threads -> Record] /\ thr[t] \in Record
      /\ copy \in [Listeners -> Values \cup {Nothing}] /\ heard \in [Listeners -> SUBSET Values]
  BY TypeFacts DEF IInv
<1>4. /\ thr[t].pc = "notify" /\ l \in cbs
      /\ copy' = [copy EXCEPT ![l] = v] /\ heard' = [heard EXCEPT ![l] = @ \cup {v}]
      /\ UNCHANGED <<val, cbs, file, seen, applied, clock, calls, overlap, sneaked, late>>
  BY <1>2 DEF Notify
<1>5. Moved(t, r)
  BY <1>1, <1>3 DEF Notify, Moved, Record
<1>6. /\ r \in Record /\ r.new = v /\ r.load = thr[t].load /\ r.told = thr[t].told \cup {l}
      /\ r.pc \in {"notify", "store"} /\ (r.pc = "store" <=> r.told = cbs)
  BY <1>1, <1>2, <1>3, <1>4 DEF Record
<1>7. v \in Values /\ thr[t].told \subseteq cbs
  BY <1>2, <1>4 DEF IInv, ThreadInv
<1>8. /\ thr' \in [Threads -> Record] /\ thr'[t] = r
      /\ \A u \in Threads \ {t} : thr'[u] = thr[u]
  BY <1>3, <1>5, <1>6, MovedFacts
<1>9. /\ copy' \in [Listeners -> Values \cup {Nothing}] /\ heard' \in [Listeners -> SUBSET Values]
      /\ copy'[l] = v /\ v \in heard'[l]
      /\ \A k \in Listeners : heard[k] \subseteq heard'[k] /\ (k # l => copy'[k] = copy[k])
  BY <1>3, <1>4, <1>7
<1>10. ConfigTypeOK'
  BY <1>4, <1>8, <1>9, TypeFacts DEF IInv, ConfigTypeOK, Record
<1>11. ThreadInv'
  <2>1. \A u \in Threads : thr'[u].pc = "notify" => thr'[u].told \subseteq cbs
    BY <1>4, <1>6, <1>7, <1>8 DEF IInv, ThreadInv
  <2>2. \A u \in Threads : thr'[u].pc \in {"notify", "store"} => thr'[u].new \in Values
    BY <1>6, <1>7, <1>8 DEF IInv, ThreadInv
  <2>3. \A u \in Threads : thr'[u].pc = "add" => u # t
    BY <1>6, <1>8
  <2>4. \A u \in Threads : thr'[u].pc = "add" =>
          \A k \in thr'[u].told : k \notin cbs /\ copy'[k] \in heard'[k]
    <3> SUFFICES ASSUME NEW u \in Threads, thr'[u].pc = "add", NEW k \in thr'[u].told
                 PROVE  k \notin cbs /\ copy'[k] \in heard'[k]
      OBVIOUS
    <3>1. u # t /\ thr'[u] = thr[u] /\ thr[u] \in Record
      BY <1>3, <1>8, <2>3
    <3>2. k \in Listeners /\ k \notin cbs /\ copy[k] \in heard[k]
      BY <3>1 DEF IInv, ThreadInv, Record
    <3>3. QED
      BY <1>4, <1>9, <3>2
  <2>5. QED
    BY <1>4, <1>8, <2>1, <2>2, <2>3, <2>4 DEF IInv, ThreadInv
<1>12. cbs \subseteq Listeners /\ \A u \in Threads, k \in cbs :
          Told(u, k)' <=> (Told(u, k) \/ (u = t /\ k = l))
  <2>1. cbs \subseteq Listeners
    BY TypeFacts DEF IInv
  <2>2. \A k \in cbs : Told(t, k)' <=> (Told(t, k) \/ k = l)
    BY <1>4, <1>6, <1>7, <1>8 DEF Told
  <2>3. \A u \in Threads \ {t}, k \in cbs : Told(u, k)' <=> Told(u, k)
    BY <1>8 DEF Told
  <2>4. QED
    BY <2>1, <2>2, <2>3
<1>13. \A u \in Threads : thr'[u].new = thr[u].new /\ (thr'[u].pc = "idle" <=> thr[u].pc = "idle")
  BY <1>2, <1>4, <1>6, <1>8
<1>14. HeardInv'
  BY <1>2, <1>4, <1>9, <1>12, <1>13 DEF IInv, HeardInv
<1>15. CopyInv'
  <2> SUFFICES ASSUME ~overlap' PROVE CopyInv'
    BY DEF CopyInv
  <2>1. ~overlap /\ Busy' = Busy /\ \A u \in Threads \ {t} : thr[u].pc = "idle" /\ thr'[u].pc = "idle"
    BY <1>4, <1>13, Alone DEF Busy
  <2>2. \A u \in Threads, k \in cbs : Told(u, k)' => u = t
    BY <2>1 DEF Told
  <2>3. \A k \in cbs : (\A u \in Threads : ~Told(u, k)') => copy'[k] = val
    BY <1>9, <1>12, <2>1 DEF IInv, CopyInv
  <2>4. \A k \in cbs : Told(t, k)' => copy'[k] = v
    BY <1>2, <1>9, <1>12, <2>1 DEF IInv, CopyInv
  <2>5. \A u \in Threads : thr'[u].pc # "add"
    BY <1>6, <1>8, <2>1
  <2>6. QED
    BY <1>4, <1>6, <1>8, <2>1, <2>2, <2>3, <2>4, <2>5 DEF IInv, CopyInv
<1>16. LoadInv'
  <2>1. \A u \in Threads : (HasRead(u)' <=> HasRead(u)) /\ (Loading(u)' <=> Loading(u))
    BY <1>4, <1>6, <1>8 DEF HasRead, Loading
  <2>2. QED
    BY <1>4, <1>13, <2>1 DEF IInv, LoadInv
<1>17. QED
  BY <1>10, <1>11, <1>14, <1>15, <1>16 DEF IInv

LEMMA StoreStep ==
    ASSUME IInv, NEW t \in Threads, Store(t) PROVE IInv'
<1>1. PICK v : v = thr[t].new
  OBVIOUS
<1>2. /\ thr[t].pc = "store" /\ Readers = {} /\ val' = v
      /\ applied' = (IF thr[t].load THEN v ELSE applied) /\ Moved(t, AtRest)
      /\ UNCHANGED <<cbs, copy, heard, file, seen, clock, calls, overlap, sneaked, late>>
  BY <1>1 DEF Store, Moved
<1>3. v \in Values
  BY <1>1, <1>2 DEF IInv, ThreadInv
<1>4. /\ thr' \in [Threads -> Record] /\ thr'[t] = AtRest
      /\ \A u \in Threads \ {t} : thr'[u] = thr[u]
  BY <1>2, RestFacts, MovedFacts, TypeFacts DEF IInv
<1>5. ConfigTypeOK'
  BY <1>2, <1>3, <1>4, TypeFacts DEF IInv, ConfigTypeOK, Record
<1>6. ThreadInv'
  BY <1>2, <1>4, RestFacts DEF IInv, ThreadInv
<1>7. \A k \in cbs : Told(t, k) /\ ~Told(t, k)'
  BY <1>2, <1>4, RestFacts DEF Told
<1>8. \A u \in Threads \ {t}, k \in cbs : Told(u, k)' <=> Told(u, k)
  BY <1>4 DEF Told
<1>9. HeardInv'
  BY <1>1, <1>2, <1>4, <1>7, <1>8 DEF IInv, HeardInv
<1>10. CopyInv'
  <2> SUFFICES ASSUME ~overlap' PROVE CopyInv'
    BY DEF CopyInv
  <2>1. ~overlap /\ \A u \in Threads : thr'[u].pc = "idle"
    BY <1>2, <1>4, Alone, RestFacts
  <2>2. \A k \in cbs : copy[k] = v
    BY <1>1, <1>7, <2>1 DEF IInv, CopyInv
  <2>3. \A u \in Threads, k \in cbs : ~Told(u, k)'
    BY <2>1 DEF Told
  <2>4. QED
    BY <1>2, <2>1, <2>2, <2>3 DEF CopyInv, Busy
<1>11. LoadInv'
  <2>1. seen' <= file'.mtime /\ file'.mtime <= clock'
    BY <1>2 DEF IInv, LoadInv
  <2> SUFFICES ASSUME ~overlap', ~sneaked', seen' = file'.mtime
               PROVE  /\ \A u \in Threads : HasRead(u)' => thr'[u].new = file'.content
                      /\ (\A u \in Threads : ~Loading(u)') /\ file'.content # Broken =>
                           applied' = file'.content
    BY <2>1 DEF LoadInv
  <2>2. /\ \A u \in Threads : HasRead(u) => thr[u].new = file.content
        /\ (\A u \in Threads : ~Loading(u)) /\ file.content # Broken => applied = file.content
    BY <1>2 DEF IInv, LoadInv
  <2>3. ~overlap /\ \A u \in Threads : thr'[u].pc = "idle"
    BY <1>2, <1>4, Alone, RestFacts
  <2>4. \A u \in Threads : ~HasRead(u)'
    BY <2>3 DEF HasRead
  <2>5. CASE thr[t].load
    BY <1>1, <1>2, <2>2, <2>4, <2>5 DEF HasRead
  <2>6. CASE ~thr[t].load
    <3>1. \A u \in Threads : ~Loading(u)
      BY <1>2, <2>3, <2>6, Alone DEF Loading
    <3>2. QED
      BY <1>2, <2>2, <2>4, <2>6, <3>1
  <2>7. QED
    BY <2>5, <2>6
<1>12. QED
  BY <1>5, <1>6, <1>9, <1>10, <1>11 DEF IInv

LEMMA ReadFirstStep ==
    ASSUME IInv, NEW t \in Threads, NEW l \in Listeners, ReadFirst(t, l) PROVE IInv'
<1>1. PICK r : r = [thr[t] EXCEPT !.pc = "add", !.told = {l}]
  OBVIOUS
<1>2. /\ thr \in [Threads -> Record] /\ thr[t] \in Record /\ val \in Values
      /\ copy \in [Listeners -> Values \cup {Nothing}] /\ heard \in [Listeners -> SUBSET Values]
      /\ cbs \subseteq Listeners
  BY TypeFacts DEF IInv
<1>3. /\ thr[t].pc = "idle" /\ l \notin cbs /\ (\A u \in Threads : thr[u].pc # "add") /\ Begins(t)
      /\ copy' = [copy EXCEPT ![l] = val] /\ heard' = [heard EXCEPT ![l] = {val}]
      /\ UNCHANGED <<val, cbs, file, seen, applied, clock, sneaked, late>>
  BY DEF ReadFirst
<1>4. Moved(t, r)
  BY <1>1, <1>2 DEF ReadFirst, Moved, Record
<1>5. r \in Record /\ r.pc = "add" /\ r.told = {l}
  BY <1>1, <1>2 DEF Record
<1>6. /\ thr' \in [Threads -> Record] /\ thr'[t] = r
      /\ \A u \in Threads \ {t} : thr'[u] = thr[u]
  BY <1>2, <1>4, <1>5, MovedFacts
<1>7. /\ calls' \in 0..MaxCalls /\ overlap' \in BOOLEAN /\ (overlap => overlap')
      /\ ~overlap' => \A u \in Threads \ {t} : thr[u].pc = "idle"
  BY <1>3, BeginsFacts
<1>8. /\ copy' \in [Listeners -> Values \cup {Nothing}] /\ heard' \in [Listeners -> SUBSET Values]
      /\ copy'[l] = val /\ heard'[l] = {val}
      /\ \A k \in Listeners \ {l} : copy'[k] = copy[k] /\ heard'[k] = heard[k]
  BY <1>2, <1>3
<1>9. ConfigTypeOK'
  BY <1>3, <1>6, <1>7, <1>8, TypeFacts DEF IInv, ConfigTypeOK, Record
<1>10. ThreadInv'
  BY <1>3, <1>5, <1>6, <1>8 DEF IInv, ThreadInv
<1>11. \A u \in Threads, k \in cbs : Told(u, k)' <=> Told(u, k)
  BY <1>3, <1>5, <1>6 DEF Told
<1>12. \A u \in Threads, k \in cbs : Told(u, k) => thr'[u] = thr[u]
  BY <1>3, <1>6 DEF Told
<1>13. \A k \in cbs : k \in Listeners \ {l}
  BY <1>2, <1>3
<1>14. HeardInv'
  BY <1>3, <1>8, <1>11, <1>12, <1>13 DEF IInv, HeardInv
<1>15. CopyInv'
  <2> SUFFICES ASSUME ~overlap' PROVE CopyInv'
    BY DEF CopyInv
  <2>1. ~overlap /\ \A u \in Threads \ {t} : thr'[u].pc = "idle"
    BY <1>6, <1>7
  <2>2. \A k \in cbs : copy'[k] = copy[k]
    BY <1>8, <1>13
  <2>3. \A k \in cbs : (\A u \in Threads : ~Told(u, k)') => copy'[k] = val
    BY <1>11, <2>1, <2>2 DEF IInv, CopyInv
  <2>4. \A k \in cbs : \A u \in Threads : Told(u, k)' => copy'[k] = thr'[u].new
    BY <1>11, <1>12, <2>1, <2>2 DEF IInv, CopyInv
  <2>5. \A u \in Threads : thr'[u].pc = "add" => \A k \in thr'[u].told : copy'[k] = val
    BY <1>5, <1>6, <1>8, <2>1
  <2>6. QED
    BY <1>3, <2>1, <2>3, <2>4, <2>5 DEF CopyInv, Busy
<1>16. LoadInv'
  <2>1. \A u \in Threads : (HasRead(u)' <=> HasRead(u)) /\ (Loading(u)' <=> Loading(u))
                           /\ (HasRead(u) => thr'[u] = thr[u])
    BY <1>3, <1>5, <1>6 DEF HasRead, Loading
  <2>2. QED
    BY <1>3, <1>7, <2>1 DEF IInv, LoadInv
<1>17. QED
  BY <1>9, <1>10, <1>14, <1>15, <1>16 DEF IInv

LEMMA AddListenerStep ==
    ASSUME IInv, NEW t \in Threads, AddListener(t) PROVE IInv'
<1>1. /\ thr \in [Threads -> Record] /\ thr[t] \in Record /\ cbs \subseteq Listeners
      /\ late \subseteq Listeners
  BY TypeFacts DEF IInv
<1>2. PICK new : new = thr[t].told
  OBVIOUS
<1>3. /\ thr[t].pc = "add" /\ Readers = {} /\ cbs' = cbs \cup new /\ Moved(t, AtRest)
      /\ UNCHANGED <<val, copy, heard, file, seen, applied, clock, calls, overlap, sneaked>>
  BY <1>2 DEF AddListener, Moved
<1>4. /\ late \subseteq late' /\ late' \subseteq late \cup new
      /\ ~(new \subseteq late') => /\ \A u \in Threads : thr[u].pc # "store"
                                   /\ \A l \in new : copy[l] = val
  BY <1>2 DEF AddListener
<1>5. new \subseteq Listeners /\ \A l \in new : l \notin cbs /\ copy[l] \in heard[l]
  BY <1>1, <1>2, <1>3 DEF IInv, ThreadInv, Record
<1>6. /\ thr' \in [Threads -> Record] /\ thr'[t] = AtRest
      /\ \A u \in Threads \ {t} : thr'[u] = thr[u]
  BY <1>1, <1>3, RestFacts, MovedFacts
<1>7. \A u \in Threads : thr[u].pc # "notify" /\ thr'[u].pc \notin {"notify", "add"}
  BY <1>3, <1>6, RestFacts DEF Readers, IInv, ThreadInv
<1>8. \A u \in Threads : /\ \A l : Told(u, l)' <=> thr[u].pc = "store"
                         /\ \A l : Told(u, l) <=> thr[u].pc = "store"
                         /\ thr[u].pc = "store" => thr'[u] = thr[u]
  BY <1>3, <1>6, <1>7, RestFacts DEF Told
<1>9. ConfigTypeOK'
  <2>1. cbs' \subseteq Listeners /\ late' \subseteq Listeners
    BY <1>1, <1>3, <1>4, <1>5
  <2>2. QED
    BY <1>3, <1>6, <2>1, TypeFacts DEF IInv, ConfigTypeOK, Record
<1>10. ThreadInv'
  <2>1. \A u \in Threads : thr'[u].pc = "store" => thr'[u].new \in Values
    BY <1>6, RestFacts DEF IInv, ThreadInv
  <2>2. QED
    BY <1>7, <2>1 DEF ThreadInv
<1>11. HeardInv'
  <2> SUFFICES ASSUME NEW l \in cbs' \ late'
               PROVE  /\ val' \in heard'[l]
                      /\ \A u \in Threads : Told(u, l)' => thr'[u].new \in heard'[l]
    BY DEF HeardInv
  <2>1. CASE l \in cbs
    BY <1>3, <1>4, <1>8, <2>1 DEF IInv, HeardInv
  <2>2. CASE l \in new
    BY <1>3, <1>4, <1>5, <1>8, <2>2
  <2>3. QED
    BY <1>3, <2>1, <2>2
<1>12. CopyInv'
  <2> SUFFICES ASSUME ~overlap' PROVE CopyInv'
    BY DEF CopyInv
  <2>1. ~overlap /\ \A u \in Threads : thr'[u].pc = "idle"
    BY <1>3, <1>6, Alone, RestFacts
  <2>2. \A u \in Threads : thr[u].pc # "store"
    BY <1>3, <2>1, Alone
  <2>3. \A l \in cbs : copy[l] = val
    BY <1>8, <2>1, <2>2 DEF IInv, CopyInv
  <2>4. \A l \in new : copy[l] = val
    BY <1>2, <1>3, <2>1 DEF IInv, CopyInv
  <2>5. \A l \in cbs' : copy'[l] = val'
    BY <1>3, <2>3, <2>4
  <2>6. \A u \in Threads : \A l : ~Told(u, l)'
    BY <1>8, <2>2
  <2>7. QED
    BY <2>1, <2>5, <2>6 DEF CopyInv, Busy
<1>13. LoadInv'
  <2>1. \A u \in Threads : (HasRead(u)' <=> HasRead(u)) /\ (Loading(u)' <=> Loading(u))
                           /\ (HasRead(u) => thr'[u] = thr[u])
    BY <1>3, <1>6, RestFacts DEF HasRead, Loading
  <2>2. QED
    BY <1>3, <2>1 DEF IInv, LoadInv
<1>14. QED
  BY <1>9, <1>10, <1>11, <1>12, <1>13 DEF IInv

LEMMA DelListenerStep ==
    ASSUME IInv, NEW l \in Listeners, DelListener(l) PROVE IInv'
<1>1. /\ copy \in [Listeners -> Values \cup {Nothing}] /\ heard \in [Listeners -> SUBSET Values]
      /\ cbs \subseteq Listeners /\ late \subseteq Listeners /\ thr \in [Threads -> Record]
  BY TypeFacts DEF IInv
<1>2. /\ l \in cbs /\ Readers = {} /\ cbs' = cbs \ {l} /\ late' = late \ {l}
      /\ copy' = [copy EXCEPT ![l] = Nothing] /\ heard' = [heard EXCEPT ![l] = {}]
      /\ UNCHANGED <<val, thr, file, seen, applied, clock, calls, overlap, sneaked>>
  BY DEF DelListener
<1>3. /\ copy' \in [Listeners -> Values \cup {Nothing}] /\ heard' \in [Listeners -> SUBSET Values]
      /\ \A k \in Listeners \ {l} : copy'[k] = copy[k] /\ heard'[k] = heard[k]
  BY <1>1, <1>2
<1>4. \A u \in Threads : thr[u].pc # "notify"
  BY <1>2 DEF Readers
<1>5. ConfigTypeOK'
  <2>1. cbs' \subseteq Listeners /\ late' \subseteq Listeners
    BY <1>1, <1>2
  <2>2. QED
    BY <1>2, <1>3, <2>1, TypeFacts DEF IInv, ConfigTypeOK, Record
<1>6. ThreadInv'
  <2>1. \A u \in Threads : thr[u].pc = "add" =>
          \A k \in thr[u].told : k \in Listeners \ {l} /\ k \notin cbs /\ copy[k] \in heard[k]
    BY <1>1, <1>2 DEF IInv, ThreadInv, Record
  <2>2. QED
    BY <1>2, <1>3, <1>4, <2>1 DEF IInv, ThreadInv
<1>7. cbs' \subseteq Listeners \ {l} /\ cbs' \ late' \subseteq cbs \ late /\ cbs' \subseteq cbs
  BY <1>1, <1>2
<1>8. \A u \in Threads : \A k : Told(u, k)' <=> Told(u, k)
  BY <1>2 DEF Told
<1>9. HeardInv'
  BY <1>2, <1>3, <1>7, <1>8 DEF IInv, HeardInv
<1>10. CopyInv'
  <2> SUFFICES ASSUME ~overlap' PROVE CopyInv'
    BY DEF CopyInv
  <2>1. ~overlap /\ Busy' = Busy
    BY <1>2 DEF Busy
  <2>2. \A u \in Threads : thr[u].pc = "add" =>
          \A k \in thr[u].told : k \in Listeners \ {l} /\ copy'[k] = val
    BY <1>1, <1>2, <1>3, <2>1 DEF IInv, ThreadInv, CopyInv, Record
  <2>3. QED
    BY <1>2, <1>3, <1>7, <1>8, <2>1, <2>2 DEF IInv, CopyInv
<1>11. LoadInv'
  BY <1>2 DEF IInv, LoadInv, HasRead, Loading
<1>12. QED
  BY <1>5, <1>6, <1>9, <1>10, <1>11 DEF IInv

LEMMA LoadStatStep ==
    ASSUME IInv, NEW t \in Threads, NEW force \in BOOLEAN, LoadStat(t, force) PROVE IInv'
<1>1. PICK r : r = [thr[t] EXCEPT !.pc = "load"]
  OBVIOUS
<1>2. /\ thr \in [Threads -> Record] /\ thr[t] \in Record
      /\ file.mtime \in 0..MaxClock /\ clock \in 0..MaxClock /\ MaxClock \in Nat
  BY TypeFacts, ConfigAssumption DEF IInv
<1>3. /\ thr[t].pc = "idle" /\ seen' = file.mtime /\ Moved(t, r) /\ Begins(t)
      /\ UNCHANGED <<val, cbs, copy, heard, file, applied, clock, sneaked, late>>
  BY <1>1, <1>2 DEF LoadStat, Moved, Record
<1>4. r \in Record /\ r.pc = "load"
  BY <1>1, <1>2 DEF Record
<1>5. /\ thr' \in [Threads -> Record] /\ thr'[t] = r
      /\ \A u \in Threads \ {t} : thr'[u] = thr[u]
  BY <1>2, <1>3, <1>4, MovedFacts
<1>6. /\ calls' \in 0..MaxCalls /\ overlap' \in BOOLEAN /\ (overlap => overlap')
      /\ ~overlap' => \A u \in Threads \ {t} : thr[u].pc = "idle"
  BY <1>3, BeginsFacts
<1>7. ConfigTypeOK'
  <2>1. seen' \in -1..MaxClock
    BY <1>2, <1>3
  <2>2. QED
    BY <1>3, <1>5, <1>6, <2>1, TypeFacts DEF IInv, ConfigTypeOK, Record
<1>8. ThreadInv'
  BY <1>3, <1>4, <1>5 DEF IInv, ThreadInv
<1>9. \A u \in Threads : \A k : (Told(u, k)' <=> Told(u, k)) /\ (Told(u, k) => thr'[u] = thr[u])
  BY <1>3, <1>4, <1>5 DEF Told
<1>10. HeardInv'
  BY <1>3, <1>9 DEF IInv, HeardInv
<1>11. CopyInv'
  <2> SUFFICES ASSUME ~overlap' PROVE CopyInv'
    BY DEF CopyInv
  <2>1. ~overlap /\ \A u \in Threads \ {t} : thr'[u].pc = "idle"
    BY <1>5, <1>6
  <2>2. QED
    BY <1>3, <1>4, <1>5, <1>9, <2>1 DEF IInv, CopyInv, Busy
<1>12. LoadInv'
  <2>1. seen' <= file'.mtime /\ file'.mtime <= clock'
    BY <1>2, <1>3 DEF IInv, LoadInv
  <2>2. Loading(t)' /\ ~HasRead(t)'
    BY <1>4, <1>5 DEF Loading, HasRead
  <2>3. ~overlap' => \A u \in Threads \ {t} : ~HasRead(u)'
    BY <1>5, <1>6 DEF HasRead
  <2>4. QED
    BY <2>1, <2>2, <2>3 DEF LoadInv
<1>13. QED
  BY <1>7, <1>8, <1>10, <1>11, <1>12 DEF IInv

LEMMA LoadFileStep ==
    ASSUME IInv, NEW t \in Threads, LoadFile(t) PROVE IInv'
<1>1. PICK r : r = [thr[t] EXCEPT !.pc = "parse", !.new = file.content]
  OBVIOUS
<1>2. thr \in [Threads -> Record] /\ thr[t] \in Record /\ file.content \in Contents
  BY TypeFacts DEF IInv
<1>3. /\ thr[t].pc = "load" /\ Moved(t, r)
      /\ UNCHANGED <<val, cbs, copy, heard, file, seen, applied, clock, calls, overlap, sneaked,
                     late>>
  BY <1>1, <1>2 DEF LoadFile, Moved, Record
<1>4. r \in Record /\ r.pc = "parse" /\ r.new = file.content
  BY <1>1, <1>2 DEF Record
<1>5. /\ thr' \in [Threads -> Record] /\ thr'[t] = r
      /\ \A u \in Threads \ {t} : thr'[u] = thr[u]
  BY <1>2, <1>3, <1>4, MovedFacts
<1>6. ConfigTypeOK'
  BY <1>3, <1>5, TypeFacts DEF IInv, ConfigTypeOK, Record
<1>7. ThreadInv'
  BY <1>3, <1>4, <1>5 DEF IInv, ThreadInv
<1>8. \A u \in Threads : \A k : (Told(u, k)' <=> Told(u, k)) /\ (Told(u, k) => thr'[u] = thr[u])
  BY <1>3, <1>4, <1>5 DEF Told
<1>9. HeardInv'
  BY <1>3, <1>8 DEF IInv, HeardInv
<1>10. CopyInv'
  BY <1>3, <1>4, <1>5, <1>8, Alone DEF IInv, CopyInv, Busy
<1>11. LoadInv'
  <2>1. seen' <= file'.mtime /\ file'.mtime <= clock' /\ Loading(t)'
    BY <1>3, <1>4, <1>5 DEF IInv, LoadInv, Loading
  <2>2. thr'[t].new = file'.content
    BY <1>3, <1>4, <1>5
  <2>3. \A u \in Threads \ {t} : (HasRead(u)' <=> HasRead(u)) /\ thr'[u] = thr[u]
    BY <1>5 DEF HasRead
  <2>4. QED
    BY <1>3, <2>1, <2>2, <2>3 DEF IInv, LoadInv
<1>12. QED
  BY <1>6, <1>7, <1>9, <1>10, <1>11 DEF IInv

(* A thread that was loading ends its call: the file did not parse, or holds the value. *)
LEMMA LoadEnds ==
    ASSUME IInv, NEW t \in Threads, LoadFromYaml(t), thr[t].new \in {Broken, val}
    PROVE  IInv'
<1>1. /\ thr[t].pc = "parse" /\ Moved(t, AtRest)
      /\ applied' = (IF thr[t].new = Broken THEN applied ELSE thr[t].new)
      /\ UNCHANGED <<val, cbs, copy, heard, file, seen, clock, calls, overlap, sneaked, late>>
  BY DEF LoadFromYaml, Entered, Moved
<1>2. thr[t].new # Broken => thr[t].new \in Values
  BY TypeFacts DEF IInv
<1>3. /\ thr' \in [Threads -> Record] /\ thr'[t] = AtRest
      /\ \A u \in Threads \ {t} : thr'[u] = thr[u]
  BY <1>1, RestFacts, MovedFacts, TypeFacts DEF IInv
<1>4. applied' \in Values
  BY <1>1, <1>2, TypeFacts DEF IInv
<1>5. ConfigTypeOK'
  BY <1>1, <1>3, <1>4, TypeFacts DEF IInv, ConfigTypeOK, Record
<1>6. ThreadInv'
  BY <1>1, <1>3, RestFacts DEF IInv, ThreadInv
<1>7. \A u \in Threads : \A k : (Told(u, k)' <=> Told(u, k)) /\ (Told(u, k) => thr'[u] = thr[u])
  BY <1>1, <1>3, RestFacts DEF Told
<1>8. HeardInv'
  BY <1>1, <1>7 DEF IInv, HeardInv
<1>9. ~overlap => \A u \in Threads : thr'[u].pc = "idle"
  BY <1>1, <1>3, Alone, RestFacts
<1>10. CopyInv'
  BY <1>1, <1>7, <1>9 DEF IInv, CopyInv, Busy
<1>11. LoadInv'
  <2>1. seen' <= file'.mtime /\ file'.mtime <= clock'
    BY <1>1 DEF IInv, LoadInv
  <2>2. ~overlap => \A u \in Threads : ~HasRead(u)'
    BY <1>9 DEF HasRead
  <2>3. ~overlap /\ ~sneaked /\ seen = file.mtime => thr[t].new = file.content
    BY <1>1 DEF IInv, LoadInv, HasRead
  <2>4. QED
    BY <1>1, <2>1, <2>2, <2>3 DEF LoadInv
<1>12. QED
  BY <1>5, <1>6, <1>8, <1>10, <1>11 DEF IInv

(* A thread that was loading goes on with setValue. *)
LEMMA LoadSets ==
    ASSUME IInv, NEW t \in Threads, LoadFromYaml(t), thr[t].new \notin {Broken, val}
    PROVE  IInv'
<1>1. PICK v : v = thr[t].new
  OBVIOUS
<1>2. PICK e : e = Entered(t, v, TRUE)
  OBVIOUS
<1>3. /\ thr[t].pc = "parse" /\ Moved(t, e)
      /\ UNCHANGED <<val, cbs, copy, heard, file, seen, applied, clock, calls, overlap, sneaked,
                     late>>
  BY <1>1, <1>2 DEF LoadFromYaml, Moved
<1>4. v \in Values /\ v # val /\ thr[t].load \in BOOLEAN /\ thr \in [Threads -> Record]
  BY <1>1, TypeFacts, ConfigAssumption DEF IInv, Record
<1>5. /\ e \in Record /\ e.new = v /\ e.told = {} /\ e.load = TRUE
      /\ e.pc = (IF cbs = {} THEN "store" ELSE "notify")
  BY <1>2, <1>4 DEF Entered, Record
<1>6. /\ thr' \in [Threads -> Record] /\ thr'[t] = e
      /\ \A u \in Threads \ {t} : thr'[u] = thr[u]
  BY <1>3, <1>4, <1>5, MovedFacts
<1>7. ConfigTypeOK'
  BY <1>3, <1>6, TypeFacts DEF IInv, ConfigTypeOK, Record
<1>8. ThreadInv'
  BY <1>3, <1>4, <1>5, <1>6 DEF IInv, ThreadInv
<1>9. \A u \in Threads, k \in cbs : (Told(u, k)' <=> Told(u, k)) /\ (Told(u, k) => thr'[u] = thr[u])
  BY <1>3, <1>5, <1>6 DEF Told
<1>10. HeardInv'
  BY <1>3, <1>9 DEF IInv, HeardInv
<1>11. CopyInv'
  BY <1>3, <1>5, <1>6, <1>9, Alone DEF IInv, CopyInv, Busy
<1>12. LoadInv'
  <2>1. seen' <= file'.mtime /\ file'.mtime <= clock'
    BY <1>3 DEF IInv, LoadInv
  <2>2. HasRead(t) /\ HasRead(t)' /\ Loading(t)' /\ thr'[t].new = thr[t].new
    BY <1>1, <1>3, <1>5, <1>6 DEF HasRead, Loading
  <2>3. \A u \in Threads \ {t} : (HasRead(u)' <=> HasRead(u)) /\ thr'[u] = thr[u]
    BY <1>6 DEF HasRead
  <2>4. QED
    BY <1>3, <2>1, <2>2, <2>3 DEF IInv, LoadInv
<1>13. QED
  BY <1>7, <1>8, <1>10, <1>11, <1>12 DEF IInv

(* What an editor and the clock change: the file's time never goes back, and stays *)
(* when the file changes only if that is noted.                                    *)
LEMMA EnvironmentFacts ==
    ASSUME IInv, Environment
    PROVE  /\ UNCHANGED <<val, cbs, copy, heard, thr, seen, applied, calls, overlap, late>>
           /\ clock' \in 0..MaxClock /\ sneaked' \in BOOLEAN
           /\ file' \in [content : Contents, mtime : 0..MaxClock]
           /\ seen <= file.mtime /\ file.mtime <= file'.mtime /\ file'.mtime <= clock'
           /\ sneaked => sneaked'
           /\ file' # file => sneaked' \/ file.mtime < file'.mtime
           /\ seen \in Int /\ file.mtime \in Int /\ file'.mtime \in Int
<1>1. /\ file \in [content : Contents, mtime : 0..MaxClock] /\ clock \in 0..MaxClock
      /\ seen \in -1..MaxClock /\ sneaked \in BOOLEAN /\ MaxClock \in Nat
      /\ seen <= file.mtime /\ file.mtime <= clock
  BY TypeFacts, ConfigAssumption DEF IInv, LoadInv
<1>2. CASE Tick
  BY <1>1, <1>2 DEF Tick
<1>3. CASE \E c \in Contents : WriteFile(c)
  <2>1. PICK c \in Contents : WriteFile(c)
    BY <1>3
  <2>2. /\ file' = [content |-> c, mtime |-> clock] /\ clock' = clock
        /\ UNCHANGED <<val, cbs, copy, heard, thr, seen, applied, calls, overlap, late>>
    BY <2>1 DEF WriteFile
  <2>3. sneaked' = (sneaked \/ clock = file.mtime)
    BY <2>1 DEF WriteFile
  <2>4. sneaked' \in BOOLEAN
    BY <2>3, Zenon
  <2>5. (sneaked => sneaked') /\ (clock = file.mtime => sneaked')
    BY <2>3
  <2>6. file' \in [content : Contents, mtime : 0..MaxClock] /\ file'.mtime = clock
    BY <1>1, <2>2
  <2>7. file.mtime <= clock /\ (clock = file.mtime \/ file.mtime < clock)
    BY <1>1
  <2>8. QED
    BY <1>1, <2>2, <2>4, <2>5, <2>6, <2>7
<1>4. QED
  BY <1>2, <1>3 DEF Environment

LEMMA EnvironmentStep ==
    ASSUME IInv, Environment PROVE IInv'
<1>1. /\ UNCHANGED <<val, cbs, copy, heard, thr, seen, applied, calls, overlap, late>>
      /\ clock' \in 0..MaxClock /\ sneaked' \in BOOLEAN
      /\ file' \in [content : Contents, mtime : 0..MaxClock]
      /\ seen <= file.mtime /\ file.mtime <= file'.mtime /\ file'.mtime <= clock'
      /\ sneaked => sneaked'
      /\ file' # file => sneaked' \/ file.mtime < file'.mtime
      /\ seen \in Int /\ file.mtime \in Int /\ file'.mtime \in Int
  BY EnvironmentFacts
<1>2. ConfigTypeOK'
  BY <1>1, TypeFacts DEF IInv, ConfigTypeOK, Record
<1>3. ThreadInv' /\ HeardInv' /\ CopyInv'
  BY <1>1 DEF IInv, ThreadInv, HeardInv, CopyInv, Told, Busy
<1>4. LoadInv'
  <2>1. seen' <= file'.mtime /\ file'.mtime <= clock'
    BY <1>1
  <2>2. ~sneaked' /\ seen' = file'.mtime => file' = file /\ ~sneaked
    BY <1>1
  <2>3. QED
    BY <1>1, <2>1, <2>2 DEF IInv, LoadInv, HasRead, Loading
<1>5. QED
  BY <1>2, <1>3, <1>4 DEF IInv

LEMMA InvInit ==
    ASSUME ConfigInit({LogListener}) PROVE IInv
<1>1. \A t \in Threads : thr[t] = AtRest
  BY DEF ConfigInit
<1>2. ConfigTypeOK
  <2>1. file \in [content : Contents, mtime : 0..MaxClock] /\ file.mtime = 0
    BY ConfigAssumption DEF ConfigInit
  <2>2. thr \in [Threads -> Record]
    BY RestFacts DEF ConfigInit
  <2>3. copy \in [Listeners -> Values \cup {Nothing}] /\ heard \in [Listeners -> SUBSET Values]
    BY ConfigAssumption DEF ConfigInit
  <2>4. seen \in -1..MaxClock /\ clock \in 0..MaxClock /\ calls \in 0..MaxCalls
    BY ConfigAssumption DEF ConfigInit
  <2>5. overlap \in BOOLEAN /\ sneaked \in BOOLEAN
    BY DEF ConfigInit
  <2>6. QED
    BY <2>1, <2>2, <2>3, <2>4, <2>5, ConfigAssumption, LogAssumption, TypeFacts DEF ConfigInit
<1>3. LogListener \in Listeners
  BY LogAssumption
<1>4. ThreadInv /\ HeardInv /\ CopyInv
  BY <1>1, <1>3, RestFacts DEF ConfigInit, ThreadInv, HeardInv, CopyInv, Told, Busy
<1>5. LoadInv
  <2>1. file.mtime = 0 /\ seen = -1 /\ clock = 0
    BY DEF ConfigInit
  <2>2. QED
    BY <2>1 DEF LoadInv
<1>6. QED
  BY <1>2, <1>4, <1>5 DEF IInv

LEMMA InvStep ==
    ASSUME IInv, [Next]_vars PROVE IInv'
<1>1. ASSUME UNCHANGED configVars PROVE IInv'
  BY <1>1 DEF configVars, IInv, ConfigTypeOK, ThreadInv, HeardInv, CopyInv, LoadInv, Told, Busy,
              HasRead, Loading
<1>2. ASSUME NEW t \in Threads, ConfigStep(t) PROVE IInv'
  <2>1. LoadFromYaml(t) => IInv'
    BY LoadEnds, LoadSets
  <2>2. QED
    BY <1>2, <2>1, SetValueStep, StoreStep, AddListenerStep, LoadStatStep, LoadFileStep
       DEF ConfigStep
<1>3. ASSUME NEW t \in Threads, NEW l \in Listeners, Notify(t, l) \/ ReadFirst(t, l) PROVE IInv'
  BY <1>3, NotifyStep, ReadFirstStep
<1>4. ASSUME NEW t \in Threads,
             NotifyStart(t) \/ NotifyLogger(t) \/ NotifyClear(t) \/ NotifyAppender(t)
      PROVE  IInv'
  <2>1. UNCHANGED configVars \/ Notify(t, LogListener)
    BY <1>4 DEF NotifyStart, NotifyLogger, NotifyClear, NotifyAppender, Proceeds, Through, Reaches
  <2>2. QED
    BY <1>1, <1>3, <2>1, LogAssumption
<1>5. ASSUME Program PROVE IInv'
  BY <1>1, <1>5 DEF Program, SetLoggerFormatter, AddAppender, DelAppender, ClearAppenders,
                    SetAppenderFormatter, Changes
<1>6. UNCHANGED vars => UNCHANGED configVars
  BY DEF vars
<1>7. QED
  BY <1>1, <1>2, <1>3, <1>4, <1>5, <1>6, DelListenerStep, EnvironmentStep DEF Next, Step

LEMMA InvAlways == Spec => []IInv
<1>1. Init => IInv
  BY InvInit DEF Init
<1>2. IInv /\ [Next]_vars => IInv'
  BY InvStep
<1>3. QED
  BY <1>1, <1>2, PTL DEF Spec

-----------------------------------------------------------------------------
(* Listeners know the value: each has it when no call is under way, as long as *)
(* no two calls overlapped, and however they overlap none but a listener added *)
(* in the middle of setValue is passed over (config.h:388-417).                *)
THEOREM ListenersAlwaysInformed == Spec => []ListenersInformed
<1>1. IInv => ListenersInformed
  <2> SUFFICES ASSUME IInv PROVE ListenersInformed
    OBVIOUS
  <2>1. Busy = {} => \A t \in Threads : \A l : ~Told(t, l)
    BY DEF Busy, Told
  <2>2. CopiesFollow
    BY <2>1 DEF CopiesFollow, IInv, CopyInv
  <2>3. Announced
    BY DEF Announced, IInv, HeardInv
  <2>4. QED
    BY <2>2, <2>3 DEF ListenersInformed
<1>2. QED
  BY <1>1, InvAlways, PTL

(* LoadFromConfDir loses no change of a file whose modification time tells it  *)
(* apart, although the time is remembered before the file is read              *)
(* (config.cpp:94-110).                                                        *)
THEOREM LoadedAlwaysLatest == Spec => []LoadedLatest
<1>1. IInv => LoadedLatest
  <2> SUFFICES ASSUME IInv, Busy = {} PROVE LoadedLatest
    BY DEF LoadedLatest
  <2>1. \A t \in Threads : ~Loading(t)
    BY DEF Busy, Loading
  <2>2. QED
    BY <2>1 DEF LoadedLatest, IInv, LoadInv
<1>2. QED
  BY <1>1, InvAlways, PTL

-----------------------------------------------------------------------------
(***************************************************************************)
(* The loggers.  Once LogIniter's listener has dealt with a name, that      *)
(* logger is as the new value says, until it gets to it as the old one      *)
(* says, and in between as far as the run has got, unless the program       *)
(* changes it itself.                                                       *)
(***************************************************************************)
Appenders == [type : {1, 2}, file : Texts, level : {Unknown, 1}, fmt : Used, own : BOOLEAN]

(* Logger g has its types, and appenders that inherit have its format. *)
Sound(g) ==
    /\ g.level \in {Unknown} \cup Levels /\ g.fmt \in Used
    /\ \A i \in DOMAIN g.apps : /\ g.apps[i] \in Appenders
                                /\ ~g.apps[i].own => g.apps[i].fmt = g.fmt
    /\ \A i \in DOMAIN g.refs : g.refs[i] \in Handles

(* Appender b is what the definition a in the LogDefine d asks for. *)
Fits(b, a, d) ==
    /\ b.type = a.type /\ b.file = a.file /\ b.level = Unknown
    /\ Valid(a.fmt) => b.fmt = a.fmt
    /\ ~Valid(a.fmt) /\ Valid(d.fmt) => b.fmt = d.fmt

(* Logger g, of name n, is as d says; without a definition it has no appender *)
(* of its own, unless it is the root, and lets every level through.           *)
Follows(n, g, d) ==
    IF d = NoDefine THEN n # "root" => DOMAIN g.apps = {} /\ DOMAIN g.refs = {} /\ g.level <= 1
    ELSE /\ g.level = d.level /\ DOMAIN g.refs = {}
         /\ DOMAIN g.apps = DOMAIN Effective(d.apps)
         /\ \A i \in DOMAIN g.apps : Fits(g.apps[i], d.apps[i], d)

(* Logger g is on its way to what d says: the run is to take step k next. *)
Partly(g, d, k) ==
    /\ g.level = d.level /\ (Valid(d.fmt) => g.fmt = d.fmt)
    /\ k > 1 => /\ DOMAIN g.refs = {}
                /\ DOMAIN g.apps = {i \in DOMAIN Effective(d.apps) : i < k - 1}
                /\ \A i \in DOMAIN g.apps : Fits(g.apps[i], d.apps[i], d)

(* The run of the listener in thread t is past the name n, or at it. *)
Past(t, n) == Told(t, LogListener) \/ (todo[t] # {} /\ n \notin todo[t])

AtName(t, n) == step[t] # NoStep /\ step[t].name = n

ShapeInv == DOMAIN loggers = Names /\ \A n \in Names : Sound(loggers[n])

(* The program's appenders: one that inherits and has not strayed has the      *)
(* format of the one logger that holds it.                                     *)
HeldInv ==
    /\ DOMAIN held = Handles /\ (\A h \in Handles : held[h] \in Appenders)
    /\ strayed \subseteq Handles
    /\ \A n \in Names : \A h \in Handles \ strayed :
         Holds(n, h) /\ ~held[h].own =>
           held[h].fmt = loggers[n].fmt /\ \A m \in Names : Holds(m, h) => m = n

RunInv ==
    /\ DOMAIN todo = Threads /\ DOMAIN step = Threads /\ LogListener \in cbs
    /\ \A t \in Threads :
         /\ todo[t] \subseteq Names /\ (todo[t] # {} => Pending(t))
         /\ step[t] # NoStep => /\ step[t].name \in todo[t] /\ step[t].next \in Nat \ {0}
                                /\ thr[t].new[step[t].name] # NoDefine

CountInv == changes \in 0..MaxChanges /\ touched \subseteq Names

LoggerInv == ShapeInv /\ HeldInv /\ RunInv /\ CountInv

FollowInv ==
    ~overlap => \A n \in Names \ touched :
      /\ (\A t \in Threads : ~Past(t, n) /\ ~AtName(t, n)) => Follows(n, loggers[n], val[n])
      /\ \A t \in Threads : Past(t, n) => Follows(n, loggers[n], thr[t].new[n])
      /\ \A t \in Threads : AtName(t, n) => Partly(loggers[n], thr[t].new[n], step[t].next)

-----------------------------------------------------------------------------
(* What the methods of Logger keep. *)

LEMMA WithLevelFacts ==
    ASSUME NEW g, Sound(g), NEW level \in {Unknown} \cup Levels
    PROVE  /\ Sound(WithLevel(g, level)) /\ WithLevel(g, level).level = level
           /\ WithLevel(g, level).fmt = g.fmt /\ WithLevel(g, level).refs = g.refs
BY DEF Sound, WithLevel

(* A new format reaches the appenders that inherit. *)
LEMMA SetFormatterFacts ==
    ASSUME NEW g, Sound(g), NEW f \in Used
    PROVE  /\ Sound(SetFormatter(g, f)) /\ SetFormatter(g, f).level = g.level
           /\ SetFormatter(g, f).fmt = f /\ SetFormatter(g, f).refs = g.refs
<1>1. PICK h : h = SetFormatter(g, f)
  OBVIOUS
<1>2. /\ h.level = g.level /\ h.fmt = f /\ h.refs = g.refs /\ DOMAIN h.apps = DOMAIN g.apps
      /\ \A i \in DOMAIN g.apps :
           h.apps[i] = IF g.apps[i].own THEN g.apps[i] ELSE [g.apps[i] EXCEPT !.fmt = f]
  BY <1>1 DEF SetFormatter
<1>3. ASSUME NEW i \in DOMAIN g.apps
      PROVE  h.apps[i] \in Appenders /\ (~h.apps[i].own => h.apps[i].fmt = f)
  <2>1. g.apps[i] \in Appenders
    BY DEF Sound
  <2>2. CASE g.apps[i].own
    BY <1>2, <2>1, <2>2
  <2>3. CASE ~g.apps[i].own
    BY <1>2, <2>1, <2>3 DEF Appenders
  <2>4. QED
    BY <2>2, <2>3
<1>4. QED
  BY <1>1, <1>2, <1>3 DEF Sound

LEMMA ClearedFacts ==
    ASSUME NEW g, Sound(g)
    PROVE  /\ Sound(Cleared(g)) /\ Cleared(g).level = g.level /\ Cleared(g).fmt = g.fmt
           /\ DOMAIN Cleared(g).apps = {} /\ DOMAIN Cleared(g).refs = {}
<1>1. PICK h : h = Cleared(g)
  OBVIOUS
<1>2. /\ h.level = g.level /\ h.fmt = g.fmt /\ DOMAIN h.apps = {} /\ DOMAIN h.refs = {}
  BY <1>1 DEF Cleared, WithAppenders, NoAppenders
<1>3. QED
  BY <1>1, <1>2 DEF Sound

LEMMA AddOwnFacts ==
    ASSUME NEW g, Sound(g), NEW i, NEW a \in Appenders, ~a.own => a.fmt = g.fmt
    PROVE  /\ Sound(AddOwn(g, i, a)) /\ AddOwn(g, i, a).level = g.level
           /\ AddOwn(g, i, a).fmt = g.fmt /\ AddOwn(g, i, a).refs = g.refs
           /\ DOMAIN AddOwn(g, i, a).apps = DOMAIN g.apps \cup {Back(g, i)}
           /\ \A j \in DOMAIN AddOwn(g, i, a).apps :
                AddOwn(g, i, a).apps[j] = IF j = Back(g, i) THEN a ELSE g.apps[j]
<1>1. PICK h : h = AddOwn(g, i, a)
  OBVIOUS
<1>2. PICK k : k = Back(g, i)
  OBVIOUS
<1>3. /\ h.level = g.level /\ h.fmt = g.fmt /\ h.refs = g.refs
      /\ DOMAIN h.apps = DOMAIN g.apps \cup {k}
      /\ \A j \in DOMAIN h.apps : h.apps[j] = IF j = k THEN a ELSE g.apps[j]
  BY <1>1, <1>2 DEF AddOwn, WithAppenders, Put
<1>4. Sound(h)
  BY <1>3 DEF Sound
<1>5. QED
  BY <1>1, <1>2, <1>3, <1>4

(* Behind the last appender, and not in front of i. *)
LEMMA BackFacts ==
    ASSUME NEW g, NEW i \in Int, DOMAIN g.refs = {},
           \A j \in DOMAIN g.apps : j \in Int /\ j < i
    PROVE  Back(g, i) = i
<1> DEFINE K == {i} \cup {j + 1 : j \in DOMAIN g.apps \cup DOMAIN g.refs}
           P(k) == k >= i /\ \A j \in DOMAIN g.apps \cup DOMAIN g.refs : j < k
<1>1. i \in K /\ P(i)
  OBVIOUS
<1>2. \A k \in K : P(k) => k = i
  OBVIOUS
<1>3. Back(g, i) = CHOOSE k \in K : P(k)
  BY DEF Back
<1> HIDE DEF K, P
<1>4. QED
  BY <1>1, <1>2, <1>3

LEMMA AddRefFacts ==
    ASSUME NEW g, Sound(g), NEW h \in Handles
    PROVE  /\ Sound(AddRef(g, h)) /\ AddRef(g, h).fmt = g.fmt
           /\ \A i \in DOMAIN AddRef(g, h).refs :
                \/ AddRef(g, h).refs[i] = h
                \/ i \in DOMAIN g.refs /\ AddRef(g, h).refs[i] = g.refs[i]
<1>1. PICK b : b = AddRef(g, h)
  OBVIOUS
<1>2. PICK k : k = Back(g, 1)
  OBVIOUS
<1>3. /\ b.level = g.level /\ b.fmt = g.fmt /\ b.apps = g.apps
      /\ DOMAIN b.refs = DOMAIN g.refs \cup {k}
      /\ \A j \in DOMAIN b.refs : b.refs[j] = IF j = k THEN h ELSE g.refs[j]
  BY <1>1, <1>2 DEF AddRef, WithAppenders, Put
<1>4. QED
  BY <1>1, <1>3 DEF Sound

LEMMA DelRefFacts ==
    ASSUME NEW g, Sound(g), NEW h \in Handles
    PROVE  /\ Sound(DelRef(g, h)) /\ DelRef(g, h).fmt = g.fmt
           /\ \A i \in DOMAIN DelRef(g, h).refs :
                i \in DOMAIN g.refs /\ DelRef(g, h).refs[i] = g.refs[i]
<1> DEFINE places == {i \in DOMAIN g.refs : g.refs[i] = h}
<1>1. PICK first : first = CHOOSE i \in places : \A j \in places : i <= j
  OBVIOUS
<1>2. PICK b : b = DelRef(g, h)
  OBVIOUS
<1>3. /\ b.level = g.level /\ b.fmt = g.fmt /\ b.apps = g.apps
      /\ b.refs = [i \in DOMAIN g.refs \ {first} |-> g.refs[i]]
  BY <1>1, <1>2 DEF DelRef, WithAppenders
<1>4. QED
  BY <1>2, <1>3 DEF Sound

(* An appender made for a logger with format f from the definition a. *)
LEMMA AppenderFacts ==
    ASSUME NEW a \in AppenderDefines, NEW f \in Used, NEW d, Valid(d.fmt) => f = d.fmt
    PROVE  /\ Appender(a, f) \in Appenders
           /\ ~Appender(a, f).own => Appender(a, f).fmt = f
           /\ Fits(Appender(a, f), a, d)
<1>1. PICK own : own = Valid(a.fmt)
  OBVIOUS
<1>2. own \in BOOLEAN /\ (own <=> Valid(a.fmt))
  <2>1. Valid(a.fmt) \in BOOLEAN
    BY DEF Valid
  <2>2. own \in BOOLEAN
    BY <1>1, <2>1, Zenon
  <2>3. own <=> Valid(a.fmt)
    BY <1>1
  <2>4. QED
    BY <2>2, <2>3, Zenon
<1>3. PICK x : x = IF Valid(a.fmt) THEN a.fmt ELSE f
  OBVIOUS
<1>4. x \in Used
  BY <1>3 DEF Valid, Used
<1>5. PICK b : b = Appender(a, f)
  OBVIOUS
<1>6. b = [type |-> a.type, file |-> a.file, level |-> Unknown, fmt |-> x, own |-> own]
  BY <1>1, <1>3, <1>5, Zenon DEF Appender
<1>7. b \in Appenders
  BY <1>2, <1>4, <1>6 DEF Appenders, AppenderDefines
<1>8. b.type = a.type /\ b.file = a.file /\ b.level = Unknown /\ b.fmt = x /\ b.own = own
  BY <1>6
<1>9. ~b.own => b.fmt = f
  BY <1>2, <1>3, <1>8
<1>10. Fits(b, a, d)
  BY <1>3, <1>8 DEF Fits
<1>11. QED
  BY <1>5, <1>7, <1>9, <1>10

LEMMA StdoutFacts ==
    ASSUME NEW f \in Used
    PROVE  Stdout(f) \in Appenders /\ Stdout(f).fmt = f /\ Stdout(f).own = FALSE
BY LogAssumption DEF Stdout, Appenders

LEMMA FreshFacts ==
    ASSUME NEW n
    PROVE  Sound(Fresh(n)) /\ Follows(n, Fresh(n), NoDefine) /\ DOMAIN Fresh(n).refs = {}
<1>1. PICK h : h = Fresh(n)
  OBVIOUS
<1>2. /\ h.level = 1 /\ h.fmt = DefaultFormat /\ DOMAIN h.refs = {}
      /\ DOMAIN h.apps = (IF n = "root" THEN {1} ELSE {})
      /\ \A i \in DOMAIN h.apps : h.apps[i] = Stdout(DefaultFormat)
  BY <1>1 DEF Fresh, NoAppenders
<1>3. DefaultFormat \in Used
  BY DEF Used
<1>4. Stdout(DefaultFormat) \in Appenders /\ Stdout(DefaultFormat).fmt = DefaultFormat
  BY <1>3, StdoutFacts
<1>5. QED
  BY <1>1, <1>2, <1>3, <1>4 DEF Sound, Follows, Levels

-----------------------------------------------------------------------------
(* The program's appenders. *)

(* Loggers keep their formats and hold nothing new. *)
LEMMA HeldKept ==
    ASSUME HeldInv, UNCHANGED <<held, strayed>>,
           \A m \in Names : /\ loggers'[m].fmt = loggers[m].fmt
                            /\ \A h \in Handles : Holds(m, h)' => Holds(m, h)
    PROVE  HeldInv'
BY DEF HeldInv

(* Logger n gets the format f, and with it those it holds that inherit. *)
LEMMA HeldReformatted ==
    ASSUME ShapeInv, HeldInv, NEW n \in Names, NEW f \in Used, NEW g,
           loggers' = [loggers EXCEPT ![n] = g], g.fmt = f, g.refs = loggers[n].refs,
           held' = Reformatted(n, f), UNCHANGED strayed
    PROVE  HeldInv'
<1>1. /\ loggers'[n] = g /\ \A m \in Names \ {n} : loggers'[m] = loggers[m]
  BY DEF ShapeInv
<1>2. \A m \in Names : \A h \in Handles : Holds(m, h)' <=> Holds(m, h)
  <2>1. \A m \in Names : loggers'[m].refs = loggers[m].refs
    BY <1>1
  <2>2. QED
    BY <2>1 DEF Holds
<1>3. /\ DOMAIN held' = Handles
      /\ \A h \in Handles : held'[h] = IF Holds(n, h) /\ ~held[h].own
                                       THEN [held[h] EXCEPT !.fmt = f] ELSE held[h]
  BY DEF Reformatted
<1>4. ASSUME NEW h \in Handles
      PROVE  /\ held'[h] \in Appenders /\ held'[h].own = held[h].own
             /\ Holds(n, h) /\ ~held[h].own => held'[h].fmt = f
             /\ ~Holds(n, h) => held'[h].fmt = held[h].fmt
  <2>1. held[h] \in Appenders
    BY DEF HeldInv
  <2>2. CASE Holds(n, h) /\ ~held[h].own
    BY <1>3, <2>1, <2>2 DEF Appenders
  <2>3. CASE ~(Holds(n, h) /\ ~held[h].own)
    BY <1>3, <2>1, <2>3
  <2>4. QED
    BY <2>2, <2>3
<1>5. ASSUME NEW m \in Names, NEW h \in Handles \ strayed, Holds(m, h), ~held'[h].own
      PROVE  held'[h].fmt = loggers'[m].fmt /\ \A k \in Names : Holds(k, h) => k = m
  <2>1. /\ held[h].fmt = loggers[m].fmt /\ \A k \in Names : Holds(k, h) => k = m
    BY <1>4, <1>5 DEF HeldInv
  <2>2. CASE m = n
    BY <1>1, <1>4, <1>5, <2>1, <2>2
  <2>3. CASE m # n
    <3>1. ~Holds(n, h)
      BY <2>1, <2>3
    <3>2. QED
      BY <1>1, <1>4, <2>1, <2>3, <3>1
  <2>4. QED
    BY <2>2, <2>3
<1>6. QED
  BY <1>2, <1>3, <1>4, <1>5 DEF HeldInv

(* One logger is replaced. *)
LEMMA ShapeKept ==
    ASSUME ShapeInv, NEW n \in Names, NEW g, Sound(g), loggers' = [loggers EXCEPT ![n] = g]
    PROVE  /\ ShapeInv' /\ loggers'[n] = g
           /\ \A m \in Names \ {n} : loggers'[m] = loggers[m]
<1>1. /\ DOMAIN loggers' = Names /\ loggers'[n] = g
      /\ \A m \in Names \ {n} : loggers'[m] = loggers[m]
  BY DEF ShapeInv
<1>2. \A m \in Names : Sound(loggers'[m])
  BY <1>1 DEF ShapeInv
<1>3. QED
  BY <1>1, <1>2 DEF ShapeInv, Sound

(* Steps that leave the loggers and the value alone, and take no run of the  *)
(* listener further.                                                         *)
LEMMA QuietStep ==
    ASSUME LoggerInv, FollowInv, UNCHANGED <<logVars, val>>,
           LogListener \in cbs', overlap => overlap',
           \A u \in Threads :
             /\ Told(u, LogListener)' <=> Told(u, LogListener)
             /\ Told(u, LogListener) \/ Pending(u) => thr'[u].new = thr[u].new
             /\ Pending(u) => Pending(u)'
    PROVE  LoggerInv' /\ FollowInv'
<1>0. UNCHANGED <<loggers, held, todo, step, daemon, changes, touched, strayed, val>>
  BY DEF logVars
<1>1. LoggerInv'
  <2>1. ShapeInv' /\ HeldInv' /\ CountInv'
    BY <1>0 DEF LoggerInv, ShapeInv, HeldInv, CountInv, Sound, Holds
  <2>2. RunInv'
    BY <1>0 DEF LoggerInv, RunInv
  <2>3. QED
    BY <2>1, <2>2 DEF LoggerInv
<1>2. \A u \in Threads : \A n :
        /\ Past(u, n)' <=> Past(u, n)
        /\ AtName(u, n)' <=> AtName(u, n)
        /\ Past(u, n) \/ AtName(u, n) => thr'[u].new = thr[u].new
  BY <1>0 DEF Past, AtName, LoggerInv, RunInv
<1>3. FollowInv'
  <2> SUFFICES ASSUME ~overlap', NEW n \in Names \ touched
               PROVE  /\ (\A t \in Threads : ~Past(t, n)' /\ ~AtName(t, n)') =>
                           Follows(n, loggers[n], val[n])'
                      /\ \A t \in Threads : Past(t, n)' => Follows(n, loggers[n], thr[t].new[n])'
                      /\ \A t \in Threads : AtName(t, n)' =>
                           Partly(loggers[n], thr[t].new[n], step[t].next)'
    BY <1>0 DEF FollowInv
  <2>1. /\ (\A t \in Threads : ~Past(t, n) /\ ~AtName(t, n)) => Follows(n, loggers[n], val[n])
        /\ \A t \in Threads : Past(t, n) => Follows(n, loggers[n], thr[t].new[n])
        /\ \A t \in Threads : AtName(t, n) => Partly(loggers[n], thr[t].new[n], step[t].next)
    BY DEF FollowInv
  <2>2. QED
    BY <1>0, <1>2, <2>1 DEF Follows, Partly, Effective
<1>4. QED
  BY <1>1, <1>3

(* Thread t, which tells nobody anything, moves to the record r. *)
LEMMA MoverStep ==
    ASSUME IInv, LoggerInv, FollowInv, UNCHANGED <<logVars, val>>,
           LogListener \in cbs', overlap => overlap',
           NEW t \in Threads, NEW r \in Record, Moved(t, r),
           thr[t].pc \notin {"notify", "store"}, r.pc # "store", r.pc = "notify" => r.told = {}
    PROVE  LoggerInv' /\ FollowInv'
<1>1. thr'[t] = r /\ \A u \in Threads \ {t} : thr'[u] = thr[u]
  BY TypeFacts, MovedFacts DEF IInv
<1>2. ASSUME NEW u \in Threads
      PROVE  /\ Told(u, LogListener)' <=> Told(u, LogListener)
             /\ Told(u, LogListener) \/ Pending(u) => thr'[u].new = thr[u].new
             /\ Pending(u) => Pending(u)'
  <2>1. CASE u = t
    BY <1>1, <2>1 DEF Told, Pending
  <2>2. CASE u # t
    BY <1>1, <2>2 DEF Told, Pending
  <2>3. QED
    BY <2>1, <2>2
<1>3. QED
  BY <1>2, QuietStep

(* setValue and the loads on the way to it. *)
LEMMA EnteredFacts ==
    ASSUME IInv, LoggerInv, NEW t \in Threads, NEW v \in Values, NEW load \in BOOLEAN
    PROVE  /\ Entered(t, v, load) \in Record
           /\ Entered(t, v, load).pc \in {"idle", "notify"} /\ Entered(t, v, load).told = {}
<1>1. cbs # {}
  BY DEF LoggerInv, RunInv
<1>2. CASE v = val
  BY <1>2, RestFacts DEF Entered
<1>3. CASE v # val
  BY <1>1, <1>3 DEF Entered, Record
<1>4. QED
  BY <1>2, <1>3

LEMMA QuietConfig ==
    ASSUME IInv, LoggerInv, FollowInv, UNCHANGED logVars,
           NEW t \in Threads, ConfigStep(t), ~Store(t)
    PROVE  LoggerInv' /\ FollowInv'
<1> USE DEF LoggerInv, RunInv
<1>0. thr \in [Threads -> Record] /\ thr[t] \in Record
  BY TypeFacts DEF IInv
<1>1. ASSUME NEW v \in Values, SetValue(t, v) PROVE LoggerInv' /\ FollowInv'
  <2>1. PICK r : r = Entered(t, v, FALSE)
    OBVIOUS
  <2>2. /\ Moved(t, r) /\ thr[t].pc = "idle" /\ Begins(t) /\ UNCHANGED <<val, cbs>>
    BY <1>1, <2>1 DEF SetValue, Moved
  <2>3. overlap => overlap'
    BY <2>2, BeginsFacts
  <2>4. r \in Record /\ r.pc \in {"idle", "notify"} /\ r.told = {}
    BY <2>1, EnteredFacts
  <2>5. QED
    BY <2>2, <2>3, <2>4, MoverStep
<1>2. ASSUME AddListener(t) PROVE LoggerInv' /\ FollowInv'
  <2>1. /\ Moved(t, AtRest) /\ thr[t].pc = "add" /\ cbs \subseteq cbs' /\ UNCHANGED <<val, overlap>>
    BY <1>2 DEF AddListener, Moved
  <2>2. QED
    BY <2>1, RestFacts, MoverStep
<1>3. ASSUME LoadFile(t) PROVE LoggerInv' /\ FollowInv'
  <2>1. PICK r : r = [thr[t] EXCEPT !.pc = "parse", !.new = file.content]
    OBVIOUS
  <2>2. file.content \in Contents
    BY TypeFacts DEF IInv
  <2>3. Moved(t, r) /\ thr[t].pc = "load" /\ UNCHANGED <<val, cbs, overlap>>
    BY <1>0, <1>3, <2>1 DEF LoadFile, Moved, Record
  <2>4. r \in Record /\ r.pc = "parse"
    BY <1>0, <2>1, <2>2 DEF Record
  <2>5. QED
    BY <2>3, <2>4, MoverStep
<1>4. ASSUME LoadFromYaml(t) PROVE LoggerInv' /\ FollowInv'
  <2>1. PICK r : r = IF thr[t].new = Broken THEN AtRest ELSE Entered(t, thr[t].new, TRUE)
    OBVIOUS
  <2>2. Moved(t, r) /\ thr[t].pc = "parse" /\ UNCHANGED <<val, cbs, overlap>>
    BY <1>4, <2>1 DEF LoadFromYaml, Moved
  <2>3. thr[t].new # Broken => thr[t].new \in Values
    BY <1>0, ConfigAssumption DEF Record
  <2>4. r \in Record /\ r.pc \in {"idle", "notify"} /\ r.told = {}
    BY <2>1, <2>3, RestFacts, EnteredFacts
  <2>5. QED
    BY <2>2, <2>4, MoverStep
<1>5. ASSUME NEW force \in BOOLEAN, LoadStat(t, force) PROVE LoggerInv' /\ FollowInv'
  <2>1. PICK r : r = [thr[t] EXCEPT !.pc = "load"]
    OBVIOUS
  <2>2. Moved(t, r) /\ thr[t].pc = "idle" /\ Begins(t) /\ UNCHANGED <<val, cbs>>
    BY <1>0, <1>5, <2>1 DEF LoadStat, Moved, Record
  <2>3. overlap => overlap'
    BY <2>2, BeginsFacts
  <2>4. r \in Record /\ r.pc = "load"
    BY <1>0, <2>1 DEF Record
  <2>5. QED
    BY <2>2, <2>3, <2>4, MoverStep
<1>6. QED
  BY <1>1, <1>2, <1>3, <1>4, <1>5 DEF ConfigStep

(* The second half of setValue: the loggers are already as the new value says. *)
LEMMA LoggersStore ==
    ASSUME IInv, LoggerInv, FollowInv, UNCHANGED logVars, NEW t \in Threads, Store(t)
    PROVE  LoggerInv' /\ FollowInv'
<1>0. UNCHANGED <<loggers, held, todo, step, daemon, changes, touched, strayed>>
  BY DEF logVars
<1>1. /\ thr[t].pc = "store" /\ Moved(t, AtRest) /\ val' = thr[t].new
      /\ UNCHANGED <<cbs, overlap>>
  BY DEF Store, Moved
<1>2. thr'[t] = AtRest /\ \A u \in Threads \ {t} : thr'[u] = thr[u]
  BY <1>1, RestFacts, MovedFacts, TypeFacts DEF IInv
<1>3. LoggerInv'
  <2>1. todo[t] = {} /\ step[t] = NoStep
    BY <1>1 DEF LoggerInv, RunInv, Pending
  <2>2. RunInv'
    BY <1>0, <1>1, <1>2, <2>1 DEF LoggerInv, RunInv, Pending
  <2>3. ShapeInv' /\ HeldInv' /\ CountInv'
    BY <1>0 DEF LoggerInv, ShapeInv, HeldInv, CountInv, Sound, Holds
  <2>4. QED
    BY <2>2, <2>3 DEF LoggerInv
<1>4. FollowInv'
  <2> SUFFICES ASSUME ~overlap, NEW n \in Names \ touched
               PROVE  /\ Follows(n, loggers[n], thr[t].new[n])
                      /\ \A u \in Threads : ~Past(u, n)' /\ ~AtName(u, n)'
    BY <1>0, <1>1 DEF FollowInv, Follows, Effective
  <2>1. Past(t, n)
    BY <1>1 DEF Past, Told
  <2>2. \A u \in Threads : thr'[u].pc = "idle"
    BY <1>1, <1>2, RestFacts, Alone
  <2>3. \A u \in Threads : todo'[u] = {} /\ step'[u] = NoStep
    BY <1>3, <2>2 DEF LoggerInv, RunInv, Pending
  <2>4. \A u \in Threads : ~Past(u, n)' /\ ~AtName(u, n)'
    BY <2>2, <2>3 DEF Past, AtName, Told
  <2>5. QED
    BY <2>1, <2>4 DEF FollowInv
<1>5. QED
  BY <1>3, <1>4

(* Another listener is told, starts, or goes. *)
LEMMA OtherListener ==
    ASSUME IInv, LoggerInv, FollowInv, UNCHANGED logVars,
           NEW l \in Listeners \ {LogListener},
           \/ DelListener(l)
           \/ \E t \in Threads : Notify(t, l) \/ ReadFirst(t, l)
    PROVE  LoggerInv' /\ FollowInv'
<1>0. thr \in [Threads -> Record] /\ cbs \subseteq Listeners /\ LogListener \in cbs
  BY TypeFacts DEF IInv, LoggerInv, RunInv
<1>1. CASE DelListener(l)
  <2>1. UNCHANGED <<thr, val, overlap>> /\ LogListener \in cbs'
    BY <1>0, <1>1 DEF DelListener
  <2>2. \A u \in Threads : /\ Told(u, LogListener)' <=> Told(u, LogListener)
                           /\ Pending(u) => Pending(u)'
    BY <2>1 DEF Told, Pending
  <2>3. QED
    BY <2>1, <2>2, QuietStep
<1>2. ASSUME NEW t \in Threads, Notify(t, l) PROVE LoggerInv' /\ FollowInv'
  <2>1. PICK told : told = thr[t].told \cup {l}
    OBVIOUS
  <2>2. PICK r : r = [thr[t] EXCEPT !.told = told, !.pc = IF told = cbs THEN "store" ELSE @]
    OBVIOUS
  <2>3. /\ thr[t].pc = "notify" /\ Moved(t, r) /\ UNCHANGED <<val, cbs, overlap>>
    BY <1>0, <1>2, <2>1, <2>2 DEF Notify, Moved, Record
  <2>4. /\ r \in Record /\ r.told = told /\ r.new = thr[t].new
        /\ r.pc = IF told = cbs THEN "store" ELSE "notify"
    BY <1>0, <2>1, <2>2, <2>3 DEF Record
  <2>5. thr'[t] = r /\ \A u \in Threads \ {t} : thr'[u] = thr[u]
    BY <1>0, <2>3, <2>4, MovedFacts
  <2>6. LogListener \in told <=> LogListener \in thr[t].told
    BY <2>1
  <2>7. told = cbs => LogListener \in thr[t].told
    BY <1>0, <2>6
  <2>8. ASSUME NEW u \in Threads
        PROVE  /\ Told(u, LogListener)' <=> Told(u, LogListener)
               /\ thr'[u].new = thr[u].new
               /\ Pending(u) => Pending(u)'
    <3>1. CASE u = t
      BY <2>3, <2>4, <2>5, <2>6, <2>7, <3>1 DEF Told, Pending
    <3>2. CASE u # t
      BY <2>3, <2>5, <3>2 DEF Told, Pending
    <3>3. QED
      BY <3>1, <3>2
  <2>9. QED
    BY <1>0, <2>3, <2>8, QuietStep
<1>3. ASSUME NEW t \in Threads, ReadFirst(t, l) PROVE LoggerInv' /\ FollowInv'
  <2>1. PICK r : r = [thr[t] EXCEPT !.pc = "add", !.told = {l}]
    OBVIOUS
  <2>2. Moved(t, r) /\ thr[t].pc = "idle" /\ Begins(t) /\ UNCHANGED <<val, cbs>>
    BY <1>0, <1>3, <2>1 DEF ReadFirst, Moved, Record
  <2>3. overlap => overlap'
    BY <2>2, BeginsFacts
  <2>4. r \in Record /\ r.pc = "add"
    BY <1>0, <2>1 DEF Record
  <2>5. QED
    BY <1>0, <2>2, <2>3, <2>4, MoverStep
<1>4. QED
  BY <1>1, <1>2, <1>3

(* What the values say of a name. *)
LEMMA DefineFacts ==
    ASSUME IInv, NEW t \in Threads, thr[t].pc = "notify", NEW n \in Names
    PROVE  /\ val[n] = NoDefine \/ val[n] \in Defines
           /\ thr[t].new[n] = NoDefine \/ thr[t].new[n] \in Defines
BY LogAssumption, TypeFacts DEF IInv, ThreadInv

LEMMA StartStep ==
    ASSUME IInv, LoggerInv, FollowInv, NEW t \in Threads, NotifyStart(t)
    PROVE  LoggerInv' /\ FollowInv'
<1> DEFINE new == thr[t].new
<1>1. /\ Pending(t) /\ todo[t] = {} /\ UNCHANGED <<val, cbs, thr, overlap>>
      /\ UNCHANGED <<loggers, held, step, daemon, changes, touched, strayed>>
  BY DEF NotifyStart, configVars
<1>2. /\ DOMAIN todo' = Threads /\ todo'[t] = Mentioned(val, new)
      /\ \A u \in Threads \ {t} : todo'[u] = todo[u]
  BY DEF NotifyStart, LoggerInv, RunInv
<1>3. step[t] = NoStep
  BY <1>1 DEF LoggerInv, RunInv
<1>4. LoggerInv'
  <2>1. ShapeInv' /\ HeldInv' /\ CountInv'
    BY <1>1 DEF LoggerInv, ShapeInv, HeldInv, CountInv, Sound, Holds
  <2>2. RunInv'
    BY <1>1, <1>2, <1>3 DEF LoggerInv, RunInv, Pending, Mentioned
  <2>3. QED
    BY <2>1, <2>2 DEF LoggerInv
<1>5. FollowInv'
  <2> SUFFICES ASSUME ~overlap, NEW n \in Names \ touched
               PROVE  /\ Follows(n, loggers[n], val[n])
                      /\ \A u \in Threads : Past(u, n)' => Follows(n, loggers[n], thr[u].new[n])
                      /\ \A u \in Threads : ~AtName(u, n)'
    BY <1>1 DEF FollowInv, Follows, Effective
  <2>1. \A u \in Threads \ {t} : thr[u].pc = "idle" /\ todo[u] = {} /\ step[u] = NoStep
    BY <1>1, Alone DEF Pending, LoggerInv, RunInv
  <2>2. \A u \in Threads \ {t} : ~Past(u, n) /\ ~Past(u, n)'
    BY <1>1, <1>2, <2>1 DEF Past, Told
  <2>3. ~Past(t, n) /\ \A u \in Threads : ~AtName(u, n) /\ ~AtName(u, n)'
    BY <1>1, <1>3, <2>1 DEF Past, Told, Pending, AtName
  <2>4. Follows(n, loggers[n], val[n])
    BY <2>2, <2>3 DEF FollowInv
  <2>5. ASSUME Past(t, n)' PROVE Follows(n, loggers[n], new[n])
    <3>1. n \notin Mentioned(val, new)
      BY <1>1, <1>2, <2>5 DEF Past, Told, Pending
    <3>2. val[n] = NoDefine /\ new[n] = NoDefine
      BY <3>1 DEF Mentioned
    <3>3. QED
      BY <2>4, <3>2
  <2>6. QED
    BY <2>2, <2>3, <2>4, <2>5
<1>6. QED
  BY <1>4, <1>5

-----------------------------------------------------------------------------
(* A run takes a step at name n, whose logger becomes g. *)

LEMMA ThroughFacts ==
    ASSUME IInv, LoggerInv, NEW t \in Threads, NEW n \in todo[t], Through(t, n)
    PROVE  /\ UNCHANGED <<val, cbs, overlap>> /\ thr'[t].new = thr[t].new
           /\ \A u \in Threads \ {t} : thr'[u] = thr[u]
           /\ todo[t] = {n} => Told(t, LogListener)'
           /\ todo[t] # {n} => thr' = thr
<1>1. Pending(t) /\ thr[t].pc = "notify" /\ LogListener \in cbs
  BY DEF LoggerInv, RunInv, Pending
<1>2. CASE todo[t] # {n}
  BY <1>2 DEF Through, configVars
<1>3. CASE todo[t] = {n}
  <2>1. PICK told : told = thr[t].told \cup {LogListener}
    OBVIOUS
  <2>2. PICK r : r = [thr[t] EXCEPT !.told = told, !.pc = IF told = cbs THEN "store" ELSE @]
    OBVIOUS
  <2>3. thr \in [Threads -> Record] /\ thr[t] \in Record
    BY TypeFacts DEF IInv
  <2>4. Moved(t, r) /\ UNCHANGED <<val, cbs, overlap>>
    BY <1>3, <2>1, <2>2, <2>3 DEF Through, Notify, Moved, Record
  <2>5. told \subseteq Listeners
    BY <2>1, <2>3, LogAssumption DEF Record
  <2>6. /\ r \in Record /\ r.told = told /\ r.new = thr[t].new
        /\ r.pc = IF told = cbs THEN "store" ELSE "notify"
    BY <1>1, <2>2, <2>3, <2>5 DEF Record
  <2>7. thr'[t] = r /\ \A u \in Threads \ {t} : thr'[u] = thr[u]
    BY <2>3, <2>4, <2>6, MovedFacts
  <2>8. Told(t, LogListener)'
    BY <2>1, <2>6, <2>7 DEF Told
  <2>9. QED
    BY <1>3, <2>4, <2>6, <2>7, <2>8
<1>4. QED
  BY <1>2, <1>3

(* The other threads are not in a run, as long as no two calls overlapped. *)
LEMMA OthersIdle ==
    ASSUME IInv, LoggerInv, ~overlap, NEW t \in Threads, Pending(t)
    PROVE  \A u \in Threads \ {t} :
             /\ thr[u].pc = "idle" /\ todo[u] = {} /\ step[u] = NoStep
             /\ \A m : ~Past(u, m) /\ ~AtName(u, m)
<1>1. \A u \in Threads \ {t} : thr[u].pc = "idle" /\ todo[u] = {} /\ step[u] = NoStep
  BY Alone DEF Pending, LoggerInv, RunInv
<1>2. QED
  BY <1>1 DEF Past, Told, AtName

(* The run is through with n. *)
LEMMA ThroughStep ==
    ASSUME IInv, LoggerInv, FollowInv, NEW t \in Threads, NEW n \in todo[t], Through(t, n),
           step[t] = NoStep \/ step[t].name = n,
           ShapeInv', HeldInv', \A m \in Names \ {n} : loggers'[m] = loggers[m],
           touched' = touched \/ touched' = touched \ {n}, UNCHANGED <<daemon, changes>>,
           n \notin touched' /\ ~overlap => Follows(n, loggers'[n], thr[t].new[n])
    PROVE  LoggerInv' /\ FollowInv'
<1>1. n \in Names /\ Pending(t)
  BY DEF LoggerInv, RunInv
<1>3. /\ UNCHANGED <<val, cbs, overlap>> /\ thr'[t].new = thr[t].new
      /\ \A u \in Threads \ {t} : thr'[u] = thr[u]
      /\ todo[t] = {n} => Told(t, LogListener)'
      /\ todo[t] # {n} => thr' = thr
  BY ThroughFacts
<1>4. /\ DOMAIN todo' = Threads /\ todo'[t] = todo[t] \ {n} /\ DOMAIN step' = Threads
      /\ step'[t] = NoStep /\ \A u \in Threads \ {t} : todo'[u] = todo[u] /\ step'[u] = step[u]
  BY DEF Through, LoggerInv, RunInv
<1>5. RunInv'
  <2>1. LogListener \in cbs'
    BY <1>3 DEF LoggerInv, RunInv
  <2>2. \A u \in Threads \ {t} : Pending(u) => Pending(u)'
    BY <1>3 DEF Pending
  <2>3. todo'[t] \subseteq Names /\ (todo'[t] # {} => Pending(t)')
    <3>1. todo'[t] # {} => todo[t] # {n}
      BY <1>4
    <3>2. QED
      BY <1>1, <1>3, <1>4, <3>1 DEF LoggerInv, RunInv, Pending
  <2>4. QED
    BY <1>3, <1>4, <2>1, <2>2, <2>3 DEF LoggerInv, RunInv
<1>6. LoggerInv'
  BY <1>5 DEF LoggerInv, CountInv
<1>7. FollowInv'
  <2> SUFFICES ASSUME ~overlap, NEW m \in Names \ touched'
               PROVE  /\ (\A u \in Threads : ~Past(u, m)' /\ ~AtName(u, m)') =>
                           Follows(m, loggers'[m], val[m])
                      /\ \A u \in Threads : Past(u, m)' => Follows(m, loggers'[m], thr'[u].new[m])
                      /\ \A u \in Threads : ~AtName(u, m)'
    BY <1>3 DEF FollowInv, Follows, Effective
  <2>1. \A u \in Threads \ {t} : ~Past(u, m) /\ ~AtName(u, m) /\ ~Past(u, m)' /\ ~AtName(u, m)'
    <3>1. \A u \in Threads \ {t} : /\ thr[u].pc = "idle" /\ todo[u] = {} /\ step[u] = NoStep
                                   /\ ~Past(u, m) /\ ~AtName(u, m)
      BY <1>1, OthersIdle
    <3>2. QED
      BY <1>3, <1>4, <3>1 DEF Past, Told, AtName
  <2>2. ~AtName(t, m)'
    BY <1>4 DEF AtName
  <2>3. CASE m = n
    <3>1. Past(t, m)'
      BY <1>3, <1>4, <2>3 DEF Past
    <3>2. QED
      BY <1>3, <2>1, <2>2, <2>3, <3>1
  <2>4. CASE m # n
    <3>1. m \notin touched /\ loggers'[m] = loggers[m]
      BY <2>4
    <3>2. ~AtName(t, m)
      BY <2>4 DEF AtName
    <3>3. Past(t, m)' <=> Past(t, m)
      <4>1. ~Told(t, LogListener)
        BY <1>1 DEF Told, Pending
      <4>2. CASE todo[t] = {n}
        BY <1>3, <2>4, <4>2 DEF Past
      <4>3. CASE todo[t] # {n}
        <5>1. todo'[t] # {} /\ todo[t] # {} /\ (m \in todo'[t] <=> m \in todo[t])
          BY <1>4, <2>4, <4>3
        <5>2. Told(t, LogListener)' <=> Told(t, LogListener)
          BY <1>3, <4>3 DEF Told
        <5>3. QED
          BY <5>1, <5>2 DEF Past
      <4>4. QED
        BY <4>2, <4>3
    <3>4. QED
      BY <1>3, <2>1, <2>2, <3>1, <3>2, <3>3 DEF FollowInv
  <2>5. QED
    BY <2>3, <2>4
<1>8. QED
  BY <1>6, <1>7

(* The run has more to do at n. *)
LEMMA ReachesStep ==
    ASSUME IInv, LoggerInv, FollowInv, NEW t \in Threads, NEW n \in todo[t],
           NEW k \in Nat \ {0}, Reaches(t, n, k), thr[t].new[n] # NoDefine,
           step[t] = NoStep \/ step[t].name = n,
           NEW g, Sound(g), loggers' = [loggers EXCEPT ![n] = g], HeldInv',
           touched' = touched \/ touched' = touched \ {n}, UNCHANGED <<daemon, changes>>,
           n \notin touched' /\ ~overlap => Partly(g, thr[t].new[n], k)
    PROVE  LoggerInv' /\ FollowInv'
<1>1. n \in Names /\ Pending(t)
  BY DEF LoggerInv, RunInv
<1>2. /\ ShapeInv' /\ loggers'[n] = g /\ \A m \in Names \ {n} : loggers'[m] = loggers[m]
  BY <1>1, ShapeKept DEF LoggerInv
<1>3. UNCHANGED <<val, cbs, overlap, thr, todo>>
  BY DEF Reaches, configVars
<1>4. PICK r : r = [name |-> n, next |-> k]
  OBVIOUS
<1>5. r.name = n /\ r.next = k /\ r # NoStep
  <2>1. r.name = n /\ r.next = k
    BY <1>4
  <2>2. NoStep.next = 0
    BY DEF NoStep
  <2>3. QED
    BY <2>1, <2>2
<1>6. /\ DOMAIN step' = Threads /\ step'[t] = r
      /\ \A u \in Threads \ {t} : step'[u] = step[u]
  BY <1>4 DEF Reaches, LoggerInv, RunInv
<1>7. RunInv'
  BY <1>3, <1>5, <1>6 DEF LoggerInv, RunInv, Pending
<1>8. LoggerInv'
  BY <1>2, <1>7 DEF LoggerInv, CountInv
<1>9. FollowInv'
  <2> SUFFICES ASSUME ~overlap, NEW m \in Names \ touched'
               PROVE  /\ (\A u \in Threads : ~Past(u, m)' /\ ~AtName(u, m)') =>
                           Follows(m, loggers'[m], val[m])
                      /\ \A u \in Threads : Past(u, m)' => Follows(m, loggers'[m], thr[u].new[m])
                      /\ \A u \in Threads : AtName(u, m)' =>
                           Partly(loggers'[m], thr[u].new[m], step'[u].next)
    BY <1>3 DEF FollowInv, Follows, Partly, Effective
  <2>1. \A u \in Threads : Past(u, m)' <=> Past(u, m)
    BY <1>3 DEF Past, Told
  <2>2. \A u \in Threads \ {t} : ~Past(u, m) /\ ~AtName(u, m) /\ ~AtName(u, m)'
    <3>1. \A u \in Threads \ {t} : step[u] = NoStep /\ ~Past(u, m) /\ ~AtName(u, m)
      BY <1>1, OthersIdle
    <3>2. QED
      BY <1>6, <3>1 DEF AtName
  <2>3. AtName(t, m)' <=> m = n
    BY <1>5, <1>6 DEF AtName
  <2>4. CASE m = n
    <3>1. ~Past(t, m)
      BY <1>1, <2>4 DEF Past, Told, Pending
    <3>2. QED
      BY <1>2, <1>5, <1>6, <2>1, <2>2, <2>3, <2>4, <3>1
  <2>5. CASE m # n
    <3>1. m \notin touched /\ loggers'[m] = loggers[m] /\ ~AtName(t, m)
      BY <1>2, <2>5 DEF AtName
    <3>2. QED
      BY <2>1, <2>2, <2>3, <2>5, <3>1 DEF FollowInv
  <2>6. QED
    BY <2>4, <2>5
<1>10. QED
  BY <1>8, <1>9

(* Nothing is held that was not held before by a logger that keeps its format. *)
LEMMA HeldShrinks ==
    ASSUME ShapeInv, HeldInv, NEW n \in Names, NEW g, loggers' = [loggers EXCEPT ![n] = g],
           g.fmt = loggers[n].fmt, UNCHANGED <<held, strayed>>,
           \A i \in DOMAIN g.refs : i \in DOMAIN loggers[n].refs /\ g.refs[i] = loggers[n].refs[i]
    PROVE  HeldInv'
<1>1. /\ loggers'[n] = g /\ \A m \in Names \ {n} : loggers'[m] = loggers[m]
  BY DEF ShapeInv
<1>2. ASSUME NEW m \in Names
      PROVE  /\ loggers'[m].fmt = loggers[m].fmt
             /\ \A h \in Handles : Holds(m, h)' => Holds(m, h)
  BY <1>1, <1>2 DEF Holds
<1>3. QED
  BY <1>2, HeldKept

(* The run comes to a name. *)
LEMMA LoggerStep ==
    ASSUME IInv, LoggerInv, FollowInv, NEW t \in Threads, NotifyLogger(t)
    PROVE  LoggerInv' /\ FollowInv'
<1>1. PICK n \in todo[t] :
        LET old == val[n]  new == thr[t].new[n] IN
        /\ Pending(t) /\ step[t] = NoStep
        /\ \/ /\ new # NoDefine /\ old # NoDefine /\ SameDefine(new, old)
              /\ Through(t, n) /\ UNCHANGED <<loggers, held, touched>>
           \/ /\ new # NoDefine
              /\ loggers' = [loggers EXCEPT ![n] = Formatted(n, new)]
              /\ held' = IF Valid(new.fmt) THEN Reformatted(n, new.fmt) ELSE held
              /\ touched' = touched \ {n} /\ Reaches(t, n, 1)
           \/ /\ new = NoDefine
              /\ loggers' = [loggers EXCEPT ![n] = Cleared(WithLevel(@, Unknown))]
              /\ touched' = touched \ {n} /\ Through(t, n) /\ UNCHANGED held
        /\ UNCHANGED <<daemon, changes, strayed>>
  BY DEF NotifyLogger
<1> DEFINE new == thr[t].new[n]
<1>2. n \in Names /\ thr[t].pc = "notify" /\ Sound(loggers[n]) /\ ShapeInv /\ HeldInv
  BY <1>1 DEF LoggerInv, RunInv, ShapeInv, Pending
<1>3. (val[n] = NoDefine \/ val[n] \in Defines) /\ (new = NoDefine \/ new \in Defines)
  BY <1>2, DefineFacts
<1>4. CASE new # NoDefine /\ val[n] # NoDefine /\ SameDefine(new, val[n]) /\ Through(t, n)
           /\ UNCHANGED <<loggers, held, touched>>
  <2>1. new = val[n]
    BY <1>3, <1>4 DEF SameDefine, Defines
  <2>2. ShapeInv'
    BY <1>2, <1>4 DEF ShapeInv, Sound
  <2>3. HeldInv'
    BY <1>1, <1>2, <1>4 DEF HeldInv, Holds
  <2>4. ASSUME n \notin touched, ~overlap PROVE Follows(n, loggers[n], new)
    <3>1. \A u \in Threads \ {t} : ~Past(u, n) /\ ~AtName(u, n)
      BY <1>1, <2>4, OthersIdle
    <3>2. ~Past(t, n) /\ ~AtName(t, n)
      BY <1>1 DEF Past, Told, Pending, AtName
    <3>3. Follows(n, loggers[n], val[n])
      BY <1>2, <2>4, <3>1, <3>2 DEF FollowInv
    <3>4. QED
      BY <2>1, <3>3
  <2>5. QED
    BY <1>1, <1>2, <1>4, <2>2, <2>3, <2>4, ThroughStep
<1>5. CASE /\ new # NoDefine /\ loggers' = [loggers EXCEPT ![n] = Formatted(n, new)]
           /\ held' = (IF Valid(new.fmt) THEN Reformatted(n, new.fmt) ELSE held)
           /\ touched' = touched \ {n} /\ Reaches(t, n, 1)
  <2>1. new \in Defines /\ new.level \in {Unknown} \cup Levels
    BY <1>3, <1>5 DEF Defines
  <2>2. PICK w : w = WithLevel(loggers[n], new.level)
    OBVIOUS
  <2>3. Sound(w) /\ w.level = new.level /\ w.fmt = loggers[n].fmt /\ w.refs = loggers[n].refs
    BY <1>2, <2>1, <2>2, WithLevelFacts
  <2>4. PICK g : g = Formatted(n, new)
    OBVIOUS
  <2>5. g = IF Valid(new.fmt) THEN SetFormatter(w, new.fmt) ELSE w
    BY <2>2, <2>4 DEF Formatted
  <2>6. Valid(new.fmt) => new.fmt \in Used
    BY DEF Valid, Used
  <2>7. /\ Sound(g) /\ g.level = new.level /\ g.refs = loggers[n].refs
        /\ Valid(new.fmt) => g.fmt = new.fmt
        /\ ~Valid(new.fmt) => g.fmt = loggers[n].fmt
    BY <2>3, <2>5, <2>6, SetFormatterFacts
  <2>8. HeldInv'
    <3>1. CASE Valid(new.fmt)
      BY <1>1, <1>2, <1>5, <2>4, <2>6, <2>7, <3>1, HeldReformatted
    <3>2. CASE ~Valid(new.fmt)
      BY <1>1, <1>2, <1>5, <2>4, <2>7, <3>2, HeldShrinks
    <3>3. QED
      BY <3>1, <3>2
  <2>9. Partly(g, new, 1)
    BY <2>7 DEF Partly
  <2>10. 1 \in Nat \ {0} /\ loggers' = [loggers EXCEPT ![n] = g]
    BY <1>5, <2>4
  <2> HIDE DEF new
  <2>11. thr[t].new[n] # NoDefine /\ Partly(g, thr[t].new[n], 1)
    BY <1>5, <2>9 DEF new
  <2>12. QED
    BY <1>1, <1>5, <2>7, <2>8, <2>10, <2>11, ReachesStep
<1>6. CASE /\ new = NoDefine /\ loggers' = [loggers EXCEPT ![n] = Cleared(WithLevel(@, Unknown))]
           /\ touched' = touched \ {n} /\ Through(t, n) /\ UNCHANGED held
  <2>1. PICK w : w = WithLevel(loggers[n], Unknown)
    OBVIOUS
  <2>2. Sound(w) /\ w.level = Unknown /\ w.fmt = loggers[n].fmt
    BY <1>2, <2>1, WithLevelFacts
  <2>3. PICK g : g = Cleared(w)
    OBVIOUS
  <2>4. /\ Sound(g) /\ g.level = Unknown /\ g.fmt = loggers[n].fmt
        /\ DOMAIN g.apps = {} /\ DOMAIN g.refs = {}
    BY <2>2, <2>3, ClearedFacts
  <2>5. loggers' = [loggers EXCEPT ![n] = g]
    BY <1>6, <2>1, <2>3
  <2>6. HeldInv'
    BY <1>1, <1>2, <1>6, <2>4, <2>5, HeldShrinks
  <2>7. Follows(n, g, new)
    BY <1>6, <2>4 DEF Follows, Unknown
  <2>8. /\ ShapeInv' /\ loggers'[n] = g /\ \A m \in Names \ {n} : loggers'[m] = loggers[m]
    BY <1>2, <2>4, <2>5, ShapeKept
  <2>9. QED
    BY <1>1, <1>6, <2>6, <2>7, <2>8, ThroughStep
<1>7. QED
  BY <1>1, <1>4, <1>5, <1>6

(* What a run that is at a name has to go by. *)
LEMMA AtNameFacts ==
    ASSUME IInv, LoggerInv, FollowInv, NEW t \in Threads, step[t].next # 0
    PROVE  /\ step[t] # NoStep /\ step[t].name \in todo[t] /\ step[t].name \in Names
           /\ step[t].next \in Nat \ {0} /\ Definition(t) = thr[t].new[step[t].name]
           /\ Definition(t) # NoDefine /\ Definition(t) \in Defines
           /\ Sound(loggers[step[t].name])
           /\ step[t].name \notin touched /\ ~overlap =>
                Partly(loggers[step[t].name], Definition(t), step[t].next)
<1>1. step[t] # NoStep
  <2>1. NoStep.next = 0
    BY DEF NoStep
  <2>2. QED
    BY <2>1
<1>2. /\ step[t].name \in todo[t] /\ step[t].name \in Names /\ step[t].next \in Nat \ {0}
      /\ thr[t].new[step[t].name] # NoDefine /\ Pending(t)
  BY <1>1 DEF LoggerInv, RunInv
<1>3. Definition(t) \in Defines
  BY <1>2, DefineFacts DEF Definition, Pending
<1>4. AtName(t, step[t].name)
  BY <1>1 DEF AtName
<1>5. QED
  BY <1>1, <1>2, <1>3, <1>4 DEF Definition, LoggerInv, ShapeInv, FollowInv

(* Of a definition's appenders. *)
LEMMA EffectiveFacts ==
    ASSUME NEW d \in Defines
    PROVE  /\ Len(d.apps) \in Nat
           /\ \A i \in DOMAIN Effective(d.apps) :
                /\ i \in Nat /\ i >= 1 /\ i <= Len(d.apps)
                /\ d.apps[i] \in AppenderDefines /\ Effective(d.apps)[i] = d.apps[i]
<1>1. d.apps \in Seq(AppenderDefines)
  BY DEF Defines
<1>2. DOMAIN d.apps = 1..Len(d.apps) /\ Len(d.apps) \in Nat
  BY <1>1
<1>3. \A i \in DOMAIN d.apps : d.apps[i] \in AppenderDefines
  BY <1>1
<1>4. \A i \in DOMAIN Effective(d.apps) : i \in DOMAIN d.apps /\ Effective(d.apps)[i] = d.apps[i]
  BY DEF Effective
<1>5. QED
  BY <1>2, <1>3, <1>4

(* A step of the run at n that leaves logger g there; k is the next step. *)
LEMMA ProceedsStep ==
    ASSUME IInv, LoggerInv, FollowInv, NEW t \in Threads, step[t].next # 0,
           NEW k \in Nat \ {0}, Proceeds(t, k),
           NEW g, Sound(g), g.fmt = loggers[step[t].name].fmt,
           loggers' = [loggers EXCEPT ![step[t].name] = g],
           \A i \in DOMAIN g.refs : /\ i \in DOMAIN loggers[step[t].name].refs
                                    /\ g.refs[i] = loggers[step[t].name].refs[i],
           UNCHANGED <<held, daemon, changes, touched, strayed>>,
           step[t].name \notin touched /\ ~overlap => Partly(g, Definition(t), k + 1)
    PROVE  LoggerInv' /\ FollowInv'
<1> DEFINE n == step[t].name
           d == Definition(t)
<1>1. /\ n \in todo[t] /\ n \in Names /\ d = thr[t].new[n] /\ d # NoDefine /\ d \in Defines
  BY AtNameFacts
<1>2. HeldInv'
  BY <1>1, HeldShrinks DEF LoggerInv
<1>3. Len(d.apps) \in Nat /\ k + 1 \in Nat \ {0} /\ (k + 1) - 1 = k /\ k + 1 > 1
  BY <1>1, EffectiveFacts
<1>4. CASE k > Len(d.apps)
  <2>1. Through(t, n)
    BY <1>4 DEF Proceeds
  <2>2. ASSUME n \notin touched, ~overlap PROVE Follows(n, g, d)
    <3>1. Partly(g, d, k + 1)
      BY <2>2
    <3>2. \A i \in DOMAIN Effective(d.apps) : i \in Nat /\ i <= Len(d.apps)
      BY <1>1, EffectiveFacts
    <3> HIDE DEF d, n
    <3>3. /\ g.level = d.level /\ DOMAIN g.refs = {}
          /\ DOMAIN g.apps = {i \in DOMAIN Effective(d.apps) : i < k}
          /\ \A i \in DOMAIN g.apps : Fits(g.apps[i], d.apps[i], d)
      BY <1>3, <3>1 DEF Partly
    <3>4. PICK len : len = Len(d.apps)
      OBVIOUS
    <3>5. \A i \in DOMAIN Effective(d.apps) : i < k
      <4>1. len \in Nat /\ k \in Nat /\ len < k
        BY <1>3, <1>4, <3>4
      <4>2. \A i \in DOMAIN Effective(d.apps) : i \in Nat /\ i <= len
        BY <3>2, <3>4
      <4>3. QED
        BY <4>1, <4>2
    <3>6. DOMAIN g.apps = DOMAIN Effective(d.apps)
      BY <3>3, <3>5
    <3>7. QED
      BY <1>1, <3>3, <3>6 DEF Follows
  <2>3. /\ ShapeInv' /\ loggers'[n] = g /\ \A m \in Names \ {n} : loggers'[m] = loggers[m]
    BY <1>1, ShapeKept DEF LoggerInv
  <2>4. QED
    BY <1>1, <1>2, <2>1, <2>2, <2>3, ThroughStep
<1>5. CASE ~(k > Len(d.apps))
  <2>1. Reaches(t, n, k + 1)
    BY <1>5 DEF Proceeds
  <2> HIDE DEF d
  <2>2. thr[t].new[n] # NoDefine /\ (n \notin touched /\ ~overlap => Partly(g, thr[t].new[n], k + 1))
    BY <1>1 DEF d
  <2>3. QED
    BY <1>1, <1>2, <1>3, <2>1, <2>2, ReachesStep
<1>6. QED
  BY <1>4, <1>5

LEMMA ClearStep ==
    ASSUME IInv, LoggerInv, FollowInv, NEW t \in Threads, NotifyClear(t)
    PROVE  LoggerInv' /\ FollowInv'
<1> DEFINE n == step[t].name
           d == Definition(t)
<1>1. step[t].next = 1 /\ Proceeds(t, 1) /\ UNCHANGED <<held, daemon, changes, touched, strayed>>
  BY DEF NotifyClear
<1>2. /\ Sound(loggers[n]) /\ d \in Defines
      /\ n \notin touched /\ ~overlap => Partly(loggers[n], d, 1)
  BY <1>1, AtNameFacts
<1>3. PICK g : g = Cleared(loggers[n])
  OBVIOUS
<1>4. /\ Sound(g) /\ g.level = loggers[n].level /\ g.fmt = loggers[n].fmt
      /\ DOMAIN g.apps = {} /\ DOMAIN g.refs = {}
  BY <1>2, <1>3, ClearedFacts
<1>5. loggers' = [loggers EXCEPT ![n] = g]
  BY <1>3 DEF NotifyClear
<1>6. ASSUME n \notin touched, ~overlap PROVE Partly(g, d, 2)
  <2>1. \A i \in DOMAIN Effective(d.apps) : ~(i < 1)
    BY <1>2, EffectiveFacts
  <2>2. QED
    BY <1>2, <1>4, <1>6, <2>1 DEF Partly
<1>7. 1 \in Nat \ {0} /\ 1 + 1 = 2 /\ step[t].next # 0
  BY <1>1
<1>8. n \notin touched /\ ~overlap => Partly(g, d, 1 + 1)
  BY <1>6, <1>7
<1>9. \A i \in DOMAIN g.refs : i \in DOMAIN loggers[n].refs /\ g.refs[i] = loggers[n].refs[i]
  BY <1>4
<1>10. QED
  BY <1>1, <1>4, <1>5, <1>7, <1>8, <1>9, ProceedsStep

LEMMA AppenderStep ==
    ASSUME IInv, LoggerInv, FollowInv, NEW t \in Threads, NotifyAppender(t)
    PROVE  LoggerInv' /\ FollowInv'
<1> DEFINE n == step[t].name
           d == Definition(t)
           i == step[t].next - 1
           e == Effective(d.apps)
           old == loggers[n]
<1>1. /\ step[t].next > 1 /\ Proceeds(t, i + 1)
      /\ UNCHANGED <<held, daemon, changes, touched, strayed>>
  BY DEF NotifyAppender
<1>2. step[t].next # 0
  BY <1>1
<1>3. /\ Sound(old) /\ d \in Defines /\ step[t].next \in Nat
      /\ n \notin touched /\ ~overlap => Partly(old, d, step[t].next)
  BY <1>2, AtNameFacts
<1>4. i \in Nat /\ i >= 1 /\ step[t].next = i + 1
  BY <1>1, <1>3
<1>5. \A j \in DOMAIN e : j \in Nat /\ d.apps[j] \in AppenderDefines /\ e[j] = d.apps[j]
  BY <1>3, EffectiveFacts
<1>6. PICK a : a = Appender(e[i], old.fmt)
  OBVIOUS
<1>7. PICK g : g = IF i \in DOMAIN e THEN AddOwn(old, i, a) ELSE old
  OBVIOUS
<1>8. loggers' = [loggers EXCEPT ![n] = g]
  BY <1>6, <1>7 DEF NotifyAppender
<1> HIDE DEF e, i, d
<1>9. i \in DOMAIN e => a \in Appenders /\ (~a.own => a.fmt = old.fmt)
  <2>1. PICK r : r = [fmt |-> old.fmt]
    OBVIOUS
  <2>2. old.fmt \in Used /\ r.fmt = old.fmt
    BY <1>3, <2>1 DEF Sound
  <2>3. QED
    BY <1>5, <1>6, <2>2, AppenderFacts
<1>10. /\ Sound(g) /\ g.fmt = old.fmt /\ g.level = old.level /\ g.refs = old.refs
  BY <1>3, <1>7, <1>9, AddOwnFacts
<1>11. ASSUME n \notin touched, ~overlap PROVE Partly(g, d, i + 2)
  <2>1. /\ old.level = d.level /\ (Valid(d.fmt) => old.fmt = d.fmt) /\ DOMAIN old.refs = {}
        /\ DOMAIN old.apps = {j \in DOMAIN e : j < i}
        /\ \A j \in DOMAIN old.apps : Fits(old.apps[j], d.apps[j], d)
    BY <1>3, <1>4, <1>11 DEF Partly, e
  <2>2. CASE i \in DOMAIN e
    <3>1. Back(old, i) = i
      BY <1>4, <1>5, <2>1, BackFacts
    <3>2. /\ DOMAIN g.apps = DOMAIN old.apps \cup {i}
          /\ \A j \in DOMAIN g.apps : g.apps[j] = IF j = i THEN a ELSE old.apps[j]
      BY <1>3, <1>7, <1>9, <2>2, <3>1, AddOwnFacts
    <3>3. DOMAIN g.apps = {j \in DOMAIN e : j < i + 1}
      BY <1>4, <1>5, <2>1, <2>2, <3>2
    <3>4. Fits(a, d.apps[i], d)
      <4>1. old.fmt \in Used
        BY <1>3 DEF Sound
      <4>2. QED
        BY <1>5, <1>6, <2>1, <2>2, <4>1, AppenderFacts
    <3>5. \A j \in DOMAIN g.apps : Fits(g.apps[j], d.apps[j], d)
      BY <2>1, <3>2, <3>4
    <3>6. QED
      BY <1>4, <1>10, <2>1, <3>3, <3>5 DEF Partly, e
  <2>3. CASE i \notin DOMAIN e
    <3>1. g = old
      BY <1>7, <2>3
    <3>2. DOMAIN g.apps = {j \in DOMAIN e : j < i + 1}
      BY <1>4, <1>5, <2>1, <2>3, <3>1
    <3>3. QED
      BY <1>4, <2>1, <3>1, <3>2 DEF Partly, e
  <2>4. QED
    BY <2>2, <2>3
<1>12. /\ i + 1 \in Nat \ {0} /\ i + 2 = (i + 1) + 1
  BY <1>4
<1>13. QED
  BY <1>1, <1>2, <1>8, <1>10, <1>11, <1>12, ProceedsStep DEF d

-----------------------------------------------------------------------------
(* The program changes loggers, which are touched then, and its appenders. *)
LEMMA ChangesStep ==
    ASSUME IInv, LoggerInv, FollowInv, Changes, ShapeInv', HeldInv',
           touched' \subseteq Names, touched \subseteq touched',
           \A m \in Names \ touched' : loggers'[m] = loggers[m]
    PROVE  LoggerInv' /\ FollowInv'
<1>1. /\ UNCHANGED <<val, cbs, thr, overlap, todo, step, daemon>>
      /\ changes < MaxChanges /\ changes' = changes + 1
  BY DEF Changes, configVars
<1>2. CountInv'
  <2>1. changes \in 0..MaxChanges /\ MaxChanges \in Nat
    BY LogAssumption DEF LoggerInv, CountInv
  <2>2. changes' \in 0..MaxChanges
    BY <1>1, <2>1
  <2>3. QED
    BY <2>2 DEF CountInv
<1>3. RunInv'
  BY <1>1 DEF LoggerInv, RunInv, Pending
<1>4. FollowInv'
  <2> SUFFICES ASSUME ~overlap, NEW m \in Names \ touched'
               PROVE  /\ (\A u \in Threads : ~Past(u, m) /\ ~AtName(u, m)) =>
                           Follows(m, loggers[m], val[m])
                      /\ \A u \in Threads : Past(u, m) => Follows(m, loggers[m], thr[u].new[m])
                      /\ \A u \in Threads : AtName(u, m) =>
                           Partly(loggers[m], thr[u].new[m], step[u].next)
    BY <1>1 DEF FollowInv, Follows, Partly, Effective, Past, Told, AtName
  <2>1. m \in Names \ touched
    OBVIOUS
  <2>2. QED
    BY <2>1 DEF FollowInv
<1>5. QED
  BY <1>2, <1>3, <1>4 DEF LoggerInv

LEMMA SetLoggerFormatterStep ==
    ASSUME IInv, LoggerInv, FollowInv, NEW n \in Names, NEW f \in Formats \cup {NoFormat},
           SetLoggerFormatter(n, f)
    PROVE  LoggerInv' /\ FollowInv'
<1>1. f \in Used /\ Sound(loggers[n]) /\ ShapeInv /\ HeldInv /\ touched \subseteq Names
  BY DEF Used, LoggerInv, ShapeInv, CountInv
<1>2. PICK g : g = SetFormatter(loggers[n], f)
  OBVIOUS
<1>3. Sound(g) /\ g.fmt = f /\ g.refs = loggers[n].refs
  BY <1>1, <1>2, SetFormatterFacts
<1>4. /\ Changes /\ loggers' = [loggers EXCEPT ![n] = g] /\ held' = Reformatted(n, f)
      /\ touched' = touched \cup {n} /\ UNCHANGED strayed
  BY <1>2 DEF SetLoggerFormatter
<1>5. ShapeInv' /\ \A m \in Names \ {n} : loggers'[m] = loggers[m]
  BY <1>1, <1>3, <1>4, ShapeKept
<1>6. HeldInv'
  BY <1>1, <1>3, <1>4, HeldReformatted
<1>7. QED
  BY <1>1, <1>4, <1>5, <1>6, ChangesStep

(* An appender that does not stray has, or gets, the format of the logger, and *)
(* no other logger holds it.                                                   *)
LEMMA AddAppenderStep ==
    ASSUME IInv, LoggerInv, FollowInv, NEW n \in Names, NEW h \in Handles, AddAppender(n, h)
    PROVE  LoggerInv' /\ FollowInv'
<1>1. /\ Sound(loggers[n]) /\ ShapeInv /\ HeldInv /\ touched \subseteq Names
      /\ loggers[n].fmt \in Used
  BY DEF LoggerInv, ShapeInv, CountInv, Sound
<1>2. PICK g : g = AddRef(loggers[n], h)
  OBVIOUS
<1>3. /\ Sound(g) /\ g.fmt = loggers[n].fmt
      /\ \A i \in DOMAIN g.refs :
           g.refs[i] = h \/ (i \in DOMAIN loggers[n].refs /\ g.refs[i] = loggers[n].refs[i])
  BY <1>1, <1>2, AddRefFacts
<1>4. Changes /\ loggers' = [loggers EXCEPT ![n] = g] /\ touched' = touched \cup {n}
  BY <1>2 DEF AddAppender
<1>5. /\ ShapeInv' /\ loggers'[n] = g /\ \A m \in Names \ {n} : loggers'[m] = loggers[m]
  BY <1>1, <1>3, <1>4, ShapeKept
<1>6. ASSUME NEW m \in Names, NEW x \in Handles, Holds(m, x)', m # n \/ x # h
      PROVE  Holds(m, x)
  BY <1>3, <1>5, <1>6 DEF Holds
<1>7. \A m \in Names : loggers'[m].fmt = loggers[m].fmt
  BY <1>3, <1>5
<1>8. /\ DOMAIN held' = Handles /\ \A x \in Handles \ {h} : held'[x] = held[x]
      /\ held'[h] \in Appenders /\ held'[h].own = held[h].own
      /\ held'[h].fmt = IF held[h].fmt = NoFormat THEN loggers[n].fmt ELSE held[h].fmt
  <2>1. held[h] \in Appenders /\ DOMAIN held = Handles
    BY <1>1 DEF HeldInv
  <2>2. CASE held[h].fmt = NoFormat
    <3>1. held' = [held EXCEPT ![h].fmt = loggers[n].fmt]
      BY <2>2 DEF AddAppender
    <3>2. /\ DOMAIN held' = Handles /\ held'[h] = [held[h] EXCEPT !.fmt = loggers[n].fmt]
          /\ \A x \in Handles \ {h} : held'[x] = held[x]
      BY <2>1, <3>1
    <3>3. QED
      BY <1>1, <2>1, <2>2, <3>2 DEF Appenders
  <2>3. CASE held[h].fmt # NoFormat
    BY <2>1, <2>3 DEF AddAppender
  <2>4. QED
    BY <2>2, <2>3
<1>9. /\ strayed \subseteq strayed' /\ strayed' \subseteq Handles
      /\ h \notin strayed' /\ ~held[h].own =>
           /\ held[h].fmt \in {NoFormat, loggers[n].fmt}
           /\ \A m \in Names \ {n} : ~Holds(m, h)
  BY <1>1 DEF AddAppender, HeldInv
<1>10. ASSUME NEW m \in Names, NEW x \in Handles \ strayed', Holds(m, x)', ~held'[x].own
       PROVE  held'[x].fmt = loggers'[m].fmt /\ \A k \in Names : Holds(k, x)' => k = m
  <2>1. CASE x # h
    <3>1. Holds(m, x) /\ x \notin strayed /\ held'[x] = held[x]
      BY <1>6, <1>8, <1>9, <1>10, <2>1
    <3>2. held[x].fmt = loggers[m].fmt /\ \A k \in Names : Holds(k, x) => k = m
      BY <1>1, <1>10, <3>1 DEF HeldInv
    <3>3. QED
      BY <1>6, <1>7, <2>1, <3>1, <3>2
  <2>2. CASE x = h
    <3>1. /\ held[h].fmt \in {NoFormat, loggers[n].fmt}
          /\ \A k \in Names \ {n} : ~Holds(k, h)
      BY <1>8, <1>9, <1>10, <2>2
    <3>2. \A k \in Names : Holds(k, h)' => k = n
      BY <1>6, <3>1
    <3>3. m = n /\ held'[h].fmt = loggers[n].fmt
      BY <1>8, <1>10, <2>2, <3>1, <3>2
    <3>4. QED
      BY <1>7, <2>2, <3>2, <3>3
  <2>3. QED
    BY <2>1, <2>2
<1>11. HeldInv'
  <2>1. \A x \in Handles : held'[x] \in Appenders
    BY <1>1, <1>8 DEF HeldInv
  <2>2. QED
    BY <1>8, <1>9, <1>10, <2>1 DEF HeldInv
<1>12. QED
  BY <1>1, <1>4, <1>5, <1>11, ChangesStep

LEMMA DelAppenderStep ==
    ASSUME IInv, LoggerInv, FollowInv, NEW n \in Names, NEW h \in Handles, DelAppender(n, h)
    PROVE  LoggerInv' /\ FollowInv'
<1>1. Sound(loggers[n]) /\ ShapeInv /\ HeldInv /\ touched \subseteq Names
  BY DEF LoggerInv, ShapeInv, CountInv
<1>2. PICK g : g = DelRef(loggers[n], h)
  OBVIOUS
<1>3. /\ Sound(g) /\ g.fmt = loggers[n].fmt
      /\ \A i \in DOMAIN g.refs : i \in DOMAIN loggers[n].refs /\ g.refs[i] = loggers[n].refs[i]
  BY <1>1, <1>2, DelRefFacts
<1>4. /\ Changes /\ loggers' = [loggers EXCEPT ![n] = g] /\ UNCHANGED <<held, strayed>>
      /\ touched' = touched \cup {n}
  BY <1>2 DEF DelAppender
<1>5. ShapeInv' /\ \A m \in Names \ {n} : loggers'[m] = loggers[m]
  BY <1>1, <1>3, <1>4, ShapeKept
<1>6. HeldInv'
  BY <1>1, <1>3, <1>4, HeldShrinks
<1>7. QED
  BY <1>1, <1>4, <1>5, <1>6, ChangesStep

LEMMA ClearAppendersStep ==
    ASSUME IInv, LoggerInv, FollowInv, NEW n \in Names, ClearAppenders(n)
    PROVE  LoggerInv' /\ FollowInv'
<1>1. Sound(loggers[n]) /\ ShapeInv /\ HeldInv /\ touched \subseteq Names
  BY DEF LoggerInv, ShapeInv, CountInv
<1>2. PICK g : g = Cleared(loggers[n])
  OBVIOUS
<1>3. Sound(g) /\ g.fmt = loggers[n].fmt /\ DOMAIN g.refs = {}
  BY <1>1, <1>2, ClearedFacts
<1>4. /\ Changes /\ loggers' = [loggers EXCEPT ![n] = g] /\ UNCHANGED <<held, strayed>>
      /\ touched' = touched \cup {n}
  BY <1>2 DEF ClearAppenders
<1>5. ShapeInv' /\ \A m \in Names \ {n} : loggers'[m] = loggers[m]
  BY <1>1, <1>3, <1>4, ShapeKept
<1>6. HeldInv'
  BY <1>1, <1>3, <1>4, HeldShrinks
<1>7. QED
  BY <1>1, <1>4, <1>5, <1>6, ChangesStep

LEMMA SetAppenderFormatterStep ==
    ASSUME IInv, LoggerInv, FollowInv, NEW h \in Handles, NEW f \in Formats \cup {NoFormat},
           SetAppenderFormatter(h, f)
    PROVE  LoggerInv' /\ FollowInv'
<1>1. /\ Changes /\ UNCHANGED <<loggers, touched>>
      /\ held' = [held EXCEPT ![h].fmt = f, ![h].own = (f # NoFormat)]
  BY DEF SetAppenderFormatter
<1>2. ShapeInv /\ HeldInv /\ touched \subseteq Names /\ f \in Used
  BY DEF LoggerInv, CountInv, Used
<1>3. held[h] \in Appenders /\ DOMAIN held = Handles
  BY <1>2 DEF HeldInv
<1>4. PICK own : own = (f # NoFormat)
  OBVIOUS
<1>5. own \in BOOLEAN /\ (own <=> f # NoFormat)
  BY <1>4, Zenon
<1>6. held' = [held EXCEPT ![h].fmt = f, ![h].own = own]
  BY <1>1, <1>4, Zenon
<1>7. /\ DOMAIN held' = Handles /\ held'[h] = [held[h] EXCEPT !.fmt = f, !.own = own]
      /\ \A x \in Handles \ {h} : held'[x] = held[x]
  BY <1>3, <1>6
<1>8. held'[h] \in Appenders /\ held'[h].own = own
  BY <1>2, <1>3, <1>5, <1>7 DEF Appenders
<1>9. \A m \in Names, x \in Handles : Holds(m, x)' <=> Holds(m, x)
  BY <1>1 DEF Holds
<1>10. /\ \A x \in Handles \ {h} : x \in strayed' <=> x \in strayed
       /\ strayed' \subseteq Handles
       /\ f = NoFormat /\ h \notin strayed' => \A m \in Names : ~Holds(m, h)
  <2>1. strayed \subseteq Handles
    BY <1>2 DEF HeldInv
  <2>2. CASE f # NoFormat
    BY <2>1, <2>2 DEF SetAppenderFormatter
  <2>3. CASE f = NoFormat /\ \E m \in Names : Holds(m, h)
    <3>1. strayed' = strayed \cup {h}
      BY <2>3 DEF SetAppenderFormatter
    <3>2. QED
      BY <2>1, <3>1
  <2>4. CASE f = NoFormat /\ ~\E m \in Names : Holds(m, h)
    <3>1. strayed' = strayed \ {h}
      BY <2>4 DEF SetAppenderFormatter
    <3>2. QED
      BY <2>1, <2>4, <3>1
  <2>5. QED
    BY <2>2, <2>3, <2>4
<1>11. HeldInv'
  <2>1. \A x \in Handles : held'[x] \in Appenders
    BY <1>2, <1>7, <1>8 DEF HeldInv
  <2>2. ASSUME NEW m \in Names, NEW x \in Handles \ strayed', Holds(m, x), ~held'[x].own
        PROVE  held'[x].fmt = loggers[m].fmt /\ \A k \in Names : Holds(k, x) => k = m
    <3>1. x # h
      BY <1>5, <1>8, <1>10, <2>2
    <3>2. x \in Handles \ strayed /\ held'[x] = held[x]
      BY <1>7, <1>10, <3>1
    <3>3. QED
      BY <1>2, <2>2, <3>2 DEF HeldInv
  <2>3. QED
    BY <1>1, <1>7, <1>9, <1>10, <2>1, <2>2 DEF HeldInv
<1>12. ShapeInv'
  BY <1>1, <1>2 DEF ShapeInv, Sound
<1>13. QED
  BY <1>1, <1>2, <1>11, <1>12, ChangesStep

-----------------------------------------------------------------------------
LEMMA LoggersInit == ASSUME Init PROVE LoggerInv /\ FollowInv
<1>1. /\ \A t \in Threads : thr[t] = AtRest /\ todo[t] = {} /\ step[t] = NoStep
      /\ DOMAIN todo = Threads /\ DOMAIN step = Threads
      /\ DOMAIN loggers = Names /\ \A n \in Names : loggers[n] = Fresh(n)
      /\ DOMAIN held = Handles /\ \A h \in Handles : held[h] = Stdout(NoFormat)
      /\ cbs = {LogListener} /\ val = Default /\ changes = 0 /\ touched = {} /\ strayed = {}
  BY DEF Init, ConfigInit
<1>2. CountInv
  <2>1. MaxChanges \in Nat
    BY LogAssumption
  <2>2. QED
    BY <1>1, <2>1 DEF CountInv
<1>3. ShapeInv
  BY <1>1, FreshFacts DEF ShapeInv
<1>4. HeldInv
  <2>1. Stdout(NoFormat) \in Appenders
    BY StdoutFacts DEF Used
  <2>2. \A n \in Names : \A h : ~Holds(n, h)
    BY <1>1, FreshFacts DEF Holds
  <2>3. QED
    BY <1>1, <2>1, <2>2 DEF HeldInv
<1>5. RunInv
  BY <1>1 DEF RunInv
<1>6. \A t \in Threads : \A n : ~Past(t, n) /\ ~AtName(t, n)
  BY <1>1, RestFacts DEF Past, Told, AtName
<1>7. \A n \in Names : Follows(n, loggers[n], val[n])
  BY <1>1, FreshFacts, LogAssumption
<1>8. QED
  BY <1>2, <1>3, <1>4, <1>5, <1>6, <1>7 DEF LoggerInv, FollowInv

LEMMA LoggersStep ==
    ASSUME IInv, LoggerInv, FollowInv, [Next]_vars PROVE LoggerInv' /\ FollowInv'
<1> DEFINE Goal == LoggerInv' /\ FollowInv'
<1>1. ASSUME UNCHANGED <<logVars, val, cbs, thr, overlap>> PROVE Goal
  <2>1. \A u \in Threads : /\ Told(u, LogListener)' <=> Told(u, LogListener)
                           /\ Pending(u) => Pending(u)'
    BY <1>1 DEF Told, Pending
  <2>2. QED
    BY <1>1, <2>1, QuietStep DEF LoggerInv, RunInv
<1>2. ASSUME Environment, UNCHANGED logVars PROVE Goal
  BY <1>1, <1>2, EnvironmentFacts
<1>3. ASSUME NEW t \in Threads, ConfigStep(t), UNCHANGED logVars PROVE Goal
  BY <1>3, QuietConfig, LoggersStore
<1>4. ASSUME NEW t \in Threads, NEW l \in Listeners \ {LogListener}, Notify(t, l) \/ ReadFirst(t, l),
             UNCHANGED logVars
      PROVE  Goal
  BY <1>4, OtherListener
<1>5. ASSUME NEW l \in Listeners \ {LogListener}, DelListener(l), UNCHANGED logVars PROVE Goal
  BY <1>5, OtherListener
<1>6. UNCHANGED vars => UNCHANGED <<logVars, val, cbs, thr, overlap>>
  BY DEF vars, configVars
<1>7. ASSUME Program PROVE Goal
  BY <1>7, SetLoggerFormatterStep, AddAppenderStep, DelAppenderStep, ClearAppendersStep,
     SetAppenderFormatterStep DEF Program
<1> HIDE DEF Goal
<1>8. Goal
  BY <1>1, <1>2, <1>3, <1>4, <1>5, <1>6, <1>7, StartStep, LoggerStep, ClearStep, AppenderStep
     DEF Next, Step, Goal
<1>9. QED
  BY <1>8 DEF Goal

LEMMA LoggersAlways == Spec => [](IInv /\ LoggerInv /\ FollowInv)
<1>1. Init => LoggerInv /\ FollowInv
  BY LoggersInit
<1>2. IInv /\ (LoggerInv /\ FollowInv) /\ [Next]_vars => (LoggerInv /\ FollowInv)'
  BY LoggersStep
<1>3. QED
  BY <1>1, <1>2, InvAlways, PTL DEF Spec

(* However calls of setValue, loads, changes of the listeners, the steps of    *)
(* LogIniter's listener and the program's own changes interleave, a ConfigVar, *)
(* the loggers and their appenders keep their types: only values that parsed   *)
(* are stored and given to listeners (config.h:380-417), and a format is one   *)
(* that parses, the constructor's, or null (log.cpp:100-112,281-309,880-888).  *)
THEOREM TypeCorrect == Spec => []TypeOK
<1>1. IInv /\ LoggerInv => TypeOK
  <2> SUFFICES ASSUME IInv, LoggerInv PROVE TypeOK
    OBVIOUS
  <2>1. ASSUME NEW t \in Threads
        PROVE  /\ todo[t] \subseteq Names /\ (todo[t] # {} => thr[t].pc = "notify")
               /\ step[t] = NoStep \/ (step[t].name \in todo[t] /\ step[t].next \in Nat \ {0})
    BY DEF LoggerInv, RunInv, Pending
  <2>2. ASSUME NEW n \in Names
        PROVE  /\ loggers[n].level \in {Unknown} \cup Levels /\ loggers[n].fmt \in Used
               /\ \A i \in DOMAIN loggers[n].apps : AppenderOK(loggers[n].apps[i])
               /\ \A i \in DOMAIN loggers[n].refs : loggers[n].refs[i] \in Handles
    BY Zenon DEF LoggerInv, ShapeInv, Sound, AppenderOK, Appenders
  <2>3. /\ DOMAIN held = Handles /\ (\A h \in Handles : AppenderOK(held[h]))
        /\ strayed \subseteq Handles
    BY Zenon DEF LoggerInv, HeldInv, AppenderOK, Appenders
  <2>4. /\ DOMAIN loggers = Names /\ DOMAIN todo = Threads /\ DOMAIN step = Threads
        /\ changes \in 0..MaxChanges /\ touched \subseteq Names
    BY DEF LoggerInv, ShapeInv, RunInv, CountInv
  <2>5. QED
    BY <2>1, <2>2, <2>3, <2>4, Zenon DEF TypeOK, IInv
<1>2. QED
  BY <1>1, LoggersAlways, PTL

(* Appenders without a format of their own write in their logger's format,     *)
(* whichever change came last, also between the separately locked steps of a   *)
(* new configuration (log.cpp:281-294,340-349,852-891).  Left out are those    *)
(* the program added to a logger while they had the format of another or were  *)
(* in another logger, which addAppender does not give the new one              *)
(* (log.cpp:343), and those whose formatter was set to null in a logger.       *)
THEOREM FormatAlwaysInherited == Spec => []InheritedFormat
<1>1. LoggerInv => InheritedFormat
  BY DEF LoggerInv, ShapeInv, HeldInv, Sound, InheritedFormat
<1>2. QED
  BY <1>1, LoggersAlways, PTL

(* A logger that is as d says writes what d says. *)
LEMMA FollowsWrites ==
    ASSUME NEW n \in Names, NEW d \in Defines, d # NoDefine, Follows(n, loggers[n], d),
           NEW lvl \in Levels
    PROVE  AsDefined(n, d, lvl)
<1> DEFINE g == loggers[n]  e == Effective(d.apps)  out == Output(n, lvl)
<1>1. /\ g.level = d.level /\ DOMAIN g.apps = DOMAIN e /\ DOMAIN g.refs = {}
      /\ \A i \in DOMAIN g.apps : Fits(g.apps[i], d.apps[i], d)
  BY DEF Follows
<1>2. Places(n) = DOMAIN g.apps /\ \A i \in DOMAIN g.apps : At(n, i) = g.apps[i]
  BY <1>1 DEF Places, At
<1>3. /\ DOMAIN Takers(n, lvl) = {j \in DOMAIN g.apps : lvl >= g.level /\ lvl >= g.apps[j].level}
      /\ \A i \in DOMAIN Takers(n, lvl) : Takers(n, lvl)[i] = g.apps[i]
  BY <1>2 DEF Takers
<1>4. \A i \in DOMAIN e : e[i] = d.apps[i]
  BY DEF Effective
<1>5. lvl \in Int /\ d.level \in Int /\ \A j \in DOMAIN g.apps : lvl >= g.apps[j].level
  BY <1>1 DEF Levels, Defines, Unknown, Fits
<1> HIDE DEF g, e
<1>6. CASE lvl < d.level
  <2>1. DOMAIN out = {}
    BY <1>1, <1>3, <1>5, <1>6 DEF Output, g
  <2>2. QED
    BY <1>6, <2>1 DEF AsDefined
<1>7. CASE ~(lvl < d.level) /\ DOMAIN e = {}
  <2>1. lvl >= d.level /\ DOMAIN g.apps = {}
    BY <1>1, <1>5, <1>7
  <2>2. IF n = "root" THEN DOMAIN out = {} ELSE out = Takers("root", lvl)
    BY <1>1, <1>2, <1>3, <2>1 DEF Output, g
  <2>3. QED
    BY <1>7, <2>2 DEF AsDefined, e
<1>8. CASE ~(lvl < d.level) /\ DOMAIN e # {}
  <2>1. lvl >= g.level
    BY <1>1, <1>5, <1>8
  <2>2. out = Takers(n, lvl)
    BY <1>1, <1>2, <1>8 DEF Output, g
  <2>3. DOMAIN out = DOMAIN e /\ \A i \in DOMAIN e : out[i] = g.apps[i] /\ Fits(out[i], e[i], d)
    BY <1>1, <1>3, <1>4, <1>5, <2>1, <2>2
  <2>4. QED
    BY <1>8, <2>3 DEF AsDefined, Fits, e
<1>9. QED
  BY <1>6, <1>7, <1>8

(* Once no call is under way, and as long as no two overlapped, every logger   *)
(* the program left alone writes what the configuration says, for any chain    *)
(* of values, each applied as a difference to the one before                   *)
(* (log.cpp:829-905).                                                          *)
THEOREM LoggersAlwaysFollow == Spec => []LoggersFollowConfig
<1>1. IInv /\ LoggerInv /\ FollowInv => LoggersFollowConfig
  <2> SUFFICES ASSUME IInv, LoggerInv, FollowInv, ~overlap, Busy = {},
                      NEW n \in Names \ touched, NEW lvl \in Levels
               PROVE  IF val[n] # NoDefine THEN AsDefined(n, val[n], lvl)
                      ELSE n # "root" => Output(n, lvl) = Takers("root", lvl)
    BY DEF LoggersFollowConfig
  <2>1. \A t \in Threads : ~Past(t, n) /\ ~AtName(t, n)
    <3>1. \A t \in Threads : thr[t].pc = "idle" /\ todo[t] = {} /\ step[t] = NoStep
      BY DEF Busy, LoggerInv, RunInv, Pending
    <3>2. QED
      BY <3>1 DEF Past, Told, AtName
  <2>2. Follows(n, loggers[n], val[n])
    BY <2>1 DEF FollowInv
  <2>3. val[n] = NoDefine \/ val[n] \in Defines
    BY LogAssumption, TypeFacts DEF IInv
  <2>4. CASE val[n] # NoDefine
    BY <2>2, <2>3, <2>4, FollowsWrites
  <2>5. CASE val[n] = NoDefine
    <3>1. n # "root" => Places(n) = {} /\ loggers[n].level <= 1
      BY <2>2, <2>5 DEF Follows, Places
    <3>2. loggers[n].level \in Int /\ lvl \in Int /\ lvl >= 1
      BY DEF LoggerInv, ShapeInv, Sound, Levels, Unknown
    <3>3. QED
      BY <2>5, <3>1, <3>2 DEF Output
  <2>6. QED
    BY <2>4, <2>5
<1>2. QED
  BY <1>1, LoggersAlways, PTL
=============================================================================
