------------------------- MODULE TimerManagerProofs -------------------------
(* Proofs about TimerManager, for any number of threads and timers. *)
EXTENDS TimerManager, TLAPS

-----------------------------------------------------------------------------
(* (int) yields an integer, and so does the timeout computed from it. *)
LEMMA WaitTimeInt == ASSUME NEW n \in Nat PROVE WaitTime(n) \in Int
<1>1. ASSUME NEW x \in Nat PROVE ToInt(x) \in Int
  <2>1. x % IntRange \in Int
    BY TimeAssumption
  <2>2. QED
    BY <2>1, TimeAssumption DEF ToInt
<1>2. ToInt(n) \in Int
  BY <1>1
<1>3. (IF ToInt(n) > MaxTimeout THEN MaxTimeout ELSE n) \in Nat
  BY <1>2, TimeAssumption
<1>4. ToInt(IF ToInt(n) > MaxTimeout THEN MaxTimeout ELSE n) \in Int
  BY <1>1, <1>3
<1>5. QED
  BY <1>4 DEF WaitTime

(* Every variable of the timer component keeps its type: no subtraction of   *)
(* the deadline arithmetic leaves the naturals (timer.cpp:40-107,158-216).   *)
THEOREM TypeCorrect == Spec => []TypeOK
<1>1. Init => TypeOK
  <2> SUFFICES ASSUME Init PROVE TypeOK
    OBVIOUS
  <2> USE TimeAssumption DEF Init, Time
  <2>1. now \in Time /\ previouse \in Time /\ setBacks \in 0..MaxSetBack
    OBVIOUS
  <2>2. /\ recurring \in [Timers -> BOOLEAN] /\ cb \in [Timers -> BOOLEAN]
        /\ viaPipe \in [Idlers -> BOOLEAN] /\ tickled \in BOOLEAN /\ signal \in BOOLEAN
    BY Zenon
  <2>3. /\ timers \subseteq (Time \X Timers) /\ cancelled \subseteq Timers
        /\ hand \in [Idlers -> SUBSET Timers]
    OBVIOUS
  <2>4. /\ next \in [Timers -> Time] /\ ms \in [Timers -> Nat]
        /\ left \in [Idlers -> Int] /\ clock \in [Idlers -> Time]
        /\ armedAt \in [Timers -> Time] /\ fired \in [Timers -> Nat]
    OBVIOUS
  <2>5. /\ stage \in [Timers -> {"none", "ctor", "live"}]
        /\ pc \in [Idlers -> {"next", "wait", "read", "expire", "hand", "drain", "busy"}]
    OBVIOUS
  <2>6. QED
    BY <2>1, <2>2, <2>3, <2>4, <2>5 DEF TypeOK
<1>2. TypeOK /\ [Next]_vars => TypeOK'
  <2> SUFFICES ASSUME TypeOK, [Next]_vars PROVE TypeOK'
    OBVIOUS
  <2> USE TimeAssumption DEF TypeOK, Time
  <2>1. ASSUME NEW i \in Idlers, GetNextTimer(i) PROVE TypeOK'
    <3>1. CASE timers = {}
      <4>1. left' = [left EXCEPT ![i] = MaxTimeout]
        BY <2>1, <3>1 DEF GetNextTimer
      <4>2. left' \in [Idlers -> Int]
        BY <4>1
      <4>3. QED
        BY <2>1, <4>2 DEF GetNextTimer
    <3>2. CASE timers # {}
      <4>1. PICK e \in timers :
               left' = [left EXCEPT ![i] = WaitTime(IF now >= e[1] THEN 0 ELSE e[1] - now)]
        BY <2>1, <3>2 DEF GetNextTimer
      <4>2. (IF now >= e[1] THEN 0 ELSE e[1] - now) \in Nat
        OBVIOUS
      <4>3. WaitTime(IF now >= e[1] THEN 0 ELSE e[1] - now) \in Int
        BY <4>2, WaitTimeInt
      <4>4. left' \in [Idlers -> Int]
        BY <4>1, <4>3
      <4>5. QED
        BY <2>1, <4>4 DEF GetNextTimer
    <3>3. QED
      BY <3>1, <3>2
  <2>2. ASSUME NEW i \in Idlers, NEW b \in BOOLEAN, WaitEnds(i, b) PROVE TypeOK'
    BY <2>2 DEF WaitEnds, timerVars
  <2>3. ASSUME NEW i \in Idlers, ReadClock(i) PROVE TypeOK'
    BY <2>3 DEF ReadClock, timerVars
  <2>4. ASSUME NEW i \in Idlers, NoTimers(i) PROVE TypeOK'
    BY <2>4 DEF NoTimers, timerVars
  <2>5. ASSUME NEW i \in Idlers, ListExpiredCb(i) PROVE TypeOK'
    <3> DEFINE c == clock[i]
               due == {e[2] : e \in Expired(c)}
               rec == Refiled(due)
    <3>1. due \subseteq Timers /\ rec \subseteq due
      BY DEF Expired, Refiled
    <3>2. c \in Nat /\ \A t \in Timers : c + ms[t] \in Nat
      OBVIOUS
    <3>3. timers' \subseteq (Time \X Timers)
      <4>1. timers' = (timers \ Expired(c)) \cup {<<c + ms[t], t>> : t \in rec}
        BY <2>5, Zenon DEF ListExpiredCb
      <4> HIDE DEF rec, c
      <4>2. ASSUME NEW t \in rec PROVE <<c + ms[t], t>> \in (Time \X Timers)
        <5>1. t \in Timers
          BY <3>1, Zenon
        <5>2. QED
          BY <5>1, <3>2
      <4>3. ASSUME NEW e \in {<<c + ms[t], t>> : t \in rec} PROVE e \in (Time \X Timers)
        <5>1. PICK t \in rec : e = <<c + ms[t], t>>
          BY Zenon
        <5>2. QED
          BY <5>1, <4>2, Zenon
      <4>4. timers \subseteq (Time \X Timers)
        BY DEF TypeOK
      <4> HIDE DEF TypeOK, Time
      <4>5. QED
        BY <4>1, <4>3, <4>4
    <3>4. next' \in [Timers -> Time] /\ armedAt' \in [Timers -> Time]
      BY <2>5, <3>1, <3>2 DEF ListExpiredCb
    <3>8. cb' \in [Timers -> BOOLEAN]
      <4>1. cb' = [t \in Timers |-> cb[t] /\ t \notin due \ rec]
        BY <2>5, Zenon DEF ListExpiredCb
      <4>2. ASSUME NEW t \in Timers PROVE (cb[t] /\ t \notin due \ rec) \in BOOLEAN
        BY Zenon
      <4>3. QED
        BY <4>1, <4>2, Zenon
    <3>5. fired' \in [Timers -> Nat]
      BY <2>5 DEF ListExpiredCb, Saturated
    <3>6. hand' \in [Idlers -> SUBSET Timers]
      BY <2>5, <3>1 DEF ListExpiredCb
    <3>7. QED
      BY <2>5, <3>3, <3>4, <3>5, <3>6, <3>8 DEF ListExpiredCb
  <2>6. ASSUME NEW i \in Idlers, ScheduleCbs(i) PROVE TypeOK'
    BY <2>6 DEF ScheduleCbs, TickleIf, timerVars
  <2>7. ASSUME NEW i \in Idlers, Drain(i) PROVE TypeOK'
    BY <2>7 DEF Drain, timerVars
  <2>8. ASSUME NEW i \in Idlers, WorkDone(i) PROVE TypeOK'
    BY <2>8 DEF WorkDone, timerVars
  <2>9. ASSUME NEW t \in Timers, NEW m \in Periods, NEW r \in BOOLEAN,
               Construct(t, m, r)
        PROVE TypeOK'
    BY <2>9 DEF Construct, idlerVars
  <2>10. ASSUME NEW t \in Timers, AddTimer(t) PROVE TypeOK'
    BY <2>10 DEF AddTimer, Insert, idlerVars
  <2>11. ASSUME NEW t \in Timers, Cancel(t) PROVE TypeOK'
    BY <2>11 DEF Cancel, Erased, idlerVars
  <2>12. ASSUME NEW t \in Timers, Refresh(t) PROVE TypeOK'
    BY <2>12 DEF Refresh, Erased, idlerVars
  <2>13. ASSUME NEW t \in Timers, NEW m \in Periods, NEW b \in FromNow, Reset(t, m, b)
         PROVE TypeOK'
    <3>1. m \in Nat /\ ResetNext(t, m, b) \in Nat
      BY DEF ResetNext
    <3>2. timers' \subseteq (Time \X Timers)
      BY <2>13, <3>1 DEF Reset, Insert, Erased
    <3>3. QED
      BY <2>13, <3>1, <3>2 DEF Reset, Insert, idlerVars
  <2>14. ASSUME Tick PROVE TypeOK'
    BY <2>14 DEF Tick, timerVars
  <2>15. ASSUME NEW n \in Hour..MaxTime, SetBack(n) PROVE TypeOK'
    BY <2>15 DEF SetBack, timerVars, idlerVars
  <2>16. CASE UNCHANGED vars
    BY <2>16 DEF vars, timerVars, idlerVars
  <2>17. CASE InsertedAtFront
    BY <2>17 DEF InsertedAtFront, TickleIf, idlerVars
  <2> HIDE DEF TypeOK, Time
  <2>18. QED
    BY Zenon, <2>1, <2>2, <2>3, <2>4, <2>5, <2>6, <2>7, <2>8, <2>9, <2>10, <2>11, <2>12,
       <2>13, <2>14, <2>15, <2>16, <2>17
       DEF Next, Idle, Client, Timeout, Tickled, OtherEvent
<1>3. QED
  BY <1>1, <1>2, PTL DEF Spec
-----------------------------------------------------------------------------
(* What KeysMatch says of a single element and of a single timer. *)
FiledUnderNext == \A e \in timers :
    e = <<next[e[2]], e[2]>> /\ stage[e[2]] = "live" /\ cb[e[2]]

LiveIsFiled == \A t \in Timers :
    stage[t] = "live" /\ cb[t] => <<next[t], t>> \in timers

(* What OneShot needs: a collected one-shot timer and a cancelled one have   *)
(* no callback, and neither happens to a timer that was never added.         *)
CollectedOnce == \A t \in Timers :
    /\ stage[t] # "live" => fired[t] = 0 /\ t \notin cancelled
    /\ stage[t] = "ctor" => cb[t]
    /\ t \in cancelled => ~cb[t]
    /\ ~recurring[t] => /\ fired[t] <= 1
                        /\ fired[t] = 1 => ~cb[t]
                        /\ t \in cancelled => fired[t] = 0

TimerInv == FiledUnderNext /\ LiveIsFiled /\ CollectedOnce

(* The two pointwise forms together are KeysMatch. *)
LEMMA KeysMatchPointwise ==
    ASSUME TypeOK, FiledUnderNext, LiveIsFiled PROVE KeysMatch
<1> DEFINE L == {u \in Timers : stage[u] = "live" /\ cb[u]}
<1>1. ASSUME NEW e \in timers PROVE e \in {<<next[t], t>> : t \in L}
  <2>1. e[2] \in Timers
    BY DEF TypeOK
  <2>2. e[2] \in L /\ e = <<next[e[2]], e[2]>>
    BY <2>1 DEF FiledUnderNext
  <2> HIDE DEF L
  <2>3. QED
    BY <2>2, Zenon
<1>2. ASSUME NEW e \in {<<next[t], t>> : t \in L} PROVE e \in timers
  <2>1. PICK t \in L : e = <<next[t], t>>
    BY Zenon
  <2>2. QED
    BY <2>1, Zenon DEF LiveIsFiled
<1>3. QED
  BY <1>1, <1>2, Zenon DEF KeysMatch

(* One step of the specification preserves the inductive invariant. *)
LEMMA TimerInvStep ==
    ASSUME TypeOK, TimerInv, [Next]_vars PROVE TimerInv'
<1> USE DEF TimerInv
<1>1. ASSUME NEW t \in Timers, NEW m \in Periods, NEW r \in BOOLEAN, Construct(t, m, r)
      PROVE TimerInv'
  <2>1. stage[t] = "none" /\ stage' = [stage EXCEPT ![t] = "ctor"]
        /\ next' = [next EXCEPT ![t] = now + m] /\ cb' = [cb EXCEPT ![t] = TRUE]
        /\ recurring' = [recurring EXCEPT ![t] = r]
        /\ UNCHANGED <<timers, fired, cancelled>>
    BY <1>1 DEF Construct
  <2>2. \A e \in timers : e[2] # t
    BY <2>1 DEF FiledUnderNext
  <2>3. FiledUnderNext'
    BY <2>1, <2>2 DEF FiledUnderNext, TypeOK
  <2>4. LiveIsFiled'
    BY <2>1 DEF LiveIsFiled, TypeOK
  <2>5. CollectedOnce'
    BY <2>1 DEF CollectedOnce, TypeOK
  <2>6. QED
    BY <2>3, <2>4, <2>5
<1>2. ASSUME NEW t \in Timers, AddTimer(t) PROVE TimerInv'
  <2>1. stage[t] = "ctor" /\ stage' = [stage EXCEPT ![t] = "live"]
        /\ timers' = timers \cup {<<next[t], t>>}
        /\ UNCHANGED <<next, cb, recurring, fired, cancelled>>
    BY <1>2 DEF AddTimer, Insert
  <2>2. cb[t]
    BY <2>1 DEF CollectedOnce
  <2>3. FiledUnderNext'
    BY <2>1, <2>2 DEF FiledUnderNext, TypeOK
  <2>4. LiveIsFiled'
    BY <2>1 DEF LiveIsFiled, TypeOK
  <2>5. CollectedOnce'
    BY <2>1 DEF CollectedOnce, TypeOK
  <2>6. QED
    BY <2>3, <2>4, <2>5
<1>3. ASSUME NEW t \in Timers, Cancel(t) PROVE TimerInv'
  <2>1. stage[t] = "live" /\ cb[t] /\ cb' = [cb EXCEPT ![t] = FALSE]
        /\ timers' = timers \ {<<next[t], t>>} /\ cancelled' = cancelled \cup {t}
        /\ UNCHANGED <<stage, next, recurring, fired>>
    BY <1>3 DEF Cancel, Erased
  <2>2. \A e \in timers' : e \in timers /\ e[2] # t
    BY <2>1 DEF FiledUnderNext
  <2>3. FiledUnderNext'
    BY <2>1, <2>2 DEF FiledUnderNext, TypeOK
  <2>4. LiveIsFiled'
    BY <2>1 DEF LiveIsFiled, TypeOK
  <2>5. CollectedOnce'
    BY <2>1 DEF CollectedOnce, TypeOK
  <2>6. QED
    BY <2>3, <2>4, <2>5
<1>4. ASSUME NEW t \in Timers, NEW n \in Nat, stage[t] = "live", cb[t],
             next' = [next EXCEPT ![t] = n],
             timers' = (timers \ {<<next[t], t>>}) \cup {<<n, t>>},
             UNCHANGED <<stage, cb, recurring, fired, cancelled>>
      PROVE  TimerInv'
  <2>1. \A e \in timers \ {<<next[t], t>>} : e \in timers /\ e[2] # t
    BY DEF FiledUnderNext
  <2>2. FiledUnderNext'
    BY <1>4, <2>1 DEF FiledUnderNext, TypeOK
  <2>3. LiveIsFiled'
    BY <1>4 DEF LiveIsFiled, TypeOK
  <2>4. CollectedOnce'
    BY <1>4 DEF CollectedOnce
  <2>5. QED
    BY <2>2, <2>3, <2>4
<1>5. ASSUME NEW t \in Timers, Refresh(t) PROVE TimerInv'
  <2>1. now + ms[t] \in Nat
    BY DEF TypeOK, Time
  <2>2. QED
    BY <1>4, <1>5, <2>1 DEF Refresh, Erased
<1>6. ASSUME NEW t \in Timers, NEW m \in Periods, NEW b \in FromNow, Reset(t, m, b)
      PROVE TimerInv'
  <2>1. ResetNext(t, m, b) \in Nat
    BY TimeAssumption DEF ResetNext, TypeOK, Time
  <2>2. QED
    BY <1>4, <1>6, <2>1 DEF Reset, Erased, Insert
<1>7. ASSUME NEW i \in Idlers, ListExpiredCb(i) PROVE TimerInv'
  <2> DEFINE c == clock[i]
             due == {e[2] : e \in Expired(c)}
             rec == Refiled(due)
  <2>1. /\ next' = [t \in Timers |-> IF t \in rec THEN c + ms[t] ELSE next[t]]
        /\ timers' = (timers \ Expired(c)) \cup {<<c + ms[t], t>> : t \in rec}
        /\ cb' = [t \in Timers |-> cb[t] /\ t \notin due \ rec]
        /\ fired' = [t \in Timers |-> IF t \in due THEN Saturated(fired[t] + 1) ELSE fired[t]]
        /\ UNCHANGED <<stage, recurring, cancelled>>
    BY <1>7, Zenon DEF ListExpiredCb
  <2>2. rec = {t \in due : recurring[t]} /\ rec \subseteq due
    BY DEF Refiled
  <2>3. Expired(c) \subseteq timers
    BY DEF Expired
  <2>4. ASSUME NEW t \in due PROVE t \in Timers /\ stage[t] = "live" /\ cb[t]
    <3>1. PICK e \in Expired(c) : t = e[2]
      BY Zenon
    <3>2. e \in timers /\ e[2] \in Timers
      BY <2>3 DEF TypeOK
    <3>3. QED
      BY <3>1, <3>2 DEF FiledUnderNext
  <2>5. ASSUME NEW e \in timers, e \notin Expired(c) PROVE e[2] \notin due
    <3>1. SUFFICES ASSUME e[2] \in due PROVE FALSE
      OBVIOUS
    <3>2. PICK x \in Expired(c) : e[2] = x[2]
      BY <3>1, Zenon
    <3>3. x \in timers
      BY <2>3
    <3>4. e = x
      BY <3>2, <3>3 DEF FiledUnderNext
    <3>5. QED
      BY <3>4, <2>5
  <2>6. ASSUME NEW t \in Timers, t \notin due, stage[t] = "live", cb[t]
        PROVE  <<next[t], t>> \in timers \ Expired(c)
    <3>1. <<next[t], t>> \in timers
      BY <2>6 DEF LiveIsFiled
    <3>2. <<next[t], t>> \notin Expired(c)
      <4>1. SUFFICES ASSUME <<next[t], t>> \in Expired(c) PROVE t \in due
        BY <2>6
      <4>2. t = <<next[t], t>>[2]
        OBVIOUS
      <4>3. QED
        BY <4>1, <4>2, Zenon
    <3>3. QED
      BY <3>1, <3>2
  <2> HIDE DEF due, rec, c
  <2>7. FiledUnderNext'
    <3>1. SUFFICES ASSUME NEW e \in timers'
                   PROVE e = <<next'[e[2]], e[2]>> /\ stage'[e[2]] = "live" /\ cb'[e[2]]
      BY DEF FiledUnderNext
    <3>2. CASE e \in timers \ Expired(c)
      <4>1. e[2] \in Timers /\ e[2] \notin due
        BY <3>2, <2>5 DEF TypeOK
      <4>2. e = <<next[e[2]], e[2]>> /\ stage[e[2]] = "live" /\ cb[e[2]]
        BY <3>2 DEF FiledUnderNext
      <4>3. next'[e[2]] = next[e[2]]
        BY <4>1, <2>1, <2>2
      <4>4. cb'[e[2]] = (cb[e[2]] /\ e[2] \notin due \ rec)
        BY <4>1, <2>1
      <4>5. QED
        BY <4>1, <4>2, <4>3, <4>4, <2>1
    <3>3. CASE e \in {<<c + ms[t], t>> : t \in rec}
      <4>1. PICK t \in rec : e = <<c + ms[t], t>>
        BY <3>3, Zenon
      <4>2. t \in due
        BY <2>2
      <4>3. t \in Timers /\ stage[t] = "live" /\ cb[t]
        BY <4>2, <2>4
      <4>4. next'[t] = c + ms[t] /\ e[2] = t
        BY <4>1, <4>3, <2>1
      <4>5. cb'[t] = (cb[t] /\ t \notin due \ rec)
        BY <4>3, <2>1
      <4>6. QED
        BY <4>1, <4>3, <4>4, <4>5, <2>1
    <3>4. QED
      BY <3>1, <3>2, <3>3, <2>1, Zenon
  <2>8. LiveIsFiled'
    <3>1. SUFFICES ASSUME NEW t \in Timers, stage'[t] = "live", cb'[t]
                   PROVE <<next'[t], t>> \in timers'
      BY DEF LiveIsFiled
    <3>2. cb'[t] = (cb[t] /\ t \notin due \ rec)
      BY <2>1
    <3>3. cb[t] /\ t \notin due \ rec /\ stage[t] = "live"
      BY <3>1, <3>2, <2>1
    <3>4. CASE t \in rec
      <4>1. next'[t] = c + ms[t]
        BY <3>4, <2>1
      <4>2. <<c + ms[t], t>> \in {<<c + ms[u], u>> : u \in rec}
        BY <3>4, Zenon
      <4>3. QED
        BY <4>1, <4>2, <2>1
    <3>5. CASE t \notin rec
      <4>1. t \notin due /\ next'[t] = next[t]
        BY <3>3, <3>5, <2>1
      <4>2. QED
        BY <4>1, <3>3, <2>6, <2>1
    <3>6. QED
      BY <3>4, <3>5
  <2>9. CollectedOnce'
    <3>1. SUFFICES ASSUME NEW t \in Timers
                   PROVE /\ stage'[t] # "live" => fired'[t] = 0 /\ t \notin cancelled'
                         /\ stage'[t] = "ctor" => cb'[t]
                         /\ t \in cancelled' => ~cb'[t]
                         /\ ~recurring'[t] => /\ fired'[t] <= 1
                                              /\ fired'[t] = 1 => ~cb'[t]
                                              /\ t \in cancelled' => fired'[t] = 0
      BY DEF CollectedOnce
    <3>2. cb'[t] = (cb[t] /\ t \notin due \ rec)
      BY <2>1
    <3>3. CASE t \in due
      <4>1. stage[t] = "live" /\ cb[t] /\ fired'[t] = Saturated(fired[t] + 1)
        BY <3>3, <2>1, <2>4
      <4>2. t \notin cancelled /\ (~recurring[t] => fired[t] = 0 /\ t \notin rec)
        BY <4>1, <2>2 DEF CollectedOnce, TypeOK
      <4>3. ~recurring[t] => fired'[t] = 1 /\ ~cb'[t]
        <5>1. ~recurring[t] => ~cb'[t]
          BY <3>2, <3>3, <4>2, Zenon
        <5>2. ~recurring[t] => fired'[t] = 1
          BY <4>1, <4>2 DEF Saturated
        <5>3. QED
          BY <5>1, <5>2
      <4>4. QED
        BY <4>1, <4>2, <4>3, <2>1
    <3>4. CASE t \notin due
      <4>1. fired'[t] = fired[t] /\ cb'[t] = cb[t]
        BY <3>2, <3>4, <2>1 DEF TypeOK
      <4>2. stage'[t] = stage[t] /\ recurring'[t] = recurring[t] /\ cancelled' = cancelled
        BY <2>1
      <4>3. /\ stage[t] # "live" => fired[t] = 0 /\ t \notin cancelled
            /\ stage[t] = "ctor" => cb[t]
            /\ t \in cancelled => ~cb[t]
            /\ ~recurring[t] => /\ fired[t] <= 1
                                /\ fired[t] = 1 => ~cb[t]
                                /\ t \in cancelled => fired[t] = 0
        BY DEF CollectedOnce
      <4>4. QED
        BY <4>1, <4>2, <4>3
    <3>5. QED
      BY <3>3, <3>4
  <2>10. QED
    BY <2>7, <2>8, <2>9
<1>8. ASSUME UNCHANGED <<timers, stage, next, cb, recurring, fired, cancelled>>
      PROVE TimerInv'
  BY <1>8 DEF FiledUnderNext, LiveIsFiled, CollectedOnce
<1>9. ASSUME NEW i \in Idlers, Idle(i) \/ OtherEvent(i) PROVE TimerInv'
  BY <1>7, <1>8, <1>9 DEF Idle, OtherEvent, GetNextTimer, Timeout, Tickled, WaitEnds,
     ReadClock, NoTimers, ScheduleCbs, Drain, WorkDone, timerVars
<1>10. CASE Tick \/ InsertedAtFront \/ (\E n \in Hour..MaxTime : SetBack(n)) \/ UNCHANGED vars
  BY <1>8, <1>10 DEF Tick, InsertedAtFront, SetBack, vars, timerVars
<1> HIDE DEF TimerInv
<1>11. QED
  BY <1>1, <1>2, <1>3, <1>5, <1>6, <1>9, <1>10, Zenon DEF Next, Client

(* The inductive invariant of the timer component. *)
LEMMA TimerInvariant == Spec => [](TypeOK /\ TimerInv)
<1>1. Init => TimerInv
  BY DEF Init, TimerInv, FiledUnderNext, LiveIsFiled, CollectedOnce
<1>2. TypeOK /\ TimerInv /\ [Next]_vars => TimerInv'
  BY TimerInvStep
<1>3. QED
  BY <1>1, <1>2, TypeCorrect, PTL DEF Spec

(* timers_ holds exactly the added timers that have a callback, each under   *)
(* its present next_, so the unchecked erase(find()) of cancel() is safe and *)
(* no key changes inside the std::set (timer.cpp:51-107,158-216).            *)
THEOREM KeysAlwaysMatch == Spec => []KeysMatch
<1>1. TypeOK /\ TimerInv => KeysMatch
  BY KeysMatchPointwise DEF TimerInv
<1>2. QED
  BY <1>1, TimerInvariant, PTL

(* However many threads race in listExpiredCb, a timer that does not recur   *)
(* is collected at most once, and not at all after a successful cancel().    *)
THEOREM OneShotAlways == Spec => []OneShot
<1>1. TypeOK /\ TimerInv => OneShot
  BY DEF TimerInv, CollectedOnce, OneShot
<1>2. QED
  BY <1>1, TimerInvariant, PTL

-----------------------------------------------------------------------------
(* Deadlines and clocks, when every reset counts from now: a deadline is one  *)
(* period after the interval's start, and what was read of the clock is past. *)
DeadlineInv == \A t \in Timers :
    next[t] = armedAt[t] + ms[t] /\ (stage[t] # "none" => ms[t] \in Periods)

ClockInv == setBacks = 0 =>
    /\ previouse <= now
    /\ \A i \in Idlers : clock[i] <= now
    /\ \A t \in Timers : armedAt[t] <= now

LEMMA DeadlineStep ==
    ASSUME FromNow \subseteq {TRUE}, TypeOK, TimerInv, DeadlineInv, [Next]_vars
    PROVE  DeadlineInv'
<1> USE TimeAssumption
<1>1. ASSUME NEW t \in Timers, NEW m \in Periods, NEW r \in BOOLEAN, Construct(t, m, r)
      PROVE DeadlineInv'
  BY <1>1 DEF Construct, DeadlineInv, TypeOK, Time
<1>2. ASSUME NEW t \in Timers, Refresh(t) PROVE DeadlineInv'
  BY <1>2 DEF Refresh, DeadlineInv, TypeOK, Time
<1>3. ASSUME NEW t \in Timers, NEW m \in Periods, NEW b \in FromNow, Reset(t, m, b)
      PROVE DeadlineInv'
  <2>1. b = TRUE /\ m \in Nat /\ now \in Nat
    BY DEF TypeOK, Time
  <2>2. ResetNext(t, m, b) = now + m
    BY <2>1 DEF ResetNext
  <2>3. QED
    BY <1>3, <2>1, <2>2 DEF Reset, DeadlineInv, TypeOK, Time
<1>4. ASSUME NEW i \in Idlers, ListExpiredCb(i) PROVE DeadlineInv'
  <2>1. PICK rec : /\ next' = [t \in Timers |-> IF t \in rec THEN clock[i] + ms[t] ELSE next[t]]
                   /\ armedAt' = [t \in Timers |-> IF t \in rec THEN clock[i] ELSE armedAt[t]]
                   /\ UNCHANGED <<ms, stage>>
    BY <1>4, Zenon DEF ListExpiredCb
  <2>2. QED
    BY <2>1 DEF DeadlineInv
<1>5. ASSUME NEW t \in Timers, AddTimer(t) PROVE DeadlineInv'
  BY <1>5 DEF AddTimer, DeadlineInv, TypeOK
<1>6. ASSUME UNCHANGED <<next, armedAt, ms, stage>> PROVE DeadlineInv'
  BY <1>6 DEF DeadlineInv
<1>7. ASSUME NEW i \in Idlers, Idle(i) \/ OtherEvent(i) PROVE DeadlineInv'
  BY <1>4, <1>6, <1>7 DEF Idle, OtherEvent, GetNextTimer, Timeout, Tickled, WaitEnds,
     ReadClock, NoTimers, ScheduleCbs, Drain, WorkDone, timerVars
<1>8. ASSUME NEW t \in Timers, Cancel(t) PROVE DeadlineInv'
  BY <1>6, <1>8 DEF Cancel
<1>9. CASE Tick \/ InsertedAtFront \/ (\E n \in Hour..MaxTime : SetBack(n)) \/ UNCHANGED vars
  BY <1>6, <1>9 DEF Tick, InsertedAtFront, SetBack, vars, timerVars
<1>10. QED
  BY <1>1, <1>2, <1>3, <1>5, <1>7, <1>8, <1>9, Zenon DEF Next, Client

LEMMA ClockStep == ASSUME TypeOK, ClockInv, [Next]_vars PROVE ClockInv'
<1> USE TimeAssumption
<1>1. ASSUME NEW t \in Timers, Client(t) PROVE ClockInv'
  <2>1. UNCHANGED <<now, setBacks, previouse, clock>>
    BY <1>1 DEF Client, Construct, AddTimer, Cancel, Refresh, Reset, idlerVars
  <2>2. \/ armedAt' = armedAt
        \/ \E v \in {armedAt[t], now} : armedAt' = [armedAt EXCEPT ![t] = v]
    <3>1. ASSUME NEW m \in Periods, NEW b \in FromNow, Reset(t, m, b)
          PROVE  armedAt' = [armedAt EXCEPT ![t] = IF b THEN now ELSE armedAt[t]]
      BY <3>1 DEF Reset
    <3>2. ASSUME \/ \E m \in Periods, r \in BOOLEAN : Construct(t, m, r)
                 \/ Refresh(t)
          PROVE  armedAt' = [armedAt EXCEPT ![t] = now]
      BY <3>2 DEF Construct, Refresh
    <3>3. ASSUME AddTimer(t) \/ Cancel(t) PROVE armedAt' = armedAt
      BY <3>3 DEF AddTimer, Cancel
    <3>4. QED
      BY <1>1, <3>1, <3>2, <3>3 DEF Client
  <2>3. \A u \in Timers : armedAt'[u] \in {armedAt[u], now}
    BY <2>2 DEF TypeOK
  <2>4. QED
    BY <2>1, <2>3 DEF ClockInv, TypeOK, Time
<1>2. ASSUME NEW i \in Idlers, ListExpiredCb(i) PROVE ClockInv'
  <2>1. PICK rec : /\ armedAt' = [t \in Timers |-> IF t \in rec THEN clock[i] ELSE armedAt[t]]
                   /\ previouse' = clock[i] /\ clock' = [clock EXCEPT ![i] = 0]
                   /\ UNCHANGED <<now, setBacks>>
    BY <1>2, Zenon DEF ListExpiredCb
  <2>2. QED
    BY <2>1 DEF ClockInv, TypeOK, Time
<1>3. ASSUME NEW i \in Idlers, ReadClock(i) \/ NoTimers(i) PROVE ClockInv'
  BY <1>3 DEF ReadClock, NoTimers, ClockInv, TypeOK, Time
<1>4. ASSUME UNCHANGED <<now, setBacks, previouse, clock, armedAt>> PROVE ClockInv'
  BY <1>4 DEF ClockInv
<1>5. ASSUME NEW i \in Idlers, Idle(i) \/ OtherEvent(i) PROVE ClockInv'
  BY <1>2, <1>3, <1>4, <1>5 DEF Idle, OtherEvent, GetNextTimer, Timeout, Tickled, WaitEnds,
     ScheduleCbs, Drain, WorkDone
<1>6. CASE Tick
  BY <1>6 DEF Tick, ClockInv, TypeOK, Time
<1>7. ASSUME NEW n \in Hour..MaxTime, SetBack(n) PROVE ClockInv'
  BY <1>7 DEF SetBack, ClockInv, TypeOK
<1>8. QED
  BY <1>1, <1>4, <1>5, <1>6, <1>7 DEF Next, InsertedAtFront, vars, idlerVars

LEMMA DeadlineInvariant ==
    ASSUME FromNow \subseteq {TRUE}
    PROVE  Spec => [](TypeOK /\ TimerInv /\ DeadlineInv /\ ClockInv)
<1>1. Init => DeadlineInv /\ ClockInv
  BY TimeAssumption DEF Init, DeadlineInv, ClockInv
<1>2. TypeOK /\ TimerInv /\ DeadlineInv /\ ClockInv /\ [Next]_vars => DeadlineInv' /\ ClockInv'
  BY DeadlineStep, ClockStep
<1>3. QED
  BY <1>1, <1>2, TimerInvariant, PTL DEF Spec

(* No thread is held up, between reading the clock in listExpiredCb and       *)
(* taking the lock, while others collect timers more than an hour later: its  *)
(* old reading would pass for a clock that was set back (timer.cpp:160,175).  *)
Prompt == \A i \in Idlers : pc[i] = "expire" /\ setBacks = 0 => previouse <= clock[i] + Hour

(* What listExpiredCb collects is due. *)
LEMMA CollectedIsDue ==
    ASSUME TypeOK, TimerInv, DeadlineInv, ClockInv, Prompt, setBacks = 0, [Next]_vars,
           NEW i \in Idlers, NEW t \in hand'[i] \ hand[i]
    PROVE  now >= armedAt[t] + ms[t]
<1>1. ASSUME NEW k \in Idlers, ListExpiredCb(k) PROVE now >= armedAt[t] + ms[t]
  <2>1. PICK due : /\ due = {e[2] : e \in Expired(clock[k])}
                   /\ hand' = [hand EXCEPT ![k] = {u \in due : cb[u]}] /\ pc[k] = "expire"
    BY <1>1, Zenon DEF ListExpiredCb
  <2>2. i = k /\ t \in due
    BY <2>1 DEF TypeOK
  <2>3. PICK e \in Expired(clock[k]) : t = e[2]
    BY <2>1, <2>2, Zenon
  <2>4. ~Rollover(clock[k])
    BY <2>1, TimeAssumption DEF Prompt, Rollover, TypeOK, Time
  <2>5. e \in timers /\ e[1] <= clock[k]
    BY <2>4 DEF Expired
  <2>6. e = <<next[t], t>> /\ t \in Timers
    BY <2>3, <2>5 DEF TimerInv, FiledUnderNext, TypeOK
  <2>7. next[t] <= clock[k] /\ clock[k] <= now /\ next[t] = armedAt[t] + ms[t]
    BY <2>5, <2>6 DEF ClockInv, DeadlineInv
  <2>8. QED
    BY <2>6, <2>7 DEF TypeOK, Time
<1>2. CASE hand' = hand \/ \E k \in Idlers : hand' = [hand EXCEPT ![k] = {}]
  BY <1>2 DEF TypeOK
<1>3. ASSUME NEW k \in Idlers, Idle(k) \/ OtherEvent(k) PROVE now >= armedAt[t] + ms[t]
  BY <1>1, <1>2, <1>3 DEF Idle, OtherEvent, GetNextTimer, Timeout, Tickled, WaitEnds,
     ReadClock, NoTimers, ScheduleCbs, Drain, WorkDone
<1>4. ASSUME NEW u \in Timers, Client(u) PROVE hand' = hand
  BY <1>4 DEF Client, Construct, AddTimer, Cancel, Refresh, Reset, idlerVars
<1>5. QED
  BY <1>2, <1>3, <1>4 DEF Next, Tick, InsertedAtFront, SetBack, vars, idlerVars

(* No callback is collected before its interval is over, however many threads *)
(* collect and whatever refresh or reset races with them, as long as the      *)
(* clock is not set back, every reset counts from now, and no thread is held  *)
(* up for an hour on its way to the lock (timer.cpp:158-216).                 *)
THEOREM NeverEarly == ASSUME FromNow \subseteq {TRUE} PROVE Spec /\ []Prompt => NotEarly
<1>1. TypeOK /\ TimerInv /\ DeadlineInv /\ ClockInv /\ Prompt /\ [Next]_vars
        => [\A i \in Idlers : \A t \in hand'[i] \ hand[i] :
              setBacks = 0 => now >= armedAt[t] + ms[t]]_vars
  BY CollectedIsDue
<1>2. QED
  BY <1>1, DeadlineInvariant, PTL DEF Spec, NotEarly

(* A single thread is never held up by others. *)
LEMMA OneIdlerPrompt ==
    ASSUME FromNow \subseteq {TRUE}, \A i, k \in Idlers : i = k PROVE Spec => []Prompt
<1> DEFINE Inv == \A i \in Idlers : pc[i] = "expire" /\ setBacks = 0 => previouse <= clock[i]
<1>1. Init => Inv
  BY DEF Init
<1>2. TypeOK /\ ClockInv /\ Inv /\ [Next]_vars => Inv'
  <2> SUFFICES ASSUME TypeOK, ClockInv, Inv, [Next]_vars PROVE Inv'
    OBVIOUS
  <2>1. ASSUME NEW i \in Idlers, ReadClock(i) PROVE Inv'
    BY <2>1 DEF ReadClock, ClockInv, TypeOK
  <2>2. ASSUME NEW i \in Idlers, pc'[i] # "expire" PROVE Inv'
    BY <2>2
  <2>3. ASSUME NEW i \in Idlers, Idle(i) \/ OtherEvent(i), ~ReadClock(i) PROVE pc'[i] # "expire"
    BY <2>3 DEF Idle, OtherEvent, GetNextTimer, Timeout, Tickled, WaitEnds, NoTimers,
       ListExpiredCb, ScheduleCbs, Drain, WorkDone, TypeOK
  <2>4. ASSUME UNCHANGED <<pc, setBacks, previouse, clock>> PROVE Inv'
    BY <2>4
  <2>5. ASSUME NEW t \in Timers, Client(t) PROVE Inv'
    BY <2>4, <2>5 DEF Client, Construct, AddTimer, Cancel, Refresh, Reset, idlerVars
  <2>6. ASSUME NEW n \in Hour..MaxTime, SetBack(n) PROVE Inv'
    BY <2>6 DEF SetBack, TypeOK
  <2>7. CASE Tick \/ InsertedAtFront \/ UNCHANGED vars
    BY <2>4, <2>7 DEF Tick, InsertedAtFront, vars, idlerVars
  <2> HIDE DEF Inv
  <2>8. QED
    BY <2>1, <2>2, <2>3, <2>5, <2>6, <2>7 DEF Next
<1>3. TypeOK /\ Inv => Prompt
  BY TimeAssumption DEF Prompt, TypeOK, Time
<1>4. QED
  BY <1>1, <1>2, <1>3, DeadlineInvariant, PTL DEF Spec

(* With one thread, which is how many IOManager creates by default            *)
(* (iomanager.h), that holds of every execution.                              *)
THEOREM NeverEarlyAlone ==
    ASSUME FromNow \subseteq {TRUE}, \A i, k \in Idlers : i = k PROVE Spec => NotEarly
<1>1. Spec => []Prompt
  BY OneIdlerPrompt
<1>2. QED
  BY <1>1, NeverEarly, PTL

-----------------------------------------------------------------------------
(* The timeout of epoll_wait.                                                 *)

(* (int) leaves alone what fits into an int. *)
LEMMA ToIntSmall == ASSUME NEW n \in Nat, 2 * n < IntRange PROVE ToInt(n) = n
<1>1. n < IntRange
  BY TimeAssumption
<1>2. n % IntRange = n
  BY <1>1, TimeAssumption
<1>3. QED
  BY <1>2, TimeAssumption DEF ToInt

LEMMA WaitTimeSmall ==
    ASSUME NEW n \in Nat, 2 * n < IntRange, 2 * MaxTimeout < IntRange
    PROVE  WaitTime(n) \in 0..n
<1>1. PICK x : x = IF ToInt(n) > MaxTimeout THEN MaxTimeout ELSE n
  OBVIOUS
<1>2. x \in 0..n /\ 2 * x < IntRange
  BY <1>1, ToIntSmall, TimeAssumption
<1>3. ToInt(x) = x
  BY <1>2, ToIntSmall
<1>4. QED
  BY <1>1, <1>2, <1>3 DEF WaitTime

(* The pipe is signalled, or a call is about to signal it. *)
Woken == signal \/ tickling > 0

(* The sleeping thread will look in time: its timeout ends before any deadline, *)
(* or it is about to be woken, which it is whenever tickled_ is set.           *)
WatchInv == \A i \in Idlers : setBacks = 0 /\ pc[i] = "wait" =>
    /\ tickled => Woken
    /\ Woken \/ timers = {} \/ InTime(i)

(* Inserting at the front owes a tickle; behind the front no deadline is      *)
(* earlier than the first.                                                    *)
LEMMA InsertWatched ==
    ASSUME TypeOK, WatchInv, setBacks = 0, NEW S \in SUBSET timers, NEW e \in Time \X Timers,
           Insert(S, e), UNCHANGED <<now, setBacks, pc, left, signal>>
    PROVE  WatchInv'
<1> SUFFICES ASSUME NEW i \in Idlers, pc[i] = "wait"
             PROVE  (tickled' => Woken') /\ (Woken' \/ InTime(i)')
  BY DEF WatchInv
<1>1. /\ timers' = S \cup {e} /\ (Woken => Woken')
      /\ (AtFront(S, e) /\ ~tickled => Woken') /\ (tickled' => tickled \/ (AtFront(S, e) /\ ~tickled))
  BY TimeAssumption DEF Insert, Woken, TypeOK
<1>2. (tickled => Woken) /\ (Woken \/ timers = {} \/ InTime(i))
  BY DEF WatchInv
<1>3. tickled' => Woken'
  BY <1>1, <1>2
<1>4. ASSUME ~Woken' PROVE InTime(i)'
  <2>1. ~Woken /\ ~AtFront(S, e)
    BY <1>1, <1>2, <1>4
  <2>2. PICK x \in S : x # e /\ ~Before(e, x)
    BY <2>1 DEF AtFront
  <2>3. x \in timers /\ x[1] \in Nat /\ e[1] \in Nat /\ x[1] <= e[1]
    BY <2>2 DEF Before, TypeOK, Time
  <2>4. InTime(i)
    BY <1>2, <2>1, <2>3
  <2>5. left[i] \in Int /\ now \in Nat /\ left' = left /\ now' = now
    BY DEF TypeOK, Time
  <2>6. CASE left[i] = 0
    BY <2>5, <2>6 DEF InTime
  <2>7. CASE left[i] > 0
    <3>1. \A y \in S : left[i] <= y[1] - now
      BY <2>4, <2>5, <2>7 DEF InTime
    <3>2. left[i] <= e[1] - now
      BY <2>2, <2>3, <2>5, <3>1
    <3>3. QED
      BY <1>1, <2>5, <2>7, <3>1, <3>2 DEF InTime
  <2>8. QED
    BY <2>4, <2>6, <2>7 DEF InTime
<1>5. QED
  BY <1>3, <1>4

(* refresh() and cancel() leave every deadline where it is or make it later. *)
LEMMA LaterWatched ==
    ASSUME TypeOK, WatchInv, UNCHANGED <<now, setBacks, pc, left, tickled, tickling, signal>>,
           setBacks = 0, timers' \subseteq Time \X Timers,
           \A e \in timers' : \E x \in timers : x[1] <= e[1]
    PROVE  WatchInv'
<1> SUFFICES ASSUME NEW i \in Idlers, pc[i] = "wait", ~Woken, timers' # {} PROVE InTime(i)'
  BY DEF WatchInv, Woken
<1>1. InTime(i)
  BY DEF WatchInv
<1>2. /\ left[i] \in Int /\ now \in Nat /\ (\A x \in timers : x[1] \in Nat)
      /\ \A e \in timers' : e[1] \in Nat
  BY DEF TypeOK, Time
<1>3. CASE left[i] = 0
  BY <1>3 DEF InTime
<1>4. CASE left[i] > 0
  <2>1. \A e \in timers' : left[i] <= e[1] - now
    BY <1>1, <1>2, <1>4 DEF InTime
  <2>2. QED
    BY <1>4, <2>1 DEF InTime
<1>5. QED
  BY <1>1, <1>3, <1>4 DEF InTime

LEMMA WatchStep ==
    ASSUME FromNow \subseteq {TRUE}, \A i, k \in Idlers : i = k,
           \A m \in Periods : 2 * m < IntRange, 2 * MaxTimeout < IntRange,
           TypeOK, TimerInv, DeadlineInv, ClockInv, WatchInv, [Next]_vars
    PROVE  WatchInv'
<1>0. CASE setBacks' # 0
  BY <1>0 DEF WatchInv
<1>s. CASE setBacks' = 0
  <2>0. setBacks = 0
    <3>1. ASSUME NEW i \in Idlers, Idle(i) \/ OtherEvent(i) PROVE setBacks' = setBacks
      BY <3>1 DEF Idle, OtherEvent, GetNextTimer, Timeout, Tickled, WaitEnds, ReadClock, NoTimers,
         ListExpiredCb, ScheduleCbs, Drain, WorkDone
    <3>2. ASSUME NEW t \in Timers, Client(t) PROVE setBacks' = setBacks
      BY <3>2 DEF Client, Construct, AddTimer, Cancel, Refresh, Reset
    <3>3. ASSUME NEW n \in Hour..MaxTime, SetBack(n) PROVE FALSE
      BY <1>s, <3>3 DEF SetBack, TypeOK
    <3>4. QED
      BY <1>s, <3>1, <3>2, <3>3 DEF Next, Tick, InsertedAtFront, vars
  <2>1. ASSUME NEW i \in Idlers, GetNextTimer(i) PROVE WatchInv'
    <3>1. SUFFICES timers = {} \/ InTime(i)'
      BY <2>1, <3>1 DEF WatchInv, GetNextTimer
    <3>2. CASE timers # {}
      <4>1. PICK e \in timers : /\ AtFront(timers, e)
              /\ left' = [left EXCEPT ![i] = WaitTime(IF now >= e[1] THEN 0 ELSE e[1] - now)]
        BY <2>1, <3>2 DEF GetNextTimer
      <4>2. PICK n : n = IF now >= e[1] THEN 0 ELSE e[1] - now
        OBVIOUS
      <4>3. e[1] \in Nat /\ now \in Nat /\ e[2] \in Timers /\ e[1] = next[e[2]] /\ stage[e[2]] = "live"
        BY DEF TypeOK, Time, TimerInv, FiledUnderNext
      <4>4. ms[e[2]] \in Periods /\ next[e[2]] = armedAt[e[2]] + ms[e[2]] /\ armedAt[e[2]] <= now
        BY <2>0, <4>3 DEF DeadlineInv, ClockInv
      <4>5. n \in Nat /\ n <= ms[e[2]] /\ ms[e[2]] \in Nat /\ 2 * ms[e[2]] < IntRange
        <5>1. /\ ms[e[2]] \in Nat /\ armedAt[e[2]] \in Nat /\ next[e[2]] \in Nat
              /\ 2 * ms[e[2]] < IntRange
          BY <4>3, <4>4 DEF TypeOK, Time
        <5>2. PICK a, b, c, d : a = e[1] /\ b = armedAt[e[2]] /\ c = ms[e[2]] /\ d = now
          OBVIOUS
        <5>3. a = b + c /\ b <= d /\ a \in Nat /\ b \in Nat /\ c \in Nat /\ d \in Nat
          BY <4>3, <4>4, <5>1, <5>2
        <5>4. n = IF d >= a THEN 0 ELSE a - d
          BY <4>2, <5>2
        <5>5. QED
          BY <5>1, <5>2, <5>3, <5>4
      <4>6. 2 * n < IntRange
        BY <4>5, TimeAssumption
      <4>7. WaitTime(n) \in 0..n
        BY <4>5, <4>6, WaitTimeSmall
      <4>8. left'[i] = WaitTime(n) /\ now' = now /\ timers' = timers
        BY <2>1, <4>1, <4>2 DEF GetNextTimer, TypeOK
      <4>9. \A x \in timers : e[1] <= x[1] /\ x[1] \in Nat
        BY <4>1, <4>3 DEF AtFront, Before, TypeOK, Time
      <4>10. CASE left'[i] = 0
        BY <4>10 DEF InTime
      <4>11. CASE left'[i] # 0
        <5>1. left'[i] > 0 /\ left'[i] <= n /\ n = e[1] - now
          BY <4>2, <4>3, <4>5, <4>7, <4>8, <4>11
        <5>2. \A x \in timers' : left'[i] <= x[1] - now'
          BY <4>3, <4>7, <4>8, <4>9, <5>1
        <5>3. QED
          BY <5>1, <5>2 DEF InTime
      <4>12. QED
        BY <4>10, <4>11
    <3>3. QED
      BY <3>2
  <2>2. ASSUME NEW i \in Idlers, Idle(i) \/ OtherEvent(i), ~GetNextTimer(i) PROVE pc'[i] # "wait"
    BY <2>2 DEF Idle, OtherEvent, Timeout, Tickled, WaitEnds, ReadClock, NoTimers,
       ListExpiredCb, ScheduleCbs, Drain, WorkDone, TypeOK
  <2>3. ASSUME NEW i \in Idlers, pc'[i] # "wait" PROVE WatchInv'
    BY <2>3 DEF WatchInv
  <2>4. ASSUME NEW t \in Timers, AddTimer(t) PROVE WatchInv'
    <3>1. /\ Insert(timers, <<next[t], t>>) /\ UNCHANGED <<now, setBacks, pc, left, signal>>
          /\ <<next[t], t>> \in Time \X Timers
      BY <2>4 DEF AddTimer, idlerVars, TypeOK
    <3>2. QED
      BY <2>0, <3>1, InsertWatched
  <2>5. ASSUME NEW t \in Timers, NEW m \in Periods, NEW b \in FromNow, Reset(t, m, b)
        PROVE  WatchInv'
    <3>1. ResetNext(t, m, b) \in Time
      BY TimeAssumption DEF ResetNext, TypeOK, Time
    <3>2. /\ Insert(Erased(t), <<ResetNext(t, m, b), t>>)
          /\ UNCHANGED <<now, setBacks, pc, left, signal>>
      BY <2>5 DEF Reset, idlerVars
    <3>3. Erased(t) \in SUBSET timers /\ <<ResetNext(t, m, b), t>> \in Time \X Timers
      BY <3>1 DEF Erased
    <3>4. QED
      BY <2>0, <3>2, <3>3, InsertWatched
  <2>6. ASSUME NEW t \in Timers, Cancel(t) PROVE WatchInv'
    <3>1. timers' \subseteq timers /\ UNCHANGED <<now, setBacks, pc, left, tickled, tickling, signal>>
      BY <2>6 DEF Cancel, Erased, idlerVars
    <3>2. \A e \in timers' : e \in timers /\ e[1] <= e[1] /\ e \in Time \X Timers
      BY <3>1 DEF TypeOK, Time
    <3>3. QED
      BY <2>0, <3>1, <3>2, LaterWatched
  <2>7. ASSUME NEW t \in Timers, Refresh(t) PROVE WatchInv'
    <3>1. /\ timers' = Erased(t) \cup {<<now + ms[t], t>>} /\ <<next[t], t>> \in timers
          /\ UNCHANGED <<now, setBacks, pc, left, tickled, tickling, signal>>
      BY <2>7 DEF Refresh, Found, idlerVars
    <3>2. next[t] <= now + ms[t] /\ now + ms[t] \in Time /\ next[t] \in Time
      BY <2>0 DEF DeadlineInv, ClockInv, TypeOK, Time
    <3>3. \A e \in timers' : e \in Time \X Timers /\ \E x \in timers : x[1] <= e[1]
      <4>1. ASSUME NEW e \in Erased(t)
            PROVE  e \in Time \X Timers /\ e \in timers /\ e[1] <= e[1]
        BY DEF Erased, TypeOK, Time
      <4>2. PICK x : x = <<next[t], t>>
        OBVIOUS
      <4>3. x \in timers /\ x[1] <= now + ms[t]
        BY <3>1, <3>2, <4>2
      <4>4. ASSUME NEW e, e = <<now + ms[t], t>> PROVE e \in Time \X Timers /\ x[1] <= e[1]
        BY <3>2, <4>3, <4>4
      <4>5. QED
        BY <3>1, <4>1, <4>3, <4>4
    <3>4. QED
      BY <2>0, <3>1, <3>3, LaterWatched
  <2>8. CASE Tick
    <3> SUFFICES ASSUME NEW i \in Idlers, pc[i] = "wait", ~Woken, timers # {} PROVE InTime(i)'
      BY <2>0, <2>8 DEF WatchInv, Woken, Tick, timerVars
    <3>1. /\ InTime(i) /\ left[i] \in Int /\ now \in Nat /\ (\A x \in timers : x[1] \in Nat)
          /\ timers' = timers /\ now' <= now + 1 /\ now' \in Nat
          /\ left'[i] = IF left[i] > 0 THEN left[i] - 1 ELSE left[i]
      BY <2>0, <2>8, TimeAssumption DEF WatchInv, TypeOK, Time, Tick, timerVars, Sleeping
    <3>2. CASE left[i] = 0
      BY <3>1, <3>2 DEF InTime
    <3>3. CASE left[i] > 0
      <4>1. left'[i] = left[i] - 1 /\ \A x \in timers : left[i] <= x[1] - now
        BY <3>1, <3>3 DEF InTime
      <4>2. \A x \in timers' : left'[i] <= x[1] - now'
        BY <3>1, <4>1
      <4>3. left'[i] = 0 \/ left'[i] > 0
        BY <3>1, <3>3, <4>1
      <4>4. QED
        BY <4>2, <4>3 DEF InTime
    <3>4. QED
      BY <3>1, <3>2, <3>3 DEF InTime
  <2>9. ASSUME UNCHANGED <<now, setBacks, pc, left, tickled, tickling, signal, timers>> PROVE WatchInv'
    BY <2>9 DEF WatchInv, Woken, InTime
  <2>10. ASSUME NEW t \in Timers, Client(t) PROVE WatchInv'
    BY <2>4, <2>5, <2>6, <2>7, <2>9, <2>10 DEF Client, Construct, idlerVars
  <2>11. ASSUME NEW n \in Hour..MaxTime, SetBack(n) PROVE FALSE
    BY <1>s, <2>0, <2>11 DEF SetBack
  <2>12. CASE UNCHANGED vars
    BY <2>9, <2>12 DEF vars, timerVars, idlerVars
  <2>13. CASE InsertedAtFront
    <3>1. /\ \A i \in Idlers : pc[i] = "wait" => signal'
          /\ UNCHANGED <<setBacks, pc>>
      BY <2>13 DEF InsertedAtFront, TickleIf, idlerVars
    <3>2. QED
      BY <3>1 DEF WatchInv, Woken
  <2>14. QED
    BY <2>1, <2>2, <2>3, <2>8, <2>10, <2>11, <2>12, <2>13 DEF Next
<1>q. QED
  BY <1>0, <1>s

(* With one thread, it looks at timers_ again no later than the first         *)
(* deadline, although refresh() wakes nobody, tickled_ keeps all but one       *)
(* insertion at the front from writing to the pipe and that one writes after  *)
(* the unlock, until when its call is the promise, provided that the clock    *)
(* is not set back, every reset counts from now, and no period overflows the  *)
(* int that epoll_wait takes (timer.cpp:64-107,203-216, iomanager.cpp:373-398).*)
THEOREM FrontAlwaysWatched ==
    ASSUME FromNow \subseteq {TRUE}, \A i, k \in Idlers : i = k,
           \A m \in Periods : 2 * m < IntRange, 2 * MaxTimeout < IntRange
    PROVE  Spec => []FrontWatched
<1>1. Init => WatchInv
  BY DEF Init, WatchInv
<1>2. TypeOK /\ TimerInv /\ DeadlineInv /\ ClockInv /\ WatchInv /\ [Next]_vars => WatchInv'
  BY WatchStep
<1>3. WatchInv => FrontWatched
  BY DEF WatchInv, Woken, FrontWatched
<1>4. QED
  BY <1>1, <1>2, <1>3, DeadlineInvariant, PTL DEF Spec
=============================================================================
