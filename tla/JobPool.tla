------------------------------- MODULE JobPool -------------------------------
(***************************************************************************)
(* What the scheduler promises to whoever hands it jobs, without its queue,*)
(* its fibers or its counters: a job is entered once, on the thread it was *)
(* meant for, is on one thread at a time and alone there, may leave its    *)
(* thread and come back on any, and is finished from the thread it is on.  *)
(* Scheduler implements this specification.                                *)
(***************************************************************************)
EXTENDS Naturals

CONSTANTS Jobs, Threads, AnyThread

VARIABLES
    phase,     \* new, queued, started or done
    wanted,    \* the thread the job was submitted for, or AnyThread
    entered,   \* how often the job was entered
    on         \* the pairs <<j, t>> such that job j executes on thread t

poolVars == <<phase, wanted, entered, on>>

PoolInit ==
    /\ phase = [j \in Jobs |-> "new"]
    /\ wanted = [j \in Jobs |-> AnyThread]
    /\ entered = [j \in Jobs |-> 0]
    /\ on = {}

Free(j, t) == \A x \in on : x[1] # j /\ x[2] # t

Submit(j, p) ==
    /\ phase[j] = "new"
    /\ phase' = [phase EXCEPT ![j] = "queued"]
    /\ wanted' = [wanted EXCEPT ![j] = p]
    /\ UNCHANGED <<entered, on>>

Enter(j, t) ==
    /\ phase[j] = "queued" /\ entered[j] = 0
    /\ wanted[j] \in {AnyThread, t}
    /\ Free(j, t)
    /\ phase' = [phase EXCEPT ![j] = "started"]
    /\ entered' = [entered EXCEPT ![j] = 1]
    /\ on' = on \cup {<<j, t>>}
    /\ UNCHANGED wanted

(* A job asks to be continued on thread p. *)
Redirect(j, t, p) ==
    /\ <<j, t>> \in on
    /\ wanted' = [wanted EXCEPT ![j] = p]
    /\ UNCHANGED <<phase, entered, on>>

Suspend(j, t) ==
    /\ <<j, t>> \in on
    /\ on' = on \ {<<j, t>>}
    /\ UNCHANGED <<phase, wanted, entered>>

Resume(j, t) ==
    /\ phase[j] = "started"
    /\ Free(j, t)
    /\ on' = on \cup {<<j, t>>}
    /\ UNCHANGED <<phase, wanted, entered>>

Finish(j, t) ==
    /\ phase[j] = "started" /\ <<j, t>> \in on
    /\ phase' = [phase EXCEPT ![j] = "done"]
    /\ on' = on \ {<<j, t>>}
    /\ UNCHANGED <<wanted, entered>>

PoolNext ==
    \E j \in Jobs, t \in Threads :
        \/ \E p \in Threads \cup {AnyThread} : Submit(j, p) \/ Redirect(j, t, p)
        \/ Enter(j, t) \/ Suspend(j, t) \/ Resume(j, t) \/ Finish(j, t)

PoolSpec == PoolInit /\ [][PoolNext]_poolVars
=============================================================================
