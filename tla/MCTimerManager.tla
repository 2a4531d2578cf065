--------------------------- MODULE MCTimerManager ---------------------------
(* Small instances of TimerManager for TLC. *)
EXTENDS TimerManager, TLC

CONSTANTS i1, i2

(* Idle threads are interchangeable; timers are ordered by address. *)
Symmetry == Permutations(Idlers)
=============================================================================
