----------------------------- MODULE MCScheduler -----------------------------
(* Small instances of Scheduler for TLC. *)
EXTENDS Scheduler

CONSTANTS w1, w2, f1, f2, j1, j2

(* Fibers and jobs are interchangeable, and so are the worker threads. *)
Symmetry == Permutations(FiberIds) \cup Permutations(Jobs) \cup Permutations(Workers)
=============================================================================
