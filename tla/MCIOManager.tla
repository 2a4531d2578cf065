----------------------------- MODULE MCIOManager -----------------------------
(* Small instances of IOManager for TLC. *)
EXTENDS IOManager, TLC

CONSTANTS c1, c2, i1, i2, w1, w2

(* Threads of one role and waiters are interchangeable. *)
Symmetry == Permutations(Callers) \cup Permutations(Idlers) \cup Permutations(Waiters)
=============================================================================
