------------------------------- MODULE MCHook -------------------------------
(* Small instances of Hook for TLC. *)
EXTENDS Hook

CONSTANTS f1, f2, i1

(* One fiber receives, connects and sleeps, the other one closes. *)
TwoRoles == [f \in Fibers |-> IF f = f1 THEN {"recv", "connect", "usleep"} ELSE {"close"}]

TwoAndNone == [f \in Fibers |-> IF f = f1 THEN 2 ELSE 0]
=============================================================================
