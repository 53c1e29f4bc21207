---------------------------- MODULE MCSupersession ----------------------------
(* Supersession for TLC: two callers of one instance.                      *)
EXTENDS Supersession
CONSTANTS p1, p2, i1
OneInstance == [p \in Procs |-> i1]
=============================================================================
