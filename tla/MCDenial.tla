------------------------------ MODULE MCDenial ------------------------------
(* DenialHistory for TLC: the callers of one instance, or of one each.     *)
EXTENDS DenialHistory, TLC
CONSTANTS p1, p2, i1, i2
OneInstance == [p \in Procs |-> i1]
EachItsOwn == (p1 :> i1) @@ (p2 :> i2)
=============================================================================
