------------------------------ MODULE MCClient ------------------------------
(* LicenseClient for TLC: both callers of one instance, or of one each.    *)
EXTENDS LicenseClient, TLC
CONSTANTS p1, p2, i1, i2
OneInstance == [p \in Procs |-> i1]
EachItsOwn == (p1 :> i1) @@ (p2 :> i2)

(* Where both callers are of one instance, they are interchangeable.       *)
CallersAndIds == Permutations(Procs) \cup Permutations(Ids)
=============================================================================
