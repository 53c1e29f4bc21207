------------------------------- MODULE MCTask -------------------------------
(* TaskControl for TLC; the host tasks are interchangeable.                *)
EXTENDS TaskControl, TLC
HostSymmetry == Permutations(Procs)
=============================================================================
