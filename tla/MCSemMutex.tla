----------------------------- MODULE MCSemMutex -----------------------------
(* Instances of SemMutex for TLC: processes p1 to p3, all of which test    *)
(* "failed".                                                               *)
EXTENDS SemMutex, TLC

CONSTANTS p1, p2, p3

MCProcs == {p1, p2, p3}

\* sound for the run without temporal properties
MCSymmetry == Permutations(Procs)
=============================================================================
