---------------------------- MODULE MCHeapQueue ----------------------------
(* Instances of HeapQueue for TLC.                                         *)
EXTENDS HeapQueue

CONSTANTS p1, p2

TwoProcs == {p1, p2}

(* Negative elements serve as flags (heapqueue.h:5-6).                     *)
TwoValues == {-1, 1}
Below == -2
=============================================================================
