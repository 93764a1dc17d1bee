--------------------------- MODULE PriorityQueue ---------------------------
(***************************************************************************)
(* What utility/libs/main/src/heapqueue.h:4-8 promises of a HeapQueue      *)
(* that several processes share: an insertion adds one element, a          *)
(* retrieval takes out a smallest one, or returns the minimum of the       *)
(* queue, which is no element, when there is none.                         *)
(***************************************************************************)
EXTENDS Integers

CONSTANTS Procs, Values, Minimum, NoValue

VARIABLES
  bag,             \* bag[v]: how many elements v the queue holds
  ret              \* ret[p]: what the last retrieval of p returned

Init ==
  /\ bag = [v \in Values |-> 0]
  /\ ret = [p \in Procs |-> NoValue]

Insert(v) ==
  /\ bag' = [bag EXCEPT ![v] = @ + 1]
  /\ UNCHANGED ret

(* A retrieval is called; its result is not there yet.                     *)
Call(p) ==
  /\ ret' = [ret EXCEPT ![p] = NoValue]
  /\ UNCHANGED bag

Smallest(v) == bag[v] > 0 /\ \A w \in Values : w < v => bag[w] = 0

RetrieveSmallest(p) ==
  \E v \in Values :
    /\ Smallest(v)
    /\ bag' = [bag EXCEPT ![v] = @ - 1]
    /\ ret' = [ret EXCEPT ![p] = v]

RetrieveNone(p) ==
  /\ \A v \in Values : bag[v] = 0
  /\ ret' = [ret EXCEPT ![p] = Minimum]
  /\ UNCHANGED bag

Next ==
  \/ \E v \in Values : Insert(v)
  \/ \E p \in Procs : Call(p) \/ RetrieveSmallest(p) \/ RetrieveNone(p)

Spec == Init /\ [][Next]_<<bag, ret>>
=============================================================================
