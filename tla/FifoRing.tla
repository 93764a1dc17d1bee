------------------------------ MODULE FifoRing ------------------------------
(***************************************************************************)
(* What utility/libs/main/src/blackboard.h offers the processes that map   *)
(* one board: a queue of at most Capacity elements, first in first out.    *)
(* A process that rolls over makes room by dropping the oldest element;    *)
(* one that does not may only insert while there is room.                  *)
(***************************************************************************)
EXTENDS Integers, Sequences

CONSTANTS Procs, Elements, NoElement, Capacity, RollOver

VARIABLES
  content,         \* the elements on the board, the oldest first
  out              \* out[p]: what the last retrieval of p gave it

Init ==
  /\ content = <<>>
  /\ out = [p \in Procs |-> NoElement]

Insert(e) ==
  /\ Len(content) < Capacity
  /\ content' = Append(content, e)
  /\ UNCHANGED out

MakeRoom(p) ==
  /\ RollOver[p] /\ Len(content) = Capacity
  /\ content' = Tail(content)
  /\ UNCHANGED out

Retrieve(p) ==
  /\ content # <<>>
  /\ out' = [out EXCEPT ![p] = Head(content)]
  /\ content' = Tail(content)

RetrieveNothing(p) ==
  /\ content = <<>>
  /\ out' = [out EXCEPT ![p] = NoElement]
  /\ UNCHANGED content

(* Clear, or the end of the last process that maps the board.              *)
Clear ==
  /\ content' = <<>>
  /\ UNCHANGED out

Work ==
  \/ \E e \in Elements : Insert(e)
  \/ \E p \in Procs : MakeRoom(p) \/ Retrieve(p) \/ RetrieveNothing(p)

Next == Work \/ Clear

Spec == Init /\ [][Next]_<<content, out>>
=============================================================================
