----------------------------- MODULE HeapQueue -----------------------------
(***************************************************************************)
(* struct HeapQueue<T, N> of utility/libs/main/src/heapqueue.h, Unix       *)
(* build: a binary min-heap in shared memory, changed by several processes *)
(* under a named Mutex.                                                    *)
(*                                                                         *)
(* The Mutex is the semaphore of SysVSem.  Its constructor may return      *)
(* without it (EINTR), which no operation of the queue tests.  Inside, the *)
(* heap is written word by word, so that a process may die between two     *)
(* writes and leave the others what it has made of the heap so far.        *)
(*                                                                         *)
(* Two processes inside at once race on plain words, which is undefined    *)
(* behaviour: from there on (raced) the model says nothing.                *)
(***************************************************************************)
EXTENDS SysVSem, FiniteSets

CONSTANTS
  N,               \* the template argument: the words of the array
  Values,          \* the elements inserted
  Minimum,         \* the constructor's argument, below every element
  NoValue,         \* a retrieval that has not returned
  MaxInserts,      \* bound: how many insertions are begun
  MaxCrashes,      \* bound: how many processes die
  MaxInterrupts    \* bound: how many signals interrupt a constructor

(* The code never compares heapSize with N: the caller keeps the queue     *)
(* from filling up, as the bound does here.                                *)
ASSUME HeapQueueAssumption ==
  /\ Values \subseteq Int /\ Minimum \in Int
  /\ \A v \in Values : Minimum < v
  /\ NoValue \notin Values \cup {Minimum}
  /\ MaxInserts \in Nat /\ MaxCrashes \in Nat /\ MaxInterrupts \in Nat
  /\ N \in Nat /\ MaxInserts < N

VARIABLES
  heap, heapSize,  \* Store, in shared memory
  pc,              \* where each process stands
  element,         \* element[p]: the argument of insert
  now,             \* now[p]: the index both loops walk with
  minElement, lastElement,   \* the locals of retrieve
  ret,             \* ret[p]: what the last retrieval of p returned
  inserts,         \* how many insertions were begun
  crashes,         \* how many processes have been killed
  count,           \* the elements put in and not yet taken out
  interrupts,      \* how many constructors were interrupted
  raced            \* two processes have been inside at once

store == <<heap, heapSize>>
locals == <<element, now, minElement, lastElement>>
ghosts == <<inserts, crashes, count>>
mutex == <<semVars, interrupts, raced>>
vars == <<store, mutex, pc, locals, ret, ghosts>>

Words == 0 .. N - 1
Elements == Values \cup {Minimum, 0}

InsertLocations == {"grow", "place", "siftUp"}
RetrieveLocations == {"take", "siftDown"}
Inside == InsertLocations \cup RetrieveLocations \cup {"init"}
Locked == Inside \cup {"unlock"}
Locations == Locked \cup {"opening", "idle", "insert", "retrieve", "dead"}

TypeOK ==
  /\ heap \in [Words -> Elements] /\ heapSize \in Words
  /\ SemTypeOK /\ interrupts \in 0 .. MaxInterrupts /\ raced \in BOOLEAN
  /\ pc \in [Procs -> Locations]
  /\ element \in [Procs -> Elements] /\ now \in [Procs -> Words]
  /\ minElement \in [Procs -> Elements] /\ lastElement \in [Procs -> Elements]
  /\ ret \in [Procs -> Elements \cup {NoValue}]
  /\ inserts \in 0 .. MaxInserts /\ crashes \in 0 .. MaxCrashes
  /\ count \in -MaxCrashes .. MaxInserts

(* ftruncate has filled the new object with zeros; every process is about  *)
(* to run the constructor with initialize.                                 *)
Init ==
  /\ heap = [i \in Words |-> 0] /\ heapSize = 0
  /\ SemInit /\ interrupts = 0 /\ raced = FALSE
  /\ pc = [p \in Procs |-> "opening"]
  /\ element = [p \in Procs |-> Minimum] /\ now = [p \in Procs |-> 0]
  /\ minElement = [p \in Procs |-> Minimum]
  /\ lastElement = [p \in Procs |-> Minimum]
  /\ ret = [p \in Procs |-> NoValue]
  /\ inserts = 0 /\ crashes = 0 /\ count = 0

Goto(p, l) == pc' = [pc EXCEPT ![p] = l]

(* The variables on the stack of p go out of scope.                        *)
Unwind(p) ==
  /\ element' = [element EXCEPT ![p] = Minimum]
  /\ now' = [now EXCEPT ![p] = 0]
  /\ minElement' = [minElement EXCEPT ![p] = Minimum]
  /\ lastElement' = [lastElement EXCEPT ![p] = Minimum]

-----------------------------------------------------------------------------
(* The constructor and the destructor of "Mutex here(mutex)".              *)
GoIn(p) ==
  /\ \/ pc[p] = "opening"  /\ Goto(p, "init")
     \/ pc[p] = "insert"   /\ Goto(p, "grow")
     \/ pc[p] = "retrieve" /\ Goto(p, "take")
  /\ raced' = (\E q \in Procs : pc[q] \in Inside)
  /\ UNCHANGED <<store, locals, ret, ghosts>>

Enter(p) ==
  /\ WaitZeroThenInc(p)
  /\ GoIn(p)
  /\ UNCHANGED interrupts

(* A signal interrupts the sleep: acquire returns, failed is not looked at.*)
EnterInterrupted(p) ==
  /\ semval # 0 /\ interrupts < MaxInterrupts
  /\ interrupts' = interrupts + 1
  /\ GoIn(p)
  /\ UNCHANGED semVars

(* The destructor releases whosever lock it is, and sleeps if it is free.  *)
Leave(p) ==
  /\ pc[p] = "unlock"
  /\ Decrement(p)
  /\ Goto(p, "idle") /\ Unwind(p)
  /\ UNCHANGED <<store, ret, ghosts, interrupts, raced>>

(* A signal interrupts that sleep: the destructor throws, the process ends.*)
LeaveInterrupted(p) ==
  /\ pc[p] = "unlock"
  /\ semval = 0
  /\ UndoAtExit(p)
  /\ Goto(p, "dead") /\ Unwind(p)
  /\ UNCHANGED <<store, ret, ghosts, interrupts, raced>>

(* A slip the runs must notice: the sentinel is not written.               *)
NoSentinel(p) ==
  /\ pc[p] = "init"
  /\ heapSize' = 0
  /\ Goto(p, "unlock")
  /\ UNCHANGED <<heap, mutex, locals, ret, ghosts>>

(* Store::init: the first process empties the heap and puts the minimum in *)
(* the word before the root, the others find it there.                     *)
StoreInit(p) ==
  /\ pc[p] = "init"
  /\ IF heap[0] # Minimum
     THEN heapSize' = 0 /\ heap' = [heap EXCEPT ![0] = Minimum]
     ELSE UNCHANGED store
  /\ Goto(p, "unlock")
  /\ UNCHANGED <<mutex, locals, ret, ghosts>>

-----------------------------------------------------------------------------
(* insert                                                                  *)

Insert(p, v) ==
  /\ pc[p] = "idle"
  /\ inserts < MaxInserts
  /\ inserts' = inserts + 1
  /\ element' = [element EXCEPT ![p] = v]
  /\ Goto(p, "insert")
  /\ UNCHANGED <<store, mutex, now, minElement, lastElement, ret, crashes, count>>

(* heapSize++                                                              *)
Grow(p) ==
  /\ pc[p] = "grow"
  /\ heapSize' = heapSize + 1
  /\ Goto(p, "place")
  /\ UNCHANGED <<heap, mutex, locals, ret, ghosts>>

(* heap[heapSize] = element; now = heapSize                                *)
Place(p) ==
  /\ pc[p] = "place"
  /\ heap' = [heap EXCEPT ![heapSize] = element[p]]
  /\ now' = [now EXCEPT ![p] = heapSize]
  /\ Goto(p, "siftUp")
  /\ UNCHANGED <<heapSize, mutex, element, minElement, lastElement, ret, ghosts>>

(* One turn of the loop moves a parent that is larger down; the last       *)
(* assignment puts the element where the loop has ended.                   *)
SiftUp(p) ==
  /\ pc[p] = "siftUp"
  /\ heap[now[p] \div 2] > element[p]
  /\ heap' = [heap EXCEPT ![now[p]] = heap[now[p] \div 2]]
  /\ now' = [now EXCEPT ![p] = @ \div 2]
  /\ UNCHANGED <<heapSize, mutex, pc, element, minElement, lastElement, ret, ghosts>>

PutUp(p) ==
  /\ pc[p] = "siftUp"
  /\ ~(heap[now[p] \div 2] > element[p])
  /\ heap' = [heap EXCEPT ![now[p]] = element[p]]
  /\ count' = count + 1
  /\ Goto(p, "unlock")
  /\ UNCHANGED <<heapSize, mutex, locals, ret, inserts, crashes>>

-----------------------------------------------------------------------------
(* retrieve                                                                *)

Retrieve(p) ==
  /\ pc[p] = "idle"
  /\ ret' = [ret EXCEPT ![p] = NoValue]
  /\ Goto(p, "retrieve")
  /\ UNCHANGED <<store, mutex, locals, ghosts>>

Empty(p) ==
  /\ pc[p] = "take"
  /\ heapSize = 0
  /\ ret' = [ret EXCEPT ![p] = heap[0]]
  /\ Goto(p, "unlock")
  /\ UNCHANGED <<store, mutex, locals, ghosts>>

(* A slip the runs must notice: the decrement is missing.                  *)
TakeUncounted(p) ==
  /\ pc[p] = "take"
  /\ heapSize # 0
  /\ minElement' = [minElement EXCEPT ![p] = heap[1]]
  /\ lastElement' = [lastElement EXCEPT ![p] = heap[heapSize]]
  /\ now' = [now EXCEPT ![p] = 1]
  /\ Goto(p, "siftDown")
  /\ UNCHANGED <<store, mutex, element, ret, ghosts>>

Take(p) ==
  /\ pc[p] = "take"
  /\ heapSize # 0
  /\ minElement' = [minElement EXCEPT ![p] = heap[1]]
  /\ lastElement' = [lastElement EXCEPT ![p] = heap[heapSize]]
  /\ heapSize' = heapSize - 1
  /\ now' = [now EXCEPT ![p] = 1]
  /\ Goto(p, "siftDown")
  /\ UNCHANGED <<heap, mutex, element, ret, ghosts>>

(* A slip the runs must notice: the right child is never looked at.        *)
LeftChild(i) == 2 * i

(* The child of i that is the smaller, the left one when they are equal or *)
(* there is no right one.                                                  *)
SmallerChild(i) ==
  IF 2 * i # heapSize /\ heap[2 * i + 1] < heap[2 * i] THEN 2 * i + 1 ELSE 2 * i

MovesUp(p) ==
  2 * now[p] <= heapSize /\ lastElement[p] > heap[SmallerChild(now[p])]

SiftDown(p) ==
  /\ pc[p] = "siftDown"
  /\ MovesUp(p)
  /\ heap' = [heap EXCEPT ![now[p]] = heap[SmallerChild(now[p])]]
  /\ now' = [now EXCEPT ![p] = SmallerChild(@)]
  /\ UNCHANGED <<heapSize, mutex, pc, element, minElement, lastElement, ret, ghosts>>

PutDown(p) ==
  /\ pc[p] = "siftDown"
  /\ ~MovesUp(p)
  /\ heap' = [heap EXCEPT ![now[p]] = lastElement[p]]
  /\ ret' = [ret EXCEPT ![p] = minElement[p]]
  /\ count' = count - 1
  /\ Goto(p, "unlock")
  /\ UNCHANGED <<heapSize, mutex, locals, inserts, crashes>>

-----------------------------------------------------------------------------
(* A process dies; the kernel undoes what it did to the semaphore, nobody  *)
(* repairs the heap.                                                       *)
Die(p) ==
  /\ pc[p] # "dead"
  /\ crashes < MaxCrashes
  /\ crashes' = crashes + 1
  /\ UndoAtExit(p)
  /\ Goto(p, "dead") /\ Unwind(p)
  /\ UNCHANGED <<store, ret, inserts, count, interrupts, raced>>

Step(p) ==
  \/ Leave(p) \/ StoreInit(p)
  \/ Grow(p) \/ Place(p) \/ SiftUp(p) \/ PutUp(p)
  \/ Empty(p) \/ Take(p) \/ SiftDown(p) \/ PutDown(p)

Next ==
  /\ ~raced
  /\ \E p \in Procs :
       \/ Enter(p) \/ EnterInterrupted(p) \/ LeaveInterrupted(p)
       \/ Step(p) \/ Retrieve(p) \/ Die(p)
       \/ \E v \in Values : Insert(p, v)

Spec == Init /\ [][Next]_vars

(* A process that is in an operation goes on, and the kernel's queue of    *)
(* sleepers passes nobody over for ever.                                   *)
FairSpec ==
  /\ Spec
  /\ \A p \in Procs :
       SF_vars(~raced /\ Enter(p)) /\ WF_vars(~raced /\ Step(p))

-----------------------------------------------------------------------------
(* The elements of the queue.  One that an operation has lifted out of the *)
(* array, or has not yet put into it, is counted with the array.           *)
Holes ==
  {now[p] : p \in {q \in Procs : pc[q] \in {"siftUp", "siftDown"}}}
    \cup (IF \E p \in Procs : pc[p] = "place" THEN {heapSize} ELSE {})

Cells(v) == {i \in (1 .. heapSize) \ Holes : heap[i] = v}

Lifted(v) ==
  {<<p, "min">> : p \in {q \in Procs : pc[q] = "siftDown" /\ minElement[q] = v}}
    \cup {<<p, "last">> : p \in {q \in Procs : /\ pc[q] = "siftDown"
                                               /\ lastElement[q] = v
                                               /\ heapSize > 0}}

Bag == [v \in Values |-> Cardinality(Cells(v)) + Cardinality(Lifted(v))]

Queue == INSTANCE PriorityQueue WITH bag <- Bag

(* Until a process dies, or an interrupted constructor lets a second one   *)
(* in, the heap is the priority queue of heapqueue.h for any number of     *)
(* processes: every write of an operation is a step of the queue or leaves *)
(* it alone.                                                               *)
ImplementsQueue ==
  /\ Queue!Init
  /\ [][crashes' = 0 /\ ~raced' => Queue!Next \/ UNCHANGED <<Bag, ret>>]_vars

(* Until the first interrupt the semaphore is one when a process is in an  *)
(* operation, which is then the only one, and zero when there is none; its *)
(* exit would undo that.                                                   *)
LockInv ==
  interrupts = 0 =>
    /\ \A p \in Procs : semadj[p] = IF pc[p] \in Locked THEN -1 ELSE 0
    /\ \A p, q \in Procs : pc[p] \in Locked /\ pc[q] \in Locked => p = q
    /\ semval = IF \E p \in Procs : pc[p] \in Locked THEN 1 ELSE 0
    /\ ~raced

(* What raced records.                                                     *)
AloneInv ==
  ~raced => \A p, q \in Procs : pc[p] \in Inside /\ pc[q] \in Inside => p = q

(* Nobody has left the constructor before the sentinel was written.        *)
OpenedInv ==
  \/ heap[0] = Minimum
  \/ heapSize = 0 /\ \A p \in Procs : pc[p] \in {"opening", "init", "dead"}

(* The loops walk over words behind the sentinel.                          *)
WalkInv ==
  \A p \in Procs :
    /\ pc[p] \in InsertLocations \cup {"insert"} => element[p] \in Values
    /\ pc[p] \in {"place", "siftUp"} => heapSize >= 1
    /\ pc[p] \in {"siftUp", "siftDown"} => now[p] >= 1

(* Insertions that have yet to increase heapSize, and whether the element  *)
(* of one has yet to be counted.                                           *)
Pending == {p \in Procs : pc[p] \in {"insert", "grow"}}
Placing == IF \E p \in Procs : pc[p] \in {"place", "siftUp"} THEN 1 ELSE 0
Taking == IF \E p \in Procs : pc[p] = "siftDown" THEN 1 ELSE 0

SizeInv ==
  /\ IsFiniteSet(Pending)
  /\ heapSize + Cardinality(Pending) <= inserts
  /\ count + Cardinality(Pending) + Placing <= inserts
  /\ heapSize - count - Placing + Taking \in -crashes .. crashes

(* The first n words hold elements, each at least as large as its parent,  *)
(* if word k is left out: its children are compared with its parent.       *)
OrderedBut(n, k) ==
  /\ \A i \in 1 .. n : i # k => heap[i] \in Values
  /\ \A i \in 2 .. n : i # k /\ i \div 2 # k => heap[i \div 2] <= heap[i]
  /\ \A i \in 2 .. n : i \div 2 = k /\ k > 1 => heap[k \div 2] <= heap[i]

(* The heap is in order between operations, and inside one but for the     *)
(* word the operation is about to write, where its element would fit.      *)
HeapOrder ==
  /\ (\A p \in Procs : pc[p] \notin {"place", "siftUp", "siftDown"}) =>
       OrderedBut(heapSize, 0)
  /\ \A p \in Procs :
       /\ pc[p] = "place" => OrderedBut(heapSize - 1, 0)
       /\ pc[p] = "siftUp" =>
            /\ now[p] <= heapSize
            /\ OrderedBut(heapSize, now[p])
            /\ \A i \in 2 .. heapSize : i \div 2 = now[p] => element[p] <= heap[i]
       /\ pc[p] = "siftDown" =>
            /\ minElement[p] \in Values /\ lastElement[p] \in Values
            /\ heapSize > 0 => now[p] <= heapSize
            /\ OrderedBut(heapSize, now[p])
            /\ now[p] > 1 => heap[now[p] \div 2] <= lastElement[p]
            /\ minElement[p] <= lastElement[p]
            /\ \A i \in 1 .. heapSize : i # now[p] => minElement[p] <= heap[i]

(* What holds after any number of deaths, and what they put an end to: a   *)
(* heap in order in memory, whoever is in the middle of what.  A race      *)
(* takes an interrupt; until there is one, interrupts are harmless too.    *)
BaseInv == TypeOK /\ LockInv /\ AloneInv /\ OpenedInv /\ WalkInv /\ SizeInv

HeapInv == BaseInv /\ (crashes = 0 /\ ~raced => HeapOrder)

(* A process that dies in the middle of an operation makes heapSize wrong  *)
(* by one element at most: it is never lost, and never grows by itself.    *)
CrashCost ==
  ~raced /\ (\A p \in Procs : pc[p] \notin Inside) =>
    heapSize - count \in -crashes .. crashes

(* Every operation ends, also on a heap that a crash has left disordered:  *)
(* the sentinel stops one loop, heapSize the other.  (After an interrupt a *)
(* destructor may sleep on a semaphore that is free.)                      *)
OperationsEnd ==
  [](interrupts = 0) =>
    \A p \in Procs :
      pc[p] \notin {"idle", "dead"} ~> pc[p] \in {"idle", "dead"}
=============================================================================
