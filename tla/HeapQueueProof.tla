--------------------------- MODULE HeapQueueProof ---------------------------
(***************************************************************************)
(* Proofs about HeapQueue for any processes, any elements and any size of  *)
(* the array.  BaseInv holds whoever dies; HeapOrder, and with it the      *)
(* priority queue of heapqueue.h, until the first death and as long as no  *)
(* interrupted constructor has let a second process in.                    *)
(***************************************************************************)
EXTENDS HeapQueue, FiniteSetTheorems, WellFoundedInduction, TLAPS

USE HeapQueueAssumption

-----------------------------------------------------------------------------
(* The lock.                                                               *)

(* What p may do.                                                          *)
Acts(p) ==
  \/ Enter(p) \/ EnterInterrupted(p) \/ LeaveInterrupted(p)
  \/ Step(p) \/ Retrieve(p) \/ Die(p)
  \/ \E v \in Values : Insert(p, v)

LEMMA NextActs == Next => ~raced /\ \E p \in Procs : Acts(p)
BY DEF Next, Acts

(* Who is inside is the only one there, unless there has been a race.      *)
LEMMA Alone ==
  ASSUME AloneInv, ~raced, NEW p \in Procs, pc[p] \in Inside
  PROVE  \A q \in Procs : q # p => pc[q] \notin Inside
BY DEF AloneInv

(* The steps between the constructor and the destructor.                   *)
Works(p) ==
  \/ StoreInit(p) \/ Grow(p) \/ Place(p) \/ SiftUp(p) \/ PutUp(p)
  \/ Empty(p) \/ Take(p) \/ SiftDown(p) \/ PutDown(p)

LEMMA WorkStays ==
  ASSUME TypeOK, NEW p \in Procs, Works(p)
  PROVE  /\ UNCHANGED mutex
         /\ pc[p] \in Inside
         /\ \E l \in Locked : pc' = [pc EXCEPT ![p] = l]
<1> USE DEF Works, Locked, Inside, InsertLocations, RetrieveLocations
<1>1. UNCHANGED mutex /\ pc[p] \in Inside
  BY DEF StoreInit, Grow, Place, SiftUp, PutUp, Empty, Take, SiftDown, PutDown
<1>2. CASE SiftUp(p) \/ SiftDown(p)
  <2>1. pc' = [pc EXCEPT ![p] = pc[p]] /\ pc[p] \in Locked
    BY <1>2 DEF SiftUp, SiftDown, TypeOK
  <2>. QED  BY <1>1, <2>1
<1>3. CASE StoreInit(p) \/ Grow(p) \/ Place(p) \/ PutUp(p) \/ Empty(p)
             \/ Take(p) \/ PutDown(p)
  <2>1. \E l \in {"unlock", "place", "siftUp", "siftDown"} : Goto(p, l)
    BY <1>3 DEF StoreInit, Grow, Place, PutUp, Empty, Take, PutDown
  <2>. QED  BY <1>1, <2>1 DEF Goto
<1>. QED  BY <1>2, <1>3

LEMMA StepWorks ==
  ASSUME NEW p \in Procs, Step(p)
  PROVE  Leave(p) \/ Works(p)
BY DEF Step, Works

LEMMA LockStep == TypeOK /\ LockInv /\ Next => LockInv'
<1> SUFFICES ASSUME TypeOK, LockInv, ~raced, NEW p \in Procs, Acts(p),
                    interrupts' = 0
             PROVE  LockInv'
  BY NextActs DEF LockInv
<1> USE DEF Locked, Inside, InsertLocations, RetrieveLocations
<1>1. /\ pc \in [Procs -> Locations] /\ semadj \in [Procs -> Int]
      /\ interrupts \in Nat
  BY DEF TypeOK, SemTypeOK
<1>2. interrupts = 0 /\ ~EnterInterrupted(p)
  <2>1. interrupts' = interrupts \/ EnterInterrupted(p)
    BY WorkStays, StepWorks DEF Acts, Enter, LeaveInterrupted, Leave, Retrieve,
                                Die, Insert, mutex
  <2>. QED  BY <1>1, <2>1 DEF EnterInterrupted
<1>3. /\ \A q \in Procs : semadj[q] = IF pc[q] \in Locked THEN -1 ELSE 0
      /\ \A q, r \in Procs : pc[q] \in Locked /\ pc[r] \in Locked => q = r
      /\ semval = IF \E q \in Procs : pc[q] \in Locked THEN 1 ELSE 0
  BY <1>2 DEF LockInv
<1>4. CASE Enter(p)
  <2>1. \A q \in Procs : pc[q] \notin Locked
    BY <1>3, <1>4 DEF Enter, WaitZeroThenInc
  <2>2. ~raced'
    BY <1>4, <2>1 DEF Enter, GoIn
  <2>3. pc'[p] \in Locked /\ \A q \in Procs : q # p => pc'[q] = pc[q]
    BY <1>1, <1>4 DEF Enter, GoIn, Goto
  <2>4. semval' = 1 /\ semadj' = [semadj EXCEPT ![p] = -1]
    <3>1. semval = 0 /\ semadj[p] = 0
      BY <1>3, <2>1
    <3>. QED  BY <1>4, <3>1 DEF Enter, WaitZeroThenInc
  <2>5. \A q \in Procs : semadj'[q] = IF pc'[q] \in Locked THEN -1 ELSE 0
    BY <1>1, <1>3, <2>1, <2>3, <2>4
  <2>. QED  BY <2>1, <2>2, <2>3, <2>4, <2>5 DEF LockInv
<1>5. CASE Leave(p)
  <2>1. pc[p] \in Locked /\ semval = 1 /\ semadj[p] = -1
    BY <1>3, <1>5 DEF Leave
  <2>2. semval' = 0 /\ semadj' = [semadj EXCEPT ![p] = 0]
    BY <1>5, <2>1 DEF Leave, Decrement
  <2>3. ~raced' /\ pc'[p] = "idle" /\ \A q \in Procs : q # p => pc'[q] = pc[q]
    BY <1>1, <1>5 DEF Leave, Goto
  <2>4. \A q \in Procs : pc'[q] \notin Locked
    BY <1>3, <2>1, <2>3
  <2>5. \A q \in Procs : semadj'[q] = 0
    BY <1>1, <1>3, <2>1, <2>2
  <2>. QED  BY <2>2, <2>3, <2>4, <2>5 DEF LockInv
<1>6. CASE Works(p)
  <2>1. PICK l \in Locked : pc' = [pc EXCEPT ![p] = l]
    BY <1>6, WorkStays
  <2>2. pc[p] \in Locked /\ UNCHANGED <<semval, semadj, raced>>
    BY <1>6, WorkStays DEF mutex, semVars
  <2>3. \A q \in Procs : pc'[q] \in Locked <=> pc[q] \in Locked
    BY <1>1, <2>1, <2>2
  <2>. QED  BY <1>3, <2>2, <2>3 DEF LockInv
<1>7. CASE Retrieve(p) \/ \E v \in Values : Insert(p, v)
  <2>1. UNCHANGED <<semval, semadj, raced>>
    BY <1>7 DEF Retrieve, Insert, mutex, semVars
  <2>2. \A q \in Procs : pc'[q] \in Locked <=> pc[q] \in Locked
    BY <1>1, <1>7 DEF Retrieve, Insert, Goto
  <2>. QED  BY <1>3, <2>1, <2>2 DEF LockInv
<1>8. CASE Die(p)
  <2>1. /\ semadj' = [semadj EXCEPT ![p] = 0] /\ ~raced'
        /\ pc'[p] = "dead" /\ \A q \in Procs : q # p => pc'[q] = pc[q]
    BY <1>1, <1>8 DEF Die, UndoAtExit, Goto
  <2>2. semval' = IF pc[p] \in Locked THEN 0 ELSE semval
    BY <1>1, <1>3, <1>8 DEF Die, UndoAtExit
  <2>. QED  BY <1>1, <1>3, <2>1, <2>2 DEF LockInv
<1>9. ~LeaveInterrupted(p)
  BY <1>3 DEF LeaveInterrupted
<1>. QED  BY <1>2, <1>4, <1>5, <1>6, <1>7, <1>8, <1>9, StepWorks DEF Acts

LEMMA AloneStep == TypeOK /\ AloneInv /\ Next => AloneInv'
<1> SUFFICES ASSUME TypeOK, AloneInv, ~raced, NEW p \in Procs, Acts(p)
             PROVE  AloneInv'
  BY NextActs
<1> USE DEF Inside, InsertLocations, RetrieveLocations
<1>0. pc \in [Procs -> Locations]
  BY DEF TypeOK
<1>1. CASE Enter(p) \/ EnterInterrupted(p)
  BY <1>0, <1>1 DEF Enter, EnterInterrupted, GoIn, Goto, AloneInv
<1>2. CASE Works(p)
  <2>1. \A q \in Procs : q # p => pc'[q] = pc[q] /\ pc[q] \notin Inside
    BY <1>0, <1>2, WorkStays, Alone
  <2>. QED  BY <2>1 DEF AloneInv
<1>3. CASE \/ Leave(p) \/ LeaveInterrupted(p) \/ Retrieve(p) \/ Die(p)
           \/ \E v \in Values : Insert(p, v)
  <2>1. \A q \in Procs : pc'[q] \in Inside => pc[q] \in Inside
    BY <1>0, <1>3 DEF Leave, LeaveInterrupted, Retrieve, Die, Insert, Goto
  <2>. QED  BY <2>1 DEF AloneInv
<1>. QED  BY <1>1, <1>2, <1>3, StepWorks DEF Acts

-----------------------------------------------------------------------------
(* What the loops walk over.                                               *)

(* A process inside an operation finds the sentinel.                       *)
LEMMA Sentinel ==
  ASSUME OpenedInv, NEW p \in Procs, pc[p] \notin {"opening", "init", "dead"}
  PROVE  heap[0] = Minimum
BY DEF OpenedInv

LEMMA OpenedStep ==
  TypeOK /\ OpenedInv /\ WalkInv /\ Next => OpenedInv'
<1> SUFFICES ASSUME TypeOK, OpenedInv, WalkInv, NEW p \in Procs,
                    ~raced, Acts(p)
             PROVE  OpenedInv'
  BY NextActs
<1>0. 0 \in Words /\ heap \in [Words -> Elements]
  BY DEF Words, TypeOK
<1>1. CASE Enter(p) \/ EnterInterrupted(p) \/ Die(p)
  BY <1>1 DEF Enter, EnterInterrupted, GoIn, Die, store, OpenedInv, Goto, TypeOK
<1>2. CASE StoreInit(p)
  BY <1>0, <1>2 DEF StoreInit, store, OpenedInv, Goto, TypeOK
<1>3. CASE \/ Leave(p) \/ LeaveInterrupted(p) \/ Retrieve(p) \/ Empty(p)
           \/ Take(p) \/ Grow(p) \/ \E v \in Values : Insert(p, v)
  <2>1. heap[0] = Minimum
    BY <1>3, Sentinel DEF Leave, LeaveInterrupted, Retrieve, Empty, Take, Grow,
                          Insert
  <2>2. heap' = heap
    BY <1>3 DEF Leave, LeaveInterrupted, Retrieve, Empty, Take, Grow, Insert, store
  <2>. QED  BY <2>1, <2>2 DEF OpenedInv
<1>4. CASE Place(p) \/ SiftUp(p) \/ PutUp(p) \/ SiftDown(p) \/ PutDown(p)
  <2>1. heap[0] = Minimum
    BY <1>4, Sentinel DEF Place, SiftUp, PutUp, SiftDown, PutDown
  <2>2. heapSize >= 1 \/ pc[p] # "place"
    BY DEF WalkInv
  <2>3. now[p] >= 1 \/ pc[p] \notin {"siftUp", "siftDown"}
    BY DEF WalkInv
  <2>4. heap'[0] = heap[0]
    BY <1>0, <1>4, <2>2, <2>3 DEF Place, SiftUp, PutUp, SiftDown, PutDown
  <2>. QED  BY <2>1, <2>4 DEF OpenedInv
<1>. QED  BY <1>1, <1>2, <1>3, <1>4 DEF Step, Acts

(* The parent of a word that is larger than an element is not the sentinel.*)
LEMMA NeverSentinel ==
  ASSUME TypeOK, OpenedInv, WalkInv, NEW p \in Procs, SiftUp(p)
  PROVE  now[p] \div 2 >= 1
<1>1. heap[0] = Minimum /\ element[p] \in Values /\ now[p] >= 1
  BY Sentinel DEF SiftUp, WalkInv, InsertLocations
<1>2. now[p] # 1
  BY <1>1 DEF SiftUp
<1>3. now[p] \in Nat
  BY DEF TypeOK, Words
<1>. QED  BY <1>1, <1>2, <1>3

LEMMA WalkStep ==
  TypeOK /\ AloneInv /\ OpenedInv /\ WalkInv /\ Next => WalkInv'
<1> SUFFICES ASSUME TypeOK, AloneInv, OpenedInv, WalkInv, NEW p \in Procs,
                    ~raced, Acts(p)
             PROVE  WalkInv'
  BY NextActs
<1> USE DEF WalkInv, InsertLocations, Goto
<1>1. CASE Enter(p) \/ EnterInterrupted(p) \/ Retrieve(p)
  BY <1>1 DEF Enter, EnterInterrupted, GoIn, Retrieve, store, locals, TypeOK
<1>6. CASE Leave(p) \/ LeaveInterrupted(p) \/ Die(p)
  BY <1>6 DEF Leave, LeaveInterrupted, Die, Unwind, store, TypeOK
<1>2. ASSUME NEW v \in Values, Insert(p, v)
      PROVE  WalkInv'
  BY <1>2 DEF Insert, store, TypeOK
<1>3. CASE StoreInit(p) \/ Grow(p) \/ Place(p) \/ PutUp(p) \/ Empty(p)
             \/ Take(p) \/ PutDown(p)
  <2>1. \A q \in Procs : q # p => pc[q] \notin {"place", "siftUp"}
    BY <1>3, Alone DEF StoreInit, Grow, Place, PutUp, Empty, Take, PutDown,
                       Inside, RetrieveLocations
  <2>2. heapSize \in Nat /\ \A q \in Procs : pc'[q] \in {"place", "siftUp"} => heapSize' >= 1
    <3>1. heapSize \in Nat /\ pc \in [Procs -> Locations]
      BY DEF TypeOK, Words
    <3>2. CASE StoreInit(p) \/ Grow(p) \/ Place(p) \/ PutUp(p)
      BY <2>1, <3>1, <3>2 DEF StoreInit, Grow, Place, PutUp
    <3>3. CASE Empty(p) \/ Take(p) \/ PutDown(p)
      BY <2>1, <3>1, <3>3 DEF Empty, Take, PutDown
    <3>. QED  BY <1>3, <3>1, <3>2, <3>3
  <2>. QED  BY <1>3, <2>2 DEF StoreInit, Grow, Place, PutUp, Empty, Take,
                              PutDown, locals, TypeOK
<1>4. CASE SiftUp(p)
  BY <1>4, NeverSentinel DEF SiftUp, TypeOK
<1>5. CASE SiftDown(p)
  <2>1. now[p] \in Nat /\ now[p] >= 1
    BY <1>5 DEF SiftDown, TypeOK, Words
  <2>2. SmallerChild(now[p]) >= 1
    BY <2>1 DEF SmallerChild
  <2>. QED  BY <1>5, <2>2 DEF SiftDown, TypeOK
<1>. QED  BY <1>1, <1>2, <1>3, <1>4, <1>5, <1>6 DEF Step, Acts

-----------------------------------------------------------------------------
(* The size.  An insertion is pending until heapSize has counted it.       *)

LEMMA PendingFinite ==
  ASSUME SizeInv
  PROVE  /\ Cardinality(Pending) \in Nat
         /\ \A p \in Procs :
              /\ IsFiniteSet(Pending \cup {p}) /\ IsFiniteSet(Pending \ {p})
              /\ p \notin Pending =>
                   /\ Cardinality(Pending \cup {p}) = Cardinality(Pending) + 1
                   /\ Cardinality(Pending \ {p}) = Cardinality(Pending)
              /\ p \in Pending =>
                   /\ Cardinality(Pending \ {p}) = Cardinality(Pending) - 1
BY FS_CardinalityType, FS_AddElement, FS_RemoveElement DEF SizeInv

LEMMA SizeStep ==
  TypeOK /\ AloneInv /\ OpenedInv /\ SizeInv /\ Next => SizeInv'
<1> SUFFICES ASSUME TypeOK, AloneInv, OpenedInv, SizeInv, NEW p \in Procs,
                    ~raced, Acts(p)
             PROVE  SizeInv'
  BY NextActs
<1>0. /\ pc \in [Procs -> Locations] /\ heapSize \in Nat /\ inserts \in Nat
      /\ crashes \in Nat /\ count \in Int
      /\ Placing \in {0, 1} /\ Taking \in {0, 1}
  BY DEF TypeOK, Words, Placing, Taking
<1>1. CASE \/ Enter(p) \/ EnterInterrupted(p) \/ Leave(p)
           \/ LeaveInterrupted(p) \/ Retrieve(p) \/ Empty(p)
  <2> USE DEF Enter, EnterInterrupted, GoIn, Leave, LeaveInterrupted, Retrieve,
              Empty
  <2>1. Pending' = Pending /\ Placing' = Placing /\ Taking' = Taking
    BY <1>0, <1>1 DEF Goto, Pending, Placing, Taking
  <2>. QED  BY <1>1, <2>1 DEF store, ghosts, SizeInv
<1>2. CASE StoreInit(p)
  <2>1. Pending' = Pending /\ Placing' = Placing /\ Taking' = Taking
    BY <1>0, <1>2 DEF StoreInit, Goto, Pending, Placing, Taking
  <2>2. heapSize' = heapSize
    BY <1>2 DEF StoreInit, store, OpenedInv
  <2>. QED  BY <1>2, <2>1, <2>2 DEF StoreInit, ghosts, SizeInv
<1>3. ASSUME NEW v \in Values, Insert(p, v)
      PROVE  SizeInv'
  <2>1. /\ Pending' = Pending \cup {p} /\ p \notin Pending
        /\ Placing' = Placing /\ Taking' = Taking
    BY <1>0, <1>3 DEF Insert, Goto, Pending, Placing, Taking
  <2>2. /\ IsFiniteSet(Pending') /\ Cardinality(Pending') = Cardinality(Pending) + 1
        /\ Cardinality(Pending) \in Nat
    BY <2>1, PendingFinite
  <2>3. /\ heapSize' = heapSize /\ count' = count /\ crashes' = crashes
        /\ inserts' = inserts + 1
    BY <1>3 DEF Insert, store
  <2>. QED  BY <1>0, <2>1, <2>2, <2>3 DEF SizeInv
<1>4. CASE Grow(p)
  <2>0. \A q \in Procs : pc[q] \notin {"place", "siftUp", "siftDown"}
    BY <1>4, Alone DEF Grow, Inside, InsertLocations, RetrieveLocations
  <2>1. /\ Pending' = Pending \ {p} /\ p \in Pending
        /\ Placing = 0 /\ Placing' = 1 /\ Taking' = Taking
    BY <1>0, <1>4, <2>0 DEF Grow, Goto, Pending, Placing, Taking
  <2>. QED  BY <1>0, <1>4, <2>1, PendingFinite DEF Grow, ghosts, SizeInv
<1>5. CASE Place(p) \/ SiftUp(p) \/ SiftDown(p)
  <2>1. Pending' = Pending /\ Placing' = Placing /\ Taking' = Taking
    BY <1>0, <1>5 DEF Place, SiftUp, SiftDown, Goto, Pending, Placing, Taking
  <2>. QED  BY <1>5, <2>1 DEF Place, SiftUp, SiftDown, ghosts, SizeInv
<1>6. CASE PutUp(p)
  <2>0. \A q \in Procs \ {p} : pc[q] \notin {"place", "siftUp", "siftDown"}
    BY <1>6, Alone DEF PutUp, Inside, InsertLocations, RetrieveLocations
  <2>1. /\ Pending' = Pending
        /\ Placing = 1 /\ Placing' = 0 /\ Taking' = Taking
    BY <1>0, <1>6, <2>0 DEF PutUp, Goto, Pending, Placing, Taking
  <2>. QED  BY <1>0, <1>6, <2>1, PendingFinite DEF PutUp, SizeInv
<1>7. CASE Take(p)
  <2>0. \A q \in Procs : pc[q] \notin {"place", "siftUp", "siftDown"}
    BY <1>7, Alone DEF Take, Inside, InsertLocations, RetrieveLocations
  <2>1. /\ Pending' = Pending
        /\ Taking = 0 /\ Taking' = 1 /\ Placing' = Placing
    BY <1>0, <1>7, <2>0 DEF Take, Goto, Pending, Placing, Taking
  <2>. QED  BY <1>0, <1>7, <2>1, PendingFinite DEF Take, ghosts, SizeInv
<1>8. CASE PutDown(p)
  <2>0. \A q \in Procs \ {p} : pc[q] \notin {"place", "siftUp", "siftDown"}
    BY <1>8, Alone DEF PutDown, Inside, InsertLocations, RetrieveLocations
  <2>1. /\ Pending' = Pending
        /\ Taking = 1 /\ Taking' = 0 /\ Placing = 0 /\ Placing' = 0
    BY <1>0, <1>8, <2>0 DEF PutDown, Goto, Pending, Placing, Taking
  <2>. QED  BY <1>0, <1>8, <2>1, PendingFinite DEF PutDown, SizeInv
<1>9. CASE Die(p)
  <2>1. Pending' = Pending \ {p}
    BY <1>0, <1>9 DEF Die, Goto, Pending
  <2>2. \A q, r \in Procs : pc[q] \in Inside /\ pc[r] \in Inside => q = r
    BY DEF AloneInv
  <2>3. \/ Placing' = Placing /\ Taking' = Taking
        \/ Placing = 1 /\ Placing' = 0 /\ Taking' = Taking
        \/ Taking = 1 /\ Taking' = 0 /\ Placing' = Placing
    BY <1>0, <1>9, <2>2 DEF Die, Goto, Placing, Taking, Inside, InsertLocations,
                            RetrieveLocations
  <2>4. IsFiniteSet(Pending') /\ Cardinality(Pending') <= Cardinality(Pending)
          /\ Cardinality(Pending') \in Nat
    <3>1. IsFiniteSet(Pending') /\ Cardinality(Pending) \in Nat
      BY <2>1, PendingFinite
    <3>2. Cardinality(Pending') \in {Cardinality(Pending), Cardinality(Pending) - 1}
      BY <2>1, PendingFinite
    <3>3. Cardinality(Pending') \in Nat
      BY <3>1, FS_CardinalityType
    <3>. QED  BY <3>1, <3>2, <3>3
  <2>5. /\ heapSize' = heapSize /\ count' = count /\ crashes' = crashes + 1
        /\ inserts' = inserts
    BY <1>9 DEF Die, store
  <2>6. Cardinality(Pending) \in Nat
    BY PendingFinite
  <2>7. heapSize' - count' - Placing' + Taking' \in -crashes' .. crashes'
    <3> DEFINE d == heapSize - count - Placing + Taking
    <3>1. d \in Int /\ -crashes <= d /\ d <= crashes
      BY <1>0 DEF SizeInv
    <3>2. heapSize' - count' - Placing' + Taking' \in {d - 1, d, d + 1}
      BY <1>0, <2>3, <2>5
    <3> HIDE DEF d
    <3>. QED  BY <1>0, <2>5, <3>1, <3>2
  <2>8. Placing' \in {0, 1} /\ Placing' <= Placing
    BY <1>0, <2>3
  <2>. QED  BY <1>0, <2>4, <2>5, <2>6, <2>7, <2>8 DEF SizeInv
<1>. QED  BY <1>1, <1>2, <1>3, <1>4, <1>5, <1>6, <1>7, <1>8, <1>9 DEF Step, Acts

-----------------------------------------------------------------------------
(* The types.                                                              *)

SizeTypes ==
  /\ heapSize \in Nat /\ count \in Int
  /\ inserts \in 0 .. MaxInserts /\ crashes \in 0 .. MaxCrashes

(* Where the insertions begun fit, the heap and its count fit.             *)
LEMMA SizesFit ==
  SizeInv /\ WalkInv /\ SizeTypes =>
    heapSize \in Words /\ count \in -MaxCrashes .. MaxInserts
<1> SUFFICES ASSUME SizeInv, WalkInv, SizeTypes
             PROVE  heapSize \in Words /\ count \in -MaxCrashes .. MaxInserts
  OBVIOUS
<1> USE DEF SizeTypes
<1>1. Cardinality(Pending) \in Nat
  BY PendingFinite
<1>2. Placing \in {0, 1} /\ Taking \in {0, 1} /\ Placing <= heapSize
  BY DEF Placing, Taking, WalkInv
<1>3. heapSize - count - Placing + Taking <= crashes
  BY <1>2 DEF SizeInv
<1>4. heapSize <= MaxInserts /\ count <= MaxInserts
  BY <1>1, <1>2 DEF SizeInv
<1>. QED  BY <1>2, <1>3, <1>4 DEF Words

LEMMA NextSizesFit ==
  SizeInv' /\ WalkInv' /\ SizeTypes' =>
    (heapSize \in Words)' /\ (count \in -MaxCrashes .. MaxInserts)'
BY SizesFit, PTL

(* A child that the loop of retrieve moves to is in the heap.              *)
LEMMA ChildInHeap ==
  ASSUME TypeOK, WalkInv, NEW p \in Procs, pc[p] = "siftDown", MovesUp(p)
  PROVE  /\ SmallerChild(now[p]) \in 2 .. heapSize
         /\ SmallerChild(now[p]) \div 2 = now[p]
         /\ SmallerChild(now[p]) \in Words
<1>1. now[p] \in Nat /\ now[p] >= 1 /\ heapSize \in 0 .. N - 1
  BY DEF TypeOK, WalkInv, Words
<1>. QED  BY <1>1 DEF MovesUp, SmallerChild, Words

LEMMA TypeStep ==
  TypeOK /\ OpenedInv /\ WalkInv /\ Next /\ SizeInv' /\ WalkInv' => TypeOK'
<1> SUFFICES ASSUME TypeOK, OpenedInv, WalkInv, SizeInv', WalkInv', NEW p \in Procs,
                    ~raced, Acts(p)
             PROVE  TypeOK'
  BY NextActs
<1> USE DEF TypeOK, SemTypeOK, Goto, Locations, Locked, Inside, InsertLocations,
            RetrieveLocations, mutex, semVars
<1>0. 0 \in Words /\ (1 \in Words \/ heapSize = 0)
  BY DEF Words
<1>1. /\ heapSize' \in Nat /\ count' \in Int
      /\ inserts' \in 0 .. MaxInserts /\ crashes' \in 0 .. MaxCrashes
  <2>1. CASE Enter(p) \/ EnterInterrupted(p) \/ Leave(p) \/ LeaveInterrupted(p)
    <3>1. UNCHANGED <<heapSize, count, inserts, crashes>>
      BY <2>1 DEF Enter, EnterInterrupted, GoIn, Leave, LeaveInterrupted, store,
                  ghosts
    <3>. QED  BY <3>1 DEF Words
  <2>4. CASE \/ Retrieve(p) \/ Die(p) \/ StoreInit(p)
             \/ \E v \in Values : Insert(p, v)
    <3>1. /\ heapSize' \in {heapSize, 0} /\ count' = count
          /\ \/ inserts' = inserts
             \/ inserts' = inserts + 1 /\ inserts < MaxInserts
          /\ \/ crashes' = crashes
             \/ crashes' = crashes + 1 /\ crashes < MaxCrashes
      <4>1. CASE Retrieve(p) \/ StoreInit(p)
        BY <4>1 DEF Retrieve, StoreInit, store, ghosts
      <4>2. CASE Die(p)
        BY <4>2 DEF Die, store
      <4>3. CASE \E v \in Values : Insert(p, v)
        BY <4>3 DEF Insert, store
      <4>. QED  BY <2>4, <4>1, <4>2, <4>3
    <3>2. /\ heapSize \in Nat /\ count \in Int
          /\ inserts \in 0 .. MaxInserts /\ crashes \in 0 .. MaxCrashes
      BY DEF Words
    <3>3. MaxInserts \in Nat /\ MaxCrashes \in Nat
      BY HeapQueueAssumption
    <3> HIDE DEF TypeOK
    <3>. QED  BY <3>1, <3>2, <3>3
  <2>2. CASE Grow(p) \/ Place(p) \/ SiftUp(p) \/ Empty(p) \/ Take(p) \/ SiftDown(p)
    BY <2>2 DEF Grow, Place, SiftUp, Empty, Take, SiftDown, store, ghosts, Words
  <2>3. CASE PutUp(p) \/ PutDown(p)
    <3>1. /\ count' \in {count + 1, count - 1}
          /\ UNCHANGED <<heapSize, inserts, crashes>>
      BY <2>3 DEF PutUp, PutDown
    <3>2. count \in Int /\ heapSize \in Nat
      BY DEF Words
    <3>. QED  BY <3>1, <3>2
  <2>. QED  BY <2>1, <2>2, <2>3, <2>4 DEF Step, Acts
<1>2. heapSize' \in Words /\ count' \in -MaxCrashes .. MaxInserts
  BY <1>1, NextSizesFit DEF SizeTypes, Words
<1>3. CASE Enter(p) \/ EnterInterrupted(p) \/ Retrieve(p)
  <2>1. semval' \in Nat /\ semadj' \in [Procs -> Int]
    BY <1>3 DEF Enter, EnterInterrupted, WaitZeroThenInc, Retrieve
  <2>2. interrupts' \in 0 .. MaxInterrupts
    BY <1>3 DEF Enter, EnterInterrupted, Retrieve
  <2>3. raced' \in BOOLEAN
    BY <1>3 DEF Enter, EnterInterrupted, GoIn, Retrieve
  <2>4. pc' \in [Procs -> Locations] /\ ret' \in [Procs -> Elements \cup {NoValue}]
    BY <1>3 DEF Enter, EnterInterrupted, GoIn, Retrieve
  <2>5. UNCHANGED <<store, locals>>
    BY <1>3 DEF Enter, EnterInterrupted, GoIn, Retrieve
  <2>. QED  BY <1>1, <1>2, <2>1, <2>2, <2>3, <2>4, <2>5 DEF store, locals
<1>11. CASE Leave(p) \/ LeaveInterrupted(p) \/ Die(p)
  <2>1. semval' \in Nat /\ semadj' \in [Procs -> Int]
    BY <1>11 DEF Leave, LeaveInterrupted, Die, Decrement, UndoAtExit
  <2>2. Minimum \in Elements
    BY DEF Elements
  <2>. QED  BY <1>0, <1>1, <1>2, <1>11, <2>1, <2>2
            DEF Leave, LeaveInterrupted, Die, Unwind, store, ghosts
<1>4. ASSUME NEW v \in Values, Insert(p, v)
      PROVE  TypeOK'
  BY <1>1, <1>2, <1>4 DEF Insert, store, Elements
<1>5. CASE StoreInit(p) \/ Grow(p) \/ Empty(p)
  BY <1>0, <1>1, <1>2, <1>5 DEF StoreInit, Grow, Empty, store, locals, ghosts, Elements
<1>6. CASE Place(p) \/ PutUp(p)
  BY <1>1, <1>2, <1>6 DEF Place, PutUp, locals, ghosts
<1>7. CASE Take(p)
  BY <1>0, <1>1, <1>2, <1>7 DEF Take, ghosts
<1>8. CASE PutDown(p)
  BY <1>1, <1>2, <1>8 DEF PutDown, locals
<1>9. CASE SiftUp(p)
  <2>1. now[p] \div 2 \in Words
    BY DEF Words
  <2>. QED  BY <1>1, <1>2, <1>9, <2>1 DEF SiftUp, ghosts
<1>10. CASE SiftDown(p)
  <2>1. SmallerChild(now[p]) \in Words
    BY <1>10, ChildInHeap DEF SiftDown
  <2>. QED  BY <1>1, <1>2, <1>10, <2>1 DEF SiftDown, ghosts
<1>. QED  BY <1>3, <1>4, <1>5, <1>6, <1>7, <1>8, <1>9, <1>10, <1>11
         DEF Step, Acts

LEMMA InitBase == Init => BaseInv
<1> SUFFICES ASSUME Init PROVE BaseInv
  OBVIOUS
<1>1. TypeOK
  <2>1. SemTypeOK /\ interrupts \in 0 .. MaxInterrupts
    BY DEF Init, SemInit, SemTypeOK
  <2>3. raced \in BOOLEAN
    BY DEF Init
  <2>2. 0 \in Words /\ 0 \in Elements /\ Minimum \in Elements
    BY DEF Words, Elements
  <2>. QED  BY <2>1, <2>2, <2>3 DEF Init, TypeOK, Locations
<1>2. LockInv /\ AloneInv /\ OpenedInv /\ WalkInv
  BY DEF Init, SemInit, LockInv, AloneInv, OpenedInv, Locked, WalkInv, Inside, InsertLocations,
         RetrieveLocations
<1>3. Pending = {} /\ Placing = 0 /\ Taking = 0
  BY DEF Init, Pending, Placing, Taking
<1>. QED  BY <1>1, <1>2, <1>3, FS_EmptySet DEF Init, BaseInv, SizeInv

LEMMA NextBase == BaseInv /\ [Next]_vars => BaseInv'
<1>1. BaseInv /\ Next => BaseInv'
  BY LockStep, AloneStep, NextActs, OpenedStep, WalkStep, SizeStep, TypeStep DEF BaseInv
<1>2. BaseInv /\ UNCHANGED vars => BaseInv'
  BY DEF BaseInv, vars, store, mutex, semVars, locals, ghosts, TypeOK, SemTypeOK,
         LockInv, AloneInv, OpenedInv,
         WalkInv, SizeInv, Pending, Placing, Taking
<1>. QED  BY <1>1, <1>2

(* Whoever dies, and up to the first race: one process at a time changes   *)
(* the heap, behind the sentinel and within the array, and the size is     *)
(* that of the operations completed but for the one in progress and one    *)
(* for each death.                                                         *)
LEMMA BaseHolds == Spec => []BaseInv
BY InitBase, NextBase, PTL DEF Spec

(* A death makes heapSize wrong by one element at most.                    *)
THEOREM CrashCostHolds == Spec => []CrashCost
<1>1. BaseInv => CrashCost
  <2> SUFFICES ASSUME BaseInv, \A p \in Procs : pc[p] \notin Inside
               PROVE  heapSize - count \in -crashes .. crashes
    BY DEF CrashCost
  <2>2. Placing = 0 /\ Taking = 0
    BY DEF Placing, Taking, Inside, InsertLocations, RetrieveLocations
  <2>3. heapSize \in Nat /\ count \in Int
    BY DEF BaseInv, TypeOK, Words
  <2>. QED  BY <2>2, <2>3 DEF BaseInv, SizeInv
<1>. QED  BY <1>1, BaseHolds, PTL

-----------------------------------------------------------------------------
(* The order.                                                              *)

Writing == {"place", "siftUp", "siftDown"}

(* A set of natural numbers has a least element.                           *)
LEMMA LeastElement ==
  ASSUME NEW T \in SUBSET Nat, T # {}
  PROVE  \E x \in T : \A y \in T : x <= y
<1> DEFINE R == OpToRel(<, Nat)
<1>1. IsWellFoundedOn(R, Nat)
  BY NatLessThanWellFounded
<1>2. \A x, y \in Nat : <<y, x>> \in R <=> y < x
  BY DEF OpToRel
<1> HIDE DEF R
<1>3. PICK x \in T : \A y \in T : ~(<<y, x>> \in R)
  BY <1>1, WFMin
<1>4. ASSUME NEW y \in T
      PROVE  x <= y
  <2>1. x \in Nat /\ y \in Nat
    OBVIOUS
  <2>2. ~(y < x)
    BY <1>2, <1>3, <2>1
  <2>. QED  BY <2>1, <2>2
<1>. QED  BY <1>4

(* In a heap in order the root is the smallest: a smallest index whose     *)
(* element is smaller would have a parent whose element is smaller.        *)
LEMMA RootLeast ==
  ASSUME TypeOK, OrderedBut(heapSize, 0), NEW i \in 1 .. heapSize
  PROVE  heap[1] <= heap[i]
<1> DEFINE T == {j \in 1 .. heapSize : heap[j] < heap[1]}
<1>0. /\ heapSize \in Nat /\ 1 \in 1 .. heapSize
      /\ \A j \in 1 .. heapSize : heap[j] \in Int
  <2>1. heapSize \in Nat
    BY DEF TypeOK, Words
  <2>2. \A j \in 1 .. heapSize : heap[j] \in Values
    BY <2>1 DEF OrderedBut
  <2>3. \A j \in 1 .. heapSize : heap[j] \in Int
    BY <2>2
  <2>4. 1 \in 1 .. heapSize
    BY <2>1
  <2>. QED  BY <2>1, <2>3, <2>4
<1>a. SUFFICES ASSUME heap[i] < heap[1] PROVE FALSE
  <2>1. heap[i] \in Int /\ heap[1] \in Int
    BY <1>0
  <2>. QED  BY <2>1
<1>1. T # {}
  BY <1>a
<1>2. PICK j \in T : \A k \in T : j <= k
  <2>1. T \in SUBSET Nat
    BY <1>0
  <2>. QED  BY <1>1, <2>1, LeastElement
<1>3. /\ j \in 2 .. heapSize /\ j \div 2 \in 1 .. heapSize /\ j \div 2 < j
      /\ j \div 2 # 0
  BY <1>0
<1>4. heap[j \div 2] <= heap[j]
  BY <1>0, <1>3 DEF OrderedBut
<1>5. j \div 2 \in T
  BY <1>0, <1>3, <1>4
<1>. QED  BY <1>2, <1>3, <1>5

(* The children of word k in a heap of n words.                            *)
LEMMA Children ==
  ASSUME NEW n \in Nat, NEW k \in Nat, k >= 1, NEW i \in 2 .. n, i \div 2 = k
  PROVE  /\ i = 2 * k \/ (i = 2 * k + 1 /\ 2 * k # n)
         /\ 2 * k \in 2 .. n /\ 2 * k # k /\ i # k
OBVIOUS

(* No child is smaller than the one that SmallerChild chooses.             *)
LEMMA SmallerChildLeast ==
  ASSUME heapSize \in Nat, NEW k \in Nat, k >= 1,
         \A i \in 1 .. heapSize : i # k => heap[i] \in Int,
         NEW i \in 2 .. heapSize, i \div 2 = k
  PROVE  heap[SmallerChild(k)] <= heap[i]
<1>1. /\ i = 2 * k \/ (i = 2 * k + 1 /\ 2 * k # heapSize)
      /\ 2 * k \in 2 .. heapSize /\ 2 * k # k /\ i # k
  BY Children
<1>2. heap[2 * k] \in Int /\ heap[i] \in Int
  BY <1>1
<1>3. CASE 2 * k # heapSize
  <2>1. 2 * k + 1 \in 1 .. heapSize /\ 2 * k + 1 # k
    BY <1>1, <1>3
  <2>2. heap[2 * k + 1] \in Int
    BY <2>1
  <2>3. CASE heap[2 * k + 1] < heap[2 * k]
    <3>1. SmallerChild(k) = 2 * k + 1
      BY <1>3, <2>3 DEF SmallerChild
    <3>. QED  BY <1>1, <1>2, <2>2, <2>3, <3>1
  <2>4. CASE ~(heap[2 * k + 1] < heap[2 * k])
    <3>1. SmallerChild(k) = 2 * k
      BY <2>4 DEF SmallerChild
    <3>. QED  BY <1>1, <1>2, <2>2, <2>4, <3>1
  <2>. QED  BY <2>3, <2>4
<1>4. CASE 2 * k = heapSize
  <2>1. SmallerChild(k) = 2 * k
    BY <1>4 DEF SmallerChild
  <2>. QED  BY <1>1, <1>2, <1>4, <2>1
<1>. QED  BY <1>3, <1>4

(* A step that moves nobody into or out of the writing of the heap.        *)
LEMMA OrderKept ==
  ASSUME HeapOrder, UNCHANGED <<heap, heapSize, now, minElement, lastElement>>,
         \A q \in Procs : pc[q] \in Writing \/ pc'[q] \in Writing =>
           pc'[q] = pc[q] /\ element'[q] = element[q]
  PROVE  HeapOrder'
BY DEF HeapOrder, OrderedBut, Writing

(* As long as nobody has raced.                                            *)
Sound == BaseInv /\ ~raced

(* Nobody else is writing when p is inside.                                *)
LEMMA OthersOut ==
  ASSUME TypeOK, AloneInv, ~raced, NEW p \in Procs, pc[p] \in Inside,
         NEW l, Goto(p, l)
  PROVE  /\ \A q \in Procs : q # p => pc[q] \notin Writing /\ pc'[q] \notin Writing
         /\ pc'[p] = l
BY Alone DEF TypeOK, Goto, Writing, Inside, InsertLocations, RetrieveLocations

(* The locals of who leaves are none that the order is about, nor are they *)
(* anybody else's.                                                         *)
LEMMA LeaveOrder ==
  ASSUME Sound, HeapOrder, NEW p \in Procs, Leave(p) \/ LeaveInterrupted(p)
  PROVE  HeapOrder'
<1>1. /\ UNCHANGED <<heap, heapSize>>
      /\ pc[p] = "unlock" /\ pc'[p] \in {"idle", "dead"}
      /\ \A q \in Procs : q # p =>
           /\ pc'[q] = pc[q] /\ element'[q] = element[q] /\ now'[q] = now[q]
           /\ minElement'[q] = minElement[q] /\ lastElement'[q] = lastElement[q]
  BY DEF Leave, LeaveInterrupted, Goto, Unwind, Sound, BaseInv, TypeOK, store
<1>. QED  BY <1>1 DEF HeapOrder, OrderedBut

(* The constructor writes the sentinel, and heapSize is zero anyway.       *)
LEMMA StoreInitOrder ==
  ASSUME Sound, HeapOrder, NEW p \in Procs, StoreInit(p)
  PROVE  HeapOrder'
<1> USE DEF Sound, BaseInv
<1>1. /\ \A q \in Procs : pc[q] \notin Writing /\ pc'[q] \notin Writing
      /\ OrderedBut(heapSize, 0)
  <2>1. pc[p] = "init" /\ pc[p] \in Inside /\ Goto(p, "unlock")
    BY DEF StoreInit, Inside
  <2>2. \A q \in Procs : pc[q] \notin Writing /\ pc'[q] \notin Writing
    BY <2>1, OthersOut DEF Writing
  <2>. QED  BY <2>2 DEF HeapOrder, Writing
<1>2. /\ heapSize' = heapSize /\ heapSize \in Nat
      /\ heapSize \in Words /\ \A i \in Words : i # 0 => heap'[i] = heap[i]
  BY DEF StoreInit, store, OpenedInv, TypeOK, Words
<1>3. OrderedBut(heapSize, 0)'
  <2>1. \A i \in 1 .. heapSize : i \in Words /\ i # 0
    BY <1>2 DEF Words
  <2>2. \A i \in 2 .. heapSize : i \div 2 \in 1 .. heapSize
    BY <1>2
  <2>. QED  BY <1>1, <1>2, <2>1, <2>2 DEF OrderedBut
<1>. QED  BY <1>1, <1>3 DEF HeapOrder, Writing

(* insert                                                                  *)

LEMMA GrowOrder ==
  ASSUME Sound, HeapOrder, NEW p \in Procs, Grow(p)
  PROVE  HeapOrder'
<1>1. /\ \A q \in Procs : pc[q] \notin Writing
      /\ \A q \in Procs : q # p => pc'[q] \notin Writing
      /\ pc'[p] = "place"
  BY OthersOut DEF Grow, Sound, BaseInv, Writing, Inside, InsertLocations
<1>2. OrderedBut(heapSize, 0) /\ heap' = heap /\ heapSize' - 1 = heapSize
  <2>1. OrderedBut(heapSize, 0)
    BY <1>1 DEF HeapOrder, Writing
  <2>2. heapSize \in Int
    BY DEF Sound, BaseInv, TypeOK, Words
  <2>. QED  BY <2>1, <2>2 DEF Grow
<1>3. OrderedBut(heapSize - 1, 0)'
  BY <1>2 DEF OrderedBut
<1>. QED  BY <1>1, <1>3 DEF HeapOrder, Writing

LEMMA PlaceOrder ==
  ASSUME Sound, HeapOrder, NEW p \in Procs, Place(p)
  PROVE  HeapOrder'
<1>1. /\ \A q \in Procs : q # p => pc'[q] \notin Writing
      /\ pc[p] = "place" /\ pc'[p] = "siftUp"
  BY OthersOut DEF Place, Sound, BaseInv, Inside, InsertLocations
<1>2. /\ heapSize \in Nat /\ heapSize >= 1 /\ heapSize \in Words
      /\ heapSize' = heapSize /\ now'[p] = heapSize
      /\ \A i \in Words : i # heapSize => heap'[i] = heap[i]
  BY <1>1 DEF Place, Sound, BaseInv, TypeOK, WalkInv, Words
<1>3. \A i \in 1 .. heapSize : i \in Words /\ i \div 2 \in Words
  BY <1>2 DEF Words
<1>4. \A i \in 2 .. heapSize : i \div 2 < heapSize
  BY <1>2
<1>5. OrderedBut(heapSize - 1, 0)
  BY <1>1 DEF HeapOrder
<1>6. OrderedBut(heapSize, now[p])'
  BY <1>2, <1>3, <1>4, <1>5 DEF OrderedBut
<1>. QED  BY <1>1, <1>2, <1>4, <1>6 DEF HeapOrder, Writing

(* A parent moves down: the word it leaves is the one left out, and its    *)
(* children were its children or are the word it has come to.              *)
LEMMA SiftUpOrder ==
  ASSUME Sound, HeapOrder, NEW p \in Procs, SiftUp(p)
  PROVE  HeapOrder'
<1> DEFINE k == now[p]
           m == now[p] \div 2
           e == element[p]
<1>1. /\ \A q \in Procs : q # p => pc'[q] \notin Writing
      /\ pc[p] = "siftUp" /\ pc'[p] = "siftUp"
  BY Alone DEF SiftUp, Sound, BaseInv, Writing, Inside, InsertLocations, RetrieveLocations
<1>2. /\ heapSize \in Nat /\ k \in 2 .. heapSize /\ m \in 1 .. heapSize /\ m < k
      /\ heapSize' = heapSize /\ now'[p] = m /\ element'[p] = e
  <2>1. m >= 1
    BY NeverSentinel DEF Sound, BaseInv
  <2>2. k \in Nat /\ k <= heapSize /\ heapSize \in Nat
    BY <1>1 DEF Sound, BaseInv, TypeOK, Words, HeapOrder
  <2>3. now'[p] = m /\ element'[p] = e /\ heapSize' = heapSize
    BY DEF SiftUp, Sound, BaseInv, TypeOK
  <2>. QED  BY <2>1, <2>2, <2>3
<1>3. \A i \in 1 .. heapSize : heap'[i] = IF i = k THEN heap[m] ELSE heap[i]
  BY <1>2 DEF SiftUp, Sound, BaseInv, TypeOK, Words
<1>4. /\ \A i \in 1 .. heapSize : i # k => heap[i] \in Int /\ heap[i] \in Values
      /\ e \in Int /\ e < heap[m]
  <2>1. e \in Values
    BY <1>1 DEF Sound, BaseInv, WalkInv, InsertLocations
  <2>2. \A i \in 1 .. heapSize : i # k => heap[i] \in Int /\ heap[i] \in Values
    BY <1>1 DEF HeapOrder, OrderedBut
  <2>3. heap[m] \in Int /\ heap[m] > e
    BY <1>2, <2>2 DEF SiftUp
  <2>. QED  BY <2>1, <2>2, <2>3
<1>5. /\ \A i \in 2 .. heapSize : i # k /\ i \div 2 # k => heap[i \div 2] <= heap[i]
      /\ \A i \in 2 .. heapSize : i \div 2 = k => heap[m] <= heap[i]
  BY <1>1, <1>2 DEF HeapOrder, OrderedBut
<1> HIDE DEF k, m, e
<1>6. m = k \div 2
  BY DEF k, m
<1>7. \A i \in 1 .. heapSize : i # m => heap'[i] \in Values
  BY <1>2, <1>3, <1>4
<1>8. \A i \in 2 .. heapSize : i # m /\ i \div 2 # m => heap'[i \div 2] <= heap'[i]
  <2> SUFFICES ASSUME NEW i \in 2 .. heapSize, i # m, i \div 2 # m
               PROVE  heap'[i \div 2] <= heap'[i]
    OBVIOUS
  <2>1. i \div 2 \in 1 .. heapSize /\ i # k
    BY <1>2, <1>6
  <2>. QED  BY <2>1, <1>2, <1>3, <1>5
<1>9. \A i \in 2 .. heapSize : i \div 2 = m => e <= heap'[i]
  BY <1>2, <1>3, <1>4, <1>5
<1>10. \A i \in 2 .. heapSize : i \div 2 = m /\ m > 1 => heap'[m \div 2] <= heap'[i]
  <2> SUFFICES ASSUME NEW i \in 2 .. heapSize, i \div 2 = m, m > 1
               PROVE  heap'[m \div 2] <= heap'[i]
    OBVIOUS
  <2>1. /\ m \in 2 .. heapSize /\ m # k /\ m \div 2 \in 1 .. heapSize
        /\ m \div 2 # k
    BY <1>2
  <2>2. heap[m \div 2] <= heap[m] /\ heap'[m \div 2] = heap[m \div 2]
    BY <2>1, <1>3, <1>5
  <2>3. i # k => heap[m] <= heap[i]
    BY <1>2, <1>5
  <2>. QED  BY <1>2, <1>3, <1>4, <2>1, <2>2, <2>3
<1>11. OrderedBut(heapSize, now[p])'
  BY <1>2, <1>7, <1>8, <1>10 DEF OrderedBut
<1>12. now'[p] <= heapSize'
  BY <1>2
<1>13. \A i \in 2 .. heapSize' : i \div 2 = now'[p] => element'[p] <= heap'[i]
  BY <1>2, <1>9
<1>. QED  BY <1>1, <1>11, <1>12, <1>13 DEF HeapOrder, Writing

(* The element comes to the word left out.                                 *)
LEMMA PutUpOrder ==
  ASSUME Sound, HeapOrder, NEW p \in Procs, PutUp(p)
  PROVE  HeapOrder'
<1> DEFINE k == now[p]
           e == element[p]
<1>1. /\ \A q \in Procs : pc'[q] \notin Writing
      /\ pc[p] = "siftUp"
  BY OthersOut DEF PutUp, Sound, BaseInv, Writing, Inside, InsertLocations
<1>2. /\ heapSize \in Nat /\ k \in 1 .. heapSize /\ heapSize' = heapSize
      /\ e \in Values
  BY <1>1 DEF PutUp, Sound, BaseInv, TypeOK, WalkInv, InsertLocations, Words, HeapOrder
<1>3. \A i \in 1 .. heapSize : heap'[i] = IF i = k THEN e ELSE heap[i]
  BY <1>2 DEF PutUp, Sound, BaseInv, TypeOK, Words
<1>4. /\ \A i \in 1 .. heapSize : i # k => heap[i] \in Values
      /\ \A i \in 2 .. heapSize : i # k /\ i \div 2 # k => heap[i \div 2] <= heap[i]
      /\ \A i \in 2 .. heapSize : i \div 2 = k => e <= heap[i]
  BY <1>1 DEF HeapOrder, OrderedBut
<1>5. k > 1 => k \div 2 \in 1 .. heapSize /\ k \div 2 # k /\ heap[k \div 2] <= e
  <2> SUFFICES ASSUME k > 1
               PROVE  k \div 2 \in 1 .. heapSize /\ k \div 2 # k /\ heap[k \div 2] <= e
    OBVIOUS
  <2>1. k \div 2 \in 1 .. heapSize /\ k \div 2 # k
    BY <1>2
  <2>2. heap[k \div 2] \in Int /\ e \in Int
    BY <1>2, <1>4, <2>1
  <2>. QED  BY <2>1, <2>2 DEF PutUp
<1> HIDE DEF k, e
<1>6. \A i \in 2 .. heapSize : heap'[i \div 2] <= heap'[i]
  <2> SUFFICES ASSUME NEW i \in 2 .. heapSize
               PROVE  heap'[i \div 2] <= heap'[i]
    OBVIOUS
  <2>1. i \div 2 \in 1 .. heapSize /\ i \div 2 # i
    BY <1>2
  <2>. QED  BY <2>1, <1>2, <1>3, <1>4, <1>5
<1>7. \A i \in 1 .. heapSize : heap'[i] \in Values
  BY <1>2, <1>3, <1>4
<1>8. OrderedBut(heapSize, 0)'
  BY <1>2, <1>6, <1>7 DEF OrderedBut
<1>. QED  BY <1>1, <1>8 DEF HeapOrder, Writing

(* retrieve                                                                *)

(* The root and the last word are lifted out; the root is a smallest.      *)
LEMMA TakeOrder ==
  ASSUME Sound, HeapOrder, NEW p \in Procs, Take(p)
  PROVE  HeapOrder'
<1>1. /\ \A q \in Procs : pc[q] \notin Writing
      /\ \A q \in Procs : q # p => pc'[q] \notin Writing
      /\ pc'[p] = "siftDown"
  BY OthersOut DEF Take, Sound, BaseInv, Writing, Inside, RetrieveLocations
<1>2. /\ heapSize \in Nat /\ heapSize >= 1 /\ heapSize' = heapSize - 1
      /\ heap' = heap /\ now'[p] = 1
      /\ minElement'[p] = heap[1] /\ lastElement'[p] = heap[heapSize]
  BY DEF Take, Sound, BaseInv, TypeOK, Words
<1>3. OrderedBut(heapSize, 0)
  BY <1>1 DEF HeapOrder, Writing
<1>4. \A i \in 1 .. heapSize : heap[i] \in Values /\ heap[1] <= heap[i]
  <2>1. \A i \in 1 .. heapSize : heap[i] \in Values
    BY <1>2, <1>3 DEF OrderedBut
  <2>2. \A i \in 1 .. heapSize : heap[1] <= heap[i]
    BY <1>3, RootLeast DEF Sound, BaseInv
  <2>. QED  BY <2>1, <2>2
<1>5. OrderedBut(heapSize, now[p])'
  BY <1>2, <1>3, <1>4 DEF OrderedBut
<1>6. /\ minElement'[p] \in Values /\ lastElement'[p] \in Values
      /\ minElement'[p] <= lastElement'[p]
      /\ \A i \in 1 .. heapSize' : minElement'[p] <= heap'[i]
  BY <1>2, <1>4
<1>7. heapSize' > 0 => now'[p] <= heapSize'
  BY <1>2
<1>. QED  BY <1>1, <1>2, <1>5, <1>6, <1>7 DEF HeapOrder, Writing

(* The smaller child moves up: the word it leaves is the one left out.     *)
LEMMA SiftDownOrder ==
  ASSUME Sound, HeapOrder, NEW p \in Procs, SiftDown(p)
  PROVE  HeapOrder'
<1> DEFINE k == now[p]
           c == SmallerChild(now[p])
           l == lastElement[p]
<1>1. /\ \A q \in Procs : q # p => pc'[q] \notin Writing
      /\ pc[p] = "siftDown" /\ pc'[p] = "siftDown"
  BY Alone DEF SiftDown, Sound, BaseInv, Writing, Inside, InsertLocations, RetrieveLocations
<1>2. /\ c \in 2 .. heapSize /\ c \div 2 = k
      /\ heapSize \in Nat /\ heapSize > 0 /\ k \in 1 .. heapSize /\ k # c
      /\ heapSize' = heapSize /\ now'[p] = c /\ lastElement'[p] = l
      /\ minElement' = minElement
  <2>1. c \in 2 .. heapSize /\ c \div 2 = k
    BY <1>1, ChildInHeap DEF SiftDown, Sound, BaseInv
  <2>2. heapSize' = heapSize /\ now'[p] = c /\ lastElement'[p] = l /\ minElement' = minElement
    BY DEF SiftDown, Sound, BaseInv, TypeOK
  <2>3. heapSize \in Nat
    BY DEF Sound, BaseInv, TypeOK, Words
  <2>. QED  BY <2>1, <2>2, <2>3
<1>3. \A i \in 1 .. heapSize : heap'[i] = IF i = k THEN heap[c] ELSE heap[i]
  BY <1>2 DEF SiftDown, Sound, BaseInv, TypeOK, Words
<1>4. /\ \A i \in 1 .. heapSize : i # k => heap[i] \in Int /\ heap[i] \in Values
      /\ l \in Values /\ l \in Int /\ minElement[p] \in Values
  BY <1>1 DEF HeapOrder, OrderedBut
<1>5. /\ \A i \in 2 .. heapSize : i # k /\ i \div 2 # k => heap[i \div 2] <= heap[i]
      /\ \A i \in 2 .. heapSize : i \div 2 = k /\ k > 1 => heap[k \div 2] <= heap[i]
      /\ minElement[p] <= l
      /\ \A i \in 1 .. heapSize : i # k => minElement[p] <= heap[i]
  BY <1>1 DEF HeapOrder, OrderedBut
<1>6. /\ heap[c] < l
      /\ \A i \in 2 .. heapSize : i \div 2 = k => heap[c] <= heap[i]
  <2>1. heap[c] \in Int /\ l > heap[c]
    BY <1>2, <1>4 DEF SiftDown, MovesUp
  <2>2. \A i \in 2 .. heapSize : i \div 2 = k => heap[c] <= heap[i]
    BY <1>2, <1>4, SmallerChildLeast
  <2>. QED  BY <1>4, <2>1, <2>2
<1> HIDE DEF k, c, l
<1>7. \A i \in 1 .. heapSize : i # c => heap'[i] \in Values
  BY <1>2, <1>3, <1>4
<1>8. \A i \in 2 .. heapSize : i # c /\ i \div 2 # c => heap'[i \div 2] <= heap'[i]
  <2> SUFFICES ASSUME NEW i \in 2 .. heapSize, i # c, i \div 2 # c
               PROVE  heap'[i \div 2] <= heap'[i]
    OBVIOUS
  <2>1. i \div 2 \in 1 .. heapSize /\ i \div 2 # i
    BY <1>2
  <2>2. CASE i = k
    BY <2>1, <2>2, <1>2, <1>3, <1>5
  <2>3. CASE i # k /\ i \div 2 = k
    BY <2>1, <2>3, <1>2, <1>3, <1>6
  <2>4. CASE i # k /\ i \div 2 # k
    BY <2>1, <2>4, <1>2, <1>3, <1>5
  <2>. QED  BY <2>2, <2>3, <2>4
<1>9. \A i \in 2 .. heapSize : i \div 2 = c => heap'[k] <= heap'[i]
  BY <1>2, <1>3, <1>5
<1>10. OrderedBut(heapSize, now[p])'
  BY <1>2, <1>7, <1>8, <1>9 DEF OrderedBut
<1>11. /\ heap'[now'[p] \div 2] <= lastElement'[p]
       /\ \A i \in 1 .. heapSize' : i # now'[p] => minElement'[p] <= heap'[i]
       /\ now'[p] <= heapSize'
  BY <1>2, <1>3, <1>4, <1>5, <1>6
<1>12. minElement'[p] \in Values /\ lastElement'[p] \in Values /\ minElement'[p] <= lastElement'[p]
  BY <1>2, <1>4, <1>5
<1>. QED  BY <1>1, <1>10, <1>11, <1>12 DEF HeapOrder, Writing

(* The last element comes to the word left out.                            *)
LEMMA PutDownOrder ==
  ASSUME Sound, HeapOrder, NEW p \in Procs, PutDown(p)
  PROVE  HeapOrder'
<1> DEFINE k == now[p]
           l == lastElement[p]
<1>1. /\ \A q \in Procs : pc'[q] \notin Writing
      /\ pc[p] = "siftDown"
  BY OthersOut DEF PutDown, Sound, BaseInv, Writing, Inside, RetrieveLocations
<1>2. /\ heapSize \in Nat /\ heapSize' = heapSize /\ l \in Values /\ l \in Int
      /\ k \in Nat /\ k >= 1 /\ (heapSize > 0 => k <= heapSize)
  <2>1. l \in Values /\ k >= 1 /\ (heapSize > 0 => k <= heapSize)
    BY <1>1 DEF HeapOrder, Sound, BaseInv, WalkInv
  <2>2. heapSize \in Nat /\ k \in Nat /\ heapSize' = heapSize
    BY DEF PutDown, Sound, BaseInv, TypeOK, Words
  <2>. QED  BY <2>1, <2>2
<1>3. \A i \in 1 .. heapSize : heap'[i] = IF i = k THEN l ELSE heap[i]
  BY <1>2 DEF PutDown, Sound, BaseInv, TypeOK, Words
<1>4. /\ \A i \in 1 .. heapSize : i # k => heap[i] \in Values
      /\ \A i \in 2 .. heapSize : i # k /\ i \div 2 # k => heap[i \div 2] <= heap[i]
      /\ k > 1 => heap[k \div 2] <= l
  BY <1>1 DEF HeapOrder, OrderedBut
<1>5. ASSUME NEW i \in 2 .. heapSize, i \div 2 = k
      PROVE  l <= heap[i]
  <2>1. \A j \in 1 .. heapSize : j # k => heap[j] \in Int
    <3>1. \A j \in 1 .. heapSize : j # k => heap[j] \in Values
      BY <1>4
    <3>. QED  BY <3>1
  <2>2. heap[SmallerChild(k)] <= heap[i]
    BY <1>2, <1>5, <2>1, SmallerChildLeast
  <2>3. SmallerChild(k) \in 1 .. heapSize /\ SmallerChild(k) # k /\ 2 * k <= heapSize
    BY <1>2, <1>5, Children DEF SmallerChild
  <2>4. heap[SmallerChild(k)] \in Int /\ heap[i] \in Int
    BY <1>2, <1>5, <2>1, <2>3, Children
  <2>5. ~(l > heap[SmallerChild(k)])
    BY <2>3 DEF PutDown, MovesUp
  <2>. QED  BY <1>2, <2>2, <2>4, <2>5
<1> HIDE DEF k, l
<1>6. \A i \in 2 .. heapSize : heap'[i \div 2] <= heap'[i]
  <2> SUFFICES ASSUME NEW i \in 2 .. heapSize
               PROVE  heap'[i \div 2] <= heap'[i]
    OBVIOUS
  <2>1. i \div 2 \in 1 .. heapSize /\ i \div 2 # i
    BY <1>2
  <2>. QED  BY <2>1, <1>2, <1>3, <1>4, <1>5
<1>7. \A i \in 1 .. heapSize : heap'[i] \in Values
  BY <1>2, <1>3, <1>4
<1>8. OrderedBut(heapSize, 0)'
  BY <1>2, <1>6, <1>7 DEF OrderedBut
<1>. QED  BY <1>1, <1>8 DEF HeapOrder, Writing

LEMMA CrashesGrow ==
  BaseInv /\ Next /\ crashes' = 0 => crashes = 0
<1> SUFFICES ASSUME BaseInv, NEW p \in Procs, Acts(p), crashes' = 0
             PROVE  crashes = 0
  BY NextActs
<1>1. crashes \in Nat
  BY DEF BaseInv, TypeOK
<1>2. crashes' = crashes \/ crashes' = crashes + 1
  BY DEF Acts, Step, Enter, EnterInterrupted, GoIn, Leave, LeaveInterrupted, Empty,
         Retrieve, Insert, Die, StoreInit, Grow, Place, SiftUp, PutUp, Take,
         SiftDown, PutDown, ghosts
<1>. QED  BY <1>1, <1>2

LEMMA NextOrder ==
  Sound /\ HeapOrder /\ Next /\ crashes = 0 /\ crashes' = 0 => HeapOrder'
<1> SUFFICES ASSUME Sound, HeapOrder, crashes = 0, crashes' = 0,
                    NEW p \in Procs, Acts(p)
             PROVE  HeapOrder'
  BY NextActs
<1>1. CASE Enter(p) \/ EnterInterrupted(p) \/ Empty(p) \/ Retrieve(p)
  <2>1. /\ \A q \in Procs : pc[q] \in Writing \/ pc'[q] \in Writing => pc'[q] = pc[q]
        /\ UNCHANGED <<store, locals>>
    BY <1>1 DEF Enter, EnterInterrupted, GoIn, Empty, Retrieve, Goto, Sound,
                BaseInv, TypeOK, Writing
  <2>. QED  BY <2>1, OrderKept DEF store, locals
<1>2. ASSUME NEW v \in Values, Insert(p, v)
      PROVE  HeapOrder'
  <2>1. \A q \in Procs : pc[q] \in Writing \/ pc'[q] \in Writing =>
          pc'[q] = pc[q] /\ element'[q] = element[q]
    BY <1>2 DEF Insert, Goto, Sound, BaseInv, TypeOK, Writing
  <2>. QED  BY <1>2, <2>1, OrderKept DEF Insert, store
<1>3. ~Die(p)
  BY DEF Die
<1>4. CASE Leave(p) \/ LeaveInterrupted(p)
  BY <1>4, LeaveOrder
<1>. QED  BY <1>1, <1>2, <1>3, <1>4, StoreInitOrder, GrowOrder, PlaceOrder,
             SiftUpOrder, PutUpOrder, TakeOrder, SiftDownOrder, PutDownOrder
          DEF Step, Acts

(* Until the first death, and as long as nobody has raced, the array is a  *)
(* heap in order, but for the word that the one process inside is about to *)
(* write.                                                                  *)
THEOREM HeapInvHolds == Spec => []HeapInv
<1>1. Init => HeapInv
  <2>1. Init => HeapOrder
    BY DEF Init, HeapOrder, OrderedBut
  <2>. QED  BY <2>1, InitBase DEF HeapInv
<1>2. HeapInv /\ [Next]_vars => HeapInv'
  <2> SUFFICES ASSUME HeapInv, [Next]_vars, crashes' = 0, ~raced'
               PROVE  HeapOrder'
    BY NextBase DEF HeapInv
  <2>1. CASE Next
    <3>1. crashes = 0
      BY <2>1, CrashesGrow DEF HeapInv
    <3>. QED  BY <2>1, <3>1, NextActs, NextOrder DEF HeapInv, Sound
  <2>2. CASE UNCHANGED vars
    BY <2>2, OrderKept DEF HeapInv, vars, store, mutex, locals, ghosts
  <2>. QED  BY <2>1, <2>2
<1>. QED  BY <1>1, <1>2, PTL DEF Spec

-----------------------------------------------------------------------------
(* The elements.  CellsOf is Cells for any array of n words with one word  *)
(* k left out, or none when k is 0.                                        *)

CellsOf(h, n, k, v) == {i \in (1 .. n) \ {k} : h[i] = v}
Count(h, n, k, v) == Cardinality(CellsOf(h, n, k, v))
Hit(x, v) == IF x = v THEN 1 ELSE 0

LEMMA CountType ==
  ASSUME NEW h, NEW n \in Nat, NEW k, NEW v
  PROVE  IsFiniteSet(CellsOf(h, n, k, v)) /\ Count(h, n, k, v) \in Nat
<1>1. IsFiniteSet(1 .. n)
  BY FS_Interval
<1>2. CellsOf(h, n, k, v) \subseteq 1 .. n
  BY DEF CellsOf
<1>. QED  BY <1>1, <1>2, FS_Subset, FS_CardinalityType DEF Count

(* Leaving a word out takes its element from the count.                    *)
LEMMA LeaveOut ==
  ASSUME NEW h, NEW n \in Nat, NEW k \in 1 .. n, NEW v
  PROVE  Count(h, n, 0, v) = Count(h, n, k, v) + Hit(h[k], v)
<1>1. k \notin CellsOf(h, n, k, v)
  BY DEF CellsOf
<1>2. CASE h[k] = v
  <2>1. CellsOf(h, n, 0, v) = CellsOf(h, n, k, v) \cup {k}
    BY <1>2 DEF CellsOf
  <2>. QED  BY <1>1, <1>2, <2>1, CountType, FS_AddElement DEF Count, Hit
<1>3. CASE h[k] # v
  <2>1. CellsOf(h, n, 0, v) = CellsOf(h, n, k, v)
    BY <1>3 DEF CellsOf
  <2>. QED  BY <1>3, <2>1, CountType DEF Count, Hit
<1>. QED  BY <1>2, <1>3

(* Only the word left out is written: what is counted stays.               *)
LEMMA SameCells ==
  ASSUME NEW h, NEW g, NEW n \in Nat, NEW k, NEW v,
         \A i \in 1 .. n : i # k => g[i] = h[i]
  PROVE  Count(g, n, k, v) = Count(h, n, k, v)
BY DEF Count, CellsOf

(* The word left out gets a copy of word m, which is left out now.         *)
LEMMA MoveHole ==
  ASSUME NEW h, NEW g, NEW n \in Nat, NEW k \in 1 .. n, NEW m \in 1 .. n, NEW v,
         \A i \in 1 .. n : i # k => g[i] = h[i], g[k] = h[m]
  PROVE  Count(g, n, m, v) = Count(h, n, k, v)
<1>1. /\ Count(g, n, 0, v) = Count(g, n, m, v) + Hit(g[m], v)
      /\ Count(g, n, 0, v) = Count(g, n, k, v) + Hit(g[k], v)
  BY LeaveOut
<1>2. Count(g, n, k, v) = Count(h, n, k, v)
  BY SameCells
<1>3. g[m] = g[k]
  OBVIOUS
<1>4. /\ Count(g, n, m, v) \in Nat /\ Count(g, n, k, v) \in Nat
      /\ Hit(g[k], v) \in Nat
  BY CountType DEF Hit
<1>. QED  BY <1>1, <1>2, <1>3, <1>4

(* The last word is dropped, and the first left out.                       *)
LEMMA TakeCount ==
  ASSUME NEW h, NEW n \in Nat, n > 0, NEW v
  PROVE  Count(h, n, 0, v) =
           Count(h, n - 1, 1, v) + Hit(h[1], v) + (IF n - 1 > 0 THEN Hit(h[n], v) ELSE 0)
<1>1. Count(h, n, 0, v) = Count(h, n, n, v) + Hit(h[n], v)
  BY LeaveOut
<1>2. Count(h, n, n, v) = Count(h, n - 1, 0, v)
  <2>1. CellsOf(h, n, n, v) = CellsOf(h, n - 1, 0, v)
    BY DEF CellsOf
  <2>. QED  BY <2>1 DEF Count
<1>3. CASE n = 1
  <2>1. CellsOf(h, 0, 0, v) = CellsOf(h, 0, 1, v)
    BY DEF CellsOf
  <2>2. Count(h, n - 1, 0, v) = Count(h, n - 1, 1, v)
    BY <1>3, <2>1 DEF Count
  <2>3. Count(h, n - 1, 1, v) \in Nat /\ Hit(h[1], v) \in Nat
    BY CountType DEF Hit
  <2>. QED  BY <1>1, <1>2, <1>3, <2>2, <2>3
<1>4. CASE n > 1
  <2>1. n - 1 \in Nat /\ 1 \in 1 .. n - 1
    BY <1>4
  <2>2. Count(h, n - 1, 0, v) = Count(h, n - 1, 1, v) + Hit(h[1], v)
    BY <2>1, LeaveOut
  <2>3. /\ Count(h, n - 1, 1, v) \in Nat /\ Hit(h[1], v) \in Nat
        /\ Hit(h[n], v) \in Nat
    BY <2>1, CountType DEF Hit
  <2>. QED  BY <1>1, <1>2, <1>4, <2>2, <2>3
<1>. QED  BY <1>3, <1>4

LEMMA EmptyCount ==
  ASSUME NEW h, NEW k, NEW v
  PROVE  Count(h, 0, k, v) = 0
<1>1. CellsOf(h, 0, k, v) = {}
  BY DEF CellsOf
<1>. QED  BY <1>1, FS_EmptySet DEF Count

(* The bag, by what the one process inside is doing.                       *)
BagForm ==
  /\ (\A q \in Procs : pc[q] \notin Writing) =>
       \A v \in Values : Bag[v] = Count(heap, heapSize, 0, v)
  /\ \A p \in Procs : pc[p] = "place" =>
       \A v \in Values : Bag[v] = Count(heap, heapSize, heapSize, v)
  /\ \A p \in Procs : pc[p] = "siftUp" =>
       \A v \in Values : Bag[v] = Count(heap, heapSize, now[p], v)
  /\ \A p \in Procs : pc[p] = "siftDown" =>
       \A v \in Values :
         Bag[v] = Count(heap, heapSize, now[p], v) + Hit(minElement[p], v)
                    + (IF heapSize > 0 THEN Hit(lastElement[p], v) ELSE 0)

LEMMA BagHasForm == Sound => BagForm
<1> SUFFICES ASSUME Sound PROVE BagForm
  OBVIOUS
<1>0. heapSize \in Nat /\ \A n \in Nat : n \notin 1 .. 0
  BY DEF Sound, BaseInv, TypeOK, Words
<1>1. ASSUME \A q \in Procs : pc[q] \notin Writing, NEW v \in Values
      PROVE  Bag[v] = Count(heap, heapSize, 0, v)
  <2>1. Holes = {} /\ Lifted(v) = {}
    BY <1>1 DEF Holes, Lifted, Writing
  <2>2. Cells(v) = CellsOf(heap, heapSize, 0, v)
    BY <1>0, <2>1 DEF Cells, CellsOf
  <2>3. Count(heap, heapSize, 0, v) \in Nat
    BY <1>0, CountType
  <2>. QED  BY <2>1, <2>2, <2>3, FS_EmptySet DEF Bag, Count
<1>2. ASSUME NEW p \in Procs, pc[p] \in Writing
      PROVE  \A q \in Procs : q # p => pc[q] \notin Writing
  BY <1>2, Alone DEF Sound, BaseInv, Writing, Inside, InsertLocations, RetrieveLocations
<1>3. ASSUME NEW p \in Procs, pc[p] = "place", NEW v \in Values
      PROVE  Bag[v] = Count(heap, heapSize, heapSize, v)
  <2>1. Holes = {heapSize} /\ Lifted(v) = {}
    BY <1>2, <1>3 DEF Holes, Lifted, Writing
  <2>2. Cells(v) = CellsOf(heap, heapSize, heapSize, v)
    BY <2>1 DEF Cells, CellsOf
  <2>3. Count(heap, heapSize, heapSize, v) \in Nat
    BY <1>0, CountType
  <2>. QED  BY <2>1, <2>2, <2>3, FS_EmptySet DEF Bag, Count
<1>4. ASSUME NEW p \in Procs, pc[p] = "siftUp", NEW v \in Values
      PROVE  Bag[v] = Count(heap, heapSize, now[p], v)
  <2>1. Holes = {now[p]} /\ Lifted(v) = {}
    BY <1>2, <1>4 DEF Holes, Lifted, Writing
  <2>2. Cells(v) = CellsOf(heap, heapSize, now[p], v)
    BY <2>1 DEF Cells, CellsOf
  <2>3. Count(heap, heapSize, now[p], v) \in Nat
    BY <1>0, CountType
  <2>. QED  BY <2>1, <2>2, <2>3, FS_EmptySet DEF Bag, Count
<1>5. ASSUME NEW p \in Procs, pc[p] = "siftDown", NEW v \in Values
      PROVE  Bag[v] = Count(heap, heapSize, now[p], v) + Hit(minElement[p], v)
                        + (IF heapSize > 0 THEN Hit(lastElement[p], v) ELSE 0)
  <2>1. Holes = {now[p]}
    BY <1>2, <1>5 DEF Holes, Writing
  <2>2. Cells(v) = CellsOf(heap, heapSize, now[p], v)
    BY <2>1 DEF Cells, CellsOf
  <2>3. Count(heap, heapSize, now[p], v) \in Nat
    BY <1>0, CountType
  <2> DEFINE m == minElement[p] = v
             l == lastElement[p] = v /\ heapSize > 0
             M == IF m THEN {<<p, "min">>} ELSE {}
             L == IF l THEN {<<p, "last">>} ELSE {}
  <2>4. Lifted(v) = M \cup L
    BY <1>2, <1>5 DEF Lifted, Writing
  <2>5. <<p, "last">> \notin M
    OBVIOUS
  <2>6. IsFiniteSet(M) /\ Cardinality(M) = IF m THEN 1 ELSE 0
    BY FS_EmptySet, FS_Singleton
  <2>7. Cardinality(M \cup L) = Cardinality(M) + (IF l THEN 1 ELSE 0)
    <3>1. CASE l
      BY <2>5, <2>6, <3>1, FS_AddElement
    <3>2. CASE ~l
      BY <2>6, <3>2
    <3>. QED  BY <3>1, <3>2
  <2>8. Cardinality(Lifted(v)) = (IF m THEN 1 ELSE 0) + (IF l THEN 1 ELSE 0)
    BY <2>4, <2>6, <2>7
  <2> HIDE DEF M, L
  <2>9. Bag[v] = Count(heap, heapSize, now[p], v)
                   + ((IF m THEN 1 ELSE 0) + (IF l THEN 1 ELSE 0))
    BY <2>2, <2>8 DEF Bag, Count
  <2>. QED  BY <2>3, <2>9 DEF Hit
<1>. QED  BY <1>1, <1>3, <1>4, <1>5 DEF BagForm

LEMMA NextBagHasForm == Sound' => BagForm'
BY BagHasForm, PTL

(* Two bags with the same number of each element are equal.                *)
LEMMA SameBag ==
  ASSUME \A v \in Values : Bag'[v] = Bag[v]
  PROVE  Bag' = Bag
BY DEF Bag

-----------------------------------------------------------------------------
(* The priority queue: each step of the heap is a step of the queue or     *)
(* leaves bag and ret alone.                                               *)

QueueStep == Queue!Next \/ UNCHANGED <<Bag, ret>>

(* The steps that leave the heap and the writing to others.                *)
LEMMA KeptBag ==
  ASSUME UNCHANGED <<heap, heapSize>>,
         \A q \in Procs : pc[q] \in Writing \/ pc'[q] \in Writing =>
           /\ pc'[q] = pc[q] /\ now'[q] = now[q]
           /\ minElement'[q] = minElement[q] /\ lastElement'[q] = lastElement[q]
  PROVE  Bag' = Bag
<1>1. Holes' = Holes
  BY DEF Holes, Writing
<1>2. \A v \in Values : Lifted(v)' = Lifted(v)
  BY DEF Lifted, Writing
<1>3. \A v \in Values : Cells(v)' = Cells(v)
  BY <1>1 DEF Cells
<1>. QED  BY <1>2, <1>3 DEF Bag

LEMMA QuietStep ==
  ASSUME Sound, NEW p \in Procs,
         \/ Enter(p) \/ EnterInterrupted(p) \/ Retrieve(p)
         \/ \E v \in Values : Insert(p, v)
  PROVE  QueueStep
<1> USE DEF Enter, EnterInterrupted, GoIn, Retrieve, Insert
<1>1. /\ UNCHANGED <<heap, heapSize, now, minElement, lastElement>>
      /\ \A q \in Procs : pc[q] \in Writing \/ pc'[q] \in Writing => pc'[q] = pc[q]
  BY DEF Goto, Sound, BaseInv, TypeOK, Writing, store, locals
<1>2. Bag' = Bag
  BY <1>1, KeptBag
<1>3. CASE Retrieve(p)
  <2>1. Queue!Call(p)
    BY <1>2, <1>3 DEF Queue!Call
  <2>. QED  BY <2>1 DEF QueueStep, Queue!Next
<1>4. CASE Enter(p) \/ EnterInterrupted(p) \/ \E v \in Values : Insert(p, v)
  BY <1>2, <1>4 DEF QueueStep
<1>. QED  BY <1>3, <1>4

(* Nobody who leaves holds an element.                                     *)
LEMMA LeaveStep ==
  ASSUME Sound, NEW p \in Procs, Leave(p) \/ LeaveInterrupted(p)
  PROVE  QueueStep
<1>1. /\ UNCHANGED <<heap, heapSize>>
      /\ \A q \in Procs : pc[q] \in Writing \/ pc'[q] \in Writing =>
           /\ pc'[q] = pc[q] /\ now'[q] = now[q]
           /\ minElement'[q] = minElement[q] /\ lastElement'[q] = lastElement[q]
  BY DEF Leave, LeaveInterrupted, Goto, Unwind, Sound, BaseInv, TypeOK, Writing, store
<1>2. Bag' = Bag
  BY <1>1, KeptBag
<1>. QED  BY <1>2 DEF Leave, LeaveInterrupted, QueueStep

LEMMA StoreInitStep ==
  ASSUME Sound, Sound', NEW p \in Procs, StoreInit(p)
  PROVE  QueueStep
<1>1. \A q \in Procs : pc[q] \notin Writing /\ pc'[q] \notin Writing
  BY OthersOut DEF Sound, BaseInv, StoreInit, Inside, Writing
<1>2. /\ heapSize' = heapSize /\ heapSize \in Nat
      /\ \A i \in 1 .. heapSize : heap'[i] = heap[i]
  BY DEF StoreInit, store, Sound, BaseInv, OpenedInv, TypeOK, Words
<1>3. \A v \in Values : Bag[v] = Count(heap, heapSize, 0, v)
  BY <1>1, BagHasForm DEF BagForm
<1>4. \A v \in Values : Bag'[v] = Count(heap', heapSize, 0, v)
  BY <1>1, <1>2, NextBagHasForm DEF BagForm
<1>5. Bag' = Bag
  BY <1>2, <1>3, <1>4, SameCells, SameBag
<1>. QED  BY <1>5 DEF StoreInit, QueueStep

LEMMA GrowStep ==
  ASSUME Sound, Sound', NEW p \in Procs, Grow(p)
  PROVE  QueueStep
<1>1. /\ \A q \in Procs : pc[q] \notin Writing
      /\ pc'[p] = "place"
  BY OthersOut DEF Sound, BaseInv, Grow, Inside, InsertLocations, Writing
<1>2. heapSize' = heapSize + 1 /\ heapSize \in Nat /\ heap' = heap
  BY DEF Grow, Sound, BaseInv, TypeOK, Words
<1>3. \A v \in Values : Bag[v] = Count(heap, heapSize, 0, v)
  BY <1>1, BagHasForm DEF BagForm
<1>4. \A v \in Values : Bag'[v] = Count(heap, heapSize + 1, heapSize + 1, v)
  BY <1>1, <1>2, NextBagHasForm DEF BagForm
<1>5. (1 .. heapSize) \ {0} = (1 .. heapSize + 1) \ {heapSize + 1}
  BY <1>2
<1>6. Bag' = Bag
  BY <1>3, <1>4, <1>5, SameBag DEF Count, CellsOf
<1>. QED  BY <1>6 DEF Grow, QueueStep

LEMMA PlaceStep ==
  ASSUME Sound, Sound', NEW p \in Procs, Place(p)
  PROVE  QueueStep
<1>1. pc[p] = "place" /\ pc'[p] = "siftUp"
  BY OthersOut DEF Sound, BaseInv, Place, Inside, InsertLocations
<1>2. /\ heapSize' = heapSize /\ heapSize \in Nat /\ now'[p] = heapSize
      /\ \A i \in 1 .. heapSize : i # heapSize => heap'[i] = heap[i]
  BY DEF Place, Sound, BaseInv, TypeOK, Words
<1>3. \A v \in Values : Bag[v] = Count(heap, heapSize, heapSize, v)
  BY <1>1, BagHasForm DEF BagForm
<1>4. \A v \in Values : Bag'[v] = Count(heap', heapSize, heapSize, v)
  BY <1>1, <1>2, NextBagHasForm DEF BagForm
<1>5. Bag' = Bag
  BY <1>2, <1>3, <1>4, SameCells, SameBag
<1>. QED  BY <1>5 DEF Place, QueueStep

LEMMA SiftUpStep ==
  ASSUME Sound, HeapOrder, Sound', NEW p \in Procs, SiftUp(p)
  PROVE  QueueStep
<1> DEFINE k == now[p]
           m == now[p] \div 2
<1>1. pc[p] = "siftUp" /\ pc'[p] = "siftUp"
  BY DEF SiftUp
<1>2. /\ heapSize' = heapSize /\ heapSize \in Nat /\ now'[p] = m
      /\ k \in 1 .. heapSize /\ m \in 1 .. heapSize
  <2>1. k \in Nat /\ k <= heapSize /\ heapSize \in Nat /\ m >= 1
    BY <1>1, NeverSentinel DEF Sound, BaseInv, TypeOK, Words, HeapOrder
  <2>2. now'[p] = m /\ heapSize' = heapSize
    BY DEF SiftUp, Sound, BaseInv, TypeOK
  <2>. QED  BY <2>1, <2>2
<1>3. (\A i \in 1 .. heapSize : i # k => heap'[i] = heap[i]) /\ heap'[k] = heap[m]
  BY <1>2 DEF SiftUp, Sound, BaseInv, TypeOK, Words
<1>4. \A v \in Values : Bag[v] = Count(heap, heapSize, k, v)
  BY <1>1, BagHasForm DEF BagForm
<1>5. \A v \in Values : Bag'[v] = Count(heap', heapSize, m, v)
  BY <1>1, <1>2, NextBagHasForm DEF BagForm
<1> HIDE DEF k, m
<1>6. Bag' = Bag
  BY <1>2, <1>3, <1>4, <1>5, MoveHole, SameBag
<1>. QED  BY <1>6 DEF SiftUp, QueueStep

(* The element is in the queue with its last write.                        *)
LEMMA PutUpStep ==
  ASSUME Sound, HeapOrder, Sound', NEW p \in Procs, PutUp(p)
  PROVE  QueueStep
<1> DEFINE k == now[p]
           e == element[p]
<1>1. pc[p] = "siftUp" /\ \A q \in Procs : pc'[q] \notin Writing
  BY OthersOut DEF Sound, BaseInv, PutUp, Inside, InsertLocations, Writing
<1>2. /\ heapSize' = heapSize /\ heapSize \in Nat
      /\ k \in 1 .. heapSize /\ e \in Values
  BY <1>1 DEF PutUp, Sound, BaseInv, TypeOK, WalkInv, InsertLocations, Words, HeapOrder
<1>3. (\A i \in 1 .. heapSize : i # k => heap'[i] = heap[i]) /\ heap'[k] = e
  BY <1>2 DEF PutUp, Sound, BaseInv, TypeOK, Words
<1>4. \A v \in Values : Bag[v] = Count(heap, heapSize, k, v)
  BY <1>1, BagHasForm DEF BagForm
<1>5. \A v \in Values : Bag'[v] = Count(heap', heapSize, 0, v)
  BY <1>1, <1>2, NextBagHasForm DEF BagForm
<1> HIDE DEF k, e
<1>6. \A v \in Values : Bag'[v] = Bag[v] + Hit(e, v) /\ Bag[v] \in Nat
  BY <1>2, <1>3, <1>4, <1>5, LeaveOut, SameCells, CountType
<1>7. Queue!Insert(e)
  <2>1. Bag' = [Bag EXCEPT ![e] = @ + 1]
    <3>1. Bag = [v \in Values |-> Bag[v]] /\ Bag' = [v \in Values |-> Bag'[v]]
      BY DEF Bag
    <3>. QED  BY <1>2, <1>6, <3>1 DEF Hit
  <2>. QED  BY <2>1 DEF Queue!Insert, PutUp
<1>. QED  BY <1>2, <1>7 DEF Queue!Next, QueueStep

(* An empty heap is an empty queue, and the word below it the minimum.     *)
LEMMA EmptyStep ==
  ASSUME Sound, NEW p \in Procs, Empty(p)
  PROVE  QueueStep
<1>1. \A q \in Procs : pc[q] \notin Writing
  BY Alone DEF Sound, BaseInv, Empty, Inside, InsertLocations, RetrieveLocations, Writing
<1>2. \A v \in Values : Bag[v] = 0
  <2>1. \A v \in Values : Bag[v] = Count(heap, 0, 0, v)
    BY <1>1, BagHasForm DEF BagForm, Empty
  <2>. QED  BY <2>1, EmptyCount
<1>3. Bag' = Bag
  <2>1. \A q \in Procs : pc'[q] \in Writing => pc'[q] = pc[q]
    BY DEF Empty, Goto, Sound, BaseInv, TypeOK, Writing
  <2>. QED  BY <1>1, <2>1, KeptBag DEF Empty, store, locals
<1>4. heap[0] = Minimum
  BY Sentinel DEF Sound, BaseInv, Empty
<1>5. Queue!RetrieveNone(p)
  BY <1>2, <1>3, <1>4 DEF Queue!RetrieveNone, Empty
<1>. QED  BY <1>5 DEF Queue!Next, QueueStep

LEMMA TakeStep ==
  ASSUME Sound, Sound', NEW p \in Procs, Take(p)
  PROVE  QueueStep
<1>1. (\A q \in Procs : pc[q] \notin Writing) /\ pc'[p] = "siftDown"
  BY OthersOut DEF Sound, BaseInv, Take, Inside, RetrieveLocations, Writing
<1>2. /\ heapSize' = heapSize - 1 /\ heapSize \in Nat /\ heapSize > 0
      /\ heap' = heap /\ now'[p] = 1
      /\ minElement'[p] = heap[1] /\ lastElement'[p] = heap[heapSize]
  BY DEF Take, Sound, BaseInv, TypeOK, Words
<1>3. \A v \in Values : Bag[v] = Count(heap, heapSize, 0, v)
  BY <1>1, BagHasForm DEF BagForm
<1>4. \A v \in Values :
        Bag'[v] = Count(heap, heapSize - 1, 1, v) + Hit(heap[1], v)
                    + (IF heapSize - 1 > 0 THEN Hit(heap[heapSize], v) ELSE 0)
  BY <1>1, <1>2, NextBagHasForm DEF BagForm
<1>5. Bag' = Bag
  BY <1>2, <1>3, <1>4, TakeCount, SameBag
<1>. QED  BY <1>5 DEF Take, QueueStep

LEMMA SiftDownStep ==
  ASSUME Sound, Sound', NEW p \in Procs, SiftDown(p)
  PROVE  QueueStep
<1> DEFINE k == now[p]
           c == SmallerChild(now[p])
<1>1. pc[p] = "siftDown" /\ pc'[p] = "siftDown"
  BY DEF SiftDown
<1>2. /\ heapSize' = heapSize /\ heapSize \in Nat /\ now'[p] = c
      /\ k \in 1 .. heapSize /\ c \in 1 .. heapSize
      /\ minElement' = minElement /\ lastElement' = lastElement
  <2>1. heapSize \in Nat /\ k \in Nat /\ k >= 1
    BY <1>1 DEF Sound, BaseInv, TypeOK, WalkInv, Words
  <2>2. c \in 2 .. heapSize /\ c \div 2 = k
    BY <1>1, ChildInHeap DEF Sound, BaseInv, SiftDown
  <2>3. /\ now'[p] = c /\ heapSize' = heapSize
        /\ minElement' = minElement /\ lastElement' = lastElement
    BY DEF SiftDown, Sound, BaseInv, TypeOK
  <2> HIDE DEF k, c
  <2>. QED  BY <2>1, <2>2, <2>3
<1>3. (\A i \in 1 .. heapSize : i # k => heap'[i] = heap[i]) /\ heap'[k] = heap[c]
  BY <1>2 DEF SiftDown, Sound, BaseInv, TypeOK, Words
<1> DEFINE rest(v) == IF heapSize > 0 THEN Hit(lastElement[p], v) ELSE 0
<1>4. \A v \in Values :
        Bag[v] = Count(heap, heapSize, k, v) + Hit(minElement[p], v) + rest(v)
  BY <1>1, BagHasForm DEF BagForm
<1>5. \A v \in Values :
        Bag'[v] = Count(heap', heapSize, c, v) + Hit(minElement[p], v) + rest(v)
  BY <1>1, <1>2, NextBagHasForm DEF BagForm
<1> HIDE DEF k, c, rest
<1>6. \A v \in Values : Count(heap', heapSize, c, v) = Count(heap, heapSize, k, v)
  BY <1>2, <1>3, MoveHole
<1>7. \A v \in Values : Bag'[v] = Bag[v]
  BY <1>4, <1>5, <1>6
<1>8. Bag' = Bag
  BY <1>7, SameBag
<1>. QED  BY <1>8 DEF SiftDown, QueueStep

(* The element that the caller gets is a smallest of the queue: every      *)
(* word but the one left out holds one at least as large, and so does      *)
(* lastElement.                                                            *)
LEMMA PutDownStep ==
  ASSUME Sound, HeapOrder, Sound', NEW p \in Procs, PutDown(p)
  PROVE  QueueStep
<1> DEFINE k == now[p]
           l == lastElement[p]
           m == minElement[p]
           rest(v) == IF heapSize > 0 THEN Hit(l, v) ELSE 0
<1>1. pc[p] = "siftDown" /\ \A q \in Procs : pc'[q] \notin Writing
  BY OthersOut DEF Sound, BaseInv, PutDown, Inside, RetrieveLocations, Writing
<1>2. /\ heapSize' = heapSize /\ heapSize \in Nat /\ k \in Nat
      /\ (heapSize > 0 => k \in 1 .. heapSize)
      /\ l \in Values /\ m \in Values /\ m <= l
  <2>1. /\ l \in Values /\ m \in Values /\ m <= l
        /\ k >= 1 /\ (heapSize > 0 => k <= heapSize)
    BY <1>1 DEF HeapOrder, Sound, BaseInv, WalkInv
  <2>2. heapSize \in Nat /\ k \in Nat /\ heapSize' = heapSize
    BY DEF PutDown, Sound, BaseInv, TypeOK, Words
  <2> HIDE DEF k, l, m
  <2>. QED  BY <2>1, <2>2
<1>3. /\ \A i \in 1 .. heapSize : i # k => heap'[i] = heap[i]
      /\ heapSize > 0 => heap'[k] = l
  BY <1>2 DEF PutDown, Sound, BaseInv, TypeOK, Words
<1>4. \A v \in Values : Bag[v] = Count(heap, heapSize, k, v) + Hit(m, v) + rest(v)
  BY <1>1, BagHasForm DEF BagForm
<1>5. \A v \in Values : Bag'[v] = Count(heap', heapSize, 0, v)
  BY <1>1, <1>2, NextBagHasForm DEF BagForm
<1>6. \A i \in 1 .. heapSize : i # k => heap[i] \in Values /\ m <= heap[i]
  BY <1>1 DEF HeapOrder, OrderedBut
<1>7. ret' = [ret EXCEPT ![p] = m]
  BY DEF PutDown
<1> HIDE DEF k, l, m
<1>8. \A v \in Values : Count(heap', heapSize, 0, v) = Count(heap, heapSize, k, v) + rest(v)
  <2> SUFFICES ASSUME NEW v \in Values
               PROVE  Count(heap', heapSize, 0, v) = Count(heap, heapSize, k, v) + rest(v)
    OBVIOUS
  <2>1. CASE heapSize > 0
    <3>1. Count(heap', heapSize, 0, v) = Count(heap', heapSize, k, v) + Hit(l, v)
      BY <1>2, <1>3, <2>1, LeaveOut
    <3>2. Count(heap', heapSize, k, v) = Count(heap, heapSize, k, v)
      BY <1>2, <1>3, SameCells
    <3>. QED  BY <2>1, <3>1, <3>2
  <2>2. CASE heapSize = 0
    <3>1. Count(heap', 0, 0, v) = 0 /\ Count(heap, 0, k, v) = 0
      BY EmptyCount
    <3>. QED  BY <2>2, <3>1
  <2>. QED  BY <1>2, <2>1, <2>2
<1>9. \A v \in Values : Count(heap, heapSize, k, v) \in Nat /\ rest(v) \in Nat
  BY <1>2, CountType DEF Hit
<1>10. ASSUME NEW w \in Values, w < m
       PROVE  Bag[w] = 0
  <2>1. \A i \in 1 .. heapSize : i # k => heap[i] # w
    <3> SUFFICES ASSUME NEW i \in 1 .. heapSize, i # k, heap[i] = w
                 PROVE  FALSE
      OBVIOUS
    <3>1. m <= w /\ m \in Int /\ w \in Int
      BY <1>2, <1>6
    <3>. QED  BY <1>10, <3>1
  <2>2. Count(heap, heapSize, k, w) = 0
    <3>1. CellsOf(heap, heapSize, k, w) = {}
      BY <2>1 DEF CellsOf
    <3>. QED  BY <3>1, FS_EmptySet DEF Count
  <2>3. m # w /\ l # w
    <3>1. m \in Int /\ w \in Int /\ l \in Int
      BY <1>2
    <3>. QED  BY <1>2, <1>10, <3>1
  <2>. QED  BY <1>4, <2>2, <2>3 DEF Hit
<1> HIDE DEF rest
<1>11. Bag[m] > 0
  BY <1>2, <1>4, <1>9 DEF Hit
<1>12. \A v \in Values : Bag'[v] = IF v = m THEN Bag[v] - 1 ELSE Bag[v]
  BY <1>2, <1>4, <1>5, <1>8, <1>9 DEF Hit
<1>13. Bag' = [Bag EXCEPT ![m] = @ - 1]
  <2>1. Bag = [v \in Values |-> Bag[v]] /\ Bag' = [v \in Values |-> Bag'[v]]
    BY DEF Bag
  <2>. QED  BY <1>2, <1>12, <2>1
<1>14. Queue!RetrieveSmallest(p)
  BY <1>2, <1>7, <1>10, <1>11, <1>13 DEF Queue!RetrieveSmallest, Queue!Smallest
<1>. QED  BY <1>14 DEF Queue!Next, QueueStep

(* Until the first death, and as long as no interrupted constructor lets a *)
(* second process in, the heap implements the priority queue that          *)
(* heapqueue.h promises: every retrieval returns a smallest element of     *)
(* those that are in it, for any number of processes at it.                *)
THEOREM QueueImplemented == Spec => ImplementsQueue
<1>1. Init => Queue!Init
  <2> SUFFICES ASSUME Init PROVE Queue!Init
    OBVIOUS
  <2>1. \A q \in Procs : pc[q] \notin Writing
    BY DEF Init, Writing
  <2>2. \A v \in Values : Bag[v] = Count(heap, 0, 0, v)
    BY <2>1, InitBase, BagHasForm DEF BagForm, Init, Sound
  <2>3. \A v \in Values : Bag[v] = 0
    BY <2>2, EmptyCount
  <2>4. Bag = [v \in Values |-> 0]
    <3>1. Bag = [v \in Values |-> Bag[v]]
      BY DEF Bag
    <3>. QED  BY <2>3, <3>1
  <2>. QED  BY <2>4 DEF Queue!Init, Init
<1>2. HeapInv /\ HeapInv' /\ [Next]_vars =>
        [crashes' = 0 /\ ~raced' => Queue!Next \/ UNCHANGED <<Bag, ret>>]_vars
  <2> SUFFICES ASSUME HeapInv, HeapInv', Next, crashes' = 0, ~raced'
               PROVE  QueueStep
    BY DEF QueueStep
  <2>1. PICK p \in Procs : ~raced /\ Acts(p)
    BY NextActs
  <2>2. ~Die(p)
    BY DEF Die, HeapInv, BaseInv, TypeOK
  <2>3. crashes = 0
    BY CrashesGrow DEF HeapInv
  <2>4. Sound /\ Sound' /\ HeapOrder
    BY <2>1, <2>3 DEF HeapInv, Sound
  <2>. QED  BY <2>1, <2>2, <2>4, QuietStep, LeaveStep, StoreInitStep, GrowStep,
               PlaceStep, SiftUpStep, PutUpStep, EmptyStep, TakeStep,
               SiftDownStep, PutDownStep DEF Step, Acts
<1>. QED  BY <1>1, <1>2, HeapInvHolds, PTL DEF Spec, ImplementsQueue

=============================================================================
