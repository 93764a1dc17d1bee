--------------------------- MODULE BlackBoardProof ---------------------------
(***************************************************************************)
(* Proofs about BlackBoard, for any set of processes and of elements, any  *)
(* size of the ring, and any bound on deaths.                              *)
(***************************************************************************)
EXTENDS BlackBoard, SequenceTheorems, TLAPS

USE BlackBoardAssumption

Mutexes == [owner : Procs \cup {NoOwner}, depth : Nat,
            abandoned : BOOLEAN, died : BOOLEAN]

LEMMA MutexUpdate ==
  ASSUME NEW m \in Mutexes, NEW o \in Procs \cup {NoOwner}, NEW d \in Nat
  PROVE  /\ [m EXCEPT !.owner = o, !.depth = d] \in Mutexes
         /\ [m EXCEPT !.owner = o, !.depth = d].owner = o
         /\ [m EXCEPT !.owner = o, !.depth = d].depth = d
         /\ [m EXCEPT !.depth = d, !.owner = o] \in Mutexes
         /\ [m EXCEPT !.owner = o, !.depth = d, !.abandoned = FALSE] \in Mutexes
BY DEF Mutexes

(* Only the process inside the mutex is at the wrap, so that head lies in  *)
(* the ring whenever another one, or nobody, is inside.                    *)
LEMMA HeadInRing ==
  ASSUME RingInv, intact,
         NEW p \in Procs, loc[p] \in Inside, loc[p] # "wrap"
  PROVE  head < Count
<1>1. \A q \in Procs : loc[q] = "wrap" => q = p
  BY DEF RingInv, Exclusion, Inside, InRetrieve
<1>2. head \in 0 .. Count /\ head # Count
  BY <1>1 DEF RingInv, InRing
<1>. QED  BY <1>2

LEMMA AfterInRing ==
  ASSUME NEW i \in Nat
  PROVE  /\ After(i) \in Nat
         /\ i < Count => After(i) \in Slots
BY DEF After, Slots

LEMMA InitRing == Init => RingInv
<1> SUFFICES ASSUME Init
             PROVE  RingInv
  OBVIOUS
<1>1. TypeOK
  <2>1. 0 \in Slots /\ NoElement \in Values /\ "out" \in Locations
    BY DEF Slots, Values, Locations
  <2>2. mutex \in Mutexes
    BY DEF Init, FreeMutex, Mutexes
  <2>3. /\ head \in Nat /\ tail \in Slots
        /\ isSetup \in BOOLEAN /\ intact \in BOOLEAN
    BY <2>1 DEF Init
  <2>6. deaths \in 0 .. MaxDeaths
    <3>1. deaths = 0 /\ MaxDeaths \in Nat
      BY DEF Init
    <3>. QED  BY <3>1
  <2>4. slot \in [Slots -> Values]
    BY <2>1 DEF Init
  <2>5. /\ loc \in [Procs -> Locations] /\ newTail \in [Procs -> Slots]
        /\ elem \in [Procs -> Values] /\ out \in [Procs -> Values]
    BY <2>1 DEF Init
  <2>. QED  BY <2>2, <2>3, <2>4, <2>5, <2>6 DEF TypeOK, Mutexes
<1>2. Exclusion /\ InRing
  BY DEF Init, Exclusion, InRing, Inside, InInsert, InRetrieve, InReset
<1>. QED  BY <1>1, <1>2 DEF RingInv

(* The constructor does not enter the mutex; it sets the indices to zero.  *)
LEMMA ConstructorStep ==
  ASSUME RingInv, NEW p \in Procs, Constructor(p)
  PROVE  RingInv'
<1> USE DEF RingInv, Goto, store, locals, Locations, Constructing
<1>1. TypeOK'
  <2>1. loc' \in [Procs -> Locations]
    BY DEF Constructor, Open, SetUp, InitHead, InitTail, TypeOK
  <2>2. isSetup' \in BOOLEAN /\ intact' \in BOOLEAN
    BY DEF Constructor, Open, SetUp, InitHead, InitTail, TypeOK
  <2>3. head' \in Nat /\ tail' \in Slots
    BY DEF Constructor, Open, SetUp, InitHead, InitTail, TypeOK, Slots
  <2>4. UNCHANGED <<slot, mutex, locals, deaths>>
    BY DEF Constructor, Open, SetUp, InitHead, InitTail
  <2>. QED  BY <2>1, <2>2, <2>3, <2>4 DEF TypeOK
<1>2. Exclusion'
  <2>1. loc'[p] \notin Inside /\ mutex' = mutex
    BY DEF Constructor, Open, SetUp, InitHead, InitTail, TypeOK,
           Inside, InInsert, InRetrieve, InReset
  <2>2. \A q \in Procs : q # p => loc'[q] = loc[q]
    BY DEF Constructor, Open, SetUp, InitHead, InitTail, TypeOK
  <2>. QED  BY <2>1, <2>2 DEF Exclusion
<1>3. InRing'
  <2>1. intact' => intact
    BY DEF Constructor, Open, SetUp, InitHead, InitTail, TypeOK
  <2>2. head' = 0 \/ head' = head
    BY DEF Constructor, Open, SetUp, InitHead, InitTail
  <2>3. \A q \in Procs : loc[q] = "wrap" => loc'[q] = "wrap"
    BY DEF Constructor, Open, SetUp, InitHead, InitTail, TypeOK
  <2>. QED  BY <2>1, <2>2, <2>3 DEF InRing
<1>. QED  BY <1>1, <1>2, <1>3

(* A process that enters finds the mutex free, or owns it already.         *)
LEMMA EnterStep ==
  ASSUME RingInv, NEW p \in Procs,
         BeginInsert(p) \/ BeginRetrieve(p) \/ BeginClear(p) \/ WaitAbandoned(p)
  PROVE  RingInv'
<1> USE DEF RingInv, Goto, store, locals, Wait
<1>0. /\ mutex \in Mutexes /\ mutex.depth + 1 \in Nat /\ mutex.depth + 1 > 0
      /\ \/ mutex' = [mutex EXCEPT !.owner = p, !.depth = mutex.depth + 1]
         \/ mutex' = [mutex EXCEPT !.owner = p, !.depth = 1, !.abandoned = FALSE]
  <2>1. mutex \in Mutexes
    BY DEF TypeOK, Mutexes
  <2>2. mutex.depth + 1 \in Nat /\ mutex.depth + 1 > 0
    BY <2>1 DEF Mutexes
  <2>. QED
    BY <2>1, <2>2 DEF BeginInsert, BeginRetrieve, BeginClear, WaitAbandoned
<1>1. TypeOK'
  <2>1. mutex' \in Mutexes
    <3>1. p \in Procs \cup {NoOwner} /\ 1 \in Nat
      OBVIOUS
    <3>2. CASE mutex' = [mutex EXCEPT !.owner = p, !.depth = mutex.depth + 1]
      BY <1>0, <3>1, <3>2, MutexUpdate
    <3>3. CASE mutex' = [mutex EXCEPT !.owner = p, !.depth = 1, !.abandoned = FALSE]
      BY <1>0, <3>1, <3>3, MutexUpdate
    <3>. QED  BY <1>0, <3>2, <3>3
  <2>2. loc' \in [Procs -> Locations]
    BY DEF BeginInsert, BeginRetrieve, BeginClear, WaitAbandoned, TypeOK,
           Locations, Inside, InInsert, InRetrieve, InReset
  <2>3. elem' \in [Procs -> Values]
    BY DEF BeginInsert, BeginRetrieve, BeginClear, WaitAbandoned, TypeOK, Values
  <2>4. UNCHANGED <<store, newTail, out, deaths, intact>>
    BY DEF BeginInsert, BeginRetrieve, BeginClear, WaitAbandoned
  <2>. QED  BY <2>1, <2>2, <2>3, <2>4 DEF TypeOK, Mutexes
<1>2. \A q \in Procs : q # p => loc[q] \notin Inside /\ loc'[q] = loc[q]
  <2>1. mutex.owner \in {NoOwner, p}
    BY DEF BeginInsert, BeginRetrieve, BeginClear, WaitAbandoned
  <2>2. \A q \in Procs : q # p => loc[q] \notin Inside
    BY <2>1 DEF Exclusion
  <2>. QED
    BY <2>2 DEF BeginInsert, BeginRetrieve, BeginClear, WaitAbandoned, TypeOK
<1>3. loc[p] = "idle" /\ mutex'.owner = p /\ mutex'.depth > 0
  <2>1. loc[p] = "idle"
    BY DEF BeginInsert, BeginRetrieve, BeginClear, WaitAbandoned
  <2>2. CASE mutex' = [mutex EXCEPT !.owner = p, !.depth = mutex.depth + 1]
    BY <1>0, <2>1, <2>2 DEF Mutexes
  <2>3. CASE mutex' = [mutex EXCEPT !.owner = p, !.depth = 1, !.abandoned = FALSE]
    BY <1>0, <2>1, <2>3 DEF Mutexes
  <2>. QED  BY <1>0, <2>2, <2>3
<1>4. Exclusion'
  BY <1>2, <1>3 DEF Exclusion
<1>5. InRing'
  <2>1. \A q \in Procs : loc[q] # "wrap"
    BY <1>2, <1>3 DEF Inside, InRetrieve
  <2>2. head' = head /\ intact' = intact
    BY DEF BeginInsert, BeginRetrieve, BeginClear, WaitAbandoned
  <2>. QED  BY <2>1, <2>2 DEF InRing
<1>. QED  BY <1>1, <1>4, <1>5

(* The writes of the operations: the mutex stays with p.                   *)
Write(p) ==
  \/ WriteSlot(p) \/ Roll(p) \/ PutTail(p)
  \/ Test(p) \/ IncHead(p) \/ Wrap(p) \/ ResetHead(p) \/ ResetTail(p)

LEMMA WriteTypes ==
  ASSUME TypeOK, NEW p \in Procs, Write(p)
  PROVE  TypeOK'
<1> USE DEF TypeOK, Goto, store, locals, Values, Locations, Inside, InInsert,
            InRetrieve, InReset
<1>1. CASE WriteSlot(p)
  <2>0. tail \in Nat /\ tail < Count
    BY DEF Slots
  <2>1. After(tail) \in Slots
    BY <2>0, AfterInRing
  <2>. QED  BY <1>1, <2>1 DEF WriteSlot
<1>2. CASE Roll(p)
  BY <1>2, AfterInRing DEF Roll
<1>3. CASE PutTail(p)
  BY <1>3 DEF PutTail
<1>4. CASE Test(p)
  <2>1. elem' \in [Procs -> Values]
    BY <1>4 DEF Test
  <2>. QED  BY <1>4, <2>1 DEF Test
<1>5. CASE IncHead(p)
  BY <1>5 DEF IncHead
<1>6. CASE Wrap(p)
  BY <1>6 DEF Wrap
<1>7. CASE ResetHead(p)
  BY <1>7 DEF ResetHead
<1>8. CASE ResetTail(p)
  BY <1>8 DEF ResetTail, Slots
<1>. QED  BY <1>1, <1>2, <1>3, <1>4, <1>5, <1>6, <1>7, <1>8 DEF Write

LEMMA WriteStep ==
  ASSUME RingInv, NEW p \in Procs, Write(p)
  PROVE  RingInv'
<1> USE DEF Goto, store, locals
<1>1. TypeOK'
  BY WriteTypes DEF RingInv
<1>2. /\ loc[p] \in Inside /\ loc'[p] \in Inside
      /\ mutex' = mutex /\ intact' = intact
      /\ \A q \in Procs : q # p => loc'[q] = loc[q]
  BY DEF RingInv, Write, WriteSlot, Roll, PutTail, Test, IncHead, Wrap, ResetHead,
         ResetTail, TypeOK, Inside, InInsert, InRetrieve, InReset
<1>3. Exclusion'
  BY <1>2 DEF RingInv, Exclusion
<1>4. ASSUME intact PROVE  head' \in 0 .. Count
                           /\ (head' = Count => loc'[p] = "wrap")
  <2>0. head \in Nat /\ head \in 0 .. Count
    BY <1>4 DEF RingInv, TypeOK, InRing
  <2>1. CASE Wrap(p)
    BY <2>0, <2>1 DEF Wrap
  <2>2. CASE ~Wrap(p)
    <3>1. loc[p] # "wrap"
      BY <2>2 DEF Write, WriteSlot, Roll, PutTail, Test, IncHead, ResetHead,
                  ResetTail
    <3>2. head < Count
      BY <1>2, <1>4, <3>1, HeadInRing
    <3>3. CASE IncHead(p)
      BY <2>0, <3>2, <3>3 DEF IncHead, RingInv, TypeOK
    <3>4. CASE Roll(p)
      BY <2>0, <3>2, <3>4, AfterInRing DEF Roll, Slots
    <3>5. CASE ~IncHead(p) /\ ~Roll(p)
      BY <2>0, <2>2, <3>2, <3>5 DEF Write, WriteSlot, PutTail, Test, ResetHead,
                                    ResetTail
    <3>. QED  BY <3>3, <3>4, <3>5
  <2>. QED  BY <2>1, <2>2
<1>5. InRing'
  BY <1>2, <1>4 DEF InRing
<1>. QED  BY <1>1, <1>3, <1>5 DEF RingInv

(* The destructor of Here gives the mutex back, or one level of it.        *)
LEMMA LeaveStep ==
  ASSUME RingInv, NEW p \in Procs, Leave(p)
  PROVE  RingInv'
<1> USE DEF RingInv, Leave, Goto, store
<1>1. loc[p] \in Inside /\ mutex.owner = p /\ mutex.depth > 0
  BY DEF Exclusion, Inside
<1>2. TypeOK'
  <2>1. mutex \in Mutexes /\ mutex.depth - 1 \in Nat
    BY <1>1 DEF TypeOK, Mutexes
  <2>2. mutex' \in Mutexes
    BY <2>1, MutexUpdate
  <2>3. loc' \in [Procs -> Locations] /\ elem' \in [Procs -> Values]
    BY DEF TypeOK, Locations, Values
  <2>4. newTail' \in [Procs -> Slots]
    BY DEF TypeOK, Slots
  <2>. QED  BY <2>2, <2>3, <2>4 DEF TypeOK, Mutexes
<1>3. \A q \in Procs : q # p => loc[q] \notin Inside /\ loc'[q] = loc[q]
  BY <1>1 DEF Exclusion, TypeOK
<1>4. loc'[p] = "idle"
  BY DEF TypeOK
<1>5. Exclusion'
  BY <1>3, <1>4 DEF Exclusion, Inside, InInsert, InRetrieve, InReset
<1>6. InRing'
  BY <1>1, HeadInRing DEF InRing
<1>. QED  BY <1>2, <1>5, <1>6

(* A process that closes the board or dies takes nobody else's mutex, and  *)
(* leaves the indices as they are or takes the board with it.              *)
LEMMA EndStep ==
  ASSUME RingInv, NEW p \in Procs, Close(p) \/ Die(p)
  PROVE  RingInv'
<1> USE DEF RingInv, Goto, store, locals
<1>1. TypeOK'
  <2>0. BoardAfter(p) /\ \E ends \in BOOLEAN : mutex' = MutexAfter(p, ends)
    BY DEF Close, Die
  <2>1. mutex' \in Mutexes
    <3>1. mutex \in Mutexes
      BY DEF TypeOK, Mutexes
    <3>2. FreeMutex \in Mutexes
      BY DEF FreeMutex, Mutexes
    <3>3. [owner |-> NoOwner, depth |-> 0, abandoned |-> TRUE, died |-> TRUE]
            \in Mutexes
      BY DEF Mutexes
    <3>. QED  BY <2>0, <3>1, <3>2, <3>3 DEF MutexAfter
  <2>2. /\ isSetup' \in BOOLEAN /\ head' \in Nat /\ tail' \in Slots
        /\ slot' \in [Slots -> Values]
    <3>1. 0 \in Slots /\ NoElement \in Values
      BY DEF Slots, Values
    <3>2. CASE UNCHANGED store
      BY <3>2 DEF TypeOK
    <3>3. CASE /\ isSetup' = FALSE /\ head' = 0 /\ tail' = 0
               /\ slot' = [i \in Slots |-> NoElement]
      BY <3>1, <3>3
    <3>. QED  BY <2>0, <3>2, <3>3 DEF BoardAfter
  <2>3. /\ loc' \in [Procs -> Locations] /\ out' \in [Procs -> Values]
    BY DEF Close, Die, TypeOK, Locations
  <2>5. intact' \in BOOLEAN
    <3>1. intact \in BOOLEAN
      BY DEF TypeOK
    <3>2. CASE Close(p)
      <4>1. intact' = (intact \/ LastOut(p))
        BY <3>2 DEF Close
      <4>. QED  BY <4>1
    <3>3. CASE Die(p)
      <4>1. intact' = (LastOut(p) \/ (intact /\ loc[p] \notin Inside))
        BY <3>3 DEF Die
      <4>. QED  BY <4>1
    <3>. QED  BY <3>2, <3>3
  <2>6. deaths' \in 0 .. MaxDeaths
    <3>1. deaths \in 0 .. MaxDeaths /\ MaxDeaths \in Nat
      BY DEF TypeOK
    <3>2. deaths' = deaths \/ (deaths < MaxDeaths /\ deaths' = deaths + 1)
      BY DEF Close, Die
    <3>. QED  BY <3>1, <3>2
  <2>4. elem' \in [Procs -> Values] /\ newTail' \in [Procs -> Slots]
    <3>1. 0 \in Slots /\ NoElement \in Values
      BY DEF Slots, Values
    <3>2. CASE Close(p)
      BY <3>2 DEF Close, TypeOK
    <3>3. CASE Die(p)
      BY <3>1, <3>3 DEF Die, TypeOK
    <3>. QED  BY <3>2, <3>3
  <2>. QED  BY <2>1, <2>2, <2>3, <2>4, <2>5, <2>6 DEF TypeOK, Mutexes
<1>2. loc'[p] = "out" /\ \A q \in Procs : q # p => loc'[q] = loc[q]
  BY DEF Close, Die, TypeOK
<1>3. Exclusion'
  <2> SUFFICES ASSUME NEW q \in Procs, loc'[q] \in Inside
               PROVE  mutex'.owner = q /\ mutex'.depth > 0
    BY DEF Exclusion
  <2>1. q # p /\ loc[q] \in Inside
    BY <1>2 DEF Inside, InInsert, InRetrieve, InReset
  <2>2. mutex.owner = q /\ mutex.depth > 0
    BY <2>1 DEF Exclusion
  <2>3. loc[q] \notin Constructing \cup {"out"}
    BY <2>1 DEF Inside, InInsert, InRetrieve, InReset, Constructing
  <2>4. mutex' = mutex
    BY <2>1, <2>2, <2>3 DEF Close, Die, MutexAfter
  <2>. QED  BY <2>2, <2>4
<1>4. InRing'
  <2>1. CASE LastOut(p)
    <3>1. head' = 0
      BY <2>1 DEF LastOut, Close, Die, BoardAfter
    <3>. QED  BY <3>1 DEF InRing
  <2>2. CASE ~LastOut(p)
    <3>1. head' = head
      BY <2>2 DEF LastOut, Close, Die, BoardAfter
    <3>2. intact' => intact /\ loc[p] \notin Inside
      BY <2>2 DEF Close, Die, Inside, InInsert, InRetrieve, InReset
    <3>3. intact' => \A q \in Procs : loc[q] = "wrap" => loc'[q] = "wrap"
      BY <1>2, <3>2 DEF Inside, InRetrieve
    <3>. QED  BY <3>1, <3>2, <3>3 DEF InRing
  <2>. QED  BY <2>1, <2>2
<1>. QED  BY <1>1, <1>3, <1>4

LEMMA NextRing == RingInv /\ [Next]_vars => RingInv'
<1> SUFFICES ASSUME RingInv, [Next]_vars
             PROVE  RingInv'
  OBVIOUS
<1>1. CASE UNCHANGED vars
  BY <1>1 DEF vars, store, locals, RingInv, TypeOK, Exclusion, InRing
<1>2. ASSUME NEW p \in Procs,
             Constructor(p) \/ Operation(p) \/ Close(p) \/ Die(p)
      PROVE  RingInv'
  BY <1>2, ConstructorStep, EnterStep, WriteStep, LeaveStep, EndStep
     DEF Operation, Write
<1>. QED  BY <1>1, <1>2 DEF Next

(* One process at a time is inside the mutex, and until a death inside it, *)
(* or a set-up that races another process, the indices lie in the ring:    *)
(* the one excursion is that of Retrieve between its two writes of Head.   *)
THEOREM RingInvHolds == Spec => []RingInv
BY InitRing, NextRing, PTL DEF Spec

-----------------------------------------------------------------------------
(* What keeps an abandoned mutex from the others: whoever is given it has  *)
(* it once more than the scopes he is in, and so no Leave frees it.        *)
OnceMore ==
  mutex.died =>
    /\ mutex.owner = NoOwner => mutex.abandoned
    /\ \A p \in Procs : mutex.owner = p =>
         /\ mutex.depth > 0
         /\ loc[p] \in Inside => mutex.depth > 1

LEMMA InitOnceMore == Init => OnceMore
BY DEF Init, OnceMore, FreeMutex

LEMMA EnterKeeps ==
  ASSUME TypeOK, OnceMore, NEW p \in Procs,
         BeginInsert(p) \/ BeginRetrieve(p) \/ BeginClear(p) \/ WaitAbandoned(p)
  PROVE  OnceMore'
<1>1. mutex \in Mutexes
  BY DEF TypeOK, Mutexes
<1>2. CASE Wait(p)
  <2>1. mutex' = [mutex EXCEPT !.owner = p, !.depth = mutex.depth + 1]
    BY <1>2 DEF Wait
  <2>2. mutex'.owner = p /\ mutex'.depth = mutex.depth + 1
        /\ mutex'.died = mutex.died
    BY <1>1, <2>1 DEF Mutexes
  <2>3. mutex.died => mutex.depth > 0
    BY <1>2 DEF Wait, OnceMore
  <2>. QED  BY <1>1, <2>2, <2>3 DEF OnceMore, Mutexes
<1>3. CASE WaitAbandoned(p)
  <2>1. mutex'.owner = p /\ mutex'.depth = 1
    BY <1>1, <1>3 DEF WaitAbandoned, Mutexes
  <2>2. loc'[p] \notin Inside
    BY <1>3 DEF WaitAbandoned, Inside, InInsert, InRetrieve, InReset
  <2>. QED  BY <2>1, <2>2 DEF OnceMore
<1>. QED  BY <1>2, <1>3 DEF BeginInsert, BeginRetrieve, BeginClear

LEMMA LeaveKeeps ==
  ASSUME RingInv, OnceMore, NEW p \in Procs, Leave(p)
  PROVE  OnceMore'
<1>1. mutex \in Mutexes /\ loc \in [Procs -> Locations]
  BY DEF RingInv, TypeOK, Mutexes
<1>2. loc[p] \in Inside /\ mutex.owner = p
  BY DEF Leave, RingInv, Exclusion, Inside
<1>3. mutex.died => mutex.depth > 1
  BY <1>2 DEF OnceMore
<1>4. /\ mutex'.died = mutex.died /\ mutex'.depth = mutex.depth - 1
      /\ mutex.died => mutex'.owner = p
  BY <1>1, <1>3 DEF Leave, Mutexes
<1>5. loc'[p] \notin Inside
  BY <1>1 DEF Leave, Goto, Inside, InInsert, InRetrieve, InReset
<1>. QED  BY <1>1, <1>3, <1>4, <1>5 DEF OnceMore, Mutexes

(* A step that leaves the mutex and those inside it where they are.        *)
LEMMA OutsideKeeps ==
  ASSUME OnceMore, mutex' = mutex,
         \A q \in Procs : mutex.owner = q /\ loc'[q] \in Inside => loc[q] \in Inside
  PROVE  OnceMore'
BY DEF OnceMore

LEMMA EndKeeps ==
  ASSUME RingInv, OnceMore, NEW p \in Procs, Close(p) \/ Die(p)
  PROVE  OnceMore'
<1>1. \E ends \in BOOLEAN : mutex' = MutexAfter(p, ends)
  BY DEF Close, Die
<1>2. loc'[p] = "out" /\ \A q \in Procs : q # p => loc'[q] = loc[q]
  BY DEF Close, Die, Goto, RingInv, TypeOK
<1>3. CASE mutex' = mutex
  <2>1. "out" \notin Inside
    BY DEF Inside, InInsert, InRetrieve, InReset
  <2>. QED  BY <1>2, <1>3, <2>1, OutsideKeeps
<1>4. CASE mutex' = FreeMutex
  BY <1>4 DEF FreeMutex, OnceMore
<1>5. CASE mutex' = [owner |-> NoOwner, depth |-> 0,
                     abandoned |-> TRUE, died |-> TRUE]
  BY <1>5 DEF OnceMore
<1>. QED  BY <1>1, <1>3, <1>4, <1>5 DEF MutexAfter

LEMMA NextOnceMore == RingInv /\ OnceMore /\ [Next]_vars => OnceMore'
<1> SUFFICES ASSUME RingInv, OnceMore, [Next]_vars
             PROVE  OnceMore'
  OBVIOUS
<1>1. CASE UNCHANGED vars
  BY <1>1 DEF vars, OnceMore
<1>2. ASSUME NEW p \in Procs, Constructor(p)
      PROVE  OnceMore'
  <2>1. mutex' = mutex /\ loc'[p] \notin Inside
        /\ \A q \in Procs : q # p => loc'[q] = loc[q]
    BY <1>2 DEF Constructor, Open, SetUp, InitHead, InitTail, Goto, RingInv,
                TypeOK, Inside, InInsert, InRetrieve, InReset
  <2>. QED  BY <2>1, OutsideKeeps
<1>3. ASSUME NEW p \in Procs, Write(p)
      PROVE  OnceMore'
  <2>1. mutex' = mutex /\ loc[p] \in Inside
        /\ \A q \in Procs : q # p => loc'[q] = loc[q]
    BY <1>3 DEF Write, WriteSlot, Roll, PutTail, Test, IncHead, Wrap, ResetHead,
                ResetTail, Goto, RingInv, TypeOK, Inside, InInsert, InRetrieve,
                InReset
  <2>. QED  BY <2>1, OutsideKeeps
<1>4. TypeOK
  BY DEF RingInv
<1>. QED
  BY <1>1, <1>2, <1>3, <1>4, EnterKeeps, LeaveKeeps, EndKeeps
     DEF Next, Operation, Write

(* The mutex of a process that died inside an operation is abandoned until *)
(* somebody is given it, and nobody after him: the torn board is never     *)
(* worked on again.                                                        *)
THEOREM NeverHandedOnHolds == Spec => []NeverHandedOn
<1>1. OnceMore => NeverHandedOn
  BY DEF OnceMore, NeverHandedOn
<1>. QED
  BY <1>1, InitOnceMore, NextOnceMore, RingInvHolds, PTL DEF Spec

-----------------------------------------------------------------------------
(* The board as a queue.                                                   *)

(* A sequence is told by its length and its elements.                      *)
LEMMA AppendForm ==
  ASSUME NEW S, NEW n \in Nat, NEW s \in [1 .. n -> S], NEW t \in [1 .. n + 1 -> S],
         \A i \in 1 .. n : t[i] = s[i]
  PROVE  t = Append(s, t[n + 1])
<1>1. s \in Seq(S) /\ Len(s) = n /\ t \in Seq(S) /\ Len(t) = n + 1
  BY SeqDef, LenProperties
<1>2. t[n + 1] \in S
  OBVIOUS
<1>3. /\ Append(s, t[n + 1]) \in Seq(S) /\ Len(Append(s, t[n + 1])) = n + 1
      /\ \A i \in 1 .. n : Append(s, t[n + 1])[i] = s[i]
      /\ Append(s, t[n + 1])[n + 1] = t[n + 1]
  BY <1>1, <1>2, AppendProperties
<1>4. \A i \in 1 .. n + 1 : t[i] = Append(s, t[n + 1])[i]
  BY <1>3
<1>. QED  BY <1>1, <1>3, <1>4, SeqEqual

LEMMA TailForm ==
  ASSUME NEW S, NEW n \in Nat, NEW s \in [1 .. n + 1 -> S], NEW t \in [1 .. n -> S],
         \A i \in 1 .. n : t[i] = s[i + 1]
  PROVE  s # <<>> /\ Head(s) = s[1] /\ Len(s) = n + 1 /\ t = Tail(s)
<1>1. t \in Seq(S) /\ Len(t) = n /\ s \in Seq(S) /\ Len(s) = n + 1
  BY SeqDef, LenProperties
<1>2. s # <<>>
  BY <1>1, EmptySeq
<1>3. /\ Tail(s) \in Seq(S) /\ Len(Tail(s)) = n
      /\ \A i \in 1 .. n : Tail(s)[i] = s[i + 1]
  BY <1>1, <1>2, HeadTailProperties
<1>4. t = Tail(s)
  BY <1>1, <1>3, SeqEqual
<1>. QED  BY <1>1, <1>2, <1>4

(* What lies on a ring from h up to t, as a sequence.                      *)
SizeOf(h, t) == IF t >= h THEN t - h ELSE t - h + Count
CellAt(h, i) == IF h + i >= Count THEN h + i - Count ELSE h + i
QueueOf(h, t, s) == [i \in 1 .. SizeOf(h, t) |-> s[CellAt(h, i - 1)]]

Rings == [Slots -> Values]

LEMMA ContentIsQueue ==
  /\ Content = IF Resetting THEN <<>> ELSE QueueOf(head, tail, slot)
  /\ Content' = IF Resetting' THEN <<>> ELSE QueueOf(head', tail', slot')
BY DEF Content, QueueOf, Size, SizeOf, Place, CellAt

(* The cells of the queue lie in the ring, and the one at t is free.       *)
LEMMA QueueCells ==
  ASSUME NEW h \in 0 .. Count, NEW t \in Slots
  PROVE  /\ SizeOf(h, t) \in 0 .. Count - 1
         /\ \A i \in 1 .. SizeOf(h, t) : CellAt(h, i - 1) \in Slots \ {t}
BY DEF SizeOf, CellAt, Slots

LEMMA QueueType ==
  ASSUME NEW h \in 0 .. Count, NEW t \in Slots, NEW s \in Rings
  PROVE  /\ QueueOf(h, t, s) \in [1 .. SizeOf(h, t) -> Values]
         /\ \A i \in 1 .. SizeOf(h, t) : QueueOf(h, t, s)[i] = s[CellAt(h, i - 1)]
<1>1. \A i \in 1 .. SizeOf(h, t) : s[CellAt(h, i - 1)] \in Values
  BY QueueCells DEF Rings
<1>. QED  BY <1>1 DEF QueueOf

LEMMA QueueWrite ==
  ASSUME NEW h \in 0 .. Count, NEW t \in Slots, NEW s \in Rings, NEW e \in Values
  PROVE  QueueOf(h, t, [s EXCEPT ![t] = e]) = QueueOf(h, t, s)
<1>1. \A i \in 1 .. SizeOf(h, t) :
        [s EXCEPT ![t] = e][CellAt(h, i - 1)] = s[CellAt(h, i - 1)]
  BY QueueCells DEF Rings
<1>. QED  BY <1>1 DEF QueueOf

LEMMA QueueEmpty ==
  ASSUME NEW h \in Slots, NEW s \in Rings
  PROVE  QueueOf(h, h, s) = <<>>
<1>1. SizeOf(h, h) = 0
  BY DEF SizeOf, Slots
<1>2. QueueOf(h, h, s) \in [1 .. 0 -> Values]
  BY <1>1, QueueType DEF Slots
<1>3. QueueOf(h, h, s) \in Seq(Values) /\ Len(QueueOf(h, h, s)) = 0
  BY <1>2, SeqDef, LenProperties
<1>. QED  BY <1>3, EmptySeq

LEMMA QueueWraps ==
  ASSUME NEW t \in Slots, NEW s \in Rings
  PROVE  QueueOf(Count, t, s) = QueueOf(0, t, s)
<1>1. SizeOf(Count, t) = t /\ SizeOf(0, t) = t
  BY DEF SizeOf, Slots
<1>2. \A i \in 1 .. t : CellAt(Count, i - 1) = CellAt(0, i - 1)
  BY DEF CellAt, Slots
<1>. QED  BY <1>1, <1>2 DEF QueueOf

LEMMA QueueFull ==
  ASSUME NEW t \in Slots, NEW s \in Rings
  PROVE  Len(QueueOf(After(t), t, s)) = Count - 1
<1>1. After(t) \in Slots /\ SizeOf(After(t), t) = Count - 1
  BY DEF SizeOf, Slots, After
<1>2. After(t) \in 0 .. Count /\ Count - 1 \in Nat
  BY <1>1 DEF Slots
<1>3. QueueOf(After(t), t, s) \in [1 .. Count - 1 -> Values]
  BY <1>1, <1>2, QueueType
<1>. QED  BY <1>2, <1>3, SeqDef, LenProperties

LEMMA QueueAppend ==
  ASSUME NEW h \in Slots, NEW t \in Slots, NEW s \in Rings, After(t) # h
  PROVE  /\ Len(QueueOf(h, t, s)) < Count - 1
         /\ QueueOf(h, After(t), s) = Append(QueueOf(h, t, s), s[t])
<1> DEFINE n == SizeOf(h, t)
<1>1. After(t) \in Slots /\ h \in 0 .. Count
  BY DEF Slots, After
<1>2. n \in 0 .. Count - 2 /\ SizeOf(h, After(t)) = n + 1 /\ CellAt(h, n) = t
  BY DEF SizeOf, CellAt, Slots, After
<1>3. /\ QueueOf(h, t, s) \in [1 .. n -> Values]
      /\ \A i \in 1 .. n : QueueOf(h, t, s)[i] = s[CellAt(h, i - 1)]
  BY <1>1, QueueType
<1>4. /\ QueueOf(h, After(t), s) \in [1 .. n + 1 -> Values]
      /\ \A i \in 1 .. n + 1 : QueueOf(h, After(t), s)[i] = s[CellAt(h, i - 1)]
  <2>1. /\ QueueOf(h, After(t), s) \in [1 .. SizeOf(h, After(t)) -> Values]
        /\ \A i \in 1 .. SizeOf(h, After(t)) :
             QueueOf(h, After(t), s)[i] = s[CellAt(h, i - 1)]
    BY <1>1, QueueType
  <2> HIDE DEF n
  <2>2. SizeOf(h, After(t)) = n + 1
    BY <1>2
  <2>. QED  BY <2>1, <2>2
<1> HIDE DEF n
<1>5. QueueOf(h, After(t), s)[n + 1] = s[t]
  <2>1. n + 1 \in 1 .. n + 1 /\ (n + 1) - 1 = n
    BY <1>2
  <2>2. QueueOf(h, After(t), s)[n + 1] = s[CellAt(h, (n + 1) - 1)]
    BY <1>4, <2>1
  <2>. QED  BY <1>2, <2>1, <2>2
<1>6. \A i \in 1 .. n : QueueOf(h, After(t), s)[i] = QueueOf(h, t, s)[i]
  <2>1. \A i \in 1 .. n : i \in 1 .. n + 1
    BY <1>2
  <2>. QED  BY <1>3, <1>4, <2>1
<1>7. n \in Nat
  BY <1>2
<1>8. QueueOf(h, After(t), s) = Append(QueueOf(h, t, s), s[t])
  BY <1>3, <1>4, <1>5, <1>6, <1>7, AppendForm
<1>9. Len(QueueOf(h, t, s)) = n
  BY <1>3, <1>7, SeqDef, LenProperties
<1>. QED  BY <1>2, <1>8, <1>9

LEMMA QueueTail ==
  ASSUME NEW h \in Slots, NEW t \in Slots, NEW s \in Rings, t # h,
         NEW k \in {h + 1, After(h)}
  PROVE  /\ QueueOf(h, t, s) # <<>> /\ Head(QueueOf(h, t, s)) = s[h]
         /\ QueueOf(k, t, s) = Tail(QueueOf(h, t, s))
<1> DEFINE n == SizeOf(k, t)
<1>1. h \in 0 .. Count /\ k \in 0 .. Count
  BY DEF Slots, After
<1>2. n \in Nat /\ SizeOf(h, t) = n + 1
  BY DEF SizeOf, Slots, After
<1>3. \A i \in 1 .. n : CellAt(k, i - 1) = CellAt(h, i)
  <2> SUFFICES ASSUME NEW i \in 1 .. n
               PROVE  CellAt(k, i - 1) = CellAt(h, i)
    OBVIOUS
  <2>1. n <= Count - 1
    BY <1>1, QueueCells
  <2>. QED  BY <1>2, <2>1 DEF CellAt, Slots, After
<1>4. /\ QueueOf(h, t, s) \in [1 .. n + 1 -> Values]
      /\ \A i \in 1 .. n + 1 : QueueOf(h, t, s)[i] = s[CellAt(h, i - 1)]
  BY <1>1, <1>2, QueueType
<1>5. /\ QueueOf(k, t, s) \in [1 .. n -> Values]
      /\ \A i \in 1 .. n : QueueOf(k, t, s)[i] = s[CellAt(k, i - 1)]
  BY <1>1, QueueType
<1> HIDE DEF n
<1>6. \A i \in 1 .. n : QueueOf(k, t, s)[i] = QueueOf(h, t, s)[i + 1]
  <2> SUFFICES ASSUME NEW i \in 1 .. n
               PROVE  QueueOf(k, t, s)[i] = QueueOf(h, t, s)[i + 1]
    OBVIOUS
  <2>1. i + 1 \in 1 .. n + 1 /\ (i + 1) - 1 = i
    BY <1>2
  <2>. QED  BY <1>3, <1>4, <1>5, <2>1
<1>7. QueueOf(h, t, s)[1] = s[h]
  <2>1. 1 \in 1 .. n + 1 /\ CellAt(h, 1 - 1) = h
    BY <1>2 DEF CellAt, Slots
  <2>. QED  BY <1>4, <2>1
<1>. QED  BY <1>2, <1>4, <1>5, <1>6, <1>7, TailForm

(* As long as the board is intact it is set up before anybody works on it, *)
(* and empty as long as nobody does.                                       *)
NoUser == \A p \in Procs : loc[p] \in Constructing \cup {"out"}

StartInv ==
  /\ \A p \in Procs : loc[p] \notin {"out", "setUp"} => isSetup
  /\ intact => /\ (\E p \in Procs : loc[p] \in Constructing) => NoUser
               /\ NoUser => head = 0 /\ tail = 0

(* What the process inside the mutex knows from its earlier steps.         *)
Work(p) ==
  /\ loc[p] \in InInsert => elem[p] \in Elements
  /\ loc[p] \in {"roll", "putTail"} =>
       newTail[p] = After(tail) /\ slot[tail] = elem[p]
  /\ loc[p] = "putTail" => newTail[p] # head
  /\ loc[p] = "incHead" => tail # head /\ elem[p] = slot[head]
  /\ loc[p] = "zeroHead" => tail = head
  /\ loc[p] \in {"zeroTail", "clearTail"} => head = 0

WorkInv == intact => \A p \in Procs : Work(p)

(* The step of one process moves nobody else.                              *)
LEMMA OthersStay ==
  ASSUME TypeOK, NEW p \in Procs,
         Constructor(p) \/ Operation(p) \/ Close(p) \/ Die(p)
  PROVE  /\ loc' \in [Procs -> Locations]
         /\ \E l \in Locations : loc' = [loc EXCEPT ![p] = l]
         /\ \A q \in Procs : q # p => loc'[q] = loc[q]
<1>1. \E l \in Locations : loc' = [loc EXCEPT ![p] = l]
  <2> USE DEF Goto, Locations, Constructing, Inside, InInsert, InRetrieve, InReset
  <2>1. CASE Constructor(p)
    BY <2>1 DEF Constructor, Open, SetUp, InitHead, InitTail
  <2>2. CASE BeginInsert(p) \/ BeginRetrieve(p) \/ BeginClear(p)
    BY <2>2 DEF BeginInsert, BeginRetrieve, BeginClear
  <2>3. CASE WaitAbandoned(p)
    <3>1. loc' = [loc EXCEPT ![p] = "idle"]
      BY <2>3 DEF WaitAbandoned, TypeOK
    <3>. QED  BY <3>1
  <2>4. CASE WriteSlot(p) \/ Roll(p) \/ PutTail(p) \/ Leave(p)
    BY <2>4 DEF WriteSlot, Roll, PutTail, Leave
  <2>5. CASE Test(p) \/ IncHead(p) \/ Wrap(p) \/ ResetHead(p) \/ ResetTail(p)
    BY <2>5 DEF Test, IncHead, Wrap, ResetHead, ResetTail
  <2>6. CASE Close(p) \/ Die(p)
    BY <2>6 DEF Close, Die
  <2>. QED  BY <2>1, <2>2, <2>3, <2>4, <2>5, <2>6 DEF Operation
<1>2. loc \in [Procs -> Locations]
  BY DEF TypeOK
<1>. QED  BY <1>1, <1>2

(* A process at work is not one that sets the board up, and has a board.   *)
LEMMA AtWork ==
  ASSUME NEW l \in Inside \cup {"idle"}
  PROVE  l \notin Constructing \cup {"out"}
BY DEF Inside, InInsert, InRetrieve, InReset, Constructing

LEMMA EndStart ==
  ASSUME TypeOK, StartInv, NEW p \in Procs, Close(p) \/ Die(p)
  PROVE  StartInv'
<1>1. loc'[p] = "out" /\ \A q \in Procs : q # p => loc'[q] = loc[q]
  BY OthersStay DEF Close, Die, Goto, TypeOK
<1>2. CASE LastOut(p)
  <2>1. \A q \in Procs : loc'[q] = "out"
    BY <1>1, <1>2 DEF LastOut
  <2>2. head' = 0 /\ tail' = 0
    BY <1>2 DEF LastOut, Close, Die, BoardAfter
  <2>. QED  BY <2>1, <2>2 DEF StartInv, Constructing
<1>3. CASE ~LastOut(p)
  <2>1. UNCHANGED store /\ (intact' => intact)
    BY <1>3 DEF LastOut, Close, Die, BoardAfter, Inside
  <2>2. PICK q \in Procs : q # p /\ loc[q] # "out"
    BY <1>3 DEF LastOut
  <2>3. \A r \in Procs : loc'[r] \notin {"out", "setUp"} => isSetup'
    BY <1>1, <2>1 DEF StartInv, store
  <2>4. ASSUME intact', NEW r \in Procs, loc'[r] \in Constructing
        PROVE  NoUser'
    <3>1. r # p /\ loc[r] \in Constructing
      BY <1>1, <2>4 DEF Constructing
    <3>2. NoUser
      BY <2>1, <2>4, <3>1 DEF StartInv
    <3>. QED  BY <1>1, <3>2 DEF NoUser
  <2>5. ASSUME intact', NoUser'
        PROVE  head' = 0 /\ tail' = 0
    <3>1. loc[q] \in Constructing
      BY <1>1, <2>2, <2>5 DEF NoUser
    <3>2. head = 0 /\ tail = 0
      BY <2>1, <2>5, <3>1 DEF StartInv
    <3>. QED  BY <2>1, <3>2 DEF store
  <2>. QED  BY <2>3, <2>4, <2>5 DEF StartInv
<1>. QED  BY <1>2, <1>3

LEMMA ConstructorStart ==
  ASSUME TypeOK, StartInv, NEW p \in Procs, Constructor(p)
  PROVE  StartInv'
<1>0. \A q \in Procs : q # p => loc'[q] = loc[q]
  BY OthersStay
<1>1. loc \in [Procs -> Locations]
  BY DEF TypeOK
<1>2. CASE Open(p) /\ isSetup
  <2>1. /\ loc[p] = "out" /\ loc'[p] = "idle" /\ UNCHANGED store
        /\ intact' = (intact /\ \A q \in Procs : loc[q] \notin Constructing)
    BY <1>1, <1>2 DEF Open, Goto
  <2>2. intact' => \A q \in Procs : loc'[q] \notin Constructing
    BY <1>0, <2>1 DEF Constructing
  <2>3. ~NoUser'
    BY <2>1 DEF NoUser, Constructing
  <2>. QED  BY <1>0, <1>2, <2>1, <2>2, <2>3 DEF StartInv, store
<1>3. CASE Open(p) /\ ~isSetup
  <2>1. loc[p] = "out" /\ loc'[p] = "setUp" /\ UNCHANGED <<store, intact>>
    BY <1>1, <1>3 DEF Open, Goto
  <2>2. NoUser /\ NoUser'
    BY <1>0, <1>3, <2>1 DEF StartInv, NoUser, Constructing
  <2>. QED  BY <1>0, <2>1, <2>2 DEF StartInv, store
<1>4. CASE SetUp(p) \/ InitHead(p)
  <2>1. /\ loc[p] \in Constructing /\ loc'[p] \in Constructing
        /\ loc[p] \in {"setUp", "initHead"} /\ UNCHANGED <<tail, intact>>
        /\ isSetup' = TRUE \/ (loc[p] = "initHead" /\ isSetup' = isSetup)
        /\ head' = head \/ head' = 0
    BY <1>1, <1>4 DEF SetUp, InitHead, Goto, Constructing
  <2>2. intact => NoUser /\ head = 0 /\ tail = 0
    BY <2>1 DEF StartInv
  <2>3. intact => NoUser'
    BY <1>0, <2>1, <2>2 DEF NoUser
  <2>4. isSetup'
    BY <2>1 DEF StartInv
  <2>. QED  BY <2>1, <2>2, <2>3, <2>4 DEF StartInv
<1>5. CASE InitTail(p)
  <2>1. /\ loc[p] = "initTail" /\ loc'[p] = "idle" /\ UNCHANGED isSetup
        /\ intact' = (intact /\ \A q \in Procs \ {p} : loc[q] \notin Constructing)
    BY <1>1, <1>5 DEF InitTail, Goto
  <2>2. intact' => \A q \in Procs : loc'[q] \notin Constructing
    BY <1>0, <2>1 DEF Constructing
  <2>3. ~NoUser'
    BY <2>1 DEF NoUser, Constructing
  <2>. QED  BY <1>0, <2>1, <2>2, <2>3 DEF StartInv
<1>. QED  BY <1>2, <1>3, <1>4, <1>5 DEF Constructor

(* An operation is called and ends at "idle", behind the constructor.      *)
LEMMA OperationStart ==
  ASSUME TypeOK, StartInv, NEW p \in Procs, Operation(p)
  PROVE  StartInv'
<1>1. /\ loc[p] \in Inside \cup {"idle"} /\ loc'[p] \in Inside \cup {"idle"}
      /\ UNCHANGED <<isSetup, intact>>
  <2> USE DEF Goto, Inside, InInsert, InRetrieve, InReset, store, TypeOK
  <2>1. CASE BeginInsert(p) \/ BeginRetrieve(p) \/ BeginClear(p)
    BY <2>1 DEF BeginInsert, BeginRetrieve, BeginClear, Wait
  <2>2. CASE WaitAbandoned(p) \/ Leave(p)
    BY <2>2 DEF WaitAbandoned, Leave
  <2>3. CASE WriteSlot(p) \/ Roll(p) \/ PutTail(p)
    BY <2>3 DEF WriteSlot, Roll, PutTail
  <2>4. CASE Test(p) \/ IncHead(p) \/ Wrap(p)
    BY <2>4 DEF Test, IncHead, Wrap
  <2>5. CASE ResetHead(p) \/ ResetTail(p)
    BY <2>5 DEF ResetHead, ResetTail
  <2>. QED  BY <2>1, <2>2, <2>3, <2>4, <2>5 DEF Operation
<1>2. loc[p] \notin Constructing \cup {"out"} /\ loc'[p] \notin Constructing \cup {"out"}
  BY <1>1, AtWork
<1>3. \A q \in Procs : q # p => loc'[q] = loc[q]
  BY OthersStay
<1>4. ~NoUser /\ ~NoUser'
  BY <1>2 DEF NoUser
<1>5. isSetup
  BY <1>2 DEF StartInv, Constructing
<1>. QED  BY <1>1, <1>2, <1>3, <1>4, <1>5 DEF StartInv

LEMMA NextStart == TypeOK /\ StartInv /\ [Next]_vars => StartInv'
<1> SUFFICES ASSUME TypeOK, StartInv, [Next]_vars
             PROVE  StartInv'
  OBVIOUS
<1>1. CASE UNCHANGED vars
  BY <1>1 DEF vars, store, StartInv, NoUser
<1>2. CASE Next
  BY <1>2, ConstructorStart, OperationStart, EndStart DEF Next
<1>. QED  BY <1>1, <1>2

(* Nobody else is inside with p, or with one who is about to enter.        *)
LEMMA Alone ==
  ASSUME RingInv, NEW p \in Procs, Operation(p)
  PROVE  \A q \in Procs : q # p => loc[q] \notin Inside
<1>1. CASE loc[p] \in Inside
  BY <1>1 DEF RingInv, Exclusion
<1>2. CASE loc[p] \notin Inside
  <2>1. BeginInsert(p) \/ BeginRetrieve(p) \/ BeginClear(p) \/ WaitAbandoned(p)
    BY <1>2 DEF Operation, WriteSlot, Roll, PutTail, Test, IncHead, Wrap, ResetHead,
                ResetTail, Leave, Inside, InInsert, InRetrieve, InReset
  <2>2. mutex.owner \in {NoOwner, p}
    BY <2>1 DEF BeginInsert, BeginRetrieve, BeginClear, WaitAbandoned, Wait
  <2>. QED  BY <2>2 DEF RingInv, Exclusion
<1>. QED  BY <1>1, <1>2

LEMMA IdleWork ==
  ASSUME NEW q \in Procs, loc'[q] \notin Inside
  PROVE  Work(q)'
BY DEF Work, Inside, InInsert, InRetrieve, InReset

LEMMA OperationWork ==
  ASSUME RingInv, NEW p \in Procs, Operation(p), intact, Work(p)
  PROVE  Work(p)'
<1> USE DEF Goto, store, locals
<1>0. /\ loc \in [Procs -> Locations] /\ elem \in [Procs -> Values]
      /\ newTail \in [Procs -> Slots] /\ slot \in Rings
      /\ tail \in Slots /\ head \in Nat
  BY DEF RingInv, TypeOK, Rings
<1>1. CASE BeginInsert(p) \/ BeginRetrieve(p) \/ BeginClear(p)
  BY <1>0, <1>1 DEF BeginInsert, BeginRetrieve, BeginClear, Work, InInsert
<1>2. CASE WaitAbandoned(p) \/ Leave(p)
  BY <1>0, <1>2, IdleWork
     DEF WaitAbandoned, Leave, Inside, InInsert, InRetrieve, InReset
<1>3. CASE WriteSlot(p)
  BY <1>0, <1>3 DEF WriteSlot, Work, InInsert, Rings
<1>4. CASE Roll(p)
  <2>1. head < Count
    BY <1>4, HeadInRing DEF Roll, Inside, InInsert
  <2>2. After(head) # head
    BY <1>0, <2>1 DEF After
  <2>. QED  BY <1>0, <1>4, <2>2 DEF Roll, Work, InInsert
<1>5. CASE PutTail(p)
  BY <1>0, <1>5 DEF PutTail, Work, InInsert
<1>6. CASE Test(p)
  <2>1. head \in Slots
    BY <1>0, <1>6, HeadInRing DEF Test, Inside, InRetrieve, Slots
  <2>. QED  BY <1>0, <1>6, <2>1 DEF Test, Work, InInsert
<1>7. CASE IncHead(p) \/ Wrap(p)
  BY <1>0, <1>7 DEF IncHead, Wrap, Work, InInsert
<1>8. CASE ResetHead(p)
  BY <1>0, <1>8 DEF ResetHead, Work, InInsert
<1>9. CASE ResetTail(p)
  BY <1>0, <1>9 DEF ResetTail, Work, InInsert
<1>. QED  BY <1>1, <1>2, <1>3, <1>4, <1>5, <1>6, <1>7, <1>8, <1>9 DEF Operation

LEMMA NextWork == RingInv /\ StartInv /\ WorkInv /\ [Next]_vars => WorkInv'
<1> SUFFICES ASSUME RingInv, StartInv, WorkInv, [Next]_vars
             PROVE  WorkInv'
  OBVIOUS
<1>1. CASE UNCHANGED vars
  BY <1>1 DEF vars, store, locals, WorkInv, Work
<1>2. ASSUME NEW p \in Procs, intact', NEW q \in Procs,
             Constructor(p) \/ Operation(p) \/ Close(p) \/ Die(p)
      PROVE  Work(q)'
  <2>0. TypeOK /\ \A r \in Procs : r # p => loc'[r] = loc[r]
    BY <1>2, OthersStay DEF RingInv
  <2>1. CASE Constructor(p)
    <3>1. loc'[p] \notin Inside /\ intact
          /\ UNCHANGED <<elem, newTail>> /\ (Open(p) => UNCHANGED store)
      BY <1>2, <2>0, <2>1 DEF Constructor, Open, SetUp, InitHead, InitTail, TypeOK,
         Goto, locals, Inside, InInsert, InRetrieve, InReset
    <3>2. CASE q = p
      BY <3>1, <3>2, IdleWork
    <3>3. CASE q # p /\ Open(p)
      BY <2>0, <3>1, <3>3 DEF WorkInv, Work, store
    <3>4. CASE q # p /\ ~Open(p)
      <4>1. loc[p] \in Constructing
        BY <2>1, <3>4 DEF Constructor, SetUp, InitHead, InitTail, Constructing
      <4>2. loc'[q] \in Constructing \cup {"out"}
        BY <2>0, <3>1, <3>4, <4>1 DEF StartInv, NoUser
      <4>3. loc'[q] \notin Inside
        BY <4>2, AtWork
      <4>. QED  BY <4>3, IdleWork
    <3>. QED  BY <3>2, <3>3, <3>4
  <2>2. CASE Operation(p)
    <3>1. intact
      BY <1>2, <2>2 DEF Operation, BeginInsert, BeginRetrieve, BeginClear,
         WaitAbandoned, WriteSlot, Roll, PutTail, Test, IncHead, Wrap, ResetHead,
         ResetTail, Leave
    <3>2. CASE q = p
      BY <1>2, <2>2, <3>1, <3>2, OperationWork DEF WorkInv
    <3>3. CASE q # p
      BY <1>2, <2>0, <2>2, <3>3, Alone, IdleWork
    <3>. QED  BY <3>2, <3>3
  <2>3. CASE Close(p) \/ Die(p)
    <3>1. loc'[p] = "out"
      BY <2>0, <2>3 DEF Close, Die, Goto, TypeOK
    <3>2. CASE q = p \/ LastOut(p)
      <4>1. loc'[q] = "out"
        BY <2>0, <3>1, <3>2 DEF LastOut
      <4>. QED  BY <4>1, IdleWork DEF Inside, InInsert, InRetrieve, InReset
    <3>3. CASE q # p /\ ~LastOut(p)
      <4>1. UNCHANGED store /\ intact
        BY <1>2, <2>3, <3>3 DEF LastOut, Close, Die, BoardAfter
      <4>2. elem'[q] = elem[q] /\ newTail'[q] = newTail[q] /\ loc'[q] = loc[q]
        BY <2>0, <2>3, <3>3 DEF Close, Die, locals, TypeOK
      <4>. QED  BY <4>1, <4>2 DEF WorkInv, Work, store
    <3>. QED  BY <3>2, <3>3
  <2>. QED  BY <1>2, <2>1, <2>2, <2>3
<1>. QED  BY <1>1, <1>2 DEF Next, WorkInv

(* What ImplementsRing asks of a step.                                     *)
BoardStep ==
  intact /\ intact' => IF Emptied THEN Ring!Clear
                                  ELSE [Ring!Work]_<<Content, out>>

LEMMA NotEmptied ==
  ASSUME TypeOK, NEW p \in Procs, loc'[p] \notin {"out", "clearTail"},
         Constructor(p) \/ Operation(p) \/ Close(p) \/ Die(p)
  PROVE  ~Emptied
BY OthersStay DEF Emptied

(* A step that changes neither the queue nor what was given out.           *)
LEMMA QuietStep ==
  ASSUME UNCHANGED <<head, tail, slot, out>>, Resetting' <=> Resetting, ~Emptied
  PROVE  BoardStep
<1>1. Content' = Content
  BY ContentIsQueue
<1>. QED  BY <1>1 DEF BoardStep

LEMMA ConstructorBoard ==
  ASSUME RingInv, StartInv, intact, NEW p \in Procs, Constructor(p)
  PROVE  BoardStep
<1>0. TypeOK /\ \A r \in Procs : r # p => loc'[r] = loc[r]
  BY OthersStay DEF RingInv
<1>1. loc[p] \in Constructing \cup {"out"} /\ loc'[p] \in Constructing \cup {"idle"}
  BY <1>0 DEF Constructor, Open, SetUp, InitHead, InitTail, TypeOK, Goto, Constructing
<1>2. UNCHANGED <<head, tail, slot, out>>
  <2>1. CASE Open(p)
    BY <2>1 DEF Open, store, locals
  <2>2. CASE ~Open(p)
    <3>1. loc[p] \in Constructing
      BY <2>2 DEF Constructor, SetUp, InitHead, InitTail, Constructing
    <3>2. head = 0 /\ tail = 0
      BY <3>1 DEF StartInv
    <3>. QED  BY <2>2, <3>2 DEF Constructor, SetUp, InitHead, InitTail, locals
  <2>. QED  BY <2>1, <2>2
<1>3. Resetting' <=> Resetting
  BY <1>0, <1>1 DEF Resetting, Constructing
<1>4. ~Emptied
  BY <1>0, <1>1, NotEmptied DEF Constructing
<1>. QED  BY <1>2, <1>3, <1>4, QuietStep

LEMMA EndBoard ==
  ASSUME RingInv, intact, NEW p \in Procs, Close(p) \/ Die(p)
  PROVE  BoardStep
<1>0. TypeOK /\ \A r \in Procs : r # p => loc'[r] = loc[r]
  BY OthersStay DEF RingInv
<1>1. loc'[p] = "out" /\ out' = out
  BY <1>0 DEF Close, Die, Goto, TypeOK, locals
<1>2. CASE LastOut(p)
  <2>1. \A q \in Procs : loc'[q] = "out"
    BY <1>0, <1>1, <1>2 DEF LastOut
  <2>2. head' = 0 /\ tail' = 0 /\ slot' = [i \in Slots |-> NoElement]
    BY <1>2 DEF LastOut, Close, Die, BoardAfter
  <2>3. 0 \in Slots /\ slot' \in Rings
    BY <2>2 DEF Slots, Rings, Values
  <2>4. Content' = <<>>
    BY <2>2, <2>3, ContentIsQueue, QueueEmpty
  <2>. QED  BY <1>1, <2>1, <2>4 DEF BoardStep, Emptied, Ring!Clear
<1>3. CASE ~LastOut(p) /\ intact'
  <2>1. UNCHANGED store /\ loc[p] \notin Inside
    BY <1>3 DEF LastOut, Close, Die, BoardAfter, Inside, InInsert, InRetrieve, InReset
  <2>2. Resetting' <=> Resetting
    BY <1>0, <1>1, <2>1 DEF Resetting, Inside, InReset
  <2>3. ~Emptied
    BY <1>0, <1>1, <1>3 DEF Emptied, LastOut
  <2>. QED  BY <1>1, <2>1, <2>2, <2>3, QuietStep DEF store
<1>. QED  BY <1>2, <1>3 DEF BoardStep

(* The types a step of an operation starts from, and who takes part in it. *)
LEMMA OperationStarts ==
  ASSUME RingInv, intact, NEW p \in Procs, Operation(p)
  PROVE  /\ TypeOK /\ loc \in [Procs -> Locations] /\ slot \in Rings
         /\ tail \in Slots /\ head \in Nat /\ head \in 0 .. Count
         /\ loc[p] \in Inside /\ loc[p] # "wrap" => head \in Slots
         /\ \A q \in Procs : q # p => loc'[q] = loc[q] /\ loc[q] \notin Inside
<1>1. TypeOK /\ InRing
  BY DEF RingInv
<1>2. /\ loc \in [Procs -> Locations] /\ slot \in Rings
      /\ tail \in Slots /\ head \in Nat /\ head \in 0 .. Count
  BY <1>1 DEF TypeOK, InRing, Rings
<1>3. loc[p] \in Inside /\ loc[p] # "wrap" => head \in Slots
  BY <1>2, HeadInRing DEF Slots
<1>4. \A q \in Procs : q # p => loc'[q] = loc[q] /\ loc[q] \notin Inside
  BY <1>1, OthersStay, Alone
<1>. QED  BY <1>1, <1>2, <1>3, <1>4

(* Where nobody resets the ring, before or after.                          *)
LEMMA NotResetting ==
  ASSUME NEW p \in Procs,
         loc[p] \notin {"zeroTail", "clearTail"},
         loc'[p] \notin {"zeroTail", "clearTail"},
         \A q \in Procs : q # p => loc'[q] = loc[q] /\ loc[q] \notin Inside
  PROVE  ~Resetting /\ ~Resetting'
BY DEF Resetting, Inside, InReset

LEMMA InsertBoard ==
  ASSUME RingInv, intact, NEW p \in Procs, Work(p),
         WriteSlot(p) \/ Roll(p) \/ PutTail(p)
  PROVE  BoardStep
<1> USE DEF Goto, locals
<1>0. Operation(p)
  BY DEF Operation
<1>1. /\ TypeOK /\ loc \in [Procs -> Locations] /\ slot \in Rings
      /\ tail \in Slots
      /\ \A q \in Procs : q # p => loc'[q] = loc[q] /\ loc[q] \notin Inside
  BY <1>0, OperationStarts
<1>2. /\ loc[p] \in InInsert /\ loc'[p] \in {"roll", "putTail", "leave"}
      /\ out' = out
  BY <1>1 DEF WriteSlot, Roll, PutTail, InInsert
<1>3. head \in Slots
  BY <1>0, <1>2, OperationStarts DEF Inside, InInsert
<1>4. ~Resetting /\ ~Resetting' /\ ~Emptied
  BY <1>0, <1>1, <1>2, NotResetting, NotEmptied DEF InInsert
<1>5. /\ Content = QueueOf(head, tail, slot)
      /\ Content' = QueueOf(head', tail', slot')
  BY <1>4, ContentIsQueue
<1>6. CASE WriteSlot(p)
  <2>1. slot' = [slot EXCEPT ![tail] = elem[p]] /\ head' = head /\ tail' = tail
    BY <1>6 DEF WriteSlot
  <2>2. elem[p] \in Values /\ head \in 0 .. Count
    <3>1. elem[p] \in Values
      BY <1>1 DEF TypeOK
    <3>. QED  BY <1>3, <3>1 DEF Slots
  <2>3. QueueOf(head, tail, slot') = QueueOf(head, tail, slot)
    <3>1. slot \in Rings /\ tail \in Slots
      BY <1>1
    <3>2. QueueOf(head, tail, [slot EXCEPT ![tail] = elem[p]])
            = QueueOf(head, tail, slot)
      BY <2>2, <3>1, QueueWrite
    <3>. QED  BY <2>1, <3>2
  <2>4. Content' = Content
    BY <1>5, <2>1, <2>3
  <2>. QED  BY <1>2, <1>4, <2>4 DEF BoardStep
<1>7. CASE Roll(p) /\ head' = head
  <2>1. UNCHANGED <<head, tail, slot, out>>
    BY <1>7 DEF Roll
  <2>. QED  BY <1>4, <2>1, QuietStep
<1>8. CASE Roll(p) /\ head' # head
  <2>1. /\ newTail[p] = head /\ RollOver[p] /\ head' = After(head)
        /\ loc[p] = "roll" /\ UNCHANGED <<tail, slot>>
    BY <1>8 DEF Roll
  <2>2. After(tail) = head
    BY <2>1 DEF Work
  <2>3. tail # head
    BY <1>1, <2>2 DEF After, Slots
  <2>4. Content' = Tail(Content)
    BY <1>1, <1>3, <1>5, <2>1, <2>3, QueueTail
  <2>5. Len(Content) = Count - 1
    BY <1>1, <1>5, <2>2, QueueFull
  <2>6. Ring!MakeRoom(p)
    BY <1>2, <2>1, <2>4, <2>5 DEF Ring!MakeRoom
  <2>. QED  BY <1>4, <2>6 DEF BoardStep, Ring!Work
<1>9. CASE PutTail(p)
  <2>1. /\ loc[p] = "putTail" /\ tail' = newTail[p] /\ UNCHANGED <<head, slot>>
    BY <1>9 DEF PutTail
  <2>2. /\ newTail[p] = After(tail) /\ slot[tail] = elem[p] /\ newTail[p] # head
        /\ elem[p] \in Elements
    BY <2>1 DEF Work, InInsert
  <2>3. Len(Content) < Count - 1 /\ Content' = Append(Content, elem[p])
    BY <1>1, <1>3, <1>5, <2>1, <2>2, QueueAppend
  <2>4. Ring!Insert(elem[p])
    BY <1>2, <2>3 DEF Ring!Insert
  <2>. QED  BY <1>4, <2>2, <2>4 DEF BoardStep, Ring!Work
<1>. QED  BY <1>6, <1>7, <1>8, <1>9

LEMMA RetrieveBoard ==
  ASSUME RingInv, intact, NEW p \in Procs, Work(p),
         Test(p) \/ IncHead(p) \/ Wrap(p)
  PROVE  BoardStep
<1> USE DEF Goto, locals
<1>0. Operation(p)
  BY DEF Operation
<1>1. /\ TypeOK /\ loc \in [Procs -> Locations] /\ slot \in Rings
      /\ tail \in Slots /\ head \in 0 .. Count
      /\ \A q \in Procs : q # p => loc'[q] = loc[q] /\ loc[q] \notin Inside
  BY <1>0, OperationStarts
<1>2. /\ loc[p] \in InRetrieve
      /\ loc'[p] \in {"zeroHead", "incHead", "wrap", "leave"}
  BY <1>1 DEF Test, IncHead, Wrap, InRetrieve
<1>3. ~Resetting /\ ~Resetting' /\ ~Emptied
  BY <1>0, <1>1, <1>2, NotResetting, NotEmptied DEF InRetrieve
<1>4. /\ Content = QueueOf(head, tail, slot)
      /\ Content' = QueueOf(head', tail', slot')
  BY <1>3, ContentIsQueue
<1>5. CASE Test(p)
  BY <1>3, <1>5, QuietStep DEF Test, store
<1>6. CASE IncHead(p)
  <2>1. /\ loc[p] = "incHead" /\ head' = head + 1 /\ UNCHANGED <<tail, slot>>
        /\ out' = [out EXCEPT ![p] = elem[p]]
    BY <1>6 DEF IncHead
  <2>2. tail # head /\ elem[p] = slot[head]
    BY <2>1 DEF Work
  <2>3. head \in Slots
    BY <1>0, <2>1, OperationStarts DEF Inside, InRetrieve
  <2>4. Content # <<>> /\ Head(Content) = elem[p] /\ Content' = Tail(Content)
    BY <1>1, <1>4, <2>1, <2>2, <2>3, QueueTail
  <2>5. Ring!Retrieve(p)
    BY <2>1, <2>4 DEF Ring!Retrieve
  <2>. QED  BY <1>3, <2>5 DEF BoardStep, Ring!Work
<1>7. CASE Wrap(p)
  <2>1. UNCHANGED <<tail, slot, out>>
    BY <1>7 DEF Wrap
  <2>2. CASE head' = head
    BY <1>3, <2>1, <2>2, QuietStep
  <2>3. CASE head = Count /\ head' = 0
    <3>1. Content' = Content
      BY <1>1, <1>4, <2>1, <2>3, QueueWraps
    <3>. QED  BY <1>3, <2>1, <3>1 DEF BoardStep
  <2>4. head' = head \/ (head = Count /\ head' = 0)
    BY <1>1, <1>7 DEF Wrap
  <2>. QED  BY <2>2, <2>3, <2>4
<1>. QED  BY <1>5, <1>6, <1>7

LEMMA ResetBoard ==
  ASSUME RingInv, intact, NEW p \in Procs, Work(p),
         ResetHead(p) \/ ResetTail(p)
  PROVE  BoardStep
<1> USE DEF Goto, locals
<1>0. Operation(p)
  BY DEF Operation
<1>1. /\ TypeOK /\ loc \in [Procs -> Locations] /\ slot \in Rings
      /\ tail \in Slots
      /\ \A q \in Procs : q # p => loc'[q] = loc[q] /\ loc[q] \notin Inside
  BY <1>0, OperationStarts
<1>2. CASE ResetTail(p)
  <2>1. /\ loc[p] \in {"zeroTail", "clearTail"} /\ loc'[p] = "leave"
        /\ tail' = 0 /\ UNCHANGED <<head, slot, out>>
    BY <1>1, <1>2 DEF ResetTail
  <2>2. Resetting /\ ~Resetting' /\ ~Emptied
    BY <1>0, <1>1, <2>1, NotEmptied DEF Resetting, Inside, InReset
  <2>3. head' = 0 /\ 0 \in Slots
    BY <2>1 DEF Work, Slots
  <2>4. Content = <<>> /\ Content' = <<>>
    BY <1>1, <2>1, <2>2, <2>3, ContentIsQueue, QueueEmpty
  <2>. QED  BY <2>1, <2>2, <2>4 DEF BoardStep
<1>3. CASE ResetHead(p) /\ loc[p] = "clearHead"
  <2>1. loc'[p] = "clearTail" /\ out' = out
    BY <1>1, <1>3 DEF ResetHead
  <2>2. Emptied /\ Resetting'
    BY <1>3, <2>1 DEF Emptied, Resetting
  <2>3. Content' = <<>>
    BY <2>2, ContentIsQueue
  <2>. QED  BY <2>1, <2>2, <2>3 DEF BoardStep, Ring!Clear
<1>4. CASE ResetHead(p) /\ loc[p] = "zeroHead"
  <2>1. loc'[p] = "zeroTail" /\ out' = [out EXCEPT ![p] = NoElement]
    BY <1>1, <1>4 DEF ResetHead
  <2>2. ~Emptied /\ ~Resetting /\ Resetting'
    BY <1>0, <1>1, <1>4, <2>1, NotEmptied DEF Resetting, Inside, InReset
  <2>3. tail = head
    BY <1>4 DEF Work
  <2>4. Content = <<>> /\ Content' = <<>>
    BY <1>1, <2>2, <2>3, ContentIsQueue, QueueEmpty
  <2>5. Ring!RetrieveNothing(p)
    BY <2>1, <2>4 DEF Ring!RetrieveNothing
  <2>. QED  BY <2>2, <2>5 DEF BoardStep, Ring!Work
<1>. QED  BY <1>2, <1>3, <1>4 DEF ResetHead

LEMMA AroundBoard ==
  ASSUME RingInv, intact, NEW p \in Procs,
         BeginInsert(p) \/ BeginRetrieve(p) \/ BeginClear(p) \/ WaitAbandoned(p)
           \/ Leave(p)
  PROVE  BoardStep
<1> USE DEF Goto, store, locals
<1>0. Operation(p)
  BY DEF Operation
<1>1. /\ TypeOK /\ loc \in [Procs -> Locations]
      /\ \A q \in Procs : q # p => loc'[q] = loc[q] /\ loc[q] \notin Inside
  BY <1>0, OperationStarts
<1>2. /\ loc[p] \in {"idle", "leave"}
      /\ loc'[p] \in {"idle", "write", "test", "clearHead"}
  BY <1>1 DEF BeginInsert, BeginRetrieve, BeginClear, WaitAbandoned, Leave, Wait
<1>3. UNCHANGED <<head, tail, slot, out>>
  BY DEF BeginInsert, BeginRetrieve, BeginClear, WaitAbandoned, Leave
<1>4. ~Resetting /\ ~Resetting' /\ ~Emptied
  BY <1>0, <1>1, <1>2, NotResetting, NotEmptied
<1>. QED  BY <1>3, <1>4, QuietStep

(* Until a death inside an operation, or a set-up that races another       *)
(* process, the board is a bounded queue, first in first out, whatever the *)
(* number of processes and the size of the ring: every step of the ring is *)
(* a step of FifoRing or none.                                             *)
THEOREM RingImplemented == Spec => ImplementsRing
<1>1. Init => StartInv /\ WorkInv
  BY DEF Init, StartInv, NoUser, WorkInv, Work, Constructing, InInsert
<1>2. RingInv => TypeOK
  BY DEF RingInv
<1>3. RingInv /\ StartInv /\ WorkInv /\ [Next]_vars => [BoardStep]_vars
  <2> SUFFICES ASSUME RingInv, StartInv, WorkInv, Next, intact
               PROVE  BoardStep
    BY DEF BoardStep
  <2>1. PICK p \in Procs : Constructor(p) \/ Operation(p) \/ Close(p) \/ Die(p)
    BY DEF Next
  <2>2. Work(p)
    BY DEF WorkInv
  <2>. QED  BY <2>1, <2>2, ConstructorBoard, EndBoard, InsertBoard, RetrieveBoard,
               ResetBoard, AroundBoard DEF Operation
<1>4. Spec => [](RingInv /\ StartInv /\ WorkInv)
  BY <1>1, <1>2, NextStart, NextWork, RingInvHolds, PTL DEF Spec
<1>5. Spec => [][BoardStep]_vars
  BY <1>3, <1>4, PTL DEF Spec
<1>. QED  BY <1>5 DEF BoardStep, ImplementsRing
=============================================================================
