--------------------------- MODULE SemMutexProof ---------------------------
(***************************************************************************)
(* Proofs about SemMutex, for any set of processes and of checkers, timed  *)
(* or not, with processes that die anywhere and any bound on interrupts.   *)
(* What is promised ends with the first interrupt of a constructor that    *)
(* sleeps, whose destructor releases what it never acquired; what is left  *)
(* after that is BreachesFew, at the end.                                  *)
(***************************************************************************)
EXTENDS SemMutex, FiniteSetTheorems, TLAPS

USE SemMutexAssumption

(* The initial state: the kernel creates the semaphore at zero.            *)
LEMMA InitIInv == Init => IInv
BY DEF Init, SemInit, IInv, OneHolder, TypeOK, SemTypeOK, Locations, Holders

(* Every step keeps the types, interrupted or not.                         *)
LEMMA TypeStep ==
  ASSUME NEW p \in Procs, TypeOK, Step(p)
  PROVE  TypeOK'
<1> USE DEF TypeOK, SemTypeOK, Locations, Goto
<1>1. CASE Construct(p) \/ AcquireTimedOut(p) \/ LeaveBody(p) \/ Start(p)
  BY <1>1 DEF Construct, AcquireTimedOut, LeaveBody, Start
<1>2. CASE Acquired(p)
  BY <1>2 DEF Acquired, WaitZeroThenInc
<1>3. CASE Released(p)
  BY <1>3 DEF Released, Decrement
<1>4. CASE AcquireInterrupted(p)
  BY <1>4 DEF AcquireInterrupted
<1>5. CASE ReleaseFailed(p)
  <2>1. semval' \in Nat /\ semadj' \in [Procs -> Int]
    BY <1>5 DEF ReleaseFailed, UndoAtExit
  <2>2. interrupts' \in 0 .. MaxInterrupts
    BY <1>5 DEF ReleaseFailed
  <2>3. pc' \in [Procs -> Locations] /\ failed' \in [Procs -> BOOLEAN]
    BY <1>5 DEF ReleaseFailed
  <2>. QED  BY <2>1, <2>2, <2>3
<1>6. CASE Die(p)
  <2>1. semval' \in Nat /\ semadj' \in [Procs -> Int]
    BY <1>6 DEF Die, UndoAtExit
  <2>. QED  BY <1>6, <2>1 DEF Die
<1>. QED  BY <1>1, <1>2, <1>3, <1>4, <1>5, <1>6 DEF Step

(* The actions that touch neither the semaphore nor the set of holders:    *)
(* entering the constructor, its timeout, leaving the body, a restart.     *)
LEMMA QuietSteps ==
  ASSUME NEW p \in Procs, TypeOK, OneHolder,
         Construct(p) \/ AcquireTimedOut(p) \/ LeaveBody(p) \/ Start(p)
  PROVE  OneHolder' /\ Holders' = Holders
<1>1. Holders' = Holders
  BY DEF Construct, AcquireTimedOut, LeaveBody, Start, Goto, Holders,
         TypeOK, Locations
<1>2. semval' = semval /\ semadj' = semadj
  BY DEF Construct, AcquireTimedOut, LeaveBody, Start
<1>. QED  BY <1>1, <1>2 DEF OneHolder

(* A successful semtimedop of the constructor makes p the one holder.      *)
LEMMA AcquiredStep ==
  ASSUME NEW p \in Procs, TypeOK, OneHolder, Acquired(p)
  PROVE  OneHolder' /\ Holders = {} /\ Holders' = {p}
<1> USE DEF Acquired, WaitZeroThenInc, Goto, OneHolder, TypeOK, SemTypeOK,
            Locations
<1>1. Holders = {}
  OBVIOUS
<1>2. Holders' = {p}
  BY <1>1 DEF Holders
<1>3. \A q \in Procs : semadj'[q] = IF q \in Holders' THEN -1 ELSE 0
  BY <1>1, <1>2
<1>4. semval' = 1
  OBVIOUS
<1>. QED  BY <1>1, <1>2, <1>3, <1>4

(* The destructor's semtimedop: its process was the one holder.            *)
LEMMA ReleasedStep ==
  ASSUME NEW p \in Procs, TypeOK, OneHolder, Released(p)
  PROVE  OneHolder' /\ Holders = {p} /\ Holders' = {}
<1> USE DEF Released, Decrement, Goto, OneHolder, TypeOK, SemTypeOK, Locations
<1>1. Holders = {p}
  BY DEF Holders
<1>2. Holders' = {}
  BY <1>1 DEF Holders
<1>3. semval = 1 /\ semval' = 0
  OBVIOUS
<1>4. \A q \in Procs : semadj'[q] = 0
  BY <1>1
<1>. QED  BY <1>1, <1>2, <1>3, <1>4

(* The death of a process: the kernel gives back what it held.             *)
LEMMA DieStep ==
  ASSUME NEW p \in Procs, TypeOK, OneHolder, Die(p)
  PROVE  OneHolder' /\ Holders' = Holders \ {p}
<1> USE DEF Die, UndoAtExit, Goto, OneHolder, TypeOK, SemTypeOK, Locations
<1>1. Holders' = Holders \ {p}
  BY DEF Holders
<1>2. CASE p \in Holders
  <2>1. Holders = {p} /\ semval = 1 /\ semadj[p] = -1
    BY <1>2
  <2>2. semval' = 0
    BY <2>1
  <2>. QED  BY <1>1, <2>1, <2>2
<1>3. CASE p \notin Holders
  <2>1. semadj[p] = 0 /\ Holders' = Holders
    BY <1>1, <1>3
  <2>2. semval' = semval /\ semadj' = semadj
    BY <2>1
  <2>. QED  BY <1>1, <2>1, <2>2
<1>. QED  BY <1>2, <1>3

(* A holder's release never fails: it finds the semaphore at one.          *)
LEMMA ReleaseNeverFails ==
  ASSUME NEW p \in Procs, TypeOK, OneHolder
  PROVE  ~ReleaseFailed(p)
BY DEF OneHolder, TypeOK, Holders, ReleaseFailed

(* A step that is not an interrupt moves the one holder as a lock does.    *)
LEMMA HolderSteps ==
  ASSUME NEW p \in Procs, IInv, Step(p), interrupts' = 0
  PROVE  /\ OneHolder'
         /\ \/ Holders' = Holders
            \/ Holders = {} /\ Holders' = {p}
            \/ Holders = {p} /\ Holders' = {}
<1>1. interrupts = 0 /\ ~AcquireInterrupted(p)
  BY DEF Step, Construct, Acquired, AcquireInterrupted, AcquireTimedOut,
         LeaveBody, Released, ReleaseFailed, Die, Start, IInv, TypeOK
<1>2. TypeOK /\ OneHolder
  BY <1>1 DEF IInv
<1>3. CASE Construct(p) \/ AcquireTimedOut(p) \/ LeaveBody(p) \/ Start(p)
  BY <1>2, <1>3, QuietSteps
<1>4. CASE Acquired(p)
  BY <1>2, <1>4, AcquiredStep
<1>5. CASE Released(p)
  BY <1>2, <1>5, ReleasedStep
<1>6. CASE Die(p)
  <2>1. OneHolder' /\ Holders' = Holders \ {p}
    BY <1>2, <1>6, DieStep
  <2>2. \A q, r \in Holders : q = r
    BY <1>2 DEF OneHolder
  <2>. QED  BY <2>1, <2>2
<1>. QED  BY <1>1, <1>2, <1>3, <1>4, <1>5, <1>6, ReleaseNeverFails DEF Step

LEMMA NextIInv == IInv /\ [Next]_vars => IInv'
<1> SUFFICES ASSUME IInv, [Next]_vars
             PROVE  IInv'
  OBVIOUS
<1>1. CASE UNCHANGED vars
  BY <1>1 DEF vars, IInv, OneHolder, TypeOK, SemTypeOK, Holders
<1>2. CASE Next
  <2>1. PICK p \in Procs : Step(p)
    BY <1>2 DEF Next
  <2>2. TypeOK'
    BY <2>1, TypeStep DEF IInv
  <2>3. ASSUME interrupts' = 0
        PROVE  OneHolder'
    BY <2>1, <2>3, HolderSteps
  <2>. QED  BY <2>2, <2>3 DEF IInv
<1>. QED  BY <1>1, <1>2

(* The inductive invariant of the lock: until the first interrupt the      *)
(* semaphore is one or zero, and the one process that holds it is the one  *)
(* with an undo adjustment.                                                *)
THEOREM MutexInvariant == Spec => []IInv
BY InitIInv, NextIInv, PTL DEF Spec

(* Two processes are never inside scopes of the same Mutex semaphore,      *)
(* until a signal interrupts a constructor that sleeps.                    *)
THEOREM MutexExclusion == Spec => []UninterruptedExclusion
<1>1. IInv => UninterruptedExclusion
  BY DEF IInv, OneHolder, UninterruptedExclusion, MutualExclusion, InBody,
         Holders
<1>. QED  BY <1>1, MutexInvariant, PTL

(* The semaphore is free exactly when nobody holds it, whoever died, until *)
(* a signal interrupts a constructor that sleeps.                          *)
THEOREM MutexNeverLost == Spec => []FreeIffUnheld
<1>1. IInv => FreeIffUnheld
  BY DEF IInv, OneHolder, FreeIffUnheld
<1>. QED  BY <1>1, MutexInvariant, PTL

(* Mutex implements the exclusive lock of mutex.h: the owner of the        *)
(* abstract lock is the one holder.                                        *)
THEOREM MutexImplementsLock == Spec => ImplementsLock
<1>1. Init => Abs!Init
  BY DEF Init, Holders, Abs!Init, AbsOwner
<1>2. IInv /\ [Next]_vars
        => [interrupts' = 0 => Abs!Next \/ UNCHANGED AbsOwner]_vars
  <2> SUFFICES ASSUME IInv, Next, interrupts' = 0
               PROVE  Abs!Next \/ AbsOwner' = AbsOwner
    OBVIOUS
  <2>1. PICK p \in Procs : Step(p)
    BY DEF Next
  <2>2. CASE Holders' = Holders
    BY <2>2 DEF AbsOwner
  <2>3. CASE Holders = {} /\ Holders' = {p}
    BY <2>3 DEF AbsOwner, Abs!Next, Abs!Lock
  <2>4. CASE Holders = {p} /\ Holders' = {}
    BY <2>4 DEF AbsOwner, Abs!Next, Abs!Unlock
  <2>. QED  BY <2>1, <2>2, <2>3, <2>4, HolderSteps
<1>. QED  BY <1>1, <1>2, MutexInvariant, PTL DEF Spec, ImplementsLock
-----------------------------------------------------------------------------
(* After an interrupt.  A process that is in a scope has raised the        *)
(* semaphore or was interrupted, so there are no more of them than the two *)
(* together.  A new one enters when the semaphore is zero only.  The undo  *)
(* of a process takes back one at most, and nothing when it is outside.    *)
HolderBound ==
  /\ TypeOK
  /\ \A p \in Procs : semadj[p] >= IF p \in Holders THEN -1 ELSE 0
  /\ Cardinality(Holders) <= semval + interrupts
  /\ Cardinality(Holders) <= 1 + interrupts

(* One process enters a scope or leaves it.                                *)
LEMMA HolderCount ==
  ASSUME IsFiniteSet(Procs)
  PROVE  /\ IsFiniteSet(Holders) /\ Cardinality(Holders) \in Nat
         /\ \A p : Cardinality(Holders \cup {p}) <= Cardinality(Holders) + 1
         /\ \A p : Cardinality(Holders \ {p}) =
                     IF p \in Holders THEN Cardinality(Holders) - 1
                     ELSE Cardinality(Holders)
<1>1. Holders \subseteq Procs
  BY DEF Holders
<1>2. IsFiniteSet(Holders) /\ Cardinality(Holders) \in Nat
  BY <1>1, FS_Subset, FS_CardinalityType
<1>3. ASSUME NEW p
      PROVE  Cardinality(Holders \cup {p}) <= Cardinality(Holders) + 1
  <2>1. Cardinality(Holders \cup {p}) =
          IF p \in Holders THEN Cardinality(Holders) ELSE Cardinality(Holders) + 1
    BY <1>2, FS_AddElement
  <2>. QED  BY <1>2, <2>1
<1>4. ASSUME NEW p
      PROVE  Cardinality(Holders \ {p}) =
               IF p \in Holders THEN Cardinality(Holders) - 1
               ELSE Cardinality(Holders)
  BY <1>2, FS_RemoveElement
<1>. QED  BY <1>2, <1>3, <1>4

(* The sums of HolderBound when the semaphore falls no more than n does.   *)
LEMMA Bounds ==
  ASSUME NEW n \in Nat, NEW v \in Nat, NEW w \in Nat, NEW i \in Nat, NEW j \in Nat,
         n <= v + i, n <= 1 + i, i <= j
  PROVE  /\ w >= v => n <= w + j /\ n <= 1 + j
         /\ w >= v - 1 => n - 1 <= w + j /\ n - 1 <= 1 + j
OBVIOUS

(* What each way in or out of a scope does to the two bounds.              *)
LEMMA StepBound ==
  ASSUME IsFiniteSet(Procs), HolderBound, NEW p \in Procs, Step(p)
  PROVE  HolderBound'
<1> DEFINE n == Cardinality(Holders)
           m == Cardinality(Holders')
<1>1. /\ TypeOK /\ TypeOK'
      /\ semval \in Nat /\ semval' \in Nat
      /\ interrupts \in Nat /\ interrupts' \in Nat
      /\ n \in Nat
  BY TypeStep, HolderCount, SemMutexAssumption DEF HolderBound, TypeOK, SemTypeOK
<1>2. \A q \in Procs : semadj[q] \in Int /\ semadj[q] >= IF q \in Holders THEN -1 ELSE 0
  BY DEF HolderBound, TypeOK, SemTypeOK
<1>3. n <= semval + interrupts /\ n <= 1 + interrupts
  BY DEF HolderBound
<1>4. SUFFICES /\ \A q \in Procs : semadj'[q] >= IF q \in Holders' THEN -1 ELSE 0
               /\ m <= semval' + interrupts' /\ m <= 1 + interrupts'
  BY <1>1 DEF HolderBound
<1>5. CASE Construct(p) \/ AcquireTimedOut(p) \/ LeaveBody(p) \/ Start(p)
  <2>1. Holders' = Holders
    BY <1>1, <1>5 DEF Construct, AcquireTimedOut, LeaveBody, Start, Goto,
                      Holders, TypeOK, Locations
  <2>2. semval' = semval /\ semadj' = semadj /\ interrupts' = interrupts
    BY <1>5 DEF Construct, AcquireTimedOut, LeaveBody, Start
  <2>. QED  BY <1>2, <1>3, <2>1, <2>2
<1>6. CASE Acquired(p)
  <2>1. p \notin Holders /\ Holders' = Holders \cup {p}
    BY <1>1, <1>6 DEF Acquired, Goto, Holders, TypeOK, Locations
  <2>2. /\ semval = 0 /\ semval' = 1 /\ interrupts' = interrupts
        /\ semadj' = [semadj EXCEPT ![p] = @ - 1]
    BY <1>6 DEF Acquired, WaitZeroThenInc
  <2>3. m <= n + 1 /\ m \in Nat
    <3>1. Cardinality(Holders \cup {p}) <= n + 1
      BY HolderCount
    <3>2. IsFiniteSet(Holders \cup {p})
      BY HolderCount, FS_AddElement
    <3>. QED  BY <2>1, <3>1, <3>2, FS_CardinalityType
  <2>4. \A q \in Procs : semadj'[q] = IF q = p THEN semadj[p] - 1 ELSE semadj[q]
    BY <1>1, <2>2 DEF TypeOK, SemTypeOK
  <2>5. \A q \in Procs : semadj'[q] >= IF q \in Holders' THEN -1 ELSE 0
    <3> SUFFICES ASSUME NEW q \in Procs
                 PROVE  semadj'[q] >= IF q \in Holders' THEN -1 ELSE 0
      OBVIOUS
    <3>1. semadj[q] \in Int /\ semadj[q] >= IF q \in Holders THEN -1 ELSE 0
      BY <1>2
    <3>2. semadj'[q] = IF q = p THEN semadj[p] - 1 ELSE semadj[q]
      BY <2>4
    <3>. QED  BY <2>1, <3>1, <3>2
  <2> HIDE DEF n, m
  <2>. QED  BY <1>1, <1>3, <2>2, <2>3, <2>5
<1>7. CASE AcquireInterrupted(p)
  <2>1. p \notin Holders /\ Holders' = Holders \cup {p}
    BY <1>1, <1>7 DEF AcquireInterrupted, Goto, Holders, TypeOK, Locations
  <2>2. semval' = semval /\ semadj' = semadj /\ interrupts' = interrupts + 1
    BY <1>7 DEF AcquireInterrupted
  <2>3. m <= n + 1 /\ m \in Nat
    <3>1. Cardinality(Holders \cup {p}) <= n + 1
      BY HolderCount
    <3>2. IsFiniteSet(Holders \cup {p})
      BY HolderCount, FS_AddElement
    <3>. QED  BY <2>1, <3>1, <3>2, FS_CardinalityType
  <2>4. \A q \in Procs : semadj'[q] >= IF q \in Holders' THEN -1 ELSE 0
    BY <1>2, <2>1, <2>2
  <2> HIDE DEF n, m
  <2>. QED  BY <1>1, <1>3, <2>2, <2>3, <2>4
<1>8. CASE Released(p)
  <2>1. p \in Holders /\ Holders' = Holders \ {p}
    BY <1>1, <1>8 DEF Released, Goto, Holders, TypeOK, Locations
  <2>2. /\ semval' = semval - 1 /\ interrupts' = interrupts
        /\ semadj' = [semadj EXCEPT ![p] = @ + 1]
    BY <1>8 DEF Released, Decrement
  <2>3. m = n - 1
    BY <2>1, HolderCount
  <2>4. \A q \in Procs : semadj'[q] = IF q = p THEN semadj[p] + 1 ELSE semadj[q]
    BY <1>1, <2>2 DEF TypeOK, SemTypeOK
  <2>5. \A q \in Procs : semadj'[q] >= IF q \in Holders' THEN -1 ELSE 0
    BY <1>2, <2>1, <2>4
  <2> HIDE DEF n, m
  <2>. QED  BY <1>1, <1>3, <2>2, <2>3, <2>5
<1>9. CASE ReleaseFailed(p) \/ Die(p)
  <2>1. Holders' = Holders \ {p}
    BY <1>1, <1>9 DEF ReleaseFailed, Die, Goto, Holders, TypeOK, Locations
  <2>2. /\ semval' >= semval + semadj[p]
        /\ semadj' = [semadj EXCEPT ![p] = 0]
        /\ interrupts' >= interrupts
    BY <1>1, <1>2, <1>9 DEF ReleaseFailed, Die, UndoAtExit
  <2>3. m = IF p \in Holders THEN n - 1 ELSE n
    BY <2>1, HolderCount
  <2>4. \A q \in Procs : semadj'[q] = IF q = p THEN 0 ELSE semadj[q]
    BY <1>1, <2>2 DEF TypeOK, SemTypeOK
  <2>5. \A q \in Procs : semadj'[q] >= IF q \in Holders' THEN -1 ELSE 0
    BY <1>2, <2>1, <2>4
  <2>6. semadj[p] \in Int /\ semadj[p] >= IF p \in Holders THEN -1 ELSE 0
    BY <1>2
  <2> HIDE DEF n, m
  <2>7. interrupts' \in Nat /\ interrupts \in Nat /\ interrupts <= interrupts'
    BY <1>1, <2>2
  <2>8. semval \in Nat /\ semval' \in Nat /\ n \in Nat
    BY <1>1
  <2>9. m <= semval' + interrupts' /\ m <= 1 + interrupts'
    <3>1. CASE p \in Holders
      <4>1. m = n - 1 /\ semadj[p] >= -1
        BY <2>3, <2>6, <3>1
      <4>2. semval' >= semval - 1
        BY <1>1, <2>2, <2>6, <4>1
      <4>3. n - 1 <= semval' + interrupts' /\ n - 1 <= 1 + interrupts'
        BY <1>3, <2>7, <2>8, <4>2, Bounds
      <4>. QED  BY <4>1, <4>3
    <3>2. CASE p \notin Holders
      <4>1. m = n /\ semadj[p] >= 0
        BY <2>3, <2>6, <3>2
      <4>2. semval' >= semval
        BY <1>1, <2>2, <2>6, <4>1
      <4>3. n <= semval' + interrupts' /\ n <= 1 + interrupts'
        BY <1>3, <2>7, <2>8, <4>2, Bounds
      <4>. QED  BY <4>1, <4>3
    <3>. QED  BY <3>1, <3>2
  <2>. QED  BY <2>5, <2>9
<1>. QED  BY <1>5, <1>6, <1>7, <1>8, <1>9 DEF Step

(* However often constructors are interrupted, whoever dies, and whether   *)
(* callers test "failed" or not, there are no more processes in the scope  *)
(* than one and those interrupts, among finitely many processes.           *)
THEOREM BreachesFew ==
  ASSUME IsFiniteSet(Procs)
  PROVE  Spec => []BreachesCounted
<1>1. Init => HolderBound
  <2> SUFFICES ASSUME Init PROVE HolderBound
    OBVIOUS
  <2>1. Holders = {}
    BY DEF Init, Holders
  <2>2. Cardinality(Holders) = 0
    BY <2>1, FS_EmptySet
  <2>3. TypeOK
    BY InitIInv DEF IInv
  <2>. QED  BY <2>1, <2>2, <2>3 DEF Init, SemInit, HolderBound
<1>2. HolderBound /\ [Next]_vars => HolderBound'
  <2> SUFFICES ASSUME HolderBound, [Next]_vars
               PROVE  HolderBound'
    OBVIOUS
  <2>1. CASE UNCHANGED vars
    BY <2>1 DEF vars, HolderBound, TypeOK, SemTypeOK, Holders
  <2>2. CASE Next
    BY <2>2, StepBound DEF Next
  <2>. QED  BY <2>1, <2>2
<1>3. HolderBound => BreachesCounted
  <2> SUFFICES ASSUME HolderBound PROVE BreachesCounted
    OBVIOUS
  <2>1. InBody \subseteq Holders
    BY DEF InBody, Holders
  <2>2. IsFiniteSet(Holders) /\ Cardinality(Holders) \in Nat
    BY HolderCount
  <2>3. Cardinality(InBody) <= Cardinality(Holders) /\ IsFiniteSet(InBody)
    BY <2>1, <2>2, FS_Subset
  <2>4. Cardinality(InBody) \in Nat
    BY <2>3, FS_CardinalityType
  <2>5. Cardinality(Holders) <= 1 + interrupts /\ interrupts \in Nat
    BY DEF HolderBound, TypeOK
  <2>. QED  BY <2>2, <2>3, <2>4, <2>5 DEF BreachesCounted
<1>. QED  BY <1>1, <1>2, <1>3, PTL DEF Spec
=============================================================================
