----------------------------- MODULE TSem2Proof -----------------------------
(***************************************************************************)
(* Proofs about TSem2, for any finite set of processes, any creators, and  *)
(* any number of interrupts and deaths.                                    *)
(***************************************************************************)
EXTENDS TSem2, FiniteSetTheorems, TLAPS

USE TSem2Assumption

(* The processes that have raised a semaphore are finitely many, and the   *)
(* semaphore is zero exactly when there are none.                          *)
LEMMA Counting ==
  ASSUME NEW S, S \subseteq Procs
  PROVE  /\ IsFiniteSet(S)
         /\ Cardinality(S) \in Nat
         /\ Cardinality(S) = 0 <=> S = {}
         /\ \A p : p \notin S => Cardinality(S \cup {p}) = Cardinality(S) + 1
         /\ \A p : p \in S => Cardinality(S \ {p}) = Cardinality(S) - 1
<1>1. IsFiniteSet(S)
  BY FS_Subset
<1>. QED  BY <1>1, FS_CardinalityType, FS_EmptySet, FS_AddElement, FS_RemoveElement

LEMMA RaisedSubsets ==
  RaisedRQ \subseteq Procs /\ RaisedR \subseteq Procs /\ RaisedW \subseteq Procs
BY DEF RaisedRQ, RaisedR, RaisedW

(* Nobody has raised a semaphore at the start.                             *)
LEMMA InitIInv == Init => IInv
<1> SUFFICES ASSUME Init PROVE IInv
  OBVIOUS
<1> USE DEF Init, NoUndo
<1>1. RaisedRQ = {} /\ RaisedR = {} /\ RaisedW = {}
  BY DEF RaisedRQ, RaisedR, RaisedW
<1>2. Cardinality({}) = 0
  BY FS_EmptySet
<1>3. Writers = {} /\ Readers = {}
  BY DEF Writers, Readers
<1>4. TypeOK
  BY DEF TypeOK, Locations, Modes
<1>5. \A p \in Procs : ~Queued(p)
  BY DEF Queued, Granting, GrantIn, Modes
<1>. QED  BY <1>1, <1>2, <1>3, <1>4, <1>5 DEF IInv, Exclusion

(* The steps that only move pc of a process that holds nothing: asking for *)
(* the lock, and an acquisition that throws.                               *)
LEMMA QuietSteps ==
  ASSUME IInv, NEW p \in Procs,
         (\E m \in Modes : Aquire(p, m)) \/ AquireThrows(p)
  PROVE  IInv'
<1>1. /\ sems' = sems /\ state' = state /\ exists' = exists
      /\ pc' = [pc EXCEPT ![p] = pc'[p]]
      /\ pc'[p] \in {"idle", "requestEXCL", "requestSHR"}
      /\ state[p] = "None"
  BY DEF Aquire, AquireThrows, Goto, sems, RequestIn, Modes, IInv, TypeOK,
         Requesting, Granting, GrantIn
<1>2. TypeOK'
  BY <1>1 DEF Aquire, AquireThrows, IInv, TypeOK, sems, Locations
<1>3. /\ RaisedRQ' = RaisedRQ /\ RaisedR' = RaisedR /\ RaisedW' = RaisedW
      /\ Writers' = Writers /\ Readers' = Readers
  BY <1>1 DEF RaisedRQ, RaisedR, RaisedW, Writers, Readers, sems
<1>4. \A q \in Procs : Queued(q)' => Queued(q)
  BY <1>1 DEF Queued, Granting, GrantIn, Modes, IInv, TypeOK
<1>5. \A q \in Procs : state'[q] # "None" => pc'[q] = "idle"
  BY <1>1 DEF IInv, TypeOK
<1>. QED  BY <1>1, <1>2, <1>3, <1>4, <1>5 DEF IInv, Exclusion, sems

(* QR succeeds: p is the one process that has raised Request.              *)
LEMMA RequestStep ==
  ASSUME IInv, NEW p \in Procs, NEW m \in Modes, Request(p, m)
  PROVE  IInv'
<1> USE DEF IInv, TypeOK, Request, Requesting, RequestIn, GrantIn, Goto, Modes
<1>1. RaisedRQ = {}
  BY Counting, RaisedSubsets
<1>2. RaisedRQ' = RaisedRQ \cup {p} /\ RaisedR' = RaisedR /\ RaisedW' = RaisedW
  BY DEF RaisedRQ, RaisedR, RaisedW
<1>3. Cardinality(RaisedRQ') = 1
  <2>1. RaisedRQ' = {p}
    BY <1>1, <1>2
  <2>. QED  BY <2>1, FS_Singleton
<1>4. Writers' = Writers /\ Readers' = Readers
  BY DEF Writers, Readers
<1>5. TypeOK'
  BY DEF Locations
<1>6. \A q \in Procs : Queued(q)' => q \in RaisedRQ'
  BY <1>1, <1>2 DEF Queued, Granting
<1>7. \A q \in Procs : state'[q] # "None" => pc'[q] = "idle"
  OBVIOUS
<1>. QED  BY <1>2, <1>3, <1>4, <1>5, <1>6, <1>7 DEF Exclusion

(* AX or AS succeeds: p passes from Request to Writer or Reader.           *)
LEMMA GrantStep ==
  ASSUME IInv, NEW p \in Procs, NEW m \in Modes, Grant(p, m)
  PROVE  IInv'
<1> USE DEF IInv, TypeOK, Grant, Granting, GrantIn, Goto, Modes, Free
<1>1. p \in RaisedRQ
  BY DEF Queued
<1>2. state[p] = "None" /\ p \notin RaisedR /\ p \notin RaisedW
  BY DEF Writers, Readers
<1>u. undo' = [undo EXCEPT ![p] =
                  [rq |-> 0,
                   r |-> IF m = "Share" THEN 1 ELSE undo[p].r,
                   w |-> IF m = "Exclusive" THEN 1 ELSE undo[p].w]]
  <2>1. undo[p] = [rq |-> undo[p].rq, r |-> undo[p].r, w |-> undo[p].w]
    OBVIOUS
  <2>2. CASE m = "Exclusive"
    BY <2>1, <2>2
  <2>3. CASE m = "Share"
    BY <2>1, <2>3
  <2>. QED  BY <2>2, <2>3
<1>3. RaisedRQ' = RaisedRQ \ {p}
  BY <1>u DEF RaisedRQ
<1>4. RQ' = Cardinality(RaisedRQ') /\ RQ' = 0
  BY <1>1, <1>3, Counting, RaisedSubsets
<1>5. RaisedW = {} /\ Writers = {}
  BY Counting, RaisedSubsets
<1>6. \A q \in Procs : Queued(q)' => q \in RaisedRQ'
  BY <1>3 DEF Queued
<1>7. \A q \in Procs : state'[q] # "None" => pc'[q] = "idle"
  OBVIOUS
<1>8. CASE m = "Exclusive"
  <2>1. RaisedW' = RaisedW \cup {p} /\ RaisedR' = RaisedR
    BY <1>8, <1>u DEF RaisedR, RaisedW
  <2>2. Writers' = {p} /\ Readers' = Readers
    BY <1>2, <1>5, <1>8 DEF Writers, Readers
  <2>3. RaisedR = {} /\ Readers = {}
    BY <1>8, Counting, RaisedSubsets
  <2>4. W' = Cardinality(RaisedW') /\ R' = Cardinality(RaisedR')
    BY <1>2, <1>8, <2>1, Counting, RaisedSubsets
  <2>5. TypeOK'
    BY <1>8, <1>u DEF Locations
  <2>. QED  BY <1>4, <1>5, <1>6, <1>7, <1>8, <2>1, <2>2, <2>3, <2>4, <2>5
            DEF Exclusion
<1>9. CASE m = "Share"
  <2>1. RaisedR' = RaisedR \cup {p} /\ RaisedW' = RaisedW
    BY <1>9, <1>u DEF RaisedR, RaisedW
  <2>2. Readers' = Readers \cup {p} /\ Writers' = {}
    BY <1>2, <1>5, <1>9 DEF Writers, Readers
  <2>3. W' = Cardinality(RaisedW') /\ R' = Cardinality(RaisedR')
    BY <1>2, <1>9, <2>1, Counting, RaisedSubsets
  <2>4. TypeOK'
    BY <1>9, <1>u DEF Locations
  <2>. QED  BY <1>4, <1>5, <1>6, <1>7, <2>1, <2>2, <2>3, <2>4 DEF Exclusion
<1>. QED  BY <1>8, <1>9

(* RX or RS: p no longer holds and has nothing raised but perhaps Request. *)
LEMMA ReleaseStep ==
  ASSUME IInv, NEW p \in Procs, Release(p)
  PROVE  IInv'
<1> USE DEF IInv, TypeOK, Release, Modes
<1>1. RaisedRQ' = RaisedRQ
  BY DEF RaisedRQ
<1>2. \A q \in Procs : Queued(q)' => q \in RaisedRQ'
  BY <1>1 DEF Queued, Granting
<1>3. \A q \in Procs : state'[q] # "None" => pc'[q] = "idle"
  OBVIOUS
<1>4. Writers' = Writers \ {p} /\ Readers' = Readers \ {p}
  BY DEF Writers, Readers
<1>5. Exclusion'
  BY <1>4 DEF Exclusion
<1>6. CASE state[p] = "Exclusive"
  <2>1. p \in RaisedW /\ p \notin RaisedR
    BY <1>6 DEF Writers, Readers
  <2>2. RaisedW' = RaisedW \ {p} /\ RaisedR' = RaisedR
    BY <1>6 DEF RaisedW, RaisedR
  <2>3. W' = Cardinality(RaisedW') /\ R' = Cardinality(RaisedR')
    BY <1>6, <2>1, <2>2, Counting, RaisedSubsets
  <2>4. TypeOK'
    BY <1>6
  <2>. QED  BY <1>1, <1>2, <1>3, <1>4, <1>5, <1>6, <2>1, <2>2, <2>3, <2>4
            DEF Readers
<1>7. CASE state[p] = "Share"
  <2>1. p \in RaisedR /\ p \notin RaisedW
    BY <1>7 DEF Writers, Readers
  <2>2. RaisedR' = RaisedR \ {p} /\ RaisedW' = RaisedW
    BY <1>7 DEF RaisedW, RaisedR
  <2>3. W' = Cardinality(RaisedW') /\ R' = Cardinality(RaisedR')
    BY <1>7, <2>1, <2>2, Counting, RaisedSubsets
  <2>4. TypeOK'
    BY <1>7
  <2>. QED  BY <1>1, <1>2, <1>3, <1>4, <1>5, <1>7, <2>1, <2>2, <2>3, <2>4
            DEF Writers
<1>. QED  BY <1>6, <1>7

(* The set is removed: the counts stay as they are, and nobody can raise   *)
(* or lower them any more.                                                 *)
LEMMA DestroyStep ==
  ASSUME IInv, NEW p \in Procs, Destroy(p)
  PROVE  IInv'
<1> USE DEF IInv, TypeOK, Destroy, Goto, sems
<1>1. RaisedRQ' = RaisedRQ /\ RaisedR' = RaisedR /\ RaisedW' = RaisedW
  BY DEF RaisedRQ, RaisedR, RaisedW
<1>2. Writers' = Writers \ {p} /\ Readers' = Readers \ {p}
  BY DEF Writers, Readers
<1>3. Exclusion'
  BY <1>2 DEF Exclusion
<1>4. TypeOK'
  BY DEF Locations
<1>5. \A q \in Procs : Queued(q)' => Queued(q)
  BY DEF Queued, Granting, GrantIn, Modes
<1>6. \A q \in Procs : state'[q] # "None" => pc'[q] = "idle"
  OBVIOUS
<1>. QED  BY <1>1, <1>2, <1>3, <1>4, <1>5, <1>6

(* The death of p lowers exactly what p has raised.                        *)
LEMMA DieStep ==
  ASSUME IInv, NEW p \in Procs, Die(p)
  PROVE  IInv'
<1> USE DEF IInv, TypeOK, Die, Goto, NoUndo
<1>1. /\ RaisedRQ' = RaisedRQ \ {p}
      /\ RaisedR' = RaisedR \ {p}
      /\ RaisedW' = RaisedW \ {p}
  BY DEF RaisedRQ, RaisedR, RaisedW
<1>2. RQ' = Cardinality(RaisedRQ')
  <2>1. CASE undo[p].rq = 1
    <3>1. p \in RaisedRQ
      BY <2>1 DEF RaisedRQ
    <3>2. Cardinality(RaisedRQ \ {p}) = Cardinality(RaisedRQ) - 1
      BY <3>1, Counting, RaisedSubsets
    <3>. QED  BY <2>1, <3>2, <1>1
  <2>2. CASE undo[p].rq = 0
    <3>1. RaisedRQ' = RaisedRQ
      BY <2>2, <1>1 DEF RaisedRQ
    <3>. QED  BY <2>2, <3>1
  <2>. QED  BY <2>1, <2>2
<1>3. R' = Cardinality(RaisedR')
  <2>1. CASE undo[p].r = 1
    <3>1. p \in RaisedR
      BY <2>1 DEF RaisedR
    <3>2. Cardinality(RaisedR \ {p}) = Cardinality(RaisedR) - 1
      BY <3>1, Counting, RaisedSubsets
    <3>. QED  BY <2>1, <3>2, <1>1
  <2>2. CASE undo[p].r = 0
    <3>1. RaisedR' = RaisedR
      BY <2>2, <1>1 DEF RaisedR
    <3>. QED  BY <2>2, <3>1
  <2>. QED  BY <2>1, <2>2
<1>4. W' = Cardinality(RaisedW')
  <2>1. CASE undo[p].w = 1
    <3>1. p \in RaisedW
      BY <2>1 DEF RaisedW
    <3>2. Cardinality(RaisedW \ {p}) = Cardinality(RaisedW) - 1
      BY <3>1, Counting, RaisedSubsets
    <3>. QED  BY <2>1, <3>2, <1>1
  <2>2. CASE undo[p].w = 0
    <3>1. RaisedW' = RaisedW
      BY <2>2, <1>1 DEF RaisedW
    <3>. QED  BY <2>2, <3>1
  <2>. QED  BY <2>1, <2>2
<1>5. RQ' \in Nat /\ R' \in Nat /\ W' \in Nat /\ RQ' <= 1
  <2>1. RaisedRQ' \subseteq Procs /\ RaisedR' \subseteq Procs /\ RaisedW' \subseteq Procs
    BY <1>1, RaisedSubsets
  <2>2. RQ' \in Nat /\ R' \in Nat /\ W' \in Nat
    BY <1>2, <1>3, <1>4, <2>1, Counting
  <2>. QED  BY <2>2
<1>6. TypeOK'
  BY <1>5 DEF Locations
<1>7. Writers' = Writers \ {p} /\ Readers' = Readers \ {p}
  BY DEF Writers, Readers
<1>8. Exclusion'
  BY <1>7 DEF Exclusion
<1>9. \A q \in Procs : Queued(q)' => q \in RaisedRQ'
  BY <1>1 DEF Queued, Granting, GrantIn, Modes
<1>10. \A q \in Procs : state'[q] # "None" => pc'[q] = "idle"
  OBVIOUS
<1>. QED  BY <1>1, <1>2, <1>3, <1>4, <1>5, <1>6, <1>7, <1>8, <1>9, <1>10

LEMMA NextIInv == IInv /\ [Next]_vars => IInv'
<1> SUFFICES ASSUME IInv, [Next]_vars PROVE IInv'
  OBVIOUS
<1>1. CASE UNCHANGED vars
  BY <1>1 DEF vars, sems, IInv, TypeOK, RaisedRQ, RaisedR, RaisedW, Writers,
              Readers, Exclusion, Queued, Granting
<1>2. CASE Next
  BY <1>2, QuietSteps, RequestStep, GrantStep, ReleaseStep, DestroyStep, DieStep
  DEF Next
<1>. QED  BY <1>1, <1>2

(* The semaphores count the processes that raised them, for any processes. *)
THEOREM SemaphoresCount == Spec => []IInv
BY InitIInv, NextIInv, PTL DEF Spec

(* An exclusive holder is alone, whatever is interrupted or dies.          *)
THEOREM ExclusiveAlone == Spec => []Exclusion
<1>1. IInv => Exclusion
  BY DEF IInv
<1>. QED  BY <1>1, SemaphoresCount, PTL

(* While one process is queued nobody else is granted the lock.            *)
THEOREM QueuedNext == Spec => NoOvertaking
<1>1. IInv /\ [Next]_vars =>
        [\A p, q \in Procs :
           p # q /\ Queued(p) /\ state[q] = "None" => state'[q] = "None"]_vars
  <2> SUFFICES ASSUME IInv, Next, NEW p \in Procs, NEW q \in Procs,
                      p # q, Queued(p), state[q] = "None"
               PROVE  state'[q] = "None"
    OBVIOUS
  <2>1. PICK r \in Procs :
          \/ \E m \in Modes : Aquire(r, m) \/ Request(r, m) \/ Grant(r, m)
          \/ AquireThrows(r) \/ Release(r) \/ Destroy(r) \/ Die(r)
    BY DEF Next
  <2>2. CASE \E m \in Modes : Grant(r, m)
    <3>1. r \in RaisedRQ /\ p \in RaisedRQ
      BY <2>2 DEF IInv, Grant, Queued
    <3>2. r = p
      <4> SUFFICES ASSUME r # p PROVE FALSE
        OBVIOUS
      <4>1. Cardinality(RaisedRQ \ {p}) = RQ - 1
        BY <3>1, Counting, RaisedSubsets DEF IInv
      <4>2. Cardinality((RaisedRQ \ {p}) \ {r}) = RQ - 2
        <5>1. RaisedRQ \ {p} \subseteq Procs /\ r \in RaisedRQ \ {p}
          BY <3>1, RaisedSubsets
        <5>2. Cardinality((RaisedRQ \ {p}) \ {r}) = Cardinality(RaisedRQ \ {p}) - 1
          BY <5>1, Counting
        <5>. QED  BY <4>1, <5>2 DEF IInv, TypeOK
      <4>3. Cardinality((RaisedRQ \ {p}) \ {r}) \in Nat
        BY Counting, RaisedSubsets
      <4>. QED  BY <4>2, <4>3 DEF IInv, TypeOK
    <3>. QED  BY <2>2, <3>2 DEF Grant, IInv, TypeOK
  <2>3. CASE \E m \in Modes : Aquire(r, m) \/ Request(r, m)
    BY <2>3 DEF Aquire, Request
  <2>4. CASE AquireThrows(r) \/ Release(r) \/ Destroy(r) \/ Die(r)
    BY <2>4 DEF AquireThrows, Release, Destroy, Die, IInv, TypeOK
  <2>. QED  BY <2>1, <2>2, <2>3, <2>4
<1>. QED  BY <1>1, SemaphoresCount, PTL DEF Spec, NoOvertaking
=============================================================================
