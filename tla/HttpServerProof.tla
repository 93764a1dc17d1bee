--------------------------- MODULE HttpServerProof ---------------------------
(***************************************************************************)
(* Proofs about the HTTP server: its parent alone (Supervisor), a pool of  *)
(* children alone (WaitForCall), the two together (HttpPrefork), and the   *)
(* request that a child reads (HttpRequest), for any pool size, pids,      *)
(* clients, restart budget, fork failures, crashes and signals, and any    *)
(* requests, cuts and pauses of the network.                               *)
(*                                                                         *)
(* What is proved of the parent's list ends with the first child that is   *)
(* stopped; what rests on the Mutex of the children ends when a signal     *)
(* interrupts one of its constructors; what is proved of a request ends    *)
(* when the buffer of its body moves.                                      *)
(***************************************************************************)
EXTENDS HttpPrefork, HttpRequest, FiniteSetTheorems, SequenceTheorems,
        WellFoundedInduction, NaturalsInduction, TLAPS

-----------------------------------------------------------------------------
(* The parent.                                                             *)

USE SupervisorAssumption

(* The steps of a parent whose children may end with any status: what      *)
(* ServiceStart may return matters to none of the proofs.                  *)
AnyStep ==
  \/ ParentStep \/ ShutdownSignal
  \/ \E p \in Pids : \/ \E rc \in 0 .. 255 : ChildExit(p, rc)
                    \/ ChildCrash(p) \/ ChildStop(p) \/ ChildContinue(p)

LEMMA ParentAlways == [Next]_vars => [AnyStep]_vars
BY DEF Next, AnyStep

(* What _waitForChildren leaves of a list with one entry for pid: the      *)
(* entries before it stay, those behind it move to the front by one.       *)
LEMMA RemovedShifts ==
  ASSUME NEW l \in [Slots -> Pids \cup {NoPid, Garbage}],
         NEW pid \in Pids, NEW k \in Slots, l[k] = pid,
         \A i, j \in Slots : l[i] \in Pids /\ l[i] = l[j] => i = j
  PROVE  Removed(l, pid) =
           [i \in Slots |-> IF i < k THEN l[i]
                            ELSE IF i < NoProcs - 1 THEN l[i + 1] ELSE NoPid]
<1>1. \E i \in Slots : l[i] = pid
  OBVIOUS
<1>2. (CHOOSE i \in Slots : l[i] = pid) = k
  OBVIOUS
<1>. QED  BY <1>1, <1>2 DEF Removed

(* What _waitForChildren leaves of a list is a list.                       *)
LEMMA RemovedType ==
  ASSUME NEW l \in [Slots -> Pids \cup {NoPid, Garbage}], NEW pid \in Pids
  PROVE  Removed(l, pid) \in [Slots -> Pids \cup {NoPid, Garbage}]
<1>1. \A i \in Slots : i < NoProcs - 1 => i + 1 \in Slots
  BY DEF Slots
<1>. QED  BY <1>1 DEF Removed

(* Every step keeps the types, whatever was stopped.                       *)
LEMMA TypeStep == TypeOK /\ AnyStep => TypeOK'
<1> SUFFICES ASSUME TypeOK, AnyStep
             PROVE  TypeOK'
  OBVIOUS
<1> USE DEF TypeOK, Outcomes, ChildStates
<1>1. ASSUME NEW p \in Pids, Fork(p)
      PROVE  TypeOK'
  BY <1>1 DEF Fork, PoolShort, Slots
<1>2. ASSUME NEW p \in Pids, Reap(p)
      PROVE  TypeOK'
  <2>1. list' \in [Slots -> Pids \cup {NoPid, Garbage}]
    BY <1>2, RemovedType DEF Reap
  <2>2. child' \in [Pids -> ChildStates]
    BY <1>2 DEF Reap
  <2>3. outcome' \in Outcomes
    BY <1>2 DEF Reap, ReturnIfDrained
  <2>4. /\ noProcs' \in 0 .. NoProcs /\ childrenToOpen' \in 0 .. NoProcs
        /\ restartCount' \in 0 .. RestartCount
    BY <1>2 DEF Reap
  <2>. QED  BY <1>2, <2>1, <2>2, <2>3, <2>4 DEF Reap
<1>3. CASE ForkFails
  <2>1. budget' \in [forks : 0 .. MaxForkFailures, stops : 0 .. MaxStops,
                     crashes : 0 .. MaxCrashes]
    BY <1>3 DEF ForkFails
  <2>. QED  BY <1>3, <2>1 DEF ForkFails, PoolShort
<1>4. CASE Detach
  BY <1>4 DEF Detach, childVars
<1>5. CASE KillChildren
  <2>1. signalled' \subseteq Pids \cup {Garbage}
    BY <1>5 DEF KillChildren
  <2>. QED  BY <1>5, <2>1 DEF KillChildren, childVars
<1>6. CASE Nap
  BY <1>6 DEF Nap, ReturnIfDrained, childVars
<1>7. CASE ShutdownSignal
  BY <1>7 DEF ShutdownSignal, childVars
<1>8. ASSUME NEW p \in Pids, NEW rc \in 0 .. 255, ChildExit(p, rc)
      PROVE  TypeOK'
  BY <1>8 DEF ChildExit, EndedState, parentVars
<1>9. ASSUME NEW p \in Pids, ChildCrash(p)
      PROVE  TypeOK'
  BY <1>9 DEF ChildCrash, EndedState, parentVars
<1>10. ASSUME NEW p \in Pids, ChildStop(p)
       PROVE  TypeOK'
  BY <1>10 DEF ChildStop, parentVars
<1>11. ASSUME NEW p \in Pids, ChildContinue(p)
       PROVE  TypeOK'
  BY <1>11 DEF ChildContinue, parentVars
<1> HIDE DEF TypeOK
<1>. QED  BY <1>1, <1>2, <1>3, <1>4, <1>5, <1>6, <1>7, <1>8, <1>9, <1>10, <1>11
          DEF AnyStep, ParentStep

(* The initial state: no element of the list has been assigned.            *)
LEMMA InitTracked == Init => TrackedInv
<1> SUFFICES ASSUME Init
             PROVE  TrackedInv
  OBVIOUS
<1>1. TypeOK
  <2>1. budget \in [forks : 0 .. MaxForkFailures, stops : 0 .. MaxStops,
                    crashes : 0 .. MaxCrashes]
    BY DEF Init
  <2>2. /\ noProcs \in 0 .. NoProcs /\ childrenToOpen \in 0 .. NoProcs
        /\ restartCount \in 0 .. RestartCount
    BY DEF Init
  <2>3. /\ waitForChildren \in BOOLEAN /\ outcome \in Outcomes /\ shutdown \in BOOLEAN
        /\ list \in [Slots -> Pids \cup {NoPid, Garbage}]
        /\ signalled \subseteq Pids \cup {Garbage}
    BY DEF Init, Outcomes
  <2>4. child \in [Pids -> ChildStates]
    BY DEF Init, ChildStates
  <2>5. status \in [Pids -> 0 .. 255]
    <3>1. 0 \in 0 .. 255
      OBVIOUS
    <3>. QED  BY <3>1 DEF Init
  <2>. QED  BY <2>1, <2>2, <2>3, <2>4, <2>5 DEF TypeOK
<1>2. \A i \in Slots : list[i] \notin Pids
  BY DEF Init
<1>3. Unreaped = {} /\ \A p \in Pids : child[p] = "free"
  BY DEF Init, Unreaped
<1>4. noProcs <= childrenToOpen
  BY DEF Init
<1>. QED  BY <1>1, <1>2, <1>3, <1>4 DEF TrackedInv, ExactList

(* A fork writes behind the counted part, where there is no child.         *)
LEMMA ForkStep ==
  ASSUME NEW p \in Pids, TypeOK, ExactList, Fork(p)
  PROVE  ExactList'
<1> USE DEF Fork, PoolShort, ExactList, TypeOK, ChildStates, Slots
<1>1. noProcs \in Slots /\ noProcs' \in 0 .. NoProcs
  OBVIOUS
<1>3. \A q \in Pids : child'[q] \in {"free", "running", "zombie"}
  OBVIOUS
<1>4. Unreaped' = Unreaped \cup {p} /\ p \notin Unreaped
  BY DEF Unreaped
<1>5. list'[noProcs] = p /\ \A i \in Slots : i # noProcs => list'[i] = list[i]
  BY <1>1
<1>6. \A i \in Slots : list[i] \in Pids => i < noProcs
  OBVIOUS
<1>7. \A q \in Unreaped' : \E i \in Slots : list'[i] = q
  <2> SUFFICES ASSUME NEW q \in Unreaped'
               PROVE  \E i \in Slots : list'[i] = q
    OBVIOUS
  <2>1. CASE q = p
    BY <2>1, <1>1, <1>5
  <2>2. CASE q \in Unreaped
    <3>1. PICK i \in Slots : list[i] = q
      BY <2>2
    <3>2. i # noProcs
      BY <3>1, <1>6, <2>2 DEF Unreaped
    <3>. QED  BY <3>1, <3>2, <1>5
  <2>. QED  BY <2>1, <2>2, <1>4
<1>8. \A i \in Slots : list'[i] \in Pids => i < noProcs' /\ list'[i] \in Unreaped'
  BY <1>1, <1>4, <1>5, <1>6
<1>9. \A i, j \in Slots : list'[i] \in Pids /\ list'[i] = list'[j] => i = j
  BY <1>1, <1>4, <1>5, <1>6
<1>10. noProcs' <= childrenToOpen'
  OBVIOUS
<1>. QED  BY <1>3, <1>7, <1>8, <1>9, <1>10

(* wait3 reports a child that has ended: its one entry is in the counted   *)
(* part, so what is left fits in a counted part that is one shorter.       *)
LEMMA ReapStep ==
  ASSUME NEW p \in Pids, TypeOK, ExactList, Reap(p)
  PROVE  ExactList'
<1> USE DEF ExactList, Slots
<1>1. outcome = "looping" /\ p \in Unreaped
  BY DEF Reap, Polling, PoolFull, Unreaped
<1>2. PICK k \in Slots : list[k] = p
  BY <1>1
<1>3. k < noProcs
  BY <1>1, <1>2
<1>4. /\ list \in [Slots -> Pids \cup {NoPid, Garbage}]
      /\ noProcs \in 0 .. NoProcs /\ childrenToOpen \in 0 .. NoProcs
      /\ restartCount \in 0 .. RestartCount
  BY DEF TypeOK
<1>5. list' = [i \in Slots |-> IF i < k THEN list[i]
                               ELSE IF i < NoProcs - 1 THEN list[i + 1] ELSE NoPid]
  <2>1. \A i, j \in Slots : list[i] \in Pids /\ list[i] = list[j] => i = j
    BY <1>1
  <2>2. list' = Removed(list, p)
    BY DEF Reap
  <2>. QED  BY <2>1, <2>2, <1>2, <1>4, RemovedShifts
<1>6. /\ noProcs' \in {noProcs, noProcs - 1} /\ noProcs' \in 0 .. NoProcs
      /\ childrenToOpen' \in 0 .. NoProcs
      /\ noProcs' <= childrenToOpen'
  BY <1>1, <1>3, <1>4 DEF Reap
<1>7. child'[p] = "free" /\ \A q \in Pids : q # p => child'[q] = child[q]
  BY <1>1 DEF Reap, TypeOK, Unreaped
<1>8. Unreaped' = Unreaped \ {p}
  BY <1>7 DEF Unreaped
<1>10. \A q \in Pids : child'[q] \in {"free", "running", "zombie"}
  BY <1>7
<1>11. \A q \in Unreaped' : \E i \in Slots : list'[i] = q
  <2> SUFFICES ASSUME NEW q \in Unreaped'
               PROVE  \E i \in Slots : list'[i] = q
    OBVIOUS
  <2>1. PICK j \in Slots : list[j] = q
    BY <1>1, <1>8
  <2>2. j # k
    BY <1>2, <1>8, <2>1
  <2>3. CASE j < k
    BY <2>1, <2>3, <1>5
  <2>4. CASE j > k
    <3>1. j - 1 \in Slots /\ ~(j - 1 < k) /\ j - 1 < NoProcs - 1
      BY <2>4
    <3>2. list'[j - 1] = list[(j - 1) + 1]
      BY <3>1, <1>5
    <3>. QED  BY <3>1, <3>2, <2>1
  <2>. QED  BY <2>2, <2>3, <2>4
<1>12. ASSUME NEW i \in Slots, list'[i] \in Pids
       PROVE  \E j \in Slots : /\ list[j] = list'[i] /\ j # k
                               /\ j = IF i < k THEN i ELSE i + 1
  <2>1. CASE i < k
    BY <2>1, <1>5
  <2>2. CASE ~(i < k)
    <3>1. i < NoProcs - 1
      BY <2>2, <1>5, <1>12
    <3>2. i + 1 \in Slots /\ i + 1 # k
      BY <2>2, <3>1
    <3>. QED  BY <2>2, <3>1, <3>2, <1>5
  <2>. QED  BY <2>1, <2>2
<1>13. \A i \in Slots : list'[i] \in Pids => i < noProcs' /\ list'[i] \in Unreaped'
  <2> SUFFICES ASSUME NEW i \in Slots, list'[i] \in Pids
               PROVE  i < noProcs' /\ list'[i] \in Unreaped'
    OBVIOUS
  <2>1. PICK j \in Slots : /\ list[j] = list'[i] /\ j # k
                           /\ j = IF i < k THEN i ELSE i + 1
    BY <1>12
  <2>2. j < noProcs /\ list[j] \in Unreaped
    BY <2>1, <1>1
  <2>3. list[j] # p
    BY <2>1, <1>1, <1>2
  <2>4. i < noProcs - 1
    BY <2>1, <2>2, <1>3, <1>4
  <2>. QED  BY <2>1, <2>2, <2>3, <2>4, <1>4, <1>6, <1>8
<1>14. \A i, j \in Slots : list'[i] \in Pids /\ list'[i] = list'[j] => i = j
  <2> SUFFICES ASSUME NEW i \in Slots, NEW j \in Slots,
                      list'[i] \in Pids, list'[i] = list'[j]
               PROVE  i = j
    OBVIOUS
  <2>1. PICK a \in Slots : list[a] = list'[i] /\ a # k
                           /\ a = IF i < k THEN i ELSE i + 1
    BY <1>12
  <2>2. PICK b \in Slots : list[b] = list'[j] /\ b # k
                           /\ b = IF j < k THEN j ELSE j + 1
    BY <1>12
  <2>3. a = b
    BY <2>1, <2>2, <1>1
  <2>. QED  BY <2>1, <2>2, <2>3
<1>. QED  BY <1>6, <1>10, <1>11, <1>13, <1>14

(* The other steps change neither the list nor who is unreaped, and the    *)
(* first stop ends what is claimed.                                        *)
LEMMA OtherSteps ==
  ASSUME TypeOK, ExactList, budget.stops = 0, budget'.stops = 0,
         \/ ForkFails \/ Detach \/ KillChildren \/ Nap \/ ShutdownSignal
         \/ \E p \in Pids : \/ \E rc \in 0 .. 255 : ChildExit(p, rc)
                            \/ ChildCrash(p) \/ ChildStop(p) \/ ChildContinue(p)
  PROVE  ExactList'
<1> USE DEF ExactList, TypeOK
<1>1. CASE ForkFails
  BY <1>1 DEF ForkFails, PoolShort, Unreaped
<1>2. CASE Detach
  BY <1>2 DEF Detach, childVars
<1>3. CASE KillChildren
  BY <1>3 DEF KillChildren, childVars
<1>4. CASE Nap
  BY <1>4 DEF Nap, Polling, PoolFull, ReturnIfDrained, childVars, Unreaped
<1>5. CASE ShutdownSignal
  BY <1>5 DEF ShutdownSignal, childVars, Unreaped
<1>6. ASSUME NEW p \in Pids, NEW rc \in 0 .. 255, ChildExit(p, rc)
      PROVE  ExactList'
  <2>1. outcome = "looping" => Unreaped' = Unreaped
    <3>1. /\ child[p] = "running" /\ child' = [child EXCEPT ![p] = EndedState]
          /\ outcome = "looping" => EndedState = "zombie"
      BY <1>6 DEF ChildExit, EndedState
    <3>. QED  BY <3>1 DEF Unreaped
  <2>2. \A q \in Pids : child'[q] \in {"free", "running", "zombie"}
    BY <1>6 DEF ChildExit, EndedState, parentVars
  <2>. QED  BY <1>6, <2>1, <2>2 DEF ChildExit, parentVars
<1>7. ASSUME NEW p \in Pids, ChildCrash(p)
      PROVE  ExactList'
  <2>1. child[p] = "running"
    BY <1>7 DEF ChildCrash, Alive
  <2>2. outcome = "looping" => Unreaped' = Unreaped
    <3>1. /\ child' = [child EXCEPT ![p] = EndedState]
          /\ outcome = "looping" => EndedState = "zombie"
      BY <1>7 DEF ChildCrash, EndedState
    <3>. QED  BY <2>1, <3>1 DEF Unreaped
  <2>3. \A q \in Pids : child'[q] \in {"free", "running", "zombie"}
    BY <1>7 DEF ChildCrash, EndedState, parentVars
  <2>. QED  BY <1>7, <2>2, <2>3 DEF ChildCrash, parentVars
<1>8. ASSUME NEW p \in Pids, ChildStop(p) \/ ChildContinue(p)
      PROVE  FALSE
  BY <1>8 DEF ChildStop, ChildContinue
<1>. QED  BY <1>1, <1>2, <1>3, <1>4, <1>5, <1>6, <1>7, <1>8

(* Stops are only ever counted up.                                         *)
LEMMA StopsGrow == TypeOK /\ AnyStep => budget'.stops >= budget.stops
<1> SUFFICES ASSUME TypeOK, AnyStep
             PROVE  budget'.stops >= budget.stops
  OBVIOUS
<1>1. ASSUME NEW p \in Pids, NEW rc \in 0 .. 255, ChildExit(p, rc)
      PROVE  budget' = budget
  BY <1>1 DEF ChildExit
<1>2. CASE ParentStep \/ ShutdownSignal
  BY <1>2 DEF ParentStep, Fork, Reap, ForkFails, Detach, KillChildren, Nap,
     ShutdownSignal, childVars, TypeOK
<1>3. ASSUME NEW p \in Pids, ChildCrash(p) \/ ChildStop(p) \/ ChildContinue(p)
      PROVE  budget'.stops >= budget.stops
  BY <1>3 DEF ChildCrash, ChildStop, ChildContinue, TypeOK
<1>. QED  BY <1>1, <1>2, <1>3 DEF AnyStep, TypeOK

LEMMA NextTracked == TrackedInv /\ [AnyStep]_vars => TrackedInv'
<1> SUFFICES ASSUME TrackedInv, [AnyStep]_vars
             PROVE  TrackedInv'
  OBVIOUS
<1>1. CASE UNCHANGED vars
  BY <1>1 DEF vars, parentVars, childVars, TrackedInv, ExactList, TypeOK, Unreaped
<1>2. CASE AnyStep
  <2>1. TypeOK /\ TypeOK'
    BY <1>2, TypeStep DEF TrackedInv
  <2>2. ASSUME budget'.stops = 0
        PROVE  ExactList'
    <3>1. budget.stops = 0 /\ ExactList
      <4>1. budget.stops \in Nat
        BY <2>1 DEF TypeOK
      <4>. QED  BY <1>2, <2>1, <2>2, <4>1, StopsGrow DEF TrackedInv
    <3>. QED  BY <1>2, <2>1, <2>2, <3>1, ForkStep, ReapStep, OtherSteps
              DEF AnyStep, ParentStep
  <2>. QED  BY <2>1, <2>2 DEF TrackedInv
<1>. QED  BY <1>1, <1>2

(* The list of children is exact: one entry for every child not yet        *)
(* reported, all of them in the counted part, until a child is stopped.    *)
THEOREM ListExact == Spec => []TrackedInv
BY InitTracked, NextTracked, ParentAlways, PTL DEF Spec

(* No child is forgotten before wait3 has reported it: no fork overwrites  *)
(* the entry of a child the list still needs.                              *)
THEOREM ChildrenTracked == Spec => [](budget.stops = 0 => Tracked)
<1>1. TrackedInv => (budget.stops = 0 => Tracked)
  <2> SUFFICES ASSUME TrackedInv, budget.stops = 0, outcome = "looping",
                      NEW p \in Unreaped
               PROVE  \E i \in 0 .. noProcs - 1 : list[i] = p
    BY DEF Tracked
  <2> USE DEF TrackedInv, ExactList
  <2>1. PICK i \in Slots : list[i] = p
    OBVIOUS
  <2>2. i < noProcs
    BY <2>1 DEF Unreaped
  <2>3. noProcs \in Nat
    BY DEF TypeOK
  <2>. QED  BY <2>1, <2>2, <2>3 DEF Slots
<1>. QED  BY <1>1, ListExact, PTL

(* _killChildren finds every child in the list, and a child that is still  *)
(* alive afterwards has been signalled: nobody forks once the parent has   *)
(* decided to return.                                                      *)
LEMMA NextKilledAll == TrackedInv /\ KilledAll /\ [AnyStep]_vars => KilledAll'
<1> SUFFICES ASSUME TrackedInv, KilledAll, [AnyStep]_vars, budget'.stops = 0,
                    outcome' = "killed", NEW p \in Pids, Alive(p)'
             PROVE  p \in signalled'
  BY DEF KilledAll
<1> USE DEF TypeOK, Alive
<1>1. CASE UNCHANGED vars
  BY <1>1 DEF vars, parentVars, childVars, KilledAll
<1>2. CASE AnyStep
  <2> HIDE DEF Alive
  <2>1. budget.stops = 0 /\ ExactList
    <3>1. budget.stops \in Nat /\ TypeOK
      BY DEF TrackedInv
    <3>. QED  BY <1>2, <3>1, StopsGrow DEF TrackedInv
  <2> USE <2>1 DEF ExactList, TrackedInv, Alive
  <2>2. CASE KillChildren
    <3>1. outcome = "looping" /\ child' = child
      BY <2>2 DEF KillChildren, PoolFull, childVars
    <3>2. p \in Unreaped
      BY <3>1 DEF Unreaped
    <3>. QED  BY <2>2, <3>1, <3>2 DEF KillChildren
  <2>3. CASE \/ \E q \in Pids : Fork(q) \/ Reap(q)
             \/ ForkFails \/ Detach \/ Nap \/ ShutdownSignal
    BY <2>3 DEF Fork, PoolShort, Reap, Polling, PoolFull, ReturnIfDrained,
                ForkFails, Detach, Nap, ShutdownSignal
  <2>4. CASE \E q \in Pids : \/ \E rc \in 0 .. 255 : ChildExit(q, rc)
                            \/ ChildCrash(q) \/ ChildStop(q) \/ ChildContinue(q)
    <3>1. PICK q \in Pids : \/ \E rc \in 0 .. 255 : ChildExit(q, rc)
                            \/ ChildCrash(q) \/ ChildStop(q) \/ ChildContinue(q)
      BY <2>4
    <3>2. outcome' = outcome /\ signalled' = signalled
      BY <3>1 DEF ChildExit, ChildCrash, ChildStop, ChildContinue, parentVars
    <3>3. child[p] = "running"
      BY <3>1 DEF ChildExit, ChildCrash, ChildStop, ChildContinue, EndedState
    <3>. QED  BY <3>2, <3>3 DEF KilledAll
  <2>. QED  BY <1>2, <2>2, <2>3, <2>4 DEF AnyStep, ParentStep
<1>. QED  BY <1>1, <1>2

(* After a shutdown request every child that is still alive has been sent  *)
(* SIGUSR1, unless a child was stopped before.                             *)
THEOREM ShutdownSignalsEveryChild == Spec => []KilledAll
<1>1. Init => KilledAll
  BY DEF Init, KilledAll
<1>. QED  BY <1>1, ListExact, NextKilledAll, ParentAlways, PTL DEF Spec
-----------------------------------------------------------------------------
(* No list of fewer than NoProcs pids names them all, so fork() has a pid  *)
(* to spare for every child of the pool.                                   *)
PidsToSpare ==
  \A n \in 0 .. NoProcs - 1 : \A f \in [0 .. n - 1 -> Pids \cup {NoPid, Garbage}] :
    \E p \in Pids : \A i \in 0 .. n - 1 : f[i] # p

(* The elements never assigned are behind those in use, while the pool is  *)
(* filled for the first time; afterwards there are none.                   *)
Assigned ==
  \/ \A i \in Slots : list[i] # Garbage
  \/ childrenToOpen = NoProcs /\ \A i \in Slots : i < noProcs => list[i] # Garbage

AssignedInv ==
  budget.forks = 0 /\ budget.stops = 0 /\ outcome = "looping" => Assigned

LEMMA InitAssigned == Init => AssignedInv
BY DEF Init, AssignedInv, Assigned, Slots

(* A full pool has no element left that was never assigned.                *)
LEMMA FullAssigned ==
  ASSUME TypeOK, Assigned, PoolFull
  PROVE  \A i \in Slots : list[i] # Garbage
BY DEF TypeOK, Assigned, PoolFull, Slots

(* A fork cannot fail for want of a pid before a child is stopped.         *)
LEMMA ForkHasPid ==
  ASSUME PidsToSpare, TypeOK, ExactList, PoolShort
  PROVE  \E p \in Pids : child[p] = "free"
<1>1. noProcs \in 0 .. NoProcs - 1 /\ outcome = "looping"
  BY DEF TypeOK, PoolShort
<1> DEFINE f == [i \in 0 .. noProcs - 1 |-> list[i]]
<1>2. \A i \in 0 .. noProcs - 1 : i \in Slots
  BY <1>1 DEF Slots
<1>3. f \in [0 .. noProcs - 1 -> Pids \cup {NoPid, Garbage}]
  BY <1>2 DEF TypeOK
<1>4. PICK p \in Pids : \A i \in 0 .. noProcs - 1 : f[i] # p
  BY <1>1, <1>3 DEF PidsToSpare
<1>5. \A i \in 0 .. noProcs - 1 : list[i] # p
  BY <1>4
<1>6. p \notin Unreaped
  <2> SUFFICES ASSUME p \in Unreaped PROVE FALSE
    OBVIOUS
  <2>1. PICK i \in Slots : list[i] = p
    BY <1>1 DEF ExactList
  <2>2. i < noProcs
    BY <1>1, <2>1 DEF ExactList
  <2>3. i \in 0 .. noProcs - 1
    BY <1>1, <2>2 DEF Slots
  <2>. QED  BY <1>5, <2>1, <2>3
<1>. QED  BY <1>6 DEF ExactList, Unreaped

(* The compaction of an assigned list leaves an assigned list.             *)
LEMMA RemovedAssigned ==
  ASSUME NEW l \in [Slots -> Pids \cup {NoPid, Garbage}], NEW p \in Pids,
         \A i \in Slots : l[i] # Garbage
  PROVE  \A i \in Slots : Removed(l, p)[i] # Garbage
<1>1. CASE \E i \in Slots : l[i] = p
  <2> DEFINE k == CHOOSE i \in Slots : l[i] = p
  <2>1. Removed(l, p) = [i \in Slots |-> IF i < k THEN l[i]
                                         ELSE IF i < NoProcs - 1 THEN l[i + 1] ELSE NoPid]
    BY <1>1 DEF Removed
  <2>2. \A i \in Slots : i < NoProcs - 1 => i + 1 \in Slots
    BY DEF Slots
  <2> HIDE DEF k
  <2>. QED  BY <2>1, <2>2
<1>2. CASE ~\E i \in Slots : l[i] = p
  BY <1>2 DEF Removed
<1>. QED  BY <1>1, <1>2

LEMMA ForksGrow == TypeOK /\ AnyStep => budget'.forks >= budget.forks
<1> SUFFICES ASSUME TypeOK, AnyStep
             PROVE  budget'.forks >= budget.forks
  OBVIOUS
<1>1. ASSUME NEW p \in Pids, NEW rc \in 0 .. 255, ChildExit(p, rc)
      PROVE  budget' = budget
  BY <1>1 DEF ChildExit
<1>2. CASE ParentStep \/ ShutdownSignal
  BY <1>2 DEF ParentStep, Fork, Reap, ForkFails, Detach, KillChildren, Nap,
     ShutdownSignal, childVars, TypeOK
<1>3. ASSUME NEW p \in Pids, ChildCrash(p) \/ ChildStop(p) \/ ChildContinue(p)
      PROVE  budget'.forks >= budget.forks
  BY <1>3 DEF ChildCrash, ChildStop, ChildContinue, TypeOK
<1>. QED  BY <1>1, <1>2, <1>3 DEF AnyStep, TypeOK

LEMMA NextAssigned ==
  PidsToSpare /\ TrackedInv /\ AssignedInv /\ [AnyStep]_vars => AssignedInv'
<1> SUFFICES ASSUME PidsToSpare, TrackedInv, AssignedInv, [AnyStep]_vars,
                    budget'.forks = 0, budget'.stops = 0, outcome' = "looping"
             PROVE  Assigned'
  BY DEF AssignedInv
<1>1. CASE UNCHANGED vars
  BY <1>1 DEF vars, parentVars, childVars, AssignedInv, Assigned
<1>2. CASE AnyStep
  <2>1. TypeOK /\ budget.forks \in Nat /\ budget.stops \in Nat
    BY DEF TrackedInv, TypeOK
  <2>2. budget.forks = 0 /\ budget.stops = 0
    BY <1>2, <2>1, ForksGrow, StopsGrow
  <2>3. ExactList
    BY <2>2 DEF TrackedInv
  <2>4. outcome = "looping"
    BY <1>2 DEF AnyStep, ParentStep, Fork, PoolShort, Reap, Polling, PoolFull,
       ForkFails, Detach, KillChildren, Nap, ShutdownSignal, ChildExit,
       ChildCrash, ChildStop, ChildContinue, parentVars
  <2>5. Assigned
    BY <2>2, <2>4 DEF AssignedInv
  <2>6. ASSUME NEW p \in Pids, Fork(p)
        PROVE  Assigned'
    <3>1. /\ list' = [list EXCEPT ![noProcs] = p] /\ noProcs' = noProcs + 1
          /\ childrenToOpen' = childrenToOpen
      BY <2>6 DEF Fork
    <3>2. noProcs \in Nat /\ \A i \in Slots : list'[i] = IF i = noProcs THEN p ELSE list[i]
      BY <2>1, <3>1 DEF TypeOK
    <3>3. \A i \in Slots : list[i] # Garbage => list'[i] # Garbage
      BY <3>2
    <3>4. \A i \in Slots : i < noProcs' => i < noProcs \/ list'[i] = p
      BY <3>1, <3>2 DEF Slots
    <3>. QED  BY <2>5, <3>1, <3>3, <3>4 DEF Assigned
  <2>7. ASSUME NEW p \in Pids, Reap(p)
        PROVE  Assigned'
    <3>1. \A i \in Slots : list[i] # Garbage
      BY <2>1, <2>5, <2>7, FullAssigned DEF Reap, Polling
    <3>2. list' = Removed(list, p) /\ list \in [Slots -> Pids \cup {NoPid, Garbage}]
      BY <2>1, <2>7 DEF Reap, TypeOK
    <3>. QED  BY <3>1, <3>2, RemovedAssigned DEF Assigned
  <2>8. CASE ForkFails
    <3>1. \E p \in Pids : child[p] = "free"
      BY <2>1, <2>3, <2>8, ForkHasPid DEF ForkFails
    <3>2. budget' = [budget EXCEPT !.forks = @ + 1]
      BY <2>8, <3>1 DEF ForkFails
    <3>. QED  BY <2>1, <2>2, <3>2 DEF TypeOK
  <2>9. CASE Detach \/ KillChildren
    BY <2>9 DEF Detach, KillChildren
  <2>10. CASE Nap \/ ShutdownSignal
    BY <2>5, <2>10 DEF Nap, ShutdownSignal, Assigned
  <2>11. ASSUME NEW p \in Pids,
                \/ \E rc \in 0 .. 255 : ChildExit(p, rc)
                \/ ChildCrash(p) \/ ChildStop(p) \/ ChildContinue(p)
         PROVE  Assigned'
    BY <2>5, <2>11 DEF ChildExit, ChildCrash, ChildStop, ChildContinue,
                       parentVars, Assigned
  <2>. QED  BY <1>2, <2>6, <2>7, <2>8, <2>9, <2>10, <2>11 DEF AnyStep, ParentStep
<1>. QED  BY <1>1, <1>2

(* Who is signalled is a child that wait3 has not reported: no word of the *)
(* list that was never assigned, and no pid that may be a stranger's,      *)
(* where pids are to spare, every fork has succeeded and no child was      *)
(* stopped.                                                                *)
THEOREM SignalsChildrenOnly ==
  ASSUME PidsToSpare
  PROVE  Spec => FullPoolSignalsChildren
<1>1. TrackedInv /\ AssignedInv /\ [AnyStep]_vars => AssignedInv'
  BY NextAssigned
<1>2. TrackedInv /\ AssignedInv /\ [AnyStep]_vars
        => [budget.forks = 0 /\ budget.stops = 0 => signalled' \subseteq Unreaped]_signalled
  <2> SUFFICES ASSUME TrackedInv, AssignedInv, [AnyStep]_vars, signalled' # signalled,
                      budget.forks = 0, budget.stops = 0
               PROVE  signalled' \subseteq Unreaped
    OBVIOUS
  <2>1. KillChildren
    BY DEF AnyStep, ParentStep, Fork, Reap, ForkFails, Detach, Nap, ShutdownSignal,
       ChildExit, ChildCrash, ChildStop, ChildContinue, vars
  <2>2. TypeOK /\ ExactList /\ PoolFull /\ outcome = "looping"
    BY <2>1 DEF TrackedInv, KillChildren, PoolFull
  <2>3. Assigned
    BY <2>2 DEF AssignedInv
  <2>4. \A i \in Slots : list[i] # Garbage
    BY <2>2, <2>3, FullAssigned
  <2>5. \A i \in Slots : list[i] \in Unreaped \cup {NoPid}
    BY <2>2, <2>4 DEF ExactList, TypeOK
  <2>6. signalled' = {list[i] : i \in Slots} \ {NoPid}
    BY <2>1 DEF KillChildren
  <2>. QED  BY <2>5, <2>6
<1>. QED  BY <1>1, <1>2, InitAssigned, ListExact, ParentAlways, PTL DEF Spec, FullPoolSignalsChildren

-----------------------------------------------------------------------------
(* The children.                                                           *)

USE WaitForCallAssumption

(* The steps of a pool, whether it stands alone or has a parent that forks *)
(* children and signals any of them.                                       *)
PoolStep ==
  \/ \E p \in Pids : \/ ChildStep(p) \/ End(p)
                    \/ \E inherited \in BOOLEAN : Spawn(p, inherited)
  \/ \E ps \in SUBSET (Pids \cup {Garbage}) : Signal(ps)
  \/ \E c \in Conns : Connect(c)

LEMMA PoolAlone == [PoolNext]_poolVars => [PoolStep]_poolVars
<1>1. \A p \in Pids : SignalOne(p) => Signal({p}) /\ {p} \in SUBSET (Pids \cup {Garbage})
  BY DEF SignalOne
<1>. QED  BY <1>1 DEF PoolNext, PoolStep

(* A step that leaves the semaphore and its holders alone.                 *)
LEMMA SameHolders ==
  ASSUME UninterruptedInv, PoolTypeOK', Holders' = Holders,
         semval' = semval, semadj' = semadj,
         interrupted' = 0 => interrupted = 0
  PROVE  UninterruptedInv'
BY DEF UninterruptedInv, Held

LEMMA InitInv == PoolInit => UninterruptedInv
BY DEF PoolInit, InitAt, UninterruptedInv, Held, PoolTypeOK, Locations, Holders,
       Sem!SemInit, Sem!SemTypeOK

LEMMA PoolTypeStep == PoolTypeOK /\ [PoolStep]_poolVars => PoolTypeOK'
<1> SUFFICES ASSUME PoolTypeOK, [PoolStep]_poolVars PROVE PoolTypeOK'
  OBVIOUS
<1> USE DEF PoolTypeOK, Locations, Sem!SemTypeOK, Goto, ReleaseThen, procVars,
            semVars, connVars
<1>1. CASE UNCHANGED poolVars
  BY <1>1 DEF poolVars
<1>2. ASSUME NEW p \in Pids, ChildStep(p) PROVE PoolTypeOK'
  <2>0. CASE SelectTimeout(p)
    BY <2>0 DEF SelectTimeout
  <2>1. CASE Test(p) \/ SelectReady(p)
    BY <2>1 DEF Test, SelectReady
  <2>2. CASE Acquire(p)
    BY <2>2 DEF Acquire, Sem!WaitZeroThenInc
  <2>3. CASE Release(p)
    BY <2>3 DEF Release, Sem!Decrement
  <2>4. CASE Accept(p)
    BY <2>4 DEF Accept, Queued
  <2>5. CASE AcceptFails(p) \/ ServeFails(p)
    BY <2>5 DEF AcceptFails, ServeFails
  <2>6. CASE Serve(p)
    BY <2>6 DEF Serve
  <2>7. CASE Deliver(p)
    BY <2>7 DEF Deliver
  <2>. QED  BY <1>2, <2>0, <2>1, <2>2, <2>3, <2>4, <2>5, <2>6, <2>7
            DEF ChildStep, Advance, Semop
<1>3. ASSUME NEW p \in Pids, End(p) PROVE PoolTypeOK'
  BY <1>3 DEF End, Sem!UndoAtExit
<1>4. ASSUME NEW ps, Signal(ps) PROVE PoolTypeOK'
  BY <1>4 DEF Signal
<1>6. ASSUME NEW p \in Pids, NEW s \in BOOLEAN, Spawn(p, s) PROVE PoolTypeOK'
  BY <1>6 DEF Spawn
<1>5. ASSUME NEW c \in Conns, Connect(c) PROVE PoolTypeOK'
  BY <1>5 DEF Connect
<1>. QED  BY <1>1, <1>2, <1>3, <1>4, <1>5, <1>6 DEF PoolStep

(* The constructor of the Mutex: p becomes the one holder.                 *)
LEMMA AcquireStep ==
  ASSUME UninterruptedInv, PoolTypeOK', NEW p \in Pids, Acquire(p)
  PROVE  UninterruptedInv'
<1> USE DEF UninterruptedInv, Held, PoolTypeOK, Sem!SemTypeOK, Acquire,
            Sem!WaitZeroThenInc, Goto
<1> SUFFICES ASSUME interrupted = 0 PROVE Held'
  OBVIOUS
<1>1. Holders = {}
  OBVIOUS
<1>2. Holders' = {p}
  BY <1>1 DEF Holders
<1>. QED  BY <1>1, <1>2

(* The destructor: p was the one holder.                                   *)
LEMMA ReleaseStep ==
  ASSUME UninterruptedInv, PoolTypeOK', NEW p \in Pids, Release(p)
  PROVE  UninterruptedInv'
<1> USE DEF UninterruptedInv, Held, PoolTypeOK, Sem!SemTypeOK, Release,
            Sem!Decrement, Goto
<1> SUFFICES ASSUME interrupted = 0 PROVE Held'
  OBVIOUS
<1>1. Holders = {p}
  BY DEF Holders
<1>2. Holders' = {}
  BY <1>1 DEF Holders
<1>. QED  BY <1>1, <1>2

(* The end of p: the kernel takes back what p held, and nothing else.      *)
LEMMA EndStep ==
  ASSUME UninterruptedInv, PoolTypeOK', NEW p \in Pids, End(p)
  PROVE  UninterruptedInv'
<1> USE DEF UninterruptedInv, Held, PoolTypeOK, Sem!SemTypeOK, End,
            Sem!UndoAtExit, Goto
<1> SUFFICES ASSUME interrupted = 0 PROVE Held'
  OBVIOUS
<1>1. Holders' = Holders \ {p}
  BY DEF Holders
<1>2. CASE p \in Holders
  <2>1. Holders = {p} /\ semval = 1 /\ semadj[p] = -1
    BY <1>2
  <2>. QED  BY <1>1, <2>1
<1>3. CASE p \notin Holders
  <2>1. semadj[p] = 0 /\ Holders' = Holders
    BY <1>1, <1>3
  <2>2. semval' = semval
    BY <2>1
  <2>. QED  BY <2>1, <2>2
<1>. QED  BY <1>2, <1>3

(* A signal: without an interrupted constructor it moves nobody into or    *)
(* out of the critical section, and no destructor can fail.                *)
LEMMA DeliverStep ==
  ASSUME UninterruptedInv, PoolTypeOK', NEW p \in Pids, Deliver(p)
  PROVE  UninterruptedInv'
<1> USE DEF UninterruptedInv, Held, PoolTypeOK, Sem!SemTypeOK, Deliver, semVars, Goto,
            ReleaseThen
<1> SUFFICES ASSUME interrupted' = 0 PROVE Held'
  OBVIOUS
<1>1. interrupted = 0
  OBVIOUS
<1>2. ~(loc[p] = "release" /\ semval = 0)
  BY <1>1 DEF Holders
<1>3. Holders' = Holders
  BY <1>1, <1>2 DEF Holders
<1>. QED  BY <1>1, <1>3

LEMMA NextInv == UninterruptedInv /\ [PoolStep]_poolVars => UninterruptedInv'
<1> SUFFICES ASSUME UninterruptedInv, [PoolStep]_poolVars PROVE UninterruptedInv'
  OBVIOUS
<1>1. PoolTypeOK'
  BY PoolTypeStep DEF UninterruptedInv
<1>2. CASE UNCHANGED poolVars
  BY <1>1, <1>2, SameHolders DEF poolVars, procVars, semVars, Holders
<1>3. ASSUME NEW p \in Pids,
             \/ Test(p) \/ SelectReady(p) \/ SelectTimeout(p) \/ Accept(p)
             \/ AcceptFails(p) \/ Serve(p) \/ ServeFails(p)
             \/ \E s \in BOOLEAN : Spawn(p, s)
      PROVE  UninterruptedInv'
  <2>0. loc \in [Pids -> Locations]
    BY DEF UninterruptedInv, PoolTypeOK
  <2>1. Holders' = Holders
    <3>1. CASE Test(p) \/ SelectReady(p) \/ SelectTimeout(p)
      BY <2>0, <3>1 DEF Test, SelectReady, SelectTimeout, Goto, ReleaseThen, Holders
    <3>2. CASE Accept(p) \/ AcceptFails(p)
      BY <2>0, <3>2 DEF Accept, AcceptFails, Goto, ReleaseThen, Holders
    <3>3. CASE Serve(p) \/ ServeFails(p) \/ \E s \in BOOLEAN : Spawn(p, s)
      BY <2>0, <3>3 DEF Serve, ServeFails, Spawn, Goto, Holders
    <3>. QED  BY <1>3, <3>1, <3>2, <3>3
  <2>2. semval' = semval /\ semadj' = semadj /\ interrupted' = interrupted
    BY <1>3 DEF Test, SelectReady, SelectTimeout, Accept, AcceptFails, Serve,
                ServeFails, Spawn, semVars
  <2>. QED  BY <1>1, <2>1, <2>2, SameHolders
<1>4. ASSUME NEW c \in Conns, Connect(c) PROVE UninterruptedInv'
  BY <1>1, <1>4, SameHolders DEF Connect, procVars, semVars, Holders
<1>5. ASSUME NEW ps, Signal(ps) PROVE UninterruptedInv'
  BY <1>1, <1>5, SameHolders DEF Signal, semVars, Holders
<1>. QED  BY <1>1, <1>2, <1>3, <1>4, <1>5, AcquireStep, ReleaseStep, EndStep,
             DeliverStep DEF PoolStep, ChildStep, Advance, Semop

(* Until a constructor is interrupted, the semaphore of the pool is held   *)
(* by one child at most and by none that is gone.                          *)
THEOREM PoolSemaphore == PoolSpec => []UninterruptedInv
BY InitInv, NextInv, PoolAlone, PTL DEF PoolSpec

(* Until a constructor is interrupted, one child at most is between the    *)
(* constructor and the destructor, at the listening socket.                *)
THEOREM OneAcceptor ==
  PoolSpec => [](interrupted = 0 => \A p, q \in Acceptors : p = q)
<1>1. UninterruptedInv => (interrupted = 0 => \A p, q \in Acceptors : p = q)
  BY DEF UninterruptedInv, Held, Acceptors, Holders
<1>. QED  BY <1>1, PoolSemaphore, PTL

-----------------------------------------------------------------------------
(* Connections.  A child serves an open connection, on its way to serve it *)
(* or behind a failure to, and none is served by two or by nobody.         *)
OnItsWay(p) ==
  \/ loc[p] \in {"serve", "returned", "aborted"}
  \/ loc[p] = "release" /\ after[p] = "serve"

ServingInv ==
  /\ \A p \in Pids : serving[p] # NoConn =>
       conn[serving[p]] = "open" /\ OnItsWay(p)
  /\ \A p, q \in Pids : serving[p] = serving[q] /\ serving[p] # NoConn => p = q
  /\ \A c \in Conns : conn[c] = "open" => \E p \in Pids : serving[p] = c

LEMMA InitServing == PoolInit => ServingInv
BY DEF PoolInit, InitAt, ServingInv

(* A step that moves p alone, on its way or without a connection.          *)
LEMMA Moves ==
  ASSUME PoolTypeOK, ServingInv, NEW p \in Pids, UNCHANGED connVars,
         \A q \in Pids : q # p => loc'[q] = loc[q] /\ after'[q] = after[q],
         OnItsWay(p) => OnItsWay(p)'
  PROVE  ServingInv'
BY DEF ServingInv, OnItsWay, connVars

LEMMA AcceptServing ==
  ASSUME PoolTypeOK, ServingInv, NEW p \in Pids, Accept(p)
  PROVE  ServingInv'
<1>1. PICK c \in Queued : /\ conn' = [conn EXCEPT ![c] = "open"]
                          /\ serving' = [serving EXCEPT ![p] = c]
  BY DEF Accept
<1>2. /\ c \in Conns /\ conn[c] = "queued" /\ c # NoConn
      /\ \A q \in Pids : serving[q] # c
  BY DEF Queued, ServingInv
<1>3. serving[p] = NoConn
  BY DEF Accept, ServingInv, OnItsWay
<1>4. /\ OnItsWay(p)'
      /\ \A q \in Pids : q # p => loc'[q] = loc[q] /\ after'[q] = after[q]
  BY DEF Accept, ReleaseThen, Goto, OnItsWay, PoolTypeOK
<1>5. /\ serving'[p] = c /\ conn'[c] = "open"
      /\ \A q \in Pids : q # p => serving'[q] = serving[q]
      /\ \A d \in Conns : d # c => conn'[d] = conn[d]
  BY <1>1, <1>2 DEF PoolTypeOK
<1>6. \A q \in Pids : q # p /\ serving[q] # NoConn =>
        serving[q] \in Conns /\ serving[q] # c /\ OnItsWay(q)'
  BY <1>2, <1>4 DEF ServingInv, OnItsWay, PoolTypeOK
<1>7. \A d \in Conns : conn'[d] = "open" => \E q \in Pids : serving'[q] = d
  BY <1>3, <1>5 DEF ServingInv
<1>. QED  BY <1>2, <1>4, <1>5, <1>6, <1>7 DEF ServingInv

(* Close, or the end of the process: the connection of p is closed.        *)
LEMMA CloseServing ==
  ASSUME PoolTypeOK, ServingInv, NEW p \in Pids, Serve(p) \/ End(p)
  PROVE  ServingInv'
<1>1. /\ serving' = [serving EXCEPT ![p] = NoConn]
      /\ \A q \in Pids : q # p => loc'[q] = loc[q] /\ after'[q] = after[q]
  BY DEF Serve, End, Goto, PoolTypeOK
<1>2. \A c \in Conns : conn'[c] = IF c = serving[p] THEN "closed" ELSE conn[c]
  BY DEF Serve, End, PoolTypeOK
<1>3. /\ serving'[p] = NoConn
      /\ \A q \in Pids : q # p => serving'[q] = serving[q]
  BY <1>1 DEF PoolTypeOK
<1>4. \A q \in Pids : q # p /\ serving[q] # NoConn =>
        /\ serving[q] \in Conns /\ serving[q] # serving[p]
        /\ conn'[serving[q]] = "open" /\ OnItsWay(q)'
  BY <1>1, <1>2 DEF ServingInv, OnItsWay, PoolTypeOK
<1>5. \A c \in Conns : conn'[c] = "open" => \E q \in Pids : serving'[q] = c
  BY <1>2, <1>3 DEF ServingInv
<1>. QED  BY <1>3, <1>4, <1>5 DEF ServingInv

LEMMA NextServing == PoolTypeOK /\ ServingInv /\ [PoolStep]_poolVars => ServingInv'
<1> SUFFICES ASSUME PoolTypeOK, ServingInv, [PoolStep]_poolVars
             PROVE  ServingInv'
  OBVIOUS
<1>1. CASE UNCHANGED poolVars
  BY <1>1 DEF poolVars, procVars, connVars, ServingInv, OnItsWay
<1>2. ASSUME NEW p \in Pids,
             \/ Test(p) \/ SelectReady(p) \/ SelectTimeout(p) \/ AcceptFails(p)
             \/ Acquire(p) \/ Release(p) \/ ServeFails(p) \/ Deliver(p)
             \/ \E s \in BOOLEAN : Spawn(p, s)
      PROVE  ServingInv'
  <2>0. /\ loc \in [Pids -> Locations]
        /\ after \in [Pids -> {"test", "serve", "returned"}]
    BY DEF PoolTypeOK
  <2>1. /\ UNCHANGED connVars
        /\ \A q \in Pids : q # p => loc'[q] = loc[q] /\ after'[q] = after[q]
    <3>1. CASE \/ Test(p) \/ SelectReady(p) \/ SelectTimeout(p) \/ AcceptFails(p)
               \/ ServeFails(p)
      BY <2>0, <3>1 DEF Test, SelectReady, SelectTimeout, AcceptFails, ServeFails,
                        Goto, ReleaseThen
    <3>2. CASE \/ Acquire(p) \/ Release(p) \/ Deliver(p)
               \/ \E s \in BOOLEAN : Spawn(p, s)
      BY <2>0, <3>2 DEF Acquire, Release, Deliver, Spawn, Goto, ReleaseThen
    <3>. QED  BY <1>2, <3>1, <3>2
  <2>2. OnItsWay(p) => OnItsWay(p)'
    <3>1. CASE \/ Test(p) \/ SelectReady(p) \/ SelectTimeout(p) \/ AcceptFails(p)
               \/ ServeFails(p)
      BY <2>0, <3>1 DEF Test, SelectReady, SelectTimeout, AcceptFails, ServeFails,
                        Goto, ReleaseThen, OnItsWay
    <3>2. CASE \/ Acquire(p) \/ Release(p) \/ Deliver(p)
               \/ \E s \in BOOLEAN : Spawn(p, s)
      BY <2>0, <3>2 DEF Acquire, Release, Deliver, Spawn, Goto, ReleaseThen, OnItsWay
    <3>. QED  BY <1>2, <3>1, <3>2
  <2>. QED  BY <2>1, <2>2, Moves
<1>3. ASSUME NEW ps, Signal(ps)
      PROVE  ServingInv'
  BY <1>3 DEF Signal, connVars, ServingInv, OnItsWay
<1>4. ASSUME NEW c \in Conns, Connect(c)
      PROVE  ServingInv'
  BY <1>4 DEF Connect, procVars, ServingInv, OnItsWay, PoolTypeOK
<1>. QED  BY <1>1, <1>2, <1>3, <1>4, AcceptServing, CloseServing
             DEF PoolStep, ChildStep, Advance, Semop

LEMMA ServingHolds == PoolSpec => []ServingInv
<1>1. UninterruptedInv => PoolTypeOK
  BY DEF UninterruptedInv
<1>. QED  BY <1>1, InitServing, NextServing, PoolAlone, PoolSemaphore, PTL DEF PoolSpec

(* An accepted connection is open in exactly one child, which serves it or *)
(* has failed to: interrupted or not, and whoever dies.                    *)
THEOREM OneServer == PoolSpec => []OneServerPerClient
<1>1. ServingInv => OneServerPerClient
  BY DEF ServingInv, OnItsWay, OneServerPerClient
<1>. QED  BY <1>1, ServingHolds, PTL

-----------------------------------------------------------------------------
(* Clients.                                                                *)

(* Only an accept takes a client out of the queue.                         *)
LEMMA QueueKept ==
  ASSUME PoolTypeOK, ServingInv, [PoolStep]_poolVars,
         \A p \in Pids : ~Accept(p)
  PROVE  Queued \subseteq Queued'
<1>1. CASE UNCHANGED poolVars
  BY <1>1 DEF poolVars, connVars, Queued
<1>2. ASSUME NEW p \in Pids, Serve(p) \/ End(p)
      PROVE  Queued \subseteq Queued'
  <2>1. \A c \in Conns : conn'[c] = IF c = serving[p] THEN "closed" ELSE conn[c]
    BY <1>2 DEF Serve, End, PoolTypeOK
  <2>2. \A c \in Queued : c # serving[p]
    BY DEF Queued, ServingInv
  <2>. QED  BY <2>1, <2>2 DEF Queued
<1>3. ASSUME NEW p \in Pids,
             \/ Test(p) \/ SelectReady(p) \/ SelectTimeout(p) \/ AcceptFails(p)
             \/ Acquire(p) \/ Release(p) \/ ServeFails(p) \/ Deliver(p)
             \/ \E s \in BOOLEAN : Spawn(p, s)
      PROVE  Queued \subseteq Queued'
  <2>1. conn' = conn
    BY <1>3 DEF Test, SelectReady, SelectTimeout, AcceptFails, Acquire, Release,
                ServeFails, Deliver, Spawn, connVars
  <2>. QED  BY <2>1 DEF Queued
<1>4. ASSUME NEW c \in Conns, Connect(c)
      PROVE  Queued \subseteq Queued'
  BY <1>4 DEF Connect, Queued, PoolTypeOK
<1>5. ASSUME NEW ps, Signal(ps)
      PROVE  Queued \subseteq Queued'
  BY <1>5 DEF Signal, connVars, Queued
<1>. QED  BY <1>1, <1>2, <1>3, <1>4, <1>5 DEF PoolStep, ChildStep, Advance, Semop

LEMMA NextAcceptHasClient ==
  UninterruptedInv /\ UninterruptedInv' /\ ServingInv /\ AcceptHasClient
    /\ [PoolStep]_poolVars => AcceptHasClient'
<1> SUFFICES ASSUME UninterruptedInv, UninterruptedInv', ServingInv,
                    AcceptHasClient, [PoolStep]_poolVars,
                    TRUE \notin UninitResults, interrupted' = 0,
                    NEW p \in Pids, loc'[p] = "accept"
             PROVE  Queued' # {}
  BY DEF AcceptHasClient
<1>1. interrupted = 0
  <2>1. interrupted \in Nat
    BY DEF UninterruptedInv, PoolTypeOK
  <2>2. interrupted' = interrupted \/ interrupted' = interrupted + 1
    BY DEF poolVars, PoolStep, ChildStep, Advance, Semop, Test, SelectReady,
           SelectTimeout, AcceptFails, Acquire, Release, Accept, Serve,
           ServeFails, Deliver, Signal, Spawn, End, Connect
  <2>. QED  BY <2>1, <2>2
<1>2. \A q \in Pids : ~Accept(q)
  <2> SUFFICES ASSUME NEW q \in Pids, Accept(q)
               PROVE  FALSE
    OBVIOUS
  <2>1. loc[q] = "accept" /\ loc'[q] = "release" /\ loc'[p] = "accept"
    BY DEF Accept, ReleaseThen, Goto, UninterruptedInv, PoolTypeOK
  <2>2. loc[p] = "accept" /\ p # q
    BY <2>1 DEF Accept, ReleaseThen, Goto, UninterruptedInv, PoolTypeOK
  <2>. QED  BY <1>1, <2>1, <2>2 DEF UninterruptedInv, Held, Holders
<1>3. Queued \subseteq Queued'
  BY <1>2, QueueKept DEF UninterruptedInv
<1>4. Queued # {}
  <2>1. CASE loc[p] = "accept"
    BY <1>1, <2>1 DEF AcceptHasClient
  <2>2. CASE loc[p] # "accept"
    <3>0. loc \in [Pids -> Locations] /\ loc' # loc
      BY <2>2 DEF UninterruptedInv, PoolTypeOK
    <3>1. PICK q \in Pids : ChildStep(q) \/ End(q) \/ \E s \in BOOLEAN : Spawn(q, s)
      BY <3>0 DEF poolVars, procVars, PoolStep, Signal, Connect
    <3>2. \A r \in Pids : r # q => loc'[r] = loc[r]
      BY <3>0, <3>1 DEF ChildStep, Advance, Semop, Test, SelectReady,
             SelectTimeout, AcceptFails, Acquire, Release, Accept, Serve,
             ServeFails, Deliver, Spawn, End, Goto, ReleaseThen
    <3>3. q = p
      BY <2>2, <3>2
    <3>4. ~(\/ Acquire(p) \/ Release(p) \/ Deliver(p) \/ End(p)
            \/ \E s \in BOOLEAN : Spawn(p, s))
      BY <2>2, <3>0 DEF Acquire, Release, Deliver, End, Spawn, Goto, ReleaseThen,
             UninterruptedInv, PoolTypeOK
    <3>5. ~(Test(p) \/ SelectTimeout(p) \/ AcceptFails(p) \/ Accept(p)
              \/ Serve(p) \/ ServeFails(p))
      BY <2>2, <3>0 DEF Test, SelectTimeout, AcceptFails, Accept, Serve,
             ServeFails, Goto, ReleaseThen
    <3>6. SelectReady(p)
      BY <3>1, <3>3, <3>4, <3>5 DEF ChildStep, Advance, Semop
    <3>. QED  BY <3>6 DEF SelectReady
  <2>. QED  BY <2>1, <2>2
<1>. QED  BY <1>3, <1>4

(* A child in accept() has a client to accept, until a constructor is      *)
(* interrupted, where no unassigned wResult reads true.                    *)
THEOREM ClientForAccept == PoolSpec => []AcceptHasClient
<1>1. PoolInit => AcceptHasClient
  BY DEF PoolInit, InitAt, AcceptHasClient
<1>. QED
  BY <1>1, NextAcceptHasClient, PoolAlone, PoolSemaphore, ServingHolds, PTL
     DEF PoolSpec

-----------------------------------------------------------------------------
(* Parent and children together.                                           *)

(* What the whole server does is, for its parent, what a parent does, and  *)
(* for its children what a pool does.                                      *)
LEMMA ParentPart == [ServerNext]_serverVars => [AnyStep]_vars
<1> SUFFICES ASSUME [ServerNext]_serverVars PROVE [AnyStep]_vars
  OBVIOUS
<1>1. CASE SignalPool \/ ParentAlone \/ RequestShutdown
  BY <1>1 DEF SignalPool, ParentAlone, RequestShutdown, AnyStep, ParentStep
<1>2. ASSUME NEW p \in Pids, ForkChild(p) \/ CrashChild(p)
      PROVE  AnyStep
  BY <1>2 DEF ForkChild, CrashChild, AnyStep, ParentStep
<1>3. ASSUME NEW p \in Pids, EndChild(p)
      PROVE  AnyStep
  <2>1. PICK rc \in 0 .. 255 : ChildExit(p, rc)
    BY <1>3 DEF EndChild
  <2>. QED  BY <2>1 DEF AnyStep
<1>4. ASSUME NEW p \in Pids, ChildAlone(p) \/ TermChild(p)
      PROVE  UNCHANGED vars
  BY <1>4 DEF ChildAlone, TermChild
<1>5. ASSUME NEW c \in Conns, ConnectClient(c)
      PROVE  UNCHANGED vars
  BY <1>5 DEF ConnectClient
<1>. QED  BY <1>1, <1>2, <1>3, <1>4, <1>5 DEF ServerNext, serverVars

LEMMA PoolPart == TypeOK /\ TypeOK' /\ [ServerNext]_serverVars => [PoolStep]_poolVars
<1> SUFFICES ASSUME TypeOK, TypeOK', [ServerNext]_serverVars
             PROVE  [PoolStep]_poolVars
  OBVIOUS
<1>1. CASE SignalPool
  <2>1. signalled' \in SUBSET (Pids \cup {Garbage})
    BY DEF TypeOK
  <2>. QED  BY <1>1, <2>1 DEF SignalPool, PoolStep
<1>2. CASE ParentAlone \/ RequestShutdown
  BY <1>2 DEF ParentAlone, RequestShutdown
<1>3. ASSUME NEW p \in Pids, ForkChild(p)
      PROVE  PoolStep
  BY <1>3 DEF ForkChild, PoolStep, TypeOK
<1>4. ASSUME NEW p \in Pids, EndChild(p) \/ CrashChild(p) \/ ChildAlone(p)
      PROVE  PoolStep
  BY <1>4 DEF EndChild, CrashChild, ChildAlone, PoolStep
<1>5. ASSUME NEW p \in Pids, TermChild(p)
      PROVE  PoolStep
  <2>1. {p} \in SUBSET (Pids \cup {Garbage})
    OBVIOUS
  <2>. QED  BY <1>5, <2>1 DEF TermChild, PoolStep
<1>6. ASSUME NEW c \in Conns, ConnectClient(c)
      PROVE  PoolStep
  BY <1>6 DEF ConnectClient, PoolStep
<1>. QED  BY <1>1, <1>2, <1>3, <1>4, <1>5, <1>6 DEF ServerNext, serverVars

(* The parent keeps its list and finds every child in it, with children    *)
(* that run WaitForCall as with any others.                                *)
THEOREM ServerList == ServerSpec => [](TrackedInv /\ KilledAll)
<1>1. ServerInit => TrackedInv /\ KilledAll
  BY InitTracked DEF ServerInit, Init, KilledAll
<1>2. TrackedInv /\ KilledAll /\ [ServerNext]_serverVars => (TrackedInv /\ KilledAll)'
  BY ParentPart, NextTracked, NextKilledAll
<1>. QED  BY <1>1, <1>2, PTL DEF ServerSpec

LEMMA ServerTypes == ServerSpec => []TypeOK
<1>1. TrackedInv => TypeOK
  BY DEF TrackedInv
<1>. QED  BY <1>1, ServerList, PTL

(* The semaphore of the children, the connections and the clients, with    *)
(* children that the parent forks in the place of others.                  *)
THEOREM ServerPool ==
  ServerSpec => [](UninterruptedInv /\ OneServerPerClient /\ AcceptHasClient)
<1>1. ServerInit => UninterruptedInv /\ ServingInv /\ AcceptHasClient
  <2>1. NoPool => UninterruptedInv
    BY DEF NoPool, InitAt, UninterruptedInv, Held, PoolTypeOK, Locations, Holders,
           Sem!SemInit, Sem!SemTypeOK
  <2>2. NoPool => ServingInv /\ AcceptHasClient
    BY DEF NoPool, InitAt, ServingInv, AcceptHasClient
  <2>. QED  BY <2>1, <2>2 DEF ServerInit
<1>2. TypeOK /\ TypeOK' /\ UninterruptedInv /\ ServingInv /\ AcceptHasClient
        /\ [ServerNext]_serverVars
        => (UninterruptedInv /\ ServingInv /\ AcceptHasClient)'
  <2>1. UninterruptedInv => PoolTypeOK
    BY DEF UninterruptedInv
  <2>. QED  BY <2>1, PoolPart, NextInv, NextServing, NextAcceptHasClient
<1>3. ServingInv => OneServerPerClient
  BY DEF ServingInv, OnItsWay, OneServerPerClient
<1>. QED  BY <1>1, <1>2, <1>3, ServerTypes, PTL DEF ServerSpec

(* In service no child has been signalled, so none was interrupted: only   *)
(* the parent that shuts down and the operator send signals.               *)
QuietInv ==
  /\ terms \in Nat
  /\ ~shutdown /\ terms = 0 =>
       interrupted = 0 /\ \A p \in Pids : ~flag[p] /\ ~pending[p]

LEMMA NextQuiet ==
  TypeOK /\ PoolTypeOK /\ QuietInv /\ [ServerNext]_serverVars => QuietInv'
<1> SUFFICES ASSUME TypeOK, PoolTypeOK, QuietInv, [ServerNext]_serverVars
             PROVE  QuietInv'
  OBVIOUS
<1> USE DEF QuietInv
<1>1. CASE UNCHANGED serverVars
  BY <1>1 DEF serverVars, vars, parentVars, poolVars, procVars
<1>2. CASE SignalPool \/ RequestShutdown
  BY <1>2 DEF SignalPool, KillChildren, RequestShutdown, ShutdownSignal
<1>3. CASE ParentAlone
  <2>1. shutdown' = shutdown
    BY <1>3 DEF ParentAlone, ForkFails, Detach, Nap, Reap
  <2>. QED  BY <1>3, <2>1 DEF ParentAlone, poolVars, procVars
<1>4. ASSUME NEW p \in Pids, ForkChild(p)
      PROVE  QuietInv'
  BY <1>4 DEF ForkChild, Fork, Spawn, PoolTypeOK
<1>5. ASSUME NEW p \in Pids, EndChild(p) \/ CrashChild(p)
      PROVE  QuietInv'
  <2>1. shutdown' = shutdown /\ terms' = terms /\ End(p)
    BY <1>5 DEF EndChild, CrashChild, ChildExit, ChildCrash, parentVars
  <2>. QED  BY <2>1 DEF End, PoolTypeOK
<1>6. ASSUME NEW p \in Pids, TermChild(p)
      PROVE  QuietInv'
  BY <1>6 DEF TermChild
<1>7. ASSUME NEW p \in Pids, ChildAlone(p)
      PROVE  QuietInv'
  <2>1. shutdown' = shutdown /\ terms' = terms /\ ChildStep(p)
    BY <1>7 DEF ChildAlone, vars, parentVars
  <2>2. CASE Deliver(p)
    BY <2>1, <2>2 DEF Deliver
  <2>3. CASE ~Deliver(p)
    <3>1. CASE Test(p) \/ SelectReady(p) \/ SelectTimeout(p)
      BY <2>1, <3>1 DEF Test, SelectReady, SelectTimeout
    <3>2. CASE Acquire(p) \/ Release(p)
      BY <2>1, <3>2 DEF Acquire, Release
    <3>3. CASE AcceptFails(p) \/ Accept(p) \/ Serve(p) \/ ServeFails(p)
      BY <2>1, <3>3 DEF AcceptFails, Accept, Serve, ServeFails
    <3>. QED  BY <2>1, <2>3, <3>1, <3>2, <3>3 DEF ChildStep, Advance, Semop
  <2>. QED  BY <2>2, <2>3
<1>8. ASSUME NEW c \in Conns, ConnectClient(c)
      PROVE  QuietInv'
  BY <1>8 DEF ConnectClient, Connect, vars, parentVars, procVars
<1>. QED  BY <1>1, <1>2, <1>3, <1>4, <1>5, <1>6, <1>7, <1>8 DEF ServerNext

(* Between start and shutdown one child at most is at the listening        *)
(* socket, as long as no operator signals a child: whatever children fail, *)
(* die with the semaphore held or are forked in their place.               *)
THEOREM OneAcceptorHolds == ServerSpec => []OneAcceptorInService
<1>1. ServerInit => QuietInv
  BY DEF ServerInit, NoPool, InitAt, QuietInv
<1>2. UninterruptedInv => PoolTypeOK
  BY DEF UninterruptedInv
<1>3. UninterruptedInv /\ QuietInv => OneAcceptorInService
  <2> SUFFICES ASSUME UninterruptedInv, QuietInv, ~shutdown, terms = 0
               PROVE  Cardinality(Acceptors) <= 1
    BY DEF OneAcceptorInService
  <2>1. \A p, q \in Acceptors : p = q
    BY DEF QuietInv, UninterruptedInv, Held, Acceptors, Holders
  <2>2. CASE Acceptors = {}
    BY <2>2, FS_EmptySet
  <2>3. CASE Acceptors # {}
    <3>1. PICK p \in Acceptors : TRUE
      BY <2>3
    <3>2. Acceptors = {p}
      BY <2>1, <3>1
    <3>. QED  BY <3>2, FS_Singleton
  <2>. QED  BY <2>2, <2>3
<1>4. QuietInv /\ TypeOK /\ PoolTypeOK /\ [ServerNext]_serverVars => QuietInv'
  BY NextQuiet
<1>. QED  BY <1>1, <1>2, <1>3, <1>4, ServerTypes, ServerPool, PTL DEF ServerSpec

(* The processes that run for the parent are those that are somewhere in   *)
(* WaitForCall, since nobody stops one of this pool.                       *)
Together ==
  /\ budget.stops = 0
  /\ \A p \in Pids : child[p] = "running" <=> loc[p] # "none"

LEMMA NextTogether ==
  TrackedInv /\ PoolTypeOK /\ Together /\ [ServerNext]_serverVars => Together'
<1> SUFFICES ASSUME TrackedInv, PoolTypeOK, Together, [ServerNext]_serverVars
             PROVE  Together'
  OBVIOUS
<1> USE DEF Together
<1>0. TypeOK /\ \A p \in Pids : child[p] \in {"free", "running", "zombie"}
  BY DEF TrackedInv, ExactList
<1>1. CASE UNCHANGED serverVars
  BY <1>1 DEF serverVars, vars, childVars, poolVars, procVars
<1>2. CASE SignalPool
  BY <1>2 DEF SignalPool, KillChildren, Signal, childVars
<1>3. CASE ParentAlone \/ RequestShutdown
  <2>1. budget'.stops = 0
    BY <1>0, <1>3 DEF ParentAlone, RequestShutdown, ForkFails, Detach, Nap, Reap,
                      ShutdownSignal, childVars, TypeOK
  <2>2. \A p \in Pids : child'[p] = "running" <=> child[p] = "running"
    BY <1>0, <1>3 DEF ParentAlone, RequestShutdown, ForkFails, Detach, Nap, Reap,
                      ShutdownSignal, childVars, TypeOK
  <2>. QED  BY <1>3, <2>1, <2>2 DEF ParentAlone, RequestShutdown, poolVars, procVars
<1>4. ASSUME NEW p \in Pids, ForkChild(p)
      PROVE  Together'
  BY <1>0, <1>4 DEF ForkChild, Fork, Spawn, Goto, TypeOK, PoolTypeOK
<1>5. ASSUME NEW p \in Pids, EndChild(p) \/ CrashChild(p)
      PROVE  Together'
  <2>1. /\ child' = [child EXCEPT ![p] = EndedState] /\ budget'.stops = 0
        /\ End(p)
    BY <1>0, <1>5 DEF EndChild, CrashChild, ChildExit, ChildCrash, TypeOK
  <2>2. EndedState # "running"
    BY DEF EndedState
  <2>. QED  BY <1>0, <2>1, <2>2 DEF End, Goto, TypeOK, PoolTypeOK
<1>6. ASSUME NEW p \in Pids, TermChild(p)
      PROVE  Together'
  BY <1>6 DEF TermChild, vars, childVars, Signal
<1>7. ASSUME NEW p \in Pids, ChildAlone(p)
      PROVE  Together'
  <2>1. child' = child /\ budget' = budget /\ ChildStep(p)
    BY <1>7 DEF ChildAlone, vars, childVars
  <2>2. loc \in [Pids -> Locations] /\ after[p] \in {"test", "serve", "returned"}
    BY DEF PoolTypeOK
  <2>3. \/ loc' = loc
        \/ loc[p] # "none" /\ \E l \in Locations \ {"none"} : Goto(p, l)
    <3>1. CASE Test(p) \/ SelectReady(p) \/ Acquire(p)
      BY <3>1 DEF Test, SelectReady, Acquire, Locations
    <3>2. CASE SelectTimeout(p)
      BY <3>2 DEF SelectTimeout, ReleaseThen, Locations
    <3>3. CASE AcceptFails(p) \/ Accept(p)
      BY <3>3 DEF AcceptFails, Accept, ReleaseThen, Locations
    <3>4. CASE Release(p)
      BY <3>4, <2>2 DEF Release, Locations
    <3>5. CASE Serve(p) \/ ServeFails(p)
      BY <3>5 DEF Serve, ServeFails, Locations
    <3>6. CASE Deliver(p)
      BY <3>6 DEF Deliver, ReleaseThen, Locations
    <3>. QED  BY <2>1, <3>1, <3>2, <3>3, <3>4, <3>5, <3>6
         DEF ChildStep, Advance, Semop
  <2>4. \A q \in Pids : loc'[q] = "none" <=> loc[q] = "none"
    BY <2>2, <2>3 DEF Goto
  <2>. QED  BY <2>1, <2>4
<1>8. ASSUME NEW c \in Conns, ConnectClient(c)
      PROVE  Together'
  BY <1>8 DEF ConnectClient, Connect, vars, childVars, procVars
<1>. QED  BY <1>1, <1>2, <1>3, <1>4, <1>5, <1>6, <1>7, <1>8 DEF ServerNext

LEMMA NextReached ==
  TrackedInv /\ PoolTypeOK /\ Together /\ Together' /\ ShutdownReachesAll
    /\ [ServerNext]_serverVars => ShutdownReachesAll'
<1> SUFFICES ASSUME TrackedInv, PoolTypeOK, Together, Together', ShutdownReachesAll,
                    [ServerNext]_serverVars, outcome' = "killed",
                    NEW p \in Pids, child'[p] = "running"
             PROVE  flag'[p] \/ pending'[p]
  BY DEF ShutdownReachesAll
<1>0. TypeOK /\ ExactList
  BY DEF TrackedInv, Together
<1>1. CASE UNCHANGED serverVars
  BY <1>1 DEF serverVars, vars, parentVars, childVars, poolVars, procVars,
              ShutdownReachesAll
<1>2. CASE SignalPool
  <2>1. outcome = "looping" /\ child' = child /\ Signal(signalled')
        /\ signalled' = {list[i] : i \in Slots} \ {NoPid}
    BY <1>2 DEF SignalPool, KillChildren, PoolFull, childVars
  <2>2. PICK i \in Slots : list[i] = p
    BY <1>0, <2>1 DEF ExactList, Unreaped
  <2>3. p \in signalled' /\ loc[p] # "none"
    BY <2>1, <2>2 DEF Together
  <2>. QED  BY <2>1, <2>3 DEF Signal
<1>3. CASE ParentAlone \/ RequestShutdown \/ \E q \in Pids : ForkChild(q)
  BY <1>3 DEF ParentAlone, RequestShutdown, ForkChild, Fork, PoolShort, ForkFails,
              Detach, Nap, Reap, Polling, PoolFull, ReturnIfDrained, ShutdownSignal
<1>4. ASSUME NEW q \in Pids, EndChild(q) \/ CrashChild(q)
      PROVE  flag'[p] \/ pending'[p]
  <2>1. /\ child' = [child EXCEPT ![q] = EndedState] /\ outcome' = outcome
        /\ End(q)
    BY <1>4 DEF EndChild, CrashChild, ChildExit, ChildCrash, parentVars
  <2>2. EndedState # "running"
    BY DEF EndedState
  <2>3. p # q /\ child[p] = "running"
    BY <1>0, <2>1, <2>2 DEF TypeOK
  <2>. QED  BY <2>1, <2>3 DEF End, PoolTypeOK, ShutdownReachesAll
<1>5. ASSUME NEW q \in Pids, TermChild(q)
      PROVE  flag'[p] \/ pending'[p]
  BY <1>5 DEF TermChild, vars, parentVars, childVars, Signal, ShutdownReachesAll
<1>6. ASSUME NEW q \in Pids, ChildAlone(q)
      PROVE  flag'[p] \/ pending'[p]
  <2>1. child' = child /\ outcome' = outcome /\ ChildStep(q)
    BY <1>6 DEF ChildAlone, vars, parentVars, childVars
  <2>2. flag[p] \/ pending[p]
    BY <2>1 DEF ShutdownReachesAll
  <2>3. CASE Deliver(q)
    BY <2>2, <2>3 DEF Deliver, PoolTypeOK
  <2>4. CASE ~Deliver(q)
    BY <2>1, <2>2, <2>4 DEF ChildStep, Advance, Semop, Test, SelectReady,
           SelectTimeout, AcceptFails, Acquire, Release, Accept, Serve, ServeFails
  <2>. QED  BY <2>3, <2>4
<1>7. ASSUME NEW c \in Conns, ConnectClient(c)
      PROVE  flag'[p] \/ pending'[p]
  BY <1>7 DEF ConnectClient, Connect, vars, parentVars, childVars, procVars,
              ShutdownReachesAll
<1>. QED  BY <1>1, <1>2, <1>3, <1>4, <1>5, <1>6, <1>7 DEF ServerNext

(* A shutdown request reaches every child that is left when the parent     *)
(* returns: by the signal, or by the flag that a child forked after the    *)
(* request has inherited.                                                  *)
THEOREM ShutdownReaches == ServerSpec => []ShutdownReachesAll
<1>1. ServerInit => Together /\ ShutdownReachesAll
  BY DEF ServerInit, Init, NoPool, InitAt, Together, ShutdownReachesAll
<1>2. UninterruptedInv => PoolTypeOK
  BY DEF UninterruptedInv
<1>. QED  BY <1>1, <1>2, NextTogether, NextReached, ServerList, ServerPool, PTL
          DEF ServerSpec
-----------------------------------------------------------------------------
(* The request that a child reads.                                         *)

HIDE WaitForCallAssumption
HIDE SupervisorAssumption

(* s is what stands behind position b of t.                                *)
FromTo(s, t, b) == \A i \in 1 .. Len(s) : s[i] = t[b + i]

LEMMA WindowJoin ==
  ASSUME NEW S, NEW t, NEW s \in Seq(S), NEW u \in Seq(S), NEW b \in Int,
         FromTo(s, t, b), FromTo(u, t, b + Len(s))
  PROVE  /\ s \o u \in Seq(S) /\ Len(s \o u) = Len(s) + Len(u)
         /\ FromTo(s \o u, t, b)
<1>1. /\ s \o u \in Seq(S) /\ Len(s \o u) = Len(s) + Len(u)
      /\ \A i \in 1 .. Len(s) + Len(u) :
           (s \o u)[i] = IF i <= Len(s) THEN s[i] ELSE u[i - Len(s)]
  BY ConcatProperties
<1>2. Len(s) \in Nat /\ Len(u) \in Nat
  BY LenProperties
<1>3. ASSUME NEW i \in 1 .. Len(s) + Len(u)
      PROVE  (s \o u)[i] = t[b + i]
  <2>1. CASE i <= Len(s)
    <3>1. i \in 1 .. Len(s)
      BY <1>2, <2>1
    <3>. QED  BY <1>1, <2>1, <3>1 DEF FromTo
  <2>2. CASE ~(i <= Len(s))
    <3>1. i - Len(s) \in 1 .. Len(u) /\ b + Len(s) + (i - Len(s)) = b + i
      BY <1>2, <2>2
    <3>2. (s \o u)[i] = u[i - Len(s)]
      BY <1>1, <2>2
    <3>3. u[i - Len(s)] = t[b + Len(s) + (i - Len(s))]
      BY <3>1 DEF FromTo
    <3>. QED  BY <3>1, <3>2, <3>3
  <2>. QED  BY <2>1, <2>2
<1>. QED  BY <1>1, <1>3 DEF FromTo

LEMMA WindowNext ==
  ASSUME NEW S, NEW t, NEW s \in Seq(S), NEW u \in Seq(S), NEW b \in Int,
         NEW c \in Int, c = b + Len(s), FromTo(s, t, b), FromTo(u, t, c)
  PROVE  /\ s \o u \in Seq(S) /\ Len(s \o u) = Len(s) + Len(u)
         /\ FromTo(s \o u, t, b)
<1>1. FromTo(u, t, b + Len(s))
  OBVIOUS
<1>. QED  BY <1>1, WindowJoin

(* What SubSeq cuts out.                                                   *)
LEMMA WindowCut ==
  ASSUME NEW S, NEW t \in Seq(S), NEW m \in 1 .. Len(t) + 1,
         NEW n \in m - 1 .. Len(t)
  PROVE  /\ SubSeq(t, m, n) \in Seq(S) /\ Len(SubSeq(t, m, n)) = n - (m - 1)
         /\ FromTo(SubSeq(t, m, n), t, m - 1)
<1>1. Len(t) \in Nat /\ m \in Nat /\ n \in Nat /\ \A i \in 1 .. Len(t) : t[i] \in S
  BY LenProperties, ElementOfSeq
<1>2. \A i \in m .. n : t[i] \in S
  BY <1>1
<1>3. /\ SubSeq(t, m, n) \in Seq(S)
      /\ Len(SubSeq(t, m, n)) = IF m <= n THEN n - m + 1 ELSE 0
      /\ \A i \in 1 .. n - m + 1 : SubSeq(t, m, n)[i] = t[m + i - 1]
  BY <1>1, <1>2, SubSeqProperties
<1>4. (IF m <= n THEN n - m + 1 ELSE 0) = n - (m - 1)
  BY <1>1
<1>5. ASSUME NEW i \in 1 .. n - (m - 1)
      PROVE  SubSeq(t, m, n)[i] = t[m - 1 + i]
  <2>1. i \in 1 .. n - m + 1 /\ m + i - 1 = m - 1 + i
    BY <1>1
  <2>2. SubSeq(t, m, n)[i] = t[m + i - 1]
    BY <1>3, <2>1
  <2>. QED  BY <2>1, <2>2
<1>. QED  BY <1>3, <1>4, <1>5 DEF FromTo

LEMMA WindowAt ==
  ASSUME NEW S, NEW t \in Seq(S), NEW b \in Nat, NEW n \in Nat, b + n <= Len(t)
  PROVE  /\ SubSeq(t, b + 1, b + n) \in Seq(S) /\ Len(SubSeq(t, b + 1, b + n)) = n
         /\ FromTo(SubSeq(t, b + 1, b + n), t, b)
<1> DEFINE m == b + 1
           k == b + n
<1>1. Len(t) \in Nat
  BY LenProperties
<1>2. m \in 1 .. Len(t) + 1 /\ k \in m - 1 .. Len(t) /\ k - (m - 1) = n /\ m - 1 = b
  BY <1>1
<1> HIDE DEF m, k
<1>3. /\ SubSeq(t, m, k) \in Seq(S) /\ Len(SubSeq(t, m, k)) = k - (m - 1)
      /\ FromTo(SubSeq(t, m, k), t, m - 1)
  BY <1>2, WindowCut
<1>4. /\ SubSeq(t, m, k) \in Seq(S) /\ Len(SubSeq(t, m, k)) = n
      /\ FromTo(SubSeq(t, m, k), t, b)
  BY <1>2, <1>3
<1>. QED  BY <1>4 DEF m, k

(* What stands behind a position is the sequence that is cut out there.    *)
LEMMA WindowIs ==
  ASSUME NEW S, NEW t \in Seq(S), NEW s \in Seq(S), NEW b \in Nat,
         b + Len(s) <= Len(t), FromTo(s, t, b)
  PROVE  s = SubSeq(t, b + 1, b + Len(s))
<1>1. Len(s) \in Nat /\ Len(t) \in Nat
  BY LenProperties
<1> DEFINE w == SubSeq(t, b + 1, b + Len(s))
<1>2. w \in Seq(S) /\ Len(w) = Len(s) /\ FromTo(w, t, b)
  BY <1>1, WindowAt
<1> HIDE DEF w
<1>3. \A i \in 1 .. Len(s) : s[i] = w[i]
  BY <1>2 DEF FromTo
<1>4. s = w
  BY <1>2, <1>3, SeqEqual
<1>. QED  BY <1>4 DEF w

(* The end of what stands somewhere stands further on.                     *)
LEMMA WindowTail ==
  ASSUME NEW S, NEW t, NEW s \in Seq(S), NEW b \in Int,
         NEW k \in 1 .. Len(s) + 1, FromTo(s, t, b)
  PROVE  /\ SubSeq(s, k, Len(s)) \in Seq(S)
         /\ Len(SubSeq(s, k, Len(s))) = Len(s) - (k - 1)
         /\ FromTo(SubSeq(s, k, Len(s)), t, b + (k - 1))
<1>1. Len(s) \in Nat /\ k \in Nat /\ Len(s) \in k - 1 .. Len(s)
  BY LenProperties
<1> DEFINE w == SubSeq(s, k, Len(s))
<1>2. w \in Seq(S) /\ Len(w) = Len(s) - (k - 1) /\ FromTo(w, s, k - 1)
  BY <1>1, WindowCut
<1> HIDE DEF w
<1>3. ASSUME NEW i \in 1 .. Len(w)
      PROVE  w[i] = t[b + (k - 1) + i]
  <2>1. k - 1 + i \in 1 .. Len(s) /\ b + (k - 1) + i = b + (k - 1 + i)
    BY <1>1, <1>2
  <2>2. w[i] = s[k - 1 + i] /\ s[k - 1 + i] = t[b + (k - 1 + i)]
    BY <1>2, <2>1 DEF FromTo
  <2>. QED  BY <2>1, <2>2
<1>. QED  BY <1>2, <1>3 DEF FromTo, w

LEMMA WindowEnd ==
  ASSUME NEW S, NEW t, NEW s \in Seq(S), NEW k \in 1 .. Len(s) + 1, FromTo(s, t, 0)
  PROVE  /\ SubSeq(s, k, Len(s)) \in Seq(S)
         /\ Len(SubSeq(s, k, Len(s))) = Len(s) - (k - 1)
         /\ FromTo(SubSeq(s, k, Len(s)), t, k - 1)
<1>1. 0 + (k - 1) = k - 1 /\ 0 \in Int
  BY LenProperties
<1>2. /\ SubSeq(s, k, Len(s)) \in Seq(S)
      /\ Len(SubSeq(s, k, Len(s))) = Len(s) - (k - 1)
      /\ FromTo(SubSeq(s, k, Len(s)), t, 0 + (k - 1))
  BY <1>1, WindowTail
<1>. QED  BY <1>1, <1>2

(* A set of natural numbers has a least element, and Min finds it.         *)
LEMMA LeastElement ==
  ASSUME NEW T \in SUBSET Nat, T # {}
  PROVE  Min(T) \in T /\ \A y \in T : Min(T) <= y
<1> DEFINE R == OpToRel(<, Nat)
<1>1. IsWellFoundedOn(R, Nat)
  BY NatLessThanWellFounded
<1>2. \A x, y \in Nat : <<y, x>> \in R <=> y < x
  BY DEF OpToRel
<1> HIDE DEF R
<1>3. PICK x \in T : \A y \in T : ~(<<y, x>> \in R)
  BY <1>1, WFMin
<1>4. ASSUME NEW y \in T
      PROVE  x <= y
  <2>1. x \in Nat /\ y \in Nat
    OBVIOUS
  <2>2. ~(y < x)
    BY <1>2, <1>3, <2>1
  <2>. QED  BY <2>1, <2>2
<1>5. \E z \in T : \A y \in T : z <= y
  BY <1>4
<1>. QED  BY <1>5 DEF Min

-----------------------------------------------------------------------------
(* The headers came without a pause, and the body is as long as they say.  *)
Exact == bp = BlankAt + 1 /\ "expect" \notin Kinds /\ request.length = Len(Body)

(* What has been read of a text is in the two buffers, in order.           *)
StreamInv ==
  /\ "nul" \notin Kinds
  /\ request \in Requests /\ sent \in 0 .. Len(Tokens) /\ got \in 0 .. sent
  /\ phase \in {"first", "body", "authorized"}
  /\ pc \in {"wait", "headers", "continue"} => phase = "first"
  /\ pc = "loop" => phase = "body"
  /\ buffer \in Seq(TokenKinds) /\ added \in Seq(TokenKinds)
  /\ phase # "body" \/ pc \in {"loop", "returned"} => added = <<>>
  /\ Len(buffer) + Len(added) <= got
  /\ phase # "authorized" => Len(buffer) + Len(added) = got
  /\ FromTo(buffer, Tokens, got - (Len(buffer) + Len(added)))
  /\ FromTo(added, Tokens, got - Len(added))

(* What loadHeaders has found.                                             *)
HeadInv ==
  /\ phase = "body" => bp \in 1 .. Len(buffer) + 1 /\ contentLength \in Nat
  /\ phase = "body" /\ Exact => contentLength = request.length
  /\ phase = "authorized" \/ pc = "continue" => "expect" \in Kinds

(* What readRequest has returned.                                          *)
ReturnedInv ==
  pc = "returned" /\ ~moved =>
    /\ input \in Seq(TokenKinds) /\ Len(input) <= got
    /\ FromTo(input, Tokens, got - Len(input))
    /\ Exact => got = Len(Tokens) /\ Len(input) = got - BlankAt

RequestInv == StreamInv /\ HeadInv /\ ReturnedInv

LEMMA RequestType ==
  ASSUME request \in Requests
  PROVE  /\ Tokens \in Seq(TokenKinds) /\ Len(Tokens) \in Nat /\ request.length \in Nat
         /\ request.length > 0 => \E j \in 3 .. Len(Tokens) :
              Tokens[j] = "length" /\ \A i \in 1 .. j : Tokens[i] # "blank"
<1>1. /\ Tokens \in Seq(TokenKinds) /\ request.length \in Nat
      /\ request.length > 0 => \E j \in 3 .. Len(Tokens) :
           Tokens[j] = "length" /\ \A i \in 1 .. j : Tokens[i] # "blank"
  BY HttpRequestAssumption DEF Tokens
<1>. QED  BY <1>1, LenProperties

LEMMA BlankIs ==
  ASSUME request \in Requests
  PROVE  /\ BlankAt \in 1 .. Len(Tokens) + 1
         /\ BlankAt <= Len(Tokens) =>
              Tokens[BlankAt] = "blank" /\ Len(Body) = Len(Tokens) - BlankAt
         /\ \A j \in 1 .. Len(Tokens) : Tokens[j] = "blank" => BlankAt <= j
<1> DEFINE T == {j \in 1 .. Len(Tokens) : Tokens[j] = "blank"} \cup {Len(Tokens) + 1}
<1>1. Tokens \in Seq(TokenKinds) /\ Len(Tokens) \in Nat
  BY RequestType
<1>2. T \in SUBSET Nat /\ T # {} /\ BlankAt = Min(T)
  BY <1>1 DEF BlankAt
<1>3. BlankAt \in T /\ \A y \in T : BlankAt <= y
  BY <1>2, LeastElement
<1>4. BlankAt \in 1 .. Len(Tokens) + 1
  BY <1>1, <1>3
<1>5. ASSUME BlankAt <= Len(Tokens)
      PROVE  Tokens[BlankAt] = "blank" /\ Len(Body) = Len(Tokens) - BlankAt
  <2>1. Tokens[BlankAt] = "blank"
    BY <1>1, <1>3, <1>5
  <2>2. /\ BlankAt + 1 \in 1 .. Len(Tokens) + 1
        /\ Len(Tokens) \in (BlankAt + 1) - 1 .. Len(Tokens)
        /\ Len(Tokens) - ((BlankAt + 1) - 1) = Len(Tokens) - BlankAt
    BY <1>1, <1>4, <1>5
  <2>3. Len(SubSeq(Tokens, BlankAt + 1, Len(Tokens))) = Len(Tokens) - ((BlankAt + 1) - 1)
    BY <1>1, <2>2, WindowCut
  <2>. QED  BY <2>1, <2>2, <2>3 DEF Body
<1>6. \A j \in 1 .. Len(Tokens) : Tokens[j] = "blank" => BlankAt <= j
  BY <1>3
<1>. QED  BY <1>4, <1>5, <1>6

LEMMA SameRequest ==
  ASSUME request' = request
  PROVE  /\ Tokens' = Tokens /\ BlankAt' = BlankAt /\ Kinds' = Kinds /\ Body' = Body
         /\ bp' = bp => Exact' = Exact
<1>1. Tokens' = Tokens
  BY DEF Tokens
<1>2. BlankAt' = BlankAt
  BY <1>1 DEF BlankAt
<1>3. Kinds' = Kinds /\ Body' = Body
  BY <1>1, <1>2 DEF Kinds, Body
<1>. QED  BY <1>1, <1>2, <1>3 DEF Exact

(* Of a text, what stands before a zero byte is all of it.                 *)
LEMMA TextIsAll ==
  ASSUME Tokens \in Seq(TokenKinds), "nul" \notin Kinds, NEW s \in Seq(TokenKinds),
         NEW b \in Nat, b + Len(s) <= Len(Tokens), FromTo(s, Tokens, b)
  PROVE  Text(s) = s
<1>1. Len(s) \in Nat /\ Len(Tokens) \in Nat
  BY LenProperties
<1>2. \A j \in 1 .. Len(s) : s[j] # "nul"
  <2> SUFFICES ASSUME NEW j \in 1 .. Len(s)
               PROVE  s[j] # "nul"
    OBVIOUS
  <2>1. b + j \in 1 .. Len(Tokens) /\ s[j] = Tokens[b + j]
    BY <1>1 DEF FromTo
  <2>. QED  BY <2>1 DEF Kinds
<1> DEFINE T == {j \in 1 .. Len(s) : s[j] = "nul"} \cup {Len(s) + 1}
<1>3. T = {Len(s) + 1}
  BY <1>2
<1>4. T \in SUBSET Nat /\ T # {}
  BY <1>1, <1>3
<1>5. Min(T) = Len(s) + 1
  BY <1>3, <1>4, LeastElement
<1>6. Text(s) = SubSeq(s, 1, Len(s))
  <2>1. Text(s) = SubSeq(s, 1, Min(T) - 1)
    BY DEF Text
  <2>2. Min(T) - 1 = Len(s)
    BY <1>1, <1>5
  <2>. QED  BY <2>1, <2>2
<1>7. s = SubSeq(s, 0 + 1, 0 + Len(s))
  <2>1. 0 \in Nat /\ 0 + Len(s) <= Len(s) /\ FromTo(s, s, 0)
    <3>1. \A i \in 1 .. Len(s) : 0 + i = i
      BY <1>1
    <3>. QED  BY <1>1, <3>1 DEF FromTo
  <2>. QED  BY <2>1, WindowIs
<1>8. 0 + 1 = 1 /\ 0 + Len(s) = Len(s)
  BY <1>1
<1>. QED  BY <1>6, <1>7, <1>8

(* The end of a buffer that stands at the beginning, too.                  *)
LEMMA TextFromIsAll ==
  ASSUME Tokens \in Seq(TokenKinds), "nul" \notin Kinds, NEW s \in Seq(TokenKinds),
         NEW k \in 1 .. Len(s) + 1, Len(s) <= Len(Tokens), FromTo(s, Tokens, 0)
  PROVE  /\ TextFrom(s, k) \in Seq(TokenKinds)
         /\ Len(TextFrom(s, k)) = Len(s) - (k - 1)
         /\ FromTo(TextFrom(s, k), Tokens, k - 1)
<1> DEFINE w == SubSeq(s, k, Len(s))
<1>1. Len(s) \in Nat /\ Len(Tokens) \in Nat /\ k \in Nat /\ k - 1 \in Nat
  BY LenProperties
<1>2. w \in Seq(TokenKinds) /\ Len(w) = Len(s) - (k - 1) /\ FromTo(w, Tokens, k - 1)
  BY WindowEnd
<1>3. TextFrom(s, k) = Text(w)
  BY DEF TextFrom
<1> HIDE DEF w
<1>4. (k - 1) + Len(w) <= Len(Tokens)
  BY <1>1, <1>2
<1>5. Text(w) = w
  BY <1>1, <1>2, <1>4, TextIsAll
<1>. QED  BY <1>2, <1>3, <1>5

LEMMA InitRequest == RequestInit /\ "nul" \notin Kinds => RequestInv
<1> SUFFICES ASSUME RequestInit, "nul" \notin Kinds
             PROVE  RequestInv
  OBVIOUS
<1>1. Len(Tokens) \in Nat /\ Len(<<>>) = 0 /\ <<>> \in Seq(TokenKinds)
  BY RequestType, EmptySeq DEF RequestInit
<1>2. StreamInv
  BY <1>1 DEF RequestInit, StreamInv, FromTo
<1>3. HeadInv /\ ReturnedInv
  BY DEF RequestInit, HeadInv, ReturnedInv
<1>. QED  BY <1>2, <1>3 DEF RequestInv

(* Steps that neither read nor come to an end of what they read.           *)
LEMMA StandStill ==
  ASSUME RequestInv, sent' \in sent .. Len(Tokens),
         UNCHANGED <<request, phase, got, buffer, added, bp, contentLength, moved, input>>,
         pc' \in {"recv", "threw", "crashed", "answered"} \/ pc' = pc
  PROVE  RequestInv'
<1>1. /\ Tokens' = Tokens /\ BlankAt' = BlankAt /\ Kinds' = Kinds /\ Exact' = Exact
  BY SameRequest
<1>2. StreamInv'
  <2>1. sent' \in 0 .. Len(Tokens) /\ got \in 0 .. sent'
    BY RequestType DEF RequestInv, StreamInv
  <2>. QED  BY <1>1, <2>1 DEF RequestInv, StreamInv
<1>3. HeadInv'
  BY <1>1 DEF RequestInv, HeadInv
<1>4. ReturnedInv'
  BY <1>1 DEF RequestInv, ReturnedInv
<1>. QED  BY <1>2, <1>3, <1>4 DEF RequestInv

LEMMA StillSteps ==
  ASSUME RequestInv,
         Send \/ HangUp \/ RecvFails \/ PauseMore \/ WaitOver \/ Interrupted \/ Answer
  PROVE  RequestInv'
<1>0. Len(Tokens) \in Nat /\ sent \in sent .. Len(Tokens) /\ sent \in Nat
  BY RequestType DEF RequestInv, StreamInv
<1>1. CASE Send
  <2>1. /\ sent' \in sent .. Len(Tokens) /\ pc' = pc
        /\ UNCHANGED <<request, phase, got, buffer, added, bp, contentLength, moved, input>>
    BY <1>0, <1>1 DEF Send, readVars, headVars, doneVars
  <2>. QED  BY <2>1, StandStill
<1>2. CASE HangUp
  <2>1. /\ sent' = sent /\ pc' = pc
        /\ UNCHANGED <<request, phase, got, buffer, added, bp, contentLength, moved, input>>
    BY <1>2 DEF HangUp, readVars, headVars, doneVars
  <2>. QED  BY <1>0, <2>1, StandStill
<1>3. CASE RecvFails \/ PauseMore \/ WaitOver \/ Interrupted
  <2>1. /\ sent' = sent /\ pc' \in {"recv", "threw", "crashed"}
        /\ UNCHANGED <<request, phase, got, buffer, added, bp, contentLength, moved, input>>
    BY <1>3 DEF RecvFails, PauseMore, WaitOver, Interrupted, peerVars, readVars,
                headVars, doneVars
  <2>. QED  BY <1>0, <2>1, StandStill
<1>4. CASE Answer
  <2>1. /\ sent' = sent /\ pc' = "answered"
        /\ UNCHANGED <<request, phase, got, buffer, added, bp, contentLength, moved, input>>
    BY <1>4 DEF Answer, peerVars, readVars, headVars
  <2>. QED  BY <1>0, <2>1, StandStill
<1>. QED  BY <1>1, <1>2, <1>3, <1>4

(* What recv gives follows what has been read.                             *)
LEMMA ReceiveStep ==
  ASSUME RequestInv, Receive
  PROVE  RequestInv'
<1> DEFINE n == Min({sent - got, Chunk})
           more == SubSeq(Tokens, got + 1, got + n)
<1>1. /\ pc = "recv" /\ pc' = "pause" /\ got < sent /\ got' = got + n
      /\ phase # "body" => buffer' = buffer \o more /\ added' = added
      /\ phase = "body" => added' = added \o more /\ buffer' = buffer
      /\ UNCHANGED <<request, sent, phase, bp, contentLength, moved, input>>
  BY DEF Receive, Into, peerVars, headVars, doneVars
<1>2. /\ Tokens \in Seq(TokenKinds) /\ Len(Tokens) \in Nat
      /\ sent \in Nat /\ got \in Nat /\ sent <= Len(Tokens)
      /\ buffer \in Seq(TokenKinds) /\ added \in Seq(TokenKinds)
      /\ Len(buffer) \in Nat /\ Len(added) \in Nat
  BY RequestType, LenProperties DEF RequestInv, StreamInv
<1>3. n \in 1 .. sent - got
  <2>1. Chunk \in Nat \ {0} /\ sent - got \in Nat \ {0}
    BY <1>1, <1>2, HttpRequestAssumption
  <2>2. {sent - got, Chunk} \in SUBSET Nat /\ {sent - got, Chunk} # {}
    BY <2>1
  <2>3. n \in {sent - got, Chunk} /\ n <= sent - got
    BY <2>2, LeastElement
  <2>. QED  BY <2>1, <2>3
<1> HIDE DEF n
<1>4. more \in Seq(TokenKinds) /\ Len(more) = n /\ FromTo(more, Tokens, got)
  <2>1. got + n <= Len(Tokens) /\ n \in Nat
    BY <1>2, <1>3
  <2>. QED  BY <1>2, <2>1, WindowAt
<1> HIDE DEF more
<1>5. Tokens' = Tokens /\ Kinds' = Kinds /\ Exact' = Exact
  BY <1>1, SameRequest
<1>6. got' \in 0 .. sent' /\ got' = got + n
  BY <1>1, <1>2, <1>3
<1>7. StreamInv'
  <2>1. CASE phase = "body"
    <3>1. Len(buffer) + Len(added) = got /\ FromTo(added, Tokens, got - Len(added))
          /\ FromTo(buffer, Tokens, got - (Len(buffer) + Len(added)))
      BY <2>1 DEF RequestInv, StreamInv
    <3>2. got - Len(added) \in Int /\ got \in Int /\ got = (got - Len(added)) + Len(added)
      BY <1>2
    <3>3. /\ added \o more \in Seq(TokenKinds) /\ Len(added \o more) = Len(added) + n
          /\ FromTo(added \o more, Tokens, got - Len(added))
      <4>1. /\ added \o more \in Seq(TokenKinds)
            /\ Len(added \o more) = Len(added) + Len(more)
            /\ FromTo(added \o more, Tokens, got - Len(added))
        <5> DEFINE b == got - Len(added)
        <5>1. b \in Int /\ got \in Int /\ got = b + Len(added) /\ FromTo(added, Tokens, b)
          BY <3>1, <3>2
        <5> HIDE DEF b
        <5>2. added \in Seq(TokenKinds) /\ more \in Seq(TokenKinds)
              /\ FromTo(more, Tokens, got)
          BY <1>2, <1>4
        <5>3. /\ added \o more \in Seq(TokenKinds)
              /\ Len(added \o more) = Len(added) + Len(more)
              /\ FromTo(added \o more, Tokens, b)
          BY <5>1, <5>2, WindowNext
        <5>. QED  BY <5>3 DEF b
      <4>. QED  BY <1>4, <4>1
    <3>4. added' = added \o more /\ buffer' = buffer /\ Len(added') = Len(added) + n
      BY <1>1, <2>1, <3>3
    <3>5. /\ Len(buffer') + Len(added') = got'
          /\ got' - Len(added') = got - Len(added)
          /\ got' - (Len(buffer') + Len(added')) = got - (Len(buffer) + Len(added))
      <4>1. n \in Int /\ Len(buffer') = Len(buffer)
        BY <1>2, <1>3, <3>4
      <4>2. Len(buffer) + (Len(added) + n) = got + n
        <5>1. /\ Len(buffer) \in Int /\ Len(added) \in Int /\ got \in Int
              /\ Len(buffer) + Len(added) = got
          BY <1>2, <3>1
        <5>2. Len(buffer) + (Len(added) + n) = (Len(buffer) + Len(added)) + n
          BY <4>1, <5>1
        <5>. QED  BY <5>1, <5>2
      <4>3. (got + n) - (Len(added) + n) = got - Len(added)
        BY <1>2, <4>1
      <4>4. (got + n) - (Len(buffer) + (Len(added) + n)) = got - (Len(buffer) + Len(added))
        BY <1>2, <4>1
      <4>. QED  BY <1>6, <3>4, <4>1, <4>2, <4>3, <4>4
    <3>6. FromTo(added', Tokens', got' - Len(added'))
      BY <1>5, <3>3, <3>4, <3>5
    <3>7. FromTo(buffer', Tokens', got' - (Len(buffer') + Len(added')))
      BY <1>5, <3>1, <3>4, <3>5
    <3>8. Len(buffer') + Len(added') <= got' /\ added' \in Seq(TokenKinds)
      BY <1>2, <1>3, <1>6, <3>3, <3>4, <3>5
    <3>. QED  BY <1>1, <1>2, <1>5, <1>6, <2>1, <3>4, <3>5, <3>6, <3>7, <3>8
              DEF RequestInv, StreamInv
  <2>2. CASE phase # "body"
    <3>1. /\ added = <<>> /\ Len(added) = 0 /\ Len(buffer) <= got
          /\ phase # "authorized" => Len(buffer) = got
      BY <1>2, <2>2, EmptySeq DEF RequestInv, StreamInv
    <3>2. FromTo(buffer, Tokens, got - Len(buffer))
          /\ got = (got - Len(buffer)) + Len(buffer)
          /\ got - Len(buffer) \in Int /\ got \in Int
      <4>1. got - (Len(buffer) + Len(added)) = got - Len(buffer)
        BY <1>2, <3>1
      <4>2. FromTo(buffer, Tokens, got - (Len(buffer) + Len(added)))
        BY DEF RequestInv, StreamInv
      <4>3. /\ got = (got - Len(buffer)) + Len(buffer)
            /\ got - Len(buffer) \in Int /\ got \in Int
        BY <1>2
      <4>. QED  BY <4>1, <4>2, <4>3
    <3>3. /\ buffer \o more \in Seq(TokenKinds) /\ Len(buffer \o more) = Len(buffer) + n
          /\ FromTo(buffer \o more, Tokens, got - Len(buffer))
      <4>1. /\ buffer \o more \in Seq(TokenKinds)
            /\ Len(buffer \o more) = Len(buffer) + Len(more)
            /\ FromTo(buffer \o more, Tokens, got - Len(buffer))
        <5> DEFINE b == got - Len(buffer)
        <5>1. b \in Int /\ got \in Int /\ got = b + Len(buffer) /\ FromTo(buffer, Tokens, b)
          BY <3>2
        <5> HIDE DEF b
        <5>2. buffer \in Seq(TokenKinds) /\ more \in Seq(TokenKinds)
              /\ FromTo(more, Tokens, got)
          BY <1>2, <1>4
        <5>3. /\ buffer \o more \in Seq(TokenKinds)
              /\ Len(buffer \o more) = Len(buffer) + Len(more)
              /\ FromTo(buffer \o more, Tokens, b)
          BY <5>1, <5>2, WindowNext
        <5>. QED  BY <5>3 DEF b
      <4>. QED  BY <1>4, <4>1
    <3>4. buffer' = buffer \o more /\ added' = added /\ Len(buffer') = Len(buffer) + n
      BY <1>1, <2>2, <3>3
    <3>5. /\ Len(buffer') + Len(added') <= got'
          /\ phase # "authorized" => Len(buffer') + Len(added') = got'
          /\ got' - (Len(buffer') + Len(added')) = got - Len(buffer)
      <4>1. n \in Int /\ Len(added') = 0 /\ Len(buffer') + Len(added') = Len(buffer) + n
        BY <1>2, <1>3, <3>1, <3>4
      <4>2. Len(buffer) + n <= got + n /\ (got + n) - (Len(buffer) + n) = got - Len(buffer)
        BY <1>2, <3>1, <4>1
      <4>3. phase # "authorized" => Len(buffer) + n = got + n
        BY <3>1
      <4>. QED  BY <1>6, <4>1, <4>2, <4>3
    <3>6. FromTo(buffer', Tokens', got' - (Len(buffer') + Len(added')))
      BY <1>5, <3>3, <3>4, <3>5
    <3>7. FromTo(added', Tokens', got' - Len(added'))
      BY <3>1, <3>4 DEF FromTo
    <3>8. added' = <<>> /\ added' \in Seq(TokenKinds) /\ buffer' \in Seq(TokenKinds)
      BY <1>2, <3>1, <3>3, <3>4
    <3>. QED  BY <1>1, <1>5, <1>6, <2>2, <3>5, <3>6, <3>7, <3>8
              DEF RequestInv, StreamInv
  <2>. QED  BY <2>1, <2>2
<1>8. HeadInv'
  BY <1>1, <1>5 DEF RequestInv, HeadInv
<1>9. ReturnedInv'
  BY <1>1 DEF ReturnedInv
<1>. QED  BY <1>7, <1>8, <1>9 DEF RequestInv

(* readData hands over what it has.                                        *)
LEMMA EndOfReadDataStep ==
  ASSUME RequestInv, pc \in {"recv", "pause"}, EndOfReadData,
         UNCHANGED <<request, sent, phase, got, bp, contentLength>>
  PROVE  RequestInv'
<1>1. /\ Tokens \in Seq(TokenKinds) /\ Len(Tokens) \in Nat /\ got \in Nat
      /\ buffer \in Seq(TokenKinds) /\ added \in Seq(TokenKinds)
      /\ Len(buffer) \in Nat /\ Len(added) \in Nat
      /\ Len(<<>>) = 0 /\ <<>> \in Seq(TokenKinds)
  BY RequestType, LenProperties, EmptySeq DEF RequestInv, StreamInv
<1>2. Tokens' = Tokens /\ BlankAt' = BlankAt /\ Kinds' = Kinds /\ Exact' = Exact
  BY SameRequest
<1>3. CASE phase = "first"
  <2>1. pc' \in {"threw", "headers"} /\ UNCHANGED <<buffer, added, moved, input>>
    BY <1>3 DEF EndOfReadData
  <2>2. StreamInv'
    BY <1>2, <1>3, <2>1 DEF RequestInv, StreamInv
  <2>3. HeadInv' /\ ReturnedInv'
    BY <1>3, <2>1 DEF HeadInv, ReturnedInv
  <2>. QED  BY <2>2, <2>3 DEF RequestInv
<1>4. CASE phase = "body"
  <2>1. pc' = "loop" /\ buffer' = buffer \o Text(added) /\ added' = <<>>
    BY <1>4 DEF EndOfReadData
  <2>2. /\ Len(buffer) + Len(added) = got
        /\ FromTo(buffer, Tokens, 0) /\ FromTo(added, Tokens, Len(buffer))
    <3>1. Len(buffer) + Len(added) = got
      BY <1>4 DEF RequestInv, StreamInv
    <3>2. got - (Len(buffer) + Len(added)) = 0 /\ got - Len(added) = Len(buffer)
      BY <1>1, <3>1
    <3>. QED  BY <3>1, <3>2 DEF RequestInv, StreamInv
  <2>3. /\ buffer' \in Seq(TokenKinds) /\ Len(buffer') = Len(buffer) + Len(added)
        /\ FromTo(buffer', Tokens, 0)
    <3>1. 0 \in Int /\ Len(buffer) \in Int /\ Len(buffer) = 0 + Len(buffer)
      BY <1>1
    <3>2. /\ buffer \o added \in Seq(TokenKinds)
          /\ Len(buffer \o added) = Len(buffer) + Len(added)
          /\ FromTo(buffer \o added, Tokens, 0)
      BY <1>1, <2>2, <3>1, WindowNext
    <3>3. Text(added) = added
      <4>1. Len(buffer) + Len(added) <= Len(Tokens) /\ "nul" \notin Kinds
        BY <1>1, <2>2 DEF RequestInv, StreamInv
      <4>. QED  BY <1>1, <2>2, <4>1, TextIsAll
    <3>. QED  BY <2>1, <3>2, <3>3
  <2>4. /\ Len(added') = 0 /\ Len(buffer') + Len(added') = got
        /\ got - (Len(buffer') + Len(added')) = 0
    BY <1>1, <2>1, <2>2, <2>3
  <2>5. FromTo(added', Tokens', got' - Len(added'))
    BY <2>1, <2>4 DEF FromTo
  <2>6. StreamInv'
    <3>1. FromTo(buffer', Tokens', got' - (Len(buffer') + Len(added')))
      BY <1>2, <2>3, <2>4
    <3>2. Len(buffer') + Len(added') <= got'
      BY <1>1, <2>4
    <3>. QED  BY <1>1, <1>2, <1>4, <2>1, <2>3, <2>4, <2>5, <3>1, <3>2
              DEF RequestInv, StreamInv
  <2>7. HeadInv'
    <3>1. bp \in 1 .. Len(buffer) + 1 /\ contentLength \in Nat
      BY <1>4 DEF RequestInv, HeadInv
    <3>2. bp \in 1 .. Len(buffer') + 1
      BY <1>1, <2>3, <3>1
    <3>. QED  BY <1>2, <1>4, <2>1, <3>1, <3>2 DEF RequestInv, HeadInv
  <2>8. ReturnedInv'
    BY <2>1 DEF ReturnedInv
  <2>. QED  BY <2>6, <2>7, <2>8 DEF RequestInv
<1>5. CASE phase = "authorized"
  <2>1. pc' = "returned" /\ input' = Text(buffer) /\ UNCHANGED <<buffer, added, moved>>
    BY <1>5 DEF EndOfReadData
  <2>2. "expect" \in Kinds
    BY <1>5 DEF RequestInv, HeadInv
  <2>3. added = <<>> /\ Len(added) = 0
    BY <1>1, <1>5 DEF RequestInv, StreamInv
  <2>4. Len(buffer) <= got /\ FromTo(buffer, Tokens, got - Len(buffer))
    <3>1. Len(buffer) + Len(added) = Len(buffer)
      BY <1>1, <2>3
    <3>. QED  BY <3>1 DEF RequestInv, StreamInv
  <2>8. Text(buffer) = buffer
    <3> DEFINE b == got - Len(buffer)
    <3>1. b \in Nat /\ b + Len(buffer) = got
      BY <1>1, <2>4
    <3>2. got <= Len(Tokens) /\ "nul" \notin Kinds /\ FromTo(buffer, Tokens, b)
      BY <1>1, <2>4 DEF RequestInv, StreamInv
    <3> HIDE DEF b
    <3>3. b + Len(buffer) <= Len(Tokens)
      BY <3>1, <3>2
    <3>. QED  BY <1>1, <3>1, <3>2, <3>3, TextIsAll
  <2>5. StreamInv'
    BY <1>2, <1>5, <2>1, <2>3 DEF RequestInv, StreamInv
  <2>6. HeadInv'
    BY <1>2, <1>5, <2>1, <2>2 DEF HeadInv
  <2>7. ReturnedInv'
    BY <1>1, <1>2, <2>1, <2>2, <2>4, <2>8 DEF ReturnedInv, Exact
  <2>. QED  BY <2>5, <2>6, <2>7 DEF RequestInv
<1>. QED  BY <1>3, <1>4, <1>5 DEF EndOfReadData

LEMMA ReadEnds ==
  ASSUME RequestInv, EndOfFile \/ PauseOver
  PROVE  RequestInv'
<1>1. /\ pc \in {"recv", "pause"} /\ EndOfReadData
      /\ UNCHANGED <<request, sent, phase, got, bp, contentLength>>
  BY DEF EndOfFile, PauseOver, peerVars
<1>. QED  BY <1>1, EndOfReadDataStep

(* The body is read anew after 100-continue.                               *)
LEMMA ContinueStep ==
  ASSUME RequestInv, WriteContinue
  PROVE  RequestInv'
<1>1. /\ pc = "continue" /\ phase = "first" /\ "expect" \in Kinds
      /\ added = <<>> /\ got \in Nat /\ Len(Tokens) \in Nat
      /\ Len(<<>>) = 0 /\ <<>> \in Seq(TokenKinds)
      /\ UNCHANGED <<request, sent, got, added, bp, contentLength, moved, input>>
  BY RequestType, EmptySeq DEF WriteContinue, RequestInv, StreamInv, HeadInv, peerVars,
                               headVars, doneVars
<1>2. CASE pc' = "waitBody" /\ phase' = "authorized" /\ buffer' = <<>>
  <2>1. Tokens' = Tokens /\ Kinds' = Kinds
    BY <1>1, SameRequest
  <2>2. /\ Len(buffer') + Len(added') <= got'
        /\ FromTo(buffer', Tokens', got' - (Len(buffer') + Len(added')))
        /\ FromTo(added', Tokens', got' - Len(added'))
    BY <1>1, <1>2 DEF FromTo
  <2>3. StreamInv'
    BY <1>1, <1>2, <2>1, <2>2 DEF RequestInv, StreamInv
  <2>4. HeadInv' /\ ReturnedInv'
    BY <1>1, <1>2, <2>1 DEF HeadInv, ReturnedInv
  <2>. QED  BY <2>3, <2>4 DEF RequestInv
<1>3. CASE pc' = "threw" /\ UNCHANGED <<phase, buffer>>
  <2>1. sent' \in sent .. Len(Tokens)
    BY <1>1 DEF RequestInv, StreamInv
  <2>. QED  BY <1>1, <1>3, <2>1, StandStill
<1>. QED  BY <1>2, <1>3 DEF WriteContinue

-----------------------------------------------------------------------------
(* loadHeaders sees what has arrived by then.                              *)
LEMMA HeadersAre ==
  ASSUME RequestInv, pc = "headers", Len(buffer) > 1
  PROVE  /\ phase = "first" /\ added = <<>> /\ Len(buffer) = got /\ got \in Nat
         /\ FromTo(buffer, Tokens, 0) /\ got <= Len(Tokens)
         /\ Stop \in 3 .. Len(buffer) + 1
         /\ ~StopsAt("nul")
         /\ \A j \in 3 .. Len(buffer) : buffer[j] = "blank" => Stop <= j
         /\ Seen \subseteq Kinds
         /\ \A j \in 3 .. Stop - 1 : Tokens[j] \in Seen
<1> DEFINE T == {j \in 3 .. Len(buffer) : buffer[j] \in {"blank", "nul", "long", "text"}}
                  \cup {Len(buffer) + 1}
<1>1. /\ phase = "first" /\ added = <<>> /\ buffer \in Seq(TokenKinds)
      /\ got \in Nat /\ sent \in Nat /\ got <= Len(Tokens) /\ Len(Tokens) \in Nat
  BY RequestType DEF RequestInv, StreamInv
<1>2. Len(buffer) = got
  <2>1. Len(buffer) + Len(added) = got /\ Len(added) = 0 /\ Len(buffer) \in Nat
    BY <1>1, EmptySeq, LenProperties DEF RequestInv, StreamInv
  <2>. QED  BY <2>1
<1>3. FromTo(buffer, Tokens, 0)
  <2>1. Len(added) = 0 /\ got \in Int
    BY <1>1, EmptySeq
  <2>2. got - (Len(buffer) + Len(added)) = 0
    <3>1. got - (got + 0) = 0
      BY <2>1
    <3>. QED  BY <1>2, <2>1, <3>1
  <2>. QED  BY <2>2 DEF RequestInv, StreamInv
<1>4. T \in SUBSET Nat /\ T # {} /\ Stop = Min(T)
  BY <1>1, <1>2 DEF Stop
<1>5. Stop \in T /\ \A y \in T : Stop <= y
  BY <1>4, LeastElement
<1>6. Stop \in 3 .. Len(buffer) + 1
  BY <1>1, <1>2, <1>5
<1>7. ~StopsAt("nul")
  <2> SUFFICES ASSUME Stop <= Len(buffer), buffer[Stop] = "nul"
               PROVE  FALSE
    BY DEF StopsAt
  <2>1. Stop \in 1 .. Len(buffer) /\ Stop \in 1 .. Len(Tokens) /\ 0 + Stop = Stop
    BY <1>1, <1>2, <1>6
  <2>2. Tokens[Stop] = "nul"
    BY <1>3, <2>1 DEF FromTo
  <2>. QED  BY <2>1, <2>2 DEF Kinds, RequestInv, StreamInv
<1>8. \A j \in 3 .. Len(buffer) : buffer[j] = "blank" => Stop <= j
  BY <1>5
<1>9. \A j \in 3 .. Stop - 1 : j \in 1 .. Len(Tokens) /\ buffer[j] = Tokens[j]
  <2> SUFFICES ASSUME NEW j \in 3 .. Stop - 1
               PROVE  j \in 1 .. Len(Tokens) /\ buffer[j] = Tokens[j]
    OBVIOUS
  <2>1. j \in 1 .. Len(buffer) /\ 0 + j = j /\ j \in 1 .. Len(Tokens)
    BY <1>1, <1>2, <1>6
  <2>. QED  BY <1>3, <2>1 DEF FromTo
<1>10. Seen \subseteq Kinds /\ \A j \in 3 .. Stop - 1 : Tokens[j] \in Seen
  BY <1>9 DEF Seen, Kinds
<1>. QED  BY <1>1, <1>2, <1>3, <1>6, <1>7, <1>8, <1>10

(* Headers that stop where those of the request end say its length.        *)
LEMMA LengthSeen ==
  ASSUME RequestInv, pc = "headers", Len(buffer) > 1,
         Stop = BlankAt \/ (Stop = BlankAt + 1 /\ Stop > Len(buffer)),
         request.length > 0
  PROVE  "length" \in Seen
<1>1. PICK j \in 3 .. Len(Tokens) :
        Tokens[j] = "length" /\ \A i \in 1 .. j : Tokens[i] # "blank"
  BY RequestType DEF RequestInv, StreamInv
<1>2. /\ BlankAt \in 1 .. Len(Tokens) + 1 /\ Len(Tokens) \in Nat
      /\ BlankAt <= Len(Tokens) => Tokens[BlankAt] = "blank"
  BY BlankIs, RequestType DEF RequestInv, StreamInv
<1>3. j < BlankAt
  <2>1. CASE BlankAt <= j
    <3>1. BlankAt \in 1 .. j /\ BlankAt <= Len(Tokens)
      BY <1>2, <2>1
    <3>. QED  BY <1>1, <1>2, <3>1
  <2>. QED  BY <1>2, <2>1
<1>4. j \in 3 .. Stop - 1
  BY <1>2, <1>3, HeadersAre
<1>. QED  BY <1>1, <1>4, HeadersAre

LEMMA HeadersEndStep ==
  ASSUME RequestInv, pc = "headers", HeadersEnd,
         UNCHANGED <<request, sent, got, buffer, added, moved>>
  PROVE  RequestInv'
<1>1. Len(buffer) > 1 /\ (StopsAt("blank") \/ Stop > Len(buffer))
  BY HeadersAre DEF HeadersEnd
<1>2. /\ phase = "first" /\ added = <<>> /\ Len(buffer) = got /\ got \in Nat
      /\ FromTo(buffer, Tokens, 0) /\ got <= Len(Tokens)
      /\ Stop \in 3 .. Len(buffer) + 1 /\ Seen \subseteq Kinds
      /\ \A j \in 3 .. Len(buffer) : buffer[j] = "blank" => Stop <= j
      /\ buffer \in Seq(TokenKinds) /\ Len(Tokens) \in Nat /\ request.length \in Nat
  BY <1>1, HeadersAre, RequestType DEF RequestInv, StreamInv
<1>3. /\ contentLength' = IF "length" \in Seen THEN request.length ELSE 0
      /\ bp' = IF StopsAt("blank") THEN Stop + 1 ELSE Stop
  BY DEF HeadersEnd
<1>4. bp' \in 1 .. Len(buffer) + 1 /\ contentLength' \in Nat
  BY <1>1, <1>2, <1>3 DEF StopsAt
<1>5. /\ Tokens' = Tokens /\ BlankAt' = BlankAt /\ Kinds' = Kinds /\ Body' = Body
  BY SameRequest
<1>6. Exact' => contentLength' = request.length
  <2> SUFFICES ASSUME bp' = BlankAt + 1, request.length > 0
               PROVE  "length" \in Seen
    BY <1>2, <1>3, <1>5 DEF Exact
  <2>1. Stop = BlankAt \/ (Stop = BlankAt + 1 /\ Stop > Len(buffer))
    <3>1. BlankAt \in Int /\ Stop \in Int
      BY <1>2, BlankIs DEF RequestInv, StreamInv
    <3>. QED  BY <1>1, <1>3, <3>1
  <2>. QED  BY <1>1, <2>1, LengthSeen
<1>7. CASE contentLength' > 0 /\ pc' = "loop" /\ phase' = "body"
  <2>1. StreamInv'
    BY <1>2, <1>5, <1>7 DEF RequestInv, StreamInv
  <2>2. HeadInv'
    BY <1>4, <1>6, <1>7 DEF HeadInv
  <2>3. ReturnedInv'
    BY <1>7 DEF ReturnedInv
  <2>. QED  BY <2>1, <2>2, <2>3 DEF RequestInv
<1>8. CASE Authorized /\ pc' = "continue" /\ phase' = phase
  <2>1. StreamInv'
    BY <1>2, <1>5, <1>8 DEF RequestInv, StreamInv
  <2>2. HeadInv'
    BY <1>2, <1>5, <1>8 DEF HeadInv, Authorized
  <2>3. ReturnedInv'
    BY <1>8 DEF ReturnedInv
  <2>. QED  BY <2>1, <2>2, <2>3 DEF RequestInv
<1>9. CASE /\ contentLength' = 0 \/ "expect" \in Seen
           /\ pc' = "returned" /\ phase' = phase
           /\ input' = TextFrom(buffer, bp')
  <2>1. StreamInv'
    BY <1>2, <1>5, <1>9 DEF RequestInv, StreamInv
  <2>2. HeadInv'
    BY <1>2, <1>9 DEF HeadInv
  <2>3. /\ input' \in Seq(TokenKinds) /\ Len(input') = got - (bp' - 1)
        /\ FromTo(input', Tokens, bp' - 1)
    <3>1. Tokens \in Seq(TokenKinds) /\ "nul" \notin Kinds
      BY RequestType DEF RequestInv, StreamInv
    <3>2. /\ TextFrom(buffer, bp') \in Seq(TokenKinds)
          /\ Len(TextFrom(buffer, bp')) = Len(buffer) - (bp' - 1)
          /\ FromTo(TextFrom(buffer, bp'), Tokens, bp' - 1)
      BY <1>2, <1>4, <3>1, TextFromIsAll
    <3>. QED  BY <1>2, <1>9, <3>2
  <2>4. Len(input') <= got /\ got - Len(input') = bp' - 1
    <3> DEFINE k == bp'
    <3>1. k \in 1 .. got + 1 /\ got \in Nat
      BY <1>2, <1>4
    <3>2. Len(input') = got - (k - 1)
      BY <2>3
    <3> HIDE DEF k
    <3>3. Len(input') <= got /\ got - Len(input') = k - 1
      BY <3>1, <3>2
    <3>. QED  BY <3>3 DEF k
  <2>5. Exact' => got = Len(Tokens) /\ Len(input') = got - BlankAt
    <3> SUFFICES ASSUME Exact'
                 PROVE  got = Len(Tokens) /\ Len(input') = got - BlankAt
      OBVIOUS
    <3>1. bp' = BlankAt + 1 /\ "expect" \notin Kinds /\ request.length = Len(Body)
      BY <1>5 DEF Exact
    <3>2. Len(Body) = 0
      BY <1>2, <1>6, <1>9, <3>1
    <3>3. BlankAt \in Nat /\ BlankAt <= Len(buffer)
      BY <1>2, <1>4, <3>1, BlankIs DEF RequestInv, StreamInv
    <3>4. Len(Body) = Len(Tokens) - BlankAt
      BY <1>2, <3>3, BlankIs DEF RequestInv, StreamInv
    <3>. QED  BY <1>2, <2>3, <3>1, <3>2, <3>3, <3>4
  <2>6. ReturnedInv'
    BY <1>5, <2>3, <2>4, <2>5 DEF ReturnedInv
  <2>. QED  BY <2>1, <2>2, <2>6 DEF RequestInv
<1>. QED  BY <1>7, <1>8, <1>9 DEF HeadersEnd

LEMMA LoadHeadersStep ==
  ASSUME RequestInv, LoadHeaders
  PROVE  RequestInv'
<1>1. /\ pc = "headers" /\ phase = "first"
      /\ UNCHANGED <<request, sent, got, buffer, added, moved>>
      /\ sent' \in sent .. Len(Tokens)
  BY RequestType DEF LoadHeaders, RequestInv, StreamInv, peerVars
<1>2. CASE HalfRequestLine \/ Refused
  <2>1. pc' \in {"threw", "crashed"} /\ UNCHANGED <<bp, contentLength, phase, input>>
    BY <1>2 DEF HalfRequestLine, Refused
  <2>. QED  BY <1>1, <2>1, StandStill
<1>3. CASE LineTooLong
  <2>1. /\ pc' \in {"crashed", "continue", "threw"} /\ UNCHANGED <<bp, phase, input>>
        /\ pc' = "continue" => Authorized
        /\ Len(buffer) > 1
    BY <1>3 DEF LineTooLong
  <2>2. Tokens' = Tokens /\ Kinds' = Kinds
    BY <1>1, SameRequest
  <2>3. Seen \subseteq Kinds
    BY <1>1, <2>1, HeadersAre
  <2>4. StreamInv'
    BY <1>1, <2>1, <2>2 DEF RequestInv, StreamInv
  <2>5. HeadInv' /\ ReturnedInv'
    BY <1>1, <2>1, <2>2, <2>3 DEF HeadInv, ReturnedInv, Authorized
  <2>. QED  BY <2>4, <2>5 DEF RequestInv
<1>4. CASE HeadersEnd
  BY <1>1, <1>4, HeadersEndStep
<1>. QED  BY <1>2, <1>3, <1>4 DEF LoadHeaders

(* The body loop ends with the body that the headers said.                 *)
LEMMA LoopStep ==
  ASSUME RequestInv, Loop
  PROVE  RequestInv'
<1>1. /\ pc = "loop" /\ phase = "body"
      /\ UNCHANGED <<request, sent, phase, got, buffer, added, bp, contentLength, moved>>
      /\ sent' \in sent .. Len(Tokens) /\ Len(Tokens) \in Nat
  BY RequestType DEF Loop, RequestInv, StreamInv, peerVars, readVars, headVars
<1>2. CASE pc' = "recv" /\ input' = input
  BY <1>1, <1>2, StandStill
<1>3. CASE moved /\ pc' \in {"returned", "crashed"}
  <2>1. Tokens' = Tokens /\ Kinds' = Kinds /\ Exact' = Exact
    BY <1>1, SameRequest
  <2>2. StreamInv'
    BY <1>1, <1>3, <2>1 DEF RequestInv, StreamInv
  <2>3. HeadInv' /\ ReturnedInv'
    BY <1>1, <1>3, <2>1 DEF RequestInv, HeadInv, ReturnedInv
  <2>. QED  BY <2>2, <2>3 DEF RequestInv
<1>4. CASE /\ ~moved /\ Arrived >= contentLength /\ pc' = "returned"
           /\ input' = TextFrom(buffer, bp)
  <2>1. /\ Tokens' = Tokens /\ BlankAt' = BlankAt /\ Kinds' = Kinds /\ Body' = Body
        /\ Exact' = Exact
    BY <1>1, SameRequest
  <2>2. /\ added = <<>> /\ buffer \in Seq(TokenKinds) /\ bp \in 1 .. Len(buffer) + 1
        /\ contentLength \in Nat
        /\ Exact => contentLength = request.length
        /\ got \in Nat /\ sent \in Nat /\ got <= Len(Tokens)
    BY <1>1 DEF RequestInv, StreamInv, HeadInv
  <2>3. Len(buffer) = got /\ FromTo(buffer, Tokens, 0)
    <3>1. Len(buffer) \in Nat /\ Len(added) = 0
      BY <2>2, EmptySeq, LenProperties
    <3>2. Len(buffer) + Len(added) = got
      BY <1>1 DEF RequestInv, StreamInv
    <3>3. got - (Len(buffer) + Len(added)) = 0
      BY <2>2, <3>2
    <3>. QED  BY <3>1, <3>2, <3>3 DEF RequestInv, StreamInv
  <2>4. /\ input' \in Seq(TokenKinds) /\ Len(input') = got - (bp - 1)
        /\ FromTo(input', Tokens, bp - 1)
    <3>1. Tokens \in Seq(TokenKinds) /\ "nul" \notin Kinds
      BY RequestType DEF RequestInv, StreamInv
    <3>2. /\ TextFrom(buffer, bp) \in Seq(TokenKinds)
          /\ Len(TextFrom(buffer, bp)) = Len(buffer) - (bp - 1)
          /\ FromTo(TextFrom(buffer, bp), Tokens, bp - 1)
      BY <2>2, <2>3, <3>1, TextFromIsAll
    <3>. QED  BY <1>4, <2>3, <3>2
  <2>5. Len(input') <= got /\ got - Len(input') = bp - 1
    BY <2>2, <2>3, <2>4
  <2>6. Exact => got = Len(Tokens) /\ Len(input') = got - BlankAt
    <3> SUFFICES ASSUME Exact
                 PROVE  got = Len(Tokens) /\ Len(input') = got - BlankAt
      OBVIOUS
    <3>1. bp = BlankAt + 1 /\ request.length = Len(Body) /\ request \in Requests
      BY DEF Exact, RequestInv, StreamInv
    <3>2. BlankAt \in Nat /\ BlankAt <= Len(Tokens)
      BY <1>1, <2>2, <2>3, <3>1, BlankIs
    <3>3. Len(Body) = Len(Tokens) - BlankAt
      BY <3>1, <3>2, BlankIs
    <3>4. got - (bp - 1) >= Len(Tokens) - BlankAt
      <4>1. contentLength = Len(Tokens) - BlankAt
        BY <2>2, <3>1, <3>3
      <4>2. Arrived = got - (bp - 1)
        BY <1>4, <2>4 DEF Arrived
      <4>. QED  BY <1>4, <4>1, <4>2
    <3>. QED  BY <1>1, <2>2, <2>4, <3>1, <3>2, <3>4
  <2>7. StreamInv'
    BY <1>1, <1>4, <2>1, <2>2 DEF RequestInv, StreamInv
  <2>8. HeadInv'
    BY <1>1, <1>4, <2>1 DEF RequestInv, HeadInv
  <2>9. ReturnedInv'
    BY <1>1, <2>1, <2>4, <2>5, <2>6 DEF ReturnedInv
  <2>. QED  BY <2>7, <2>8, <2>9 DEF RequestInv
<1>. QED  BY <1>2, <1>3, <1>4 DEF Loop

LEMMA NextRequest == RequestInv /\ [RequestNext]_requestVars => RequestInv'
<1> SUFFICES ASSUME RequestInv, [RequestNext]_requestVars
             PROVE  RequestInv'
  OBVIOUS
<1>1. CASE UNCHANGED requestVars
  <2>1. /\ pc' = pc /\ sent' \in sent .. Len(Tokens)
        /\ UNCHANGED <<request, phase, got, buffer, added, bp, contentLength, moved, input>>
    BY <1>1, RequestType DEF requestVars, peerVars, readVars, headVars, doneVars,
                             RequestInv, StreamInv
  <2>. QED  BY <2>1, StandStill
<1>2. CASE RequestNext
  BY <1>2, StillSteps, ReceiveStep, ReadEnds, ContinueStep, LoadHeadersStep, LoopStep
     DEF RequestNext, Server
<1>. QED  BY <1>1, <1>2

(* The request of a connection is the same all the time.                   *)
LEMMA SameKinds ==
  ASSUME [RequestNext]_requestVars
  PROVE  Kinds' = Kinds
<1>1. request' = request
  BY DEF RequestNext, Server, requestVars, peerVars, Send, HangUp, Interrupted,
         WaitOver, Receive, EndOfFile, RecvFails, PauseMore, PauseOver, LoadHeaders,
         Loop, WriteContinue, Answer
<1>. QED  BY <1>1, SameRequest

TextInv == "nul" \notin Kinds => RequestInv

LEMMA RequestInvHolds == RequestSpec => []TextInv
<1>1. RequestInit => TextInv
  BY InitRequest DEF TextInv
<1>2. TextInv /\ [RequestNext]_requestVars => TextInv'
  BY NextRequest, SameKinds DEF TextInv
<1>. QED  BY <1>1, <1>2, PTL DEF RequestSpec

(* What is returned of a text is what was read last, nothing left out or   *)
(* twice.                                                                  *)
THEOREM RequestInOrder == RequestSpec => []InputInOrder
<1>1. TextInv => InputInOrder
  <2> SUFFICES ASSUME RequestInv, pc = "returned", ~moved
               PROVE  Len(input) <= got /\ input = SubSeq(Tokens, got - Len(input) + 1, got)
    BY DEF InputInOrder, TextInv
  <2> DEFINE b == got - Len(input)
  <2>1. /\ input \in Seq(TokenKinds) /\ Len(input) <= got /\ FromTo(input, Tokens, b)
        /\ Tokens \in Seq(TokenKinds) /\ Len(input) \in Nat /\ Len(Tokens) \in Nat
        /\ got \in Nat /\ got <= Len(Tokens)
    BY RequestType, LenProperties DEF RequestInv, StreamInv, ReturnedInv
  <2>2. b \in Nat /\ b + Len(input) = got
    BY <2>1
  <2> HIDE DEF b
  <2>3. b + Len(input) <= Len(Tokens)
    BY <2>1, <2>2
  <2>4. input = SubSeq(Tokens, b + 1, b + Len(input))
    BY <2>1, <2>2, <2>3, WindowIs
  <2>5. input = SubSeq(Tokens, b + 1, got)
    BY <2>2, <2>4
  <2>. QED  BY <2>1, <2>5 DEF b
<1>. QED  BY <1>1, RequestInvHolds, PTL

(* A body of text that is as long as the headers say is returned whole,    *)
(* whatever the portions in which it comes.                                *)
THEOREM RequestExact == RequestSpec => []InputExact
<1>1. TextInv /\ InputInOrder => InputExact
  <2> SUFFICES ASSUME RequestInv, InputInOrder, pc = "returned", ~moved, Exact,
                      "nul" \notin Kinds
               PROVE  input = Body
    BY DEF InputExact, Exact, TextInv
  <2>1. got = Len(Tokens) /\ Len(input) = got - BlankAt
    BY DEF RequestInv, ReturnedInv
  <2>2. BlankAt \in Nat /\ Len(Tokens) \in Nat
    BY BlankIs, RequestType DEF RequestInv, StreamInv
  <2>3. got - Len(input) + 1 = BlankAt + 1
    BY <2>1, <2>2
  <2>4. input = SubSeq(Tokens, got - Len(input) + 1, got)
    BY DEF InputInOrder
  <2>. QED  BY <2>1, <2>3, <2>4 DEF Body
<1>. QED  BY <1>1, RequestInOrder, RequestInvHolds, PTL
=============================================================================
