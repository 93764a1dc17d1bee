------------------------- MODULE AutoSemaphoreProof -------------------------
(***************************************************************************)
(* Proofs about AutoSemaphore, for any objects, finitely many users, and   *)
(* any bounds on interrupts, failures and semaphores.                      *)
(***************************************************************************)
EXTENDS AutoSemaphore, FiniteSetTheorems, TLAPS

USE AutoSemaphoreAssumption

(* A permit of a semaphore is in its value or with a process; the          *)
(* constructors that posted it have made it, or an interrupted Lock.       *)
Permits(s) == value[s] + Cardinality(Holding(s))
CountInv == \A s \in Sems : Permits(s) <= posted[s] + interrupts

(* As long as every sem_open succeeds, a user has the semaphore its object *)
(* was built with.                                                         *)
SettledInv ==
  failures = 0 =>
    /\ \A o \in Objects : built[o] \in {"opened", "built"} => sem[o] \in Sems
    /\ \A u \in Users : pc[u] # "none" =>
         /\ built[ObjectOf[u]] = "built"
         /\ handle[u] = sem[ObjectOf[u]]
         /\ pc[u] \notin {"reopen", "waitAgain"}

Inv == TypeOK /\ CountInv /\ SettledInv

LEMMA HoldingFinite ==
  ASSUME NEW s
  PROVE  IsFiniteSet(Holding(s)) /\ Cardinality(Holding(s)) \in Nat
<1>1. Holding(s) \in SUBSET Users
  BY DEF Holding
<1>. QED  BY <1>1, FS_Subset, FS_CardinalityType

LEMMA InitInv == Init => Inv
<1> SUFFICES ASSUME Init
             PROVE  Inv
  OBVIOUS
<1>1. TypeOK
  BY DEF Init, TypeOK, NoSem
<1>2. \A s \in Sems : Holding(s) = {}
  BY DEF Init, Holding
<1>3. CountInv
  BY <1>2, FS_EmptySet DEF Init, CountInv, Permits
<1>4. SettledInv
  BY DEF Init, SettledInv
<1>. QED  BY <1>1, <1>3, <1>4 DEF Inv

-----------------------------------------------------------------------------
(* Types.                                                                  *)

LEMMA Increment ==
  ASSUME NEW f \in [Sems -> Nat], NEW s
  PROVE  [f EXCEPT ![s] = @ + 1] \in [Sems -> Nat]
<1> DEFINE g == [f EXCEPT ![s] = @ + 1]
<1>1. \A t \in Sems : g[t] \in Nat
  <2> TAKE t \in Sems
  <2>1. f[t] \in Nat
    OBVIOUS
  <2>2. g[t] = IF t = s THEN f[t] + 1 ELSE f[t]
    OBVIOUS
  <2>. QED  BY <2>1, <2>2
<1>2. g = [t \in Sems |-> g[t]]
  OBVIOUS
<1> HIDE DEF g
<1>3. g \in [Sems -> Nat]
  BY <1>1, <1>2
<1>. QED  BY <1>3 DEF g

LEMMA ConstructTypes ==
  ASSUME TypeOK, NEW o \in Objects, Construct(o)
  PROVE  TypeOK'
<1> USE DEF TypeOK, kernelVars, objectVars, userVars, Sems, NoSem
<1>1. CASE Unlink(o)
  BY <1>1 DEF Unlink
<1>2. CASE Open(o)
  <2>1. PICK s \in Sems : SemOpen(s) /\ sem' = [sem EXCEPT ![o] = s]
    BY <1>2 DEF Open
  <2>2. made' \in 0 .. MaxSems /\ name' \in 0 .. made' /\ value' = value
    BY <2>1 DEF SemOpen
  <2>3. sem' \in [Objects -> 0 .. MaxSems]
    BY <2>1
  <2>. QED  BY <1>2, <2>2, <2>3 DEF Open
<1>3. CASE OpenFails(o)
  <2>1. failures' \in 0 .. MaxFailures
    BY <1>3 DEF OpenFails
  <2>. QED  BY <1>3, <2>1 DEF OpenFails
<1>4. CASE Post(o)
  <2>1. value' \in [Sems -> Nat] /\ posted' \in [Sems -> Nat]
    <3>1. value \in [Sems -> Nat] /\ posted \in [Sems -> Nat]
      BY DEF TypeOK
    <3>. QED  BY <1>4, <3>1, Increment DEF Post, SemPost
  <2>. QED  BY <1>4, <2>1 DEF Post, SemPost
<1>. QED  BY <1>1, <1>2, <1>3, <1>4 DEF Construct

LEMMA UseTypes ==
  ASSUME TypeOK, NEW u \in Users, Use(u)
  PROVE  TypeOK'
<1> USE DEF TypeOK, kernelVars, objectVars, userVars, Sems, NoSem, Goto
<1>1. CASE Fork(u) \/ Lock(u) \/ Invalid(u) \/ ReopenFails(u) \/ Die(u)
  <2>1. /\ UNCHANGED <<kernelVars, objectVars, interrupts, failures>>
        /\ handle' \in [Users -> 0 .. MaxSems]
    BY <1>1 DEF Fork, Lock, Invalid, ReopenFails, Die
  <2>2. tries' \in [Users -> 0 .. 2]
    <3>1. tries \in [Users -> 0 .. 2] /\ tries[u] \in 0 .. 2 /\ 0 \in 0 .. 2
      OBVIOUS
    <3>2. \/ tries' = tries
          \/ tries' = [tries EXCEPT ![u] = 0]
          \/ tries[u] < 2 /\ tries' = [tries EXCEPT ![u] = tries[u] + 1]
      BY <1>1 DEF Fork, Lock, Invalid, ReopenFails, Die
    <3>3. tries[u] < 2 => tries[u] + 1 \in 0 .. 2
      BY <3>1
    <3>. QED  BY <3>1, <3>2, <3>3
  <2>3. pc' \in [Users -> {"none", "ready", "wait", "reopen", "waitAgain",
                           "held", "dead"}]
    BY <1>1 DEF Fork, Lock, Invalid, ReopenFails, Die
  <2>. QED  BY <2>1, <2>2, <2>3
<1>2. CASE Waited(u)
  <2>1. value' \in [Sems -> Nat]
    BY <1>2 DEF Waited
  <2>. QED  BY <1>2, <2>1 DEF Waited
<1>3. CASE Interrupted(u)
  <2>1. interrupts' \in 0 .. MaxInterrupts
    BY <1>3 DEF Interrupted
  <2>. QED  BY <1>3, <2>1 DEF Interrupted
<1>4. CASE Reopen(u)
  <2>1. PICK s \in Sems :
          /\ \/ SemOpen(s)
             \/ /\ made < MaxSems /\ s = made + 1 /\ made' = s
                /\ UNCHANGED <<name, value>>
          /\ handle' = [handle EXCEPT ![u] = s]
    BY <1>4 DEF Reopen
  <2>2. made' \in 0 .. MaxSems /\ name' \in 0 .. made' /\ value' = value
    BY <2>1 DEF SemOpen
  <2>3. handle' \in [Users -> 0 .. MaxSems]
    BY <2>1
  <2>. QED  BY <1>4, <2>2, <2>3 DEF Reopen
<1>5. CASE Unlock(u)
  <2>1. value' \in [Sems -> Nat]
    <3>1. value \in [Sems -> Nat]
      BY DEF TypeOK
    <3>. QED  BY <1>5, <3>1, Increment DEF Unlock, SemPost
  <2>. QED  BY <1>5, <2>1 DEF Unlock, SemPost
<1>. QED  BY <1>1, <1>2, <1>3, <1>4, <1>5 DEF Use

-----------------------------------------------------------------------------
(* Permits.                                                                *)

(* The constructors: Post adds a permit and is counted.                    *)
LEMMA ConstructCounts ==
  ASSUME TypeOK, CountInv, NEW o \in Objects, Construct(o)
  PROVE  CountInv'
<1> USE DEF kernelVars, objectVars, userVars
<1>1. interrupts' = interrupts /\ pc' = pc /\ handle' = handle
  BY DEF Construct, Unlink, Open, OpenFails, Post
<1> SUFFICES ASSUME NEW s \in Sems
             PROVE  Permits(s)' <= posted'[s] + interrupts'
  BY DEF CountInv
<1>2. Holding(s)' = Holding(s)
  BY <1>1 DEF Holding
<1>3. /\ Permits(s) <= posted[s] + interrupts
      /\ value[s] \in Nat /\ posted[s] \in Nat /\ interrupts \in Nat
  BY DEF CountInv, TypeOK
<1>4. CASE Post(o)
  <2>1. \/ value'[s] = value[s] + 1 /\ posted'[s] = posted[s] + 1
        \/ value'[s] = value[s] /\ posted'[s] = posted[s]
    BY <1>4 DEF Post, SemPost, TypeOK
  <2>. QED  BY <1>1, <1>2, <1>3, <2>1, HoldingFinite DEF Permits
<1>5. CASE Unlink(o) \/ Open(o) \/ OpenFails(o)
  <2>1. value' = value /\ posted' = posted
    BY <1>5 DEF Unlink, Open, OpenFails, SemOpen
  <2>. QED  BY <1>1, <1>2, <1>3, <2>1 DEF Permits
<1>. QED  BY <1>4, <1>5 DEF Construct

(* What each step of a user does to the processes inside.                  *)
LEMMA UseHolders ==
  ASSUME TypeOK, NEW u \in Users, Use(u), NEW s \in Sems
  PROVE  /\ (Fork(u) \/ Lock(u) \/ Invalid(u) \/ Reopen(u) \/ ReopenFails(u))
              => Holding(s)' = Holding(s)
         /\ Waited(u) => Holding(s)' = IF s = handle[u] THEN Holding(s) \cup {u}
                                                        ELSE Holding(s)
         /\ Interrupted(u) => Holding(s)' \in {Holding(s), Holding(s) \cup {u}}
         /\ Unlock(u) => Holding(s)' = Holding(s) \ {u}
         /\ Die(u) => Holding(s)' = Holding(s) \ {u}
<1> USE DEF TypeOK, userVars, Goto, Holding
<1>1. ASSUME Fork(u) \/ Lock(u) \/ Invalid(u) \/ Reopen(u) \/ ReopenFails(u)
      PROVE  Holding(s)' = Holding(s)
  <2>1. pc[u] # "held" /\ pc'[u] # "held"
    BY <1>1 DEF Fork, Lock, Invalid, Reopen, ReopenFails
  <2>2. \A v \in Users : v # u => pc'[v] = pc[v] /\ handle'[v] = handle[v]
    BY <1>1 DEF Fork, Lock, Invalid, Reopen, ReopenFails
  <2>. QED  BY <2>1, <2>2
<1>2. ASSUME Waited(u)
      PROVE  Holding(s)' = IF s = handle[u] THEN Holding(s) \cup {u}
                                            ELSE Holding(s)
  BY <1>2 DEF Waited
<1>3. ASSUME Interrupted(u)
      PROVE  Holding(s)' \in {Holding(s), Holding(s) \cup {u}}
  <2>1. handle' = handle /\ pc[u] # "held"
        /\ \A v \in Users : v # u => pc'[v] = pc[v]
    BY <1>3 DEF Interrupted
  <2>2. CASE pc'[u] = "held" /\ handle[u] = s
    <3>1. Holding(s)' = Holding(s) \cup {u}
      BY <2>1, <2>2
    <3>. QED  BY <3>1
  <2>3. CASE ~(pc'[u] = "held" /\ handle[u] = s)
    <3>1. Holding(s)' = Holding(s)
      BY <2>1, <2>3
    <3>. QED  BY <3>1
  <2>. QED  BY <2>2, <2>3
<1>4. ASSUME Unlock(u)
      PROVE  Holding(s)' = Holding(s) \ {u}
  BY <1>4 DEF Unlock
<1>5. ASSUME Die(u)
      PROVE  Holding(s)' = Holding(s) \ {u}
  BY <1>5 DEF Die
<1>. QED  BY <1>1, <1>2, <1>3, <1>4, <1>5

LEMMA UseCounts ==
  ASSUME TypeOK, CountInv, NEW u \in Users, Use(u)
  PROVE  CountInv'
<1> USE DEF kernelVars, objectVars, userVars
<1> SUFFICES ASSUME NEW s \in Sems
             PROVE  Permits(s)' <= posted'[s] + interrupts'
  BY DEF CountInv
<1> DEFINE n == Cardinality(Holding(s))
           m == Cardinality(Holding(s)')
<1>1. posted' = posted
  BY DEF Use, Fork, Lock, Waited, Interrupted, Invalid, Reopen, ReopenFails,
         Unlock, Die
<1>2. /\ value[s] + n <= posted[s] + interrupts
      /\ value[s] \in Nat /\ posted[s] \in Nat /\ interrupts \in Nat /\ n \in Nat
  BY HoldingFinite DEF CountInv, Permits, TypeOK
<1>3. /\ Holding(s)' = Holding(s) => m = n
      /\ Holding(s)' = Holding(s) \cup {u} => m \in {n, n + 1}
      /\ Holding(s)' = Holding(s) \ {u}
           => m = IF u \in Holding(s) THEN n - 1 ELSE n
  BY <1>2, HoldingFinite, FS_AddElement, FS_RemoveElement
<1> HIDE DEF n, m
<1> SUFFICES value'[s] + m <= posted[s] + interrupts'
  BY <1>1 DEF Permits, n, m
<1>4. CASE Fork(u) \/ Lock(u) \/ Invalid(u) \/ Reopen(u) \/ ReopenFails(u)
  <2>1. value' = value /\ interrupts' = interrupts
    BY <1>4 DEF Fork, Lock, Invalid, Reopen, ReopenFails, SemOpen
  <2>. QED  BY <1>2, <1>3, <1>4, <2>1, UseHolders
<1>5. CASE Waited(u)
  <2>1. interrupts' = interrupts
    BY <1>5 DEF Waited
  <2>2. CASE s = handle[u]
    <3>1. value'[s] = value[s] - 1
      BY <1>5, <2>2 DEF Waited, TypeOK
    <3>2. m \in {n, n + 1}
      BY <1>3, <1>5, <2>2, UseHolders
    <3>. QED  BY <1>2, <2>1, <3>1, <3>2
  <2>3. CASE s # handle[u]
    <3>1. value'[s] = value[s]
      BY <1>5, <2>3 DEF Waited, TypeOK
    <3>2. m = n
      BY <1>3, <1>5, <2>3, UseHolders
    <3>. QED  BY <1>2, <2>1, <3>1, <3>2
  <2>. QED  BY <2>2, <2>3
<1>6. CASE Interrupted(u)
  <2>1. value' = value /\ interrupts' = interrupts + 1
    BY <1>6 DEF Interrupted
  <2>2. m \in {n, n + 1}
    BY <1>3, <1>6, UseHolders
  <2>. QED  BY <1>2, <2>1, <2>2
<1>7. CASE Unlock(u)
  <2>1. interrupts' = interrupts /\ pc[u] = "held"
    BY <1>7 DEF Unlock
  <2>2. CASE s = handle[u]
    <3>1. value'[s] = value[s] + 1
      BY <1>7, <2>2 DEF Unlock, SemPost, TypeOK
    <3>2. m = n - 1
      BY <1>3, <1>7, <2>1, <2>2, UseHolders DEF Holding
    <3>. QED  BY <1>2, <2>1, <3>1, <3>2
  <2>3. CASE s # handle[u]
    <3>1. value'[s] = value[s]
      BY <1>7, <2>3 DEF Unlock, SemPost, TypeOK
    <3>2. m = n
      BY <1>3, <1>7, <2>3, UseHolders DEF Holding
    <3>. QED  BY <1>2, <2>1, <3>1, <3>2
  <2>. QED  BY <2>2, <2>3
<1>8. CASE Die(u)
  <2>1. value' = value /\ interrupts' = interrupts
    BY <1>8 DEF Die
  <2>2. m \in {n, n - 1}
    BY <1>3, <1>8, UseHolders
  <2>. QED  BY <1>2, <2>1, <2>2
<1>. QED  BY <1>4, <1>5, <1>6, <1>7, <1>8 DEF Use

-----------------------------------------------------------------------------
(* Handles.                                                                *)

LEMMA ConstructSettles ==
  ASSUME TypeOK, SettledInv, NEW o \in Objects, Construct(o)
  PROVE  SettledInv'
<1> USE DEF TypeOK, kernelVars, objectVars, userVars, Sems, NoSem
<1>1. pc' = pc /\ handle' = handle
  BY DEF Construct, Unlink, Open, OpenFails, Post
<1> SUFFICES ASSUME failures' = 0
             PROVE  SettledInv'
  BY DEF SettledInv
<1>2. failures = 0 /\ ~OpenFails(o)
  BY DEF Construct, Unlink, Open, OpenFails, Post
<1>3. CASE Unlink(o)
  BY <1>1, <1>2, <1>3 DEF Unlink, SettledInv
<1>4. CASE Open(o)
  <2>1. sem'[o] \in Sems /\ \A q \in Objects : q # o => sem'[q] = sem[q]
    BY <1>4 DEF Open
  <2>2. built[o] = "unlinked" /\ built' = [built EXCEPT ![o] = "opened"]
    BY <1>4 DEF Open
  <2>3. \A u \in Users : pc[u] # "none" => ObjectOf[u] # o
    BY <1>2, <2>2 DEF SettledInv
  <2>. QED  BY <1>1, <1>2, <2>1, <2>2, <2>3 DEF SettledInv
<1>5. CASE Post(o)
  BY <1>1, <1>2, <1>5 DEF Post, SettledInv
<1>. QED  BY <1>2, <1>3, <1>4, <1>5 DEF Construct

LEMMA UseSettles ==
  ASSUME TypeOK, SettledInv, NEW u \in Users, Use(u)
  PROVE  SettledInv'
<1> USE DEF TypeOK, kernelVars, objectVars, userVars, Goto
<1>1. built' = built /\ sem' = sem /\ failures' = failures
      /\ \A v \in Users : v # u => pc'[v] = pc[v] /\ handle'[v] = handle[v]
  BY DEF Use, Fork, Lock, Waited, Interrupted, Invalid, Reopen, ReopenFails,
         Unlock, Die
<1> SUFFICES ASSUME failures = 0
             PROVE  SettledInv'
  BY <1>1 DEF SettledInv
<1>2. pc[u] # "none" => handle[u] \in Sems /\ pc[u] \notin {"reopen", "waitAgain"}
  BY DEF SettledInv
<1>3. ~Invalid(u) /\ ~Reopen(u) /\ ~ReopenFails(u)
  BY <1>2 DEF Invalid, Reopen, ReopenFails, Sems, NoSem
<1>4. CASE Fork(u)
  BY <1>1, <1>4 DEF Fork, SettledInv
<1>5. CASE Lock(u) \/ Waited(u) \/ Interrupted(u) \/ Unlock(u) \/ Die(u)
  <2>1. pc[u] # "none" /\ handle' = handle /\ pc'[u] \notin {"reopen", "waitAgain"}
    BY <1>5 DEF Lock, Waited, Interrupted, Unlock, Die
  <2>. QED  BY <1>1, <2>1 DEF SettledInv
<1>. QED  BY <1>3, <1>4, <1>5 DEF Use

LEMMA NextInv == Inv /\ [Next]_vars => Inv'
<1> SUFFICES ASSUME Inv, [Next]_vars
             PROVE  Inv'
  OBVIOUS
<1>1. CASE UNCHANGED vars
  BY <1>1 DEF vars, kernelVars, objectVars, userVars, Inv, TypeOK, CountInv,
              SettledInv, Permits, Holding
<1>2. ASSUME NEW o \in Objects, Construct(o)
      PROVE  Inv'
  BY <1>2, ConstructTypes, ConstructCounts, ConstructSettles DEF Inv
<1>3. ASSUME NEW u \in Users, Use(u)
      PROVE  Inv'
  BY <1>3, UseTypes, UseCounts, UseSettles DEF Inv
<1>. QED  BY <1>1, <1>2, <1>3 DEF Next

LEMMA InvHolds == Spec => []Inv
BY InitInv, NextInv, PTL DEF Spec

(* Nobody gives a semaphore back for the dead, but nobody makes permits    *)
(* either, except the constructors and the interrupted Lock.               *)
THEOREM PermitsCountedHolds == Spec => []PermitsCounted
<1>1. Inv => PermitsCounted
  <2> SUFFICES ASSUME Inv, NEW s \in Sems
               PROVE  Cardinality(Holding(s)) <= posted[s] + interrupts
    BY DEF PermitsCounted
  <2>1. value[s] \in Nat /\ posted[s] \in Nat /\ interrupts \in Nat
    BY DEF Inv, TypeOK
  <2>. QED  BY <2>1, HoldingFinite DEF Inv, CountInv, Permits
<1>. QED  BY <1>1, InvHolds, PTL

-----------------------------------------------------------------------------
(* The lock.                                                               *)

(* The processes inside an undisturbed object are at most one.             *)
LEMMA OneOwner ==
  ASSUME Inv, NEW o \in Objects, Undisturbed(o)
  PROVE  /\ IsFiniteSet(Owners(o)) /\ Cardinality(Owners(o)) <= 1
         /\ \A u, v \in Owners(o) : u = v
<1>1. Owners(o) \in SUBSET Users
  BY DEF Owners
<1>2. IsFiniteSet(Owners(o)) /\ Cardinality(Owners(o)) \in Nat
  BY <1>1, FS_Subset, FS_CardinalityType
<1>3. Cardinality(Owners(o)) <= 1
  <2>1. CASE Owners(o) = {}
    BY <2>1, FS_EmptySet
  <2>2. CASE Owners(o) # {}
    <3>1. sem[o] \in Sems /\ sem[o] # NoSem
      BY <2>2 DEF Undisturbed, Inv, SettledInv, Owners, Sems, NoSem
    <3>2. Owners(o) \in SUBSET Holding(sem[o])
      BY DEF Undisturbed, Inv, SettledInv, Owners, Holding
    <3>3. Cardinality(Owners(o)) <= Cardinality(Holding(sem[o]))
      BY <3>2, HoldingFinite, FS_Subset
    <3>4. /\ value[sem[o]] \in Nat /\ posted[sem[o]] \in Nat
          /\ posted[sem[o]] <= 1 /\ interrupts = 0
      BY <3>1 DEF Undisturbed, Inv, TypeOK
    <3>5. value[sem[o]] + Cardinality(Holding(sem[o]))
            <= posted[sem[o]] + interrupts
      BY <3>1 DEF Inv, CountInv, Permits
    <3>6. Cardinality(Holding(sem[o])) \in Nat
      BY HoldingFinite
    <3>. QED  BY <1>2, <3>3, <3>4, <3>5, <3>6
  <2>. QED  BY <2>1, <2>2
<1>4. \A u, v \in Owners(o) : u = v
  <2>1. Cardinality(Owners(o)) = 0 \/ Cardinality(Owners(o)) = 1
    BY <1>2, <1>3
  <2>2. CASE Cardinality(Owners(o)) = 0
    BY <1>2, <2>2, FS_EmptySet
  <2>3. CASE Cardinality(Owners(o)) = 1
    BY <1>2, <2>3, FS_Singleton
  <2>. QED  BY <2>1, <2>2, <2>3
<1>. QED  BY <1>2, <1>3, <1>4

LEMMA OneOwnerAlways ==
  \A q \in Objects : Inv /\ Undisturbed(q) =>
    Cardinality(Owners(q)) <= 1 /\ \A u, v \in Owners(q) : u = v
BY OneOwner

LEMMA OneOwnerNext ==
  (\A q \in Objects : Inv /\ Undisturbed(q) =>
     Cardinality(Owners(q)) <= 1 /\ \A u, v \in Owners(q) : u = v)'
BY OneOwnerAlways, PTL

(* How a step changes the owners of an object that it leaves undisturbed.  *)
LEMMA OwnerSteps ==
  ASSUME Inv, Inv', Next, NEW o \in Objects, Undisturbed(o)'
  PROVE  \/ Owners(o)' = Owners(o)
         \/ \E u \in Users : /\ ObjectOf[u] = o
                             /\ \/ Owners(o) = {} /\ Owners(o)' = {u}
                                \/ Owners(o) = {u} /\ Owners(o)' = {}
<1> USE DEF kernelVars, objectVars, userVars, Goto, Owners
<1>1. ASSUME NEW q \in Objects, Construct(q)
      PROVE  Owners(o)' = Owners(o)
  BY <1>1 DEF Construct, Unlink, Open, OpenFails, Post
<1>2. ASSUME NEW u \in Users, Use(u)
      PROVE  \/ Owners(o)' = Owners(o)
             \/ /\ ObjectOf[u] = o
                /\ \/ Owners(o) = {} /\ Owners(o)' = {u}
                   \/ Owners(o) = {u} /\ Owners(o)' = {}
  <2>1. /\ sem' = sem /\ posted' = posted /\ failures' = failures
        /\ \A v \in Users : v # u => pc'[v] = pc[v]
    BY <1>2 DEF Use, Fork, Lock, Waited, Interrupted, Invalid, Reopen,
                ReopenFails, Unlock, Die, Inv, TypeOK
  <2>2. interrupts \in Nat /\ interrupts' = 0
    BY DEF Undisturbed, Inv, TypeOK
  <2>3. ~Interrupted(u)
    BY <2>2 DEF Interrupted
  <2>4. interrupts' = interrupts
    BY <1>2, <2>3 DEF Use, Fork, Lock, Waited, Invalid, Reopen, ReopenFails,
                      Unlock, Die
  <2>5. Undisturbed(o)
    BY <2>1, <2>4 DEF Undisturbed
  <2>6. /\ \A v, w \in Owners(o) : v = w
        /\ \A v, w \in Owners(o)' : v = w
    <3>1. \A v, w \in Owners(o) : v = w
      BY <2>5, OneOwner DEF Inv
    <3>2. (\A v, w \in Owners(o) : v = w)'
      BY OneOwnerNext
    <3>. QED  BY <3>1, <3>2
  <2>7. CASE (pc[u] = "held") = (pc'[u] = "held") \/ ObjectOf[u] # o
    BY <2>1, <2>7
  <2>8. CASE ObjectOf[u] = o /\ pc[u] = "held" /\ pc'[u] # "held"
    <3>1. Owners(o) = {u}
      BY <2>6, <2>8
    <3>2. Owners(o)' = {}
      BY <2>1, <2>8, <3>1
    <3>. QED  BY <2>8, <3>1, <3>2
  <2>9. CASE ObjectOf[u] = o /\ pc[u] # "held" /\ pc'[u] = "held"
    <3>1. Owners(o)' = {u}
      BY <2>6, <2>9
    <3>2. Owners(o) = {}
      BY <2>1, <2>9, <3>1
    <3>. QED  BY <2>9, <3>1, <3>2
  <2>. QED  BY <2>7, <2>8, <2>9
<1>. QED  BY <1>1, <1>2 DEF Next

(* An undisturbed AutoSemaphore is the exclusive lock that a Mutex is,     *)
(* with nothing that gives it back for the dead.                           *)
THEOREM LockImplemented == Spec => ImplementsLock
<1>1. Init => \A o \in Objects : Abs(o)!Init
  BY DEF Init, Owners, AbsOwner, Abs!Init
<1>2. Inv /\ Inv' /\ [Next]_vars =>
        [\A o \in Objects : Undisturbed(o)' =>
           /\ Cardinality(Owners(o)') <= 1
           /\ Abs(o)!Next \/ UNCHANGED AbsOwner(o)]_vars
  <2> SUFFICES ASSUME Inv, Inv', Next, NEW o \in Objects, Undisturbed(o)'
               PROVE  /\ Cardinality(Owners(o)') <= 1
                      /\ Abs(o)!Next \/ UNCHANGED AbsOwner(o)
    OBVIOUS
  <2>1. Cardinality(Owners(o)') <= 1
    BY OneOwnerNext
  <2>2. CASE Owners(o)' = Owners(o)
    BY <2>1, <2>2 DEF AbsOwner
  <2>3. ASSUME NEW u \in Users, ObjectOf[u] = o,
               Owners(o) = {}, Owners(o)' = {u}
        PROVE  Abs(o)!Next
    BY <2>3 DEF AbsOwner, Abs!Next, Abs!Lock
  <2>4. ASSUME NEW u \in Users, ObjectOf[u] = o,
               Owners(o) = {u}, Owners(o)' = {}
        PROVE  Abs(o)!Next
    BY <2>4 DEF AbsOwner, Abs!Next, Abs!Unlock
  <2>. QED  BY <2>1, <2>2, <2>3, <2>4, OwnerSteps
<1>. QED  BY <1>1, <1>2, InvHolds, PTL DEF Spec, ImplementsLock
=============================================================================
