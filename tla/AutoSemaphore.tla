---------------------------- MODULE AutoSemaphore ----------------------------
(***************************************************************************)
(* AutoSemaphore and AutoSemaphoreLock of utility/libs/main/src/           *)
(* autosemaphore.{h,cpp}: a scoped lock on a named POSIX semaphore, which  *)
(* nothing gives back when its holder dies.                                *)
(*                                                                         *)
(* Each object is constructed by one process, which removes and creates    *)
(* the name; its users are the processes forked with a copy of it, each in *)
(* scopes { AutoSemaphoreLock lock(&sem); body }.  All objects have the    *)
(* same name.                                                              *)
(***************************************************************************)
EXTENDS Integers, FiniteSets

CONSTANTS
  Objects,         \* the AutoSemaphores of that name
  Users,           \* the processes that lock them
  ObjectOf,        \* the object each user has a copy of
  MaxInterrupts,   \* bound: how many signals interrupt a sleeping sem_wait
  MaxFailures,     \* bound: how many constructors sem_open fails
  MaxSems,         \* bound: how many semaphores the kernel creates
  NoOwner          \* the owner of the abstract lock when it is free

ASSUME AutoSemaphoreAssumption ==
  /\ IsFiniteSet(Users)
  /\ ObjectOf \in [Users -> Objects]
  /\ MaxInterrupts \in Nat /\ MaxFailures \in Nat /\ MaxSems \in Nat
  /\ NoOwner \notin Users

Sems == 1 .. MaxSems
NoSem == 0             \* SEM_FAILED, or a name that does not exist

VARIABLES
  name,            \* the semaphore the name stands for
  made,            \* how many semaphores the kernel has created
  value,           \* their values
  built,           \* how far the constructor of each object is
  sem,             \* _Semaphore as the constructor of each object left it
  posted,          \* how many constructors have posted each semaphore
  pc,              \* where each user stands
  handle,          \* _Semaphore in the copy of each user
  tries,           \* index, in the loop of Lock
  interrupts, failures

kernelVars == <<name, made, value>>
objectVars == <<built, sem, posted>>
userVars == <<pc, handle, tries>>
vars == <<kernelVars, objectVars, userVars, interrupts, failures>>

TypeOK ==
  /\ made \in 0 .. MaxSems /\ name \in 0 .. made
  /\ value \in [Sems -> Nat] /\ posted \in [Sems -> Nat]
  /\ built \in [Objects -> {"no", "unlinked", "opened", "built"}]
  /\ sem \in [Objects -> 0 .. MaxSems]
  /\ pc \in [Users -> {"none", "ready", "wait", "reopen", "waitAgain", "held",
                       "dead"}]
  /\ handle \in [Users -> 0 .. MaxSems] /\ tries \in [Users -> 0 .. 2]
  /\ interrupts \in 0 .. MaxInterrupts /\ failures \in 0 .. MaxFailures

Init ==
  /\ name = NoSem /\ made = 0 /\ value = [s \in Sems |-> 0]
  /\ built = [o \in Objects |-> "no"] /\ sem = [o \in Objects |-> NoSem]
  /\ posted = [s \in Sems |-> 0]
  /\ pc = [u \in Users |-> "none"] /\ handle = [u \in Users |-> NoSem]
  /\ tries = [u \in Users |-> 0]
  /\ interrupts = 0 /\ failures = 0

-----------------------------------------------------------------------------
(* A slip the runs must notice: the semaphore is created free.             *)
SemOpenFree(s) ==
  \/ name # NoSem /\ s = name /\ UNCHANGED kernelVars
  \/ /\ name = NoSem /\ made < MaxSems
     /\ s = made + 1 /\ made' = s /\ name' = s
     /\ value' = [value EXCEPT ![s] = 1]

(* sem_open(_Name, O_CREAT, S_IRUSR | S_IWUSR, 0) = s.                     *)
SemOpen(s) ==
  \/ name # NoSem /\ s = name /\ UNCHANGED kernelVars
  \/ /\ name = NoSem /\ made < MaxSems
     /\ s = made + 1 /\ made' = s /\ name' = s
     /\ UNCHANGED value

(* sem_post.                                                               *)
SemPost(s) ==
  /\ value' = [value EXCEPT ![s] = @ + 1]
  /\ UNCHANGED <<name, made>>

-----------------------------------------------------------------------------
(* The three system calls of the constructor.                              *)
Unlink(o) ==
  /\ built[o] = "no"
  /\ name' = NoSem
  /\ built' = [built EXCEPT ![o] = "unlinked"]
  /\ UNCHANGED <<made, value, sem, posted, userVars, interrupts, failures>>

Open(o) ==
  /\ built[o] = "unlinked"
  /\ \E s \in Sems : SemOpen(s) /\ sem' = [sem EXCEPT ![o] = s]
  /\ built' = [built EXCEPT ![o] = "opened"]
  /\ UNCHANGED <<posted, userVars, interrupts, failures>>

(* XSEM(ERROR_INIT_SEM) is caught in the constructor, which deletes _Name  *)
(* and returns: the object exists all the same.                            *)
OpenFails(o) ==
  /\ built[o] = "unlinked" /\ failures < MaxFailures
  /\ failures' = failures + 1
  /\ built' = [built EXCEPT ![o] = "built"]
  /\ UNCHANGED <<kernelVars, sem, posted, userVars, interrupts>>

Post(o) ==
  /\ built[o] = "opened"
  /\ SemPost(sem[o])
  /\ posted' = [posted EXCEPT ![sem[o]] = @ + 1]
  /\ built' = [built EXCEPT ![o] = "built"]
  /\ UNCHANGED <<sem, userVars, interrupts, failures>>

(* A process is forked with its copy of the object.                        *)
Fork(u) ==
  /\ pc[u] = "none" /\ built[ObjectOf[u]] = "built"
  /\ pc' = [pc EXCEPT ![u] = "ready"]
  /\ handle' = [handle EXCEPT ![u] = sem[ObjectOf[u]]]
  /\ UNCHANGED <<kernelVars, objectVars, tries, interrupts, failures>>

-----------------------------------------------------------------------------
Goto(u, l) == pc' = [pc EXCEPT ![u] = l]

(* AutoSemaphoreLock calls Lock, and Lock sem_wait.                        *)
Lock(u) ==
  /\ pc[u] = "ready" /\ Goto(u, "wait")
  /\ UNCHANGED <<kernelVars, objectVars, handle, tries, interrupts, failures>>

(* sem_wait returns 0.                                                     *)
Waited(u) ==
  /\ pc[u] \in {"wait", "waitAgain"} /\ handle[u] # NoSem
  /\ value[handle[u]] > 0
  /\ value' = [value EXCEPT ![handle[u]] = @ - 1]
  /\ Goto(u, "held")
  /\ UNCHANGED <<name, made, objectVars, handle, tries, interrupts, failures>>

(* EINTR: Lock returns as if it had the semaphore after its first sem_wait,*)
(* and throws after the second, so that AutoSemaphoreLock never exists.    *)
Interrupted(u) ==
  /\ pc[u] \in {"wait", "waitAgain"} /\ handle[u] # NoSem
  /\ value[handle[u]] = 0
  /\ interrupts < MaxInterrupts /\ interrupts' = interrupts + 1
  /\ Goto(u, IF pc[u] = "wait" THEN "held" ELSE "ready")
  /\ UNCHANGED <<kernelVars, objectVars, handle, tries, failures>>

(* sem_wait on SEM_FAILED: EINVAL where the library tests it, or a crash.  *)
Invalid(u) ==
  /\ pc[u] = "wait" /\ handle[u] = NoSem
  /\ \/ Goto(u, "reopen") \/ Goto(u, "dead")
  /\ tries' = [tries EXCEPT ![u] = 0]
  /\ UNCHANGED <<kernelVars, objectVars, handle, interrupts, failures>>

(* The loop of Lock.  _Name points to freed memory here: it may still hold *)
(* the name, or another one, whose semaphore is created at zero.           *)
Reopen(u) ==
  /\ pc[u] = "reopen"
  /\ \E s \in Sems :
       /\ \/ SemOpen(s)
          \/ /\ made < MaxSems /\ s = made + 1 /\ made' = s
             /\ UNCHANGED <<name, value>>
       /\ handle' = [handle EXCEPT ![u] = s]
  /\ Goto(u, "waitAgain")
  /\ UNCHANGED <<objectVars, tries, interrupts, failures>>

ReopenFails(u) ==
  /\ pc[u] = "reopen"
  /\ \/ tries[u] < 2 /\ tries' = [tries EXCEPT ![u] = @ + 1] /\ UNCHANGED pc
     \/ tries[u] = 2 /\ Goto(u, "ready") /\ UNCHANGED tries
  /\ UNCHANGED <<kernelVars, objectVars, handle, interrupts, failures>>

(* ~AutoSemaphoreLock.                                                     *)
Unlock(u) ==
  /\ pc[u] = "held"
  /\ SemPost(handle[u])
  /\ Goto(u, "ready")
  /\ UNCHANGED <<objectVars, handle, tries, interrupts, failures>>

(* The process ends, or destroys its copy: sem_close changes no value.     *)
Die(u) ==
  /\ pc[u] \notin {"none", "dead"}
  /\ Goto(u, "dead")
  /\ UNCHANGED <<kernelVars, objectVars, handle, tries, interrupts, failures>>

Construct(o) == Unlink(o) \/ Open(o) \/ OpenFails(o) \/ Post(o)

Use(u) ==
  \/ Fork(u) \/ Lock(u) \/ Waited(u) \/ Interrupted(u) \/ Invalid(u)
  \/ Reopen(u) \/ ReopenFails(u) \/ Unlock(u) \/ Die(u)

Next == (\E o \in Objects : Construct(o)) \/ (\E u \in Users : Use(u))

Spec == Init /\ [][Next]_vars

-----------------------------------------------------------------------------
Holding(s) == {u \in Users : pc[u] = "held" /\ handle[u] = s}

(* How many processes are inside scopes of one semaphore: no more than the *)
(* constructors that have posted it, two when both removed the name before *)
(* either created it, and one for every interrupted Lock.                  *)
PermitsCounted ==
  \A s \in Sems : Cardinality(Holding(s)) <= posted[s] + interrupts

Owners(o) == {u \in Users : pc[u] = "held" /\ ObjectOf[u] = o}

AbsOwner(o) == IF Owners(o) = {} THEN NoOwner
                                 ELSE CHOOSE u \in Owners(o) : TRUE

Abs(o) == INSTANCE ExclusiveLock
            WITH Procs <- {u \in Users : ObjectOf[u] = o}, owner <- AbsOwner(o)

(* Nothing has gone wrong with o: no interrupt, no sem_open that failed,   *)
(* and no other constructor has posted its semaphore.                      *)
Undisturbed(o) ==
  /\ interrupts = 0 /\ failures = 0
  /\ sem[o] # NoSem => posted[sem[o]] <= 1

(* An object is an exclusive lock of the processes that have it, whoever   *)
(* dies and whatever objects of the same name others construct, as long as *)
(* it is undisturbed.                                                      *)
ImplementsLock ==
  /\ \A o \in Objects : Abs(o)!Init
  /\ [][\A o \in Objects : Undisturbed(o)' =>
          /\ Cardinality(Owners(o)') <= 1
          /\ Abs(o)!Next \/ UNCHANGED AbsOwner(o)]_vars
=============================================================================
