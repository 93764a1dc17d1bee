------------------------------ MODULE SemMutex ------------------------------
(***************************************************************************)
(* struct Mutex of utility/libs/main/src/mutex.{h,cpp}, Unix build: a      *)
(* scoped lock on a System V semaphore that is zero when free.             *)
(*                                                                         *)
(* Every process runs scopes of the form { Mutex here(sem); body }.  The   *)
(* constructor acquires, the destructor releases.  A process may be killed *)
(* anywhere, and a handled signal may interrupt a semtimedop that sleeps.  *)
(* SEM_UNDO is the kernel's side of the protocol: see SysVSem.             *)
(***************************************************************************)
EXTENDS SysVSem, FiniteSets

CONSTANTS
  Checkers,        \* callers that test "failed" after the constructor, as
                   \* HTTPServer::WaitForCall does; HeapQueue does not
  Timed,           \* secs or nanosecs is not zero: semtimedop has a timeout
  MaxInterrupts,   \* bound: how many signals interrupt a sleeping semtimedop
  NoOwner          \* the owner of the abstract lock when it is free

ASSUME SemMutexAssumption ==
  /\ Checkers \subseteq Procs
  /\ Timed \in BOOLEAN
  /\ MaxInterrupts \in Nat
  /\ NoOwner \notin Procs

VARIABLES
  pc,              \* where each process stands in its scope
  failed,          \* the member "failed" of the Mutex on its stack
  interrupts       \* the number of interrupts so far

vars == <<semval, semadj, pc, failed, interrupts>>

(* "outside" no Mutex on the stack, "acquire" inside the constructor,      *)
(* "body" constructor returned, "release" inside the destructor.           *)
Locations == {"outside", "acquire", "body", "release", "dead"}

TypeOK ==
  /\ SemTypeOK
  /\ pc \in [Procs -> Locations]
  /\ failed \in [Procs -> BOOLEAN]
  /\ interrupts \in 0 .. MaxInterrupts

Init ==
  /\ SemInit
  /\ pc = [p \in Procs |-> "outside"]
  /\ failed = [p \in Procs |-> FALSE]
  /\ interrupts = 0

Goto(p, l) == pc' = [pc EXCEPT ![p] = l]

(* The constructor is entered: failed = false, then acquire().             *)
Construct(p) ==
  /\ pc[p] = "outside"
  /\ Goto(p, "acquire")
  /\ failed' = [failed EXCEPT ![p] = FALSE]
  /\ UNCHANGED <<semval, semadj, interrupts>>

(* semtimedop returns 0.                                                   *)
Acquired(p) ==
  /\ pc[p] = "acquire"
  /\ WaitZeroThenInc(p)
  /\ Goto(p, "body")
  /\ UNCHANGED <<failed, interrupts>>

(* semtimedop sleeps and a handled signal arrives: EINTR.  The constructor *)
(* returns normally, so the destructor will run; a caller that tests       *)
(* "failed" leaves the scope at once, any other goes on with the body.     *)
AcquireInterrupted(p) ==
  /\ pc[p] = "acquire"
  /\ semval # 0
  /\ interrupts < MaxInterrupts
  /\ interrupts' = interrupts + 1
  /\ failed' = [failed EXCEPT ![p] = TRUE]
  /\ Goto(p, IF p \in Checkers THEN "release" ELSE "body")
  /\ UNCHANGED <<semval, semadj>>

(* A slip the runs must notice: the destructor runs after the constructor  *)
(* has thrown.                                                             *)
TimedOutButReleases(p) ==
  /\ Timed
  /\ pc[p] = "acquire"
  /\ semval # 0
  /\ failed' = [failed EXCEPT ![p] = TRUE]
  /\ Goto(p, "release")
  /\ UNCHANGED <<semval, semadj, interrupts>>

(* semtimedop gives up: the constructor throws, there is no object and its *)
(* destructor does not run.                                                *)
AcquireTimedOut(p) ==
  /\ Timed
  /\ pc[p] = "acquire"
  /\ semval # 0
  /\ failed' = [failed EXCEPT ![p] = TRUE]
  /\ Goto(p, "outside")
  /\ UNCHANGED <<semval, semadj, interrupts>>

(* The scope ends, by falling off its end, by return or by an exception.   *)
LeaveBody(p) ==
  /\ pc[p] = "body"
  /\ Goto(p, "release")
  /\ UNCHANGED <<semval, semadj, failed, interrupts>>

(* The destructor's semtimedop returns 0.                                  *)
Released(p) ==
  /\ pc[p] = "release"
  /\ Decrement(p)
  /\ Goto(p, "outside")
  /\ UNCHANGED <<failed, interrupts>>

(* The destructor's semtimedop sleeps on a zero semaphore and is           *)
(* interrupted or gives up: release() throws out of the destructor, which  *)
(* ends the process.                                                       *)
ReleaseFailed(p) ==
  /\ pc[p] = "release"
  /\ semval = 0
  /\ \/ interrupts < MaxInterrupts /\ interrupts' = interrupts + 1
     \/ Timed /\ UNCHANGED interrupts
  /\ UndoAtExit(p)
  /\ failed' = [failed EXCEPT ![p] = TRUE]
  /\ Goto(p, "dead")

(* The process exits or is killed, wherever it is.                         *)
Die(p) ==
  /\ pc[p] # "dead"
  /\ UndoAtExit(p)
  /\ Goto(p, "dead")
  /\ UNCHANGED <<failed, interrupts>>

(* Another process takes its place.                                        *)
Start(p) ==
  /\ pc[p] = "dead"
  /\ Goto(p, "outside")
  /\ UNCHANGED <<semval, semadj, failed, interrupts>>

Step(p) ==
  \/ Construct(p) \/ Acquired(p) \/ AcquireInterrupted(p) \/ AcquireTimedOut(p)
  \/ LeaveBody(p) \/ Released(p) \/ ReleaseFailed(p)
  \/ Die(p) \/ Start(p)

Next == \E p \in Procs : Step(p)

Spec == Init /\ [][Next]_vars

(* A process that can go on goes on: the scheduler runs it, and the kernel *)
(* completes a semtimedop that stays possible.  Nothing makes a process    *)
(* start a scope, die or be interrupted.                                   *)
Fairness == \A p \in Procs : WF_vars(LeaveBody(p)) /\ WF_vars(Released(p))

(* The kernel queues the sleepers of a semaphore in order of arrival, so a *)
(* process that sleeps in the constructor is not passed over for ever.     *)
QueuedFairness == \A p \in Procs : SF_vars(Acquired(p))

LiveSpec == Spec /\ Fairness /\ QueuedFairness

-----------------------------------------------------------------------------
InBody == {p \in Procs : pc[p] = "body"}

(* The processes between the end of a successful acquire() and the end of  *)
(* the destructor's release().                                             *)
Holders == {p \in Procs : pc[p] \in {"body", "release"}}

(* The one holder is the one process with an undo adjustment, and the      *)
(* semaphore is one or zero as there is a holder or not.                   *)
OneHolder ==
  /\ semval \in {0, 1}
  /\ \A p \in Procs : semadj[p] = IF p \in Holders THEN -1 ELSE 0
  /\ \A p, q \in Holders : p = q
  /\ (semval = 1) <=> (Holders # {})

(* The invariant of the mutex of mutex.cpp: whoever waits, gives up or     *)
(* dies, OneHolder stands until a signal interrupts a constructor that     *)
(* sleeps.                                                                 *)
IInv == TypeOK /\ (interrupts = 0 => OneHolder)

(* Two processes are never inside scopes of the same semaphore: what a     *)
(* Mutex is for (mutex.h:31-33).                                           *)
MutualExclusion == \A p, q \in InBody : p = q

(* Mutual exclusion is kept for as long as no signal interrupts a          *)
(* constructor that waits.                                                 *)
UninterruptedExclusion == interrupts = 0 => MutualExclusion

(* The semaphore is free exactly when nobody holds it, even after the      *)
(* death of a holder: the lock is neither lost nor given away              *)
(* (SEM_UNDO of mutex.cpp:14 and :30).                                     *)
FreeIffUnheld == interrupts = 0 => ((semval = 0) <=> (Holders = {}))

(* Every interrupt lets at most one more process than allowed into the     *)
(* critical section, whoever dies and whether callers test "failed" or     *)
(* not: an interrupted constructor that is followed by a release is the    *)
(* only breach.                                                            *)
BreachesCounted == Cardinality(InBody) <= 1 + interrupts

(* A process that waits in the constructor gets the lock, unless it dies   *)
(* or gives up first: no holder keeps it for ever, and its death frees it. *)
WaiterServed ==
  [](interrupts = 0) => \A p \in Procs : pc[p] = "acquire" ~> pc[p] # "acquire"

-----------------------------------------------------------------------------
AbsOwner == IF Holders = {} THEN NoOwner ELSE CHOOSE p \in Holders : TRUE

Abs == INSTANCE ExclusiveLock WITH owner <- AbsOwner

(* The scope is the exclusive lock of mutex.h, through the death of its    *)
(* owner, for as long as nothing is interrupted: every step is a step of   *)
(* the abstract lock or leaves its owner alone.                            *)
ImplementsLock ==
  Abs!Init /\ [][interrupts' = 0 => Abs!Next \/ UNCHANGED AbsOwner]_vars
=============================================================================
