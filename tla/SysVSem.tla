------------------------------ MODULE SysVSem ------------------------------
(***************************************************************************)
(* One System V semaphore and the undo adjustment the kernel keeps of it   *)
(* for every process.  The kernel is not part of the repository: what is   *)
(* stated here is what semtimedop(2) and exit(2) do with the two operation *)
(* arrays of utility/libs/main/src/mutex.cpp, both of them SEM_UNDO.       *)
(***************************************************************************)
EXTENDS Integers

CONSTANT Procs          \* the processes that share the semaphore

VARIABLES
  semval,               \* the value of the semaphore
  semadj                \* semadj[p]: what the exit of p will add to semval

semVars == <<semval, semadj>>

(* semget(IPC_PRIVATE, 1, IPC_CREAT): Linux creates the semaphore at zero, *)
(* and a forked child starts without adjustments.                          *)
SemInit ==
  /\ semval = 0
  /\ semadj = [p \in Procs |-> 0]

-----------------------------------------------------------------------------
(* Slips the runs must notice: the array of acquire without its first      *)
(* operation, and without SEM_UNDO.                                        *)
IncWithoutWait(p) ==
  /\ semval' = semval + 1
  /\ semadj' = [semadj EXCEPT ![p] = @ - 1]

IncNoUndo(p) ==
  /\ semval = 0
  /\ semval' = semval + 1
  /\ semadj' = semadj

-----------------------------------------------------------------------------
(* {wait for zero; +1 SEM_UNDO}, atomic: the caller sleeps until it may.   *)
WaitZeroThenInc(p) ==
  /\ semval = 0
  /\ semval' = semval + 1
  /\ semadj' = [semadj EXCEPT ![p] = @ - 1]

(* {-1 SEM_UNDO}: the caller sleeps while the value is zero.               *)
Decrement(p) ==
  /\ semval > 0
  /\ semval' = semval - 1
  /\ semadj' = [semadj EXCEPT ![p] = @ + 1]

(* The end of p, however it comes: the adjustments of p are applied, and a *)
(* value that would be negative is set to zero.                            *)
UndoAtExit(p) ==
  /\ semval' = IF semval + semadj[p] < 0 THEN 0 ELSE semval + semadj[p]
  /\ semadj' = [semadj EXCEPT ![p] = 0]

SemTypeOK ==
  /\ semval \in Nat
  /\ semadj \in [Procs -> Int]
=============================================================================
