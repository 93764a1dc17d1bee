--------------------------- MODULE ExclusiveLock ---------------------------
(***************************************************************************)
(* What utility/libs/main/src/mutex.h promises of a Mutex created on the   *)
(* stack: "When this goes out of scope the destructor will release.  The   *)
(* constructor acquires."  At most one process owns the lock, only the     *)
(* owner gives it back, and the death of the owner gives it back too.      *)
(***************************************************************************)
CONSTANTS Procs, NoOwner

VARIABLE owner

Init == owner = NoOwner

Lock(p) == owner = NoOwner /\ owner' = p

(* The destructor runs, or the owner dies inside the critical section.     *)
Unlock(p) == owner = p /\ owner' = NoOwner

Next == \E p \in Procs : Lock(p) \/ Unlock(p)

Spec == Init /\ [][Next]_owner
=============================================================================
