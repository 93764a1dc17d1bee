------------------------------- MODULE TSem2 -------------------------------
(***************************************************************************)
(* class tSem2 of utility/libs/ti/src/tsem2.cpp: an exclusive/shared lock  *)
(* on three System V semaphores, Request, Reader and Writer.  Every array  *)
(* of operations is one atomic step of the kernel; all are SEM_UNDO.       *)
(***************************************************************************)
EXTENDS Integers, FiniteSets

CONSTANTS
  Procs,           \* the processes, each with one tSem2 of the same key
  Creators,        \* those constructed with Create: their ~tSem2 removes
  MaxInterrupts,   \* bound: how many signals interrupt a sleeping semop
  MaxCrashes       \* bound: how many processes die

ASSUME TSem2Assumption ==
  /\ IsFiniteSet(Procs)
  /\ Creators \subseteq Procs
  /\ MaxInterrupts \in Nat /\ MaxCrashes \in Nat

VARIABLES
  RQ, R, W,        \* the values of the three semaphores
  undo,            \* undo[p]: what the exit of p will subtract from them
  state,           \* state[p]: m_state
  pc,              \* where p stands in AquireEXCL, AquireSHR or Release
  exists,          \* the semaphore set has not been removed
  faults           \* the bounded interrupts and deaths so far

sems == <<RQ, R, W, undo>>
vars == <<sems, state, pc, exists, faults>>

Modes == {"Exclusive", "Share"}

(* "request" is the first semop, with QR, of an acquisition in this mode,  *)
(* "grant" the second, with AX or AS.                                      *)
RequestIn == [Exclusive |-> "requestEXCL", Share |-> "requestSHR"]
GrantIn == [Exclusive |-> "grantEXCL", Share |-> "grantSHR"]
Locations ==
  {"requestEXCL", "requestSHR", "grantEXCL", "grantSHR", "idle", "dead"}

Requesting(p, m) == pc[p] = RequestIn[m]
Granting(p, m) == pc[p] = GrantIn[m]
Queued(p) == \E m \in Modes : Granting(p, m)

TypeOK ==
  /\ RQ \in Nat /\ R \in Nat /\ W \in Nat
  /\ undo \in [Procs -> [rq : {0, 1}, r : {0, 1}, w : {0, 1}]]
  /\ state \in [Procs -> Modes \cup {"None"}]
  /\ pc \in [Procs -> Locations]
  /\ exists \in BOOLEAN
  /\ faults \in [interrupts : 0 .. MaxInterrupts, crashes : 0 .. MaxCrashes]

NoUndo == [rq |-> 0, r |-> 0, w |-> 0]

Init ==
  /\ RQ = 0 /\ R = 0 /\ W = 0
  /\ undo = [p \in Procs |-> NoUndo]
  /\ state = [p \in Procs |-> "None"]
  /\ pc = [p \in Procs |-> "idle"]
  /\ exists = TRUE
  /\ faults = [interrupts |-> 0, crashes |-> 0]

Goto(p, l) == pc' = [pc EXCEPT ![p] = l]

-----------------------------------------------------------------------------
(* AquireEXCL and AquireSHR.  An object that holds a semaphore throws.     *)
Aquire(p, m) ==
  /\ pc[p] = "idle"
  /\ state[p] = "None"
  /\ Goto(p, RequestIn[m])
  /\ UNCHANGED <<sems, state, exists, faults>>

(* A slip the runs must notice: the request semaphore is not waited for.   *)
RequestAtOnce(p, m) ==
  /\ Requesting(p, m)
  /\ RQ' = RQ + 1 /\ UNCHANGED <<R, W>>
  /\ undo' = [undo EXCEPT ![p].rq = 1]
  /\ Goto(p, GrantIn[m])
  /\ UNCHANGED <<state, exists, faults>>

(* QR: wait RQ == 0, inc RQ.                                               *)
Request(p, m) ==
  /\ Requesting(p, m)
  /\ exists
  /\ RQ = 0
  /\ RQ' = 1 /\ UNCHANGED <<R, W>>
  /\ undo' = [undo EXCEPT ![p].rq = 1]
  /\ Goto(p, GrantIn[m])
  /\ UNCHANGED <<state, exists, faults>>

(* A slip the runs must notice: a writer does not wait for the readers.    *)
ReadersIgnored(m) == W = 0

(* What AX and AS wait for.                                                *)
Free(m) == W = 0 /\ (m = "Exclusive" => R = 0)

(* Slips the runs must notice: the request is not given back, or the       *)
(* reader is counted without SEM_UNDO.                                     *)
GrantKeepsRequest(p, m) ==
  /\ Granting(p, m)
  /\ exists
  /\ Free(m)
  /\ IF m = "Exclusive"
     THEN W' = W + 1 /\ UNCHANGED R /\ undo' = [undo EXCEPT ![p].w = 1]
     ELSE R' = R + 1 /\ UNCHANGED W /\ undo' = [undo EXCEPT ![p].r = 1]
  /\ state' = [state EXCEPT ![p] = m]
  /\ Goto(p, "idle")
  /\ UNCHANGED <<RQ, exists, faults>>

GrantNoUndo(p, m) ==
  /\ Granting(p, m)
  /\ exists
  /\ Free(m) /\ RQ > 0
  /\ RQ' = RQ - 1
  /\ undo' = [undo EXCEPT ![p].rq = 0]
  /\ IF m = "Exclusive" THEN W' = W + 1 /\ UNCHANGED R
                        ELSE R' = R + 1 /\ UNCHANGED W
  /\ state' = [state EXCEPT ![p] = m]
  /\ Goto(p, "idle")
  /\ UNCHANGED <<exists, faults>>

(* AX: wait R == 0, wait W == 0, inc W, dec RQ.                            *)
(* AS: inc R, wait W == 0, dec RQ.                                         *)
Grant(p, m) ==
  /\ Granting(p, m)
  /\ exists
  /\ Free(m) /\ RQ > 0
  /\ RQ' = RQ - 1
  /\ IF m = "Exclusive"
     THEN /\ W' = W + 1 /\ UNCHANGED R
          /\ undo' = [undo EXCEPT ![p].rq = 0, ![p].w = 1]
     ELSE /\ R' = R + 1 /\ UNCHANGED W
          /\ undo' = [undo EXCEPT ![p].rq = 0, ![p].r = 1]
  /\ state' = [state EXCEPT ![p] = m]
  /\ Goto(p, "idle")
  /\ UNCHANGED <<exists, faults>>

(* semop fails, interrupted by a signal while it sleeps, or because the    *)
(* set is gone: XSem2 is thrown, and what the first semop did stays.       *)
AquireThrows(p) ==
  /\ \E m \in Modes :
       \/ Requesting(p, m) /\ (RQ # 0 \/ ~exists)
       \/ Granting(p, m) /\ (~Free(m) \/ RQ = 0 \/ ~exists)
  /\ IF exists
     THEN /\ faults.interrupts < MaxInterrupts
          /\ faults' = [faults EXCEPT !.interrupts = @ + 1]
     ELSE UNCHANGED faults
  /\ Goto(p, "idle")
  /\ UNCHANGED <<sems, state, exists>>

-----------------------------------------------------------------------------
(* Release, RX: dec W, or RS: dec R.  On a set that is gone it throws and  *)
(* m_state stays.                                                          *)
Release(p) ==
  /\ pc[p] = "idle" /\ exists
  /\ \/ /\ state[p] = "Exclusive" /\ W > 0
        /\ W' = W - 1 /\ UNCHANGED R
        /\ undo' = [undo EXCEPT ![p].w = 0]
     \/ /\ state[p] = "Share" /\ R > 0
        /\ R' = R - 1 /\ UNCHANGED W
        /\ undo' = [undo EXCEPT ![p].r = 0]
  /\ state' = [state EXCEPT ![p] = "None"]
  /\ UNCHANGED <<RQ, pc, exists, faults>>

(* ~tSem2 of a creator: IPC_RMID, whoever holds or waits.                  *)
Destroy(p) ==
  /\ p \in Creators
  /\ pc[p] = "idle" /\ exists
  /\ exists' = FALSE
  /\ Goto(p, "dead")
  /\ state' = [state EXCEPT ![p] = "None"]
  /\ UNCHANGED <<sems, faults>>

(* The process dies; the kernel undoes what it did to the semaphores.      *)
Die(p) ==
  /\ pc[p] # "dead"
  /\ faults.crashes < MaxCrashes
  /\ faults' = [faults EXCEPT !.crashes = @ + 1]
  /\ RQ' = RQ - undo[p].rq /\ R' = R - undo[p].r /\ W' = W - undo[p].w
  /\ undo' = [undo EXCEPT ![p] = NoUndo]
  /\ state' = [state EXCEPT ![p] = "None"]
  /\ Goto(p, "dead")
  /\ UNCHANGED exists

Next ==
  \E p \in Procs :
    \/ \E m \in Modes : Aquire(p, m) \/ Request(p, m) \/ Grant(p, m)
    \/ AquireThrows(p) \/ Release(p) \/ Destroy(p) \/ Die(p)

Spec == Init /\ [][Next]_vars

(* A holder releases, and the kernel serves the sleepers of the request    *)
(* semaphore in turn.  That the second semop only stays possible is enough *)
(* for it: nobody can come between.                                        *)
FairSpec ==
  /\ Spec
  /\ \A p \in Procs :
       /\ WF_vars(Release(p))
       /\ WF_vars(~exists /\ AquireThrows(p))
       /\ \A m \in Modes : SF_vars(Request(p, m)) /\ WF_vars(Grant(p, m))

-----------------------------------------------------------------------------
Writers == {p \in Procs : state[p] = "Exclusive"}
Readers == {p \in Procs : state[p] = "Share"}

(* The processes whose exit would lower Request, Reader or Writer.         *)
RaisedRQ == {p \in Procs : undo[p].rq = 1}
RaisedR == {p \in Procs : undo[p].r = 1}
RaisedW == {p \in Procs : undo[p].w = 1}

(* An exclusive holder is alone: no other process holds the lock in either *)
(* mode, whoever was interrupted or has died (the header of tsem2.cpp).    *)
Exclusion ==
  \A p \in Writers : Writers = {p} /\ Readers = {}

(* The strengthening that is inductive: every semaphore counts the         *)
(* processes that have raised it, these are the queued and the holders,    *)
(* and the exit of a process undoes exactly what it holds.                 *)
IInv ==
  /\ TypeOK
  /\ RQ = Cardinality(RaisedRQ)
  /\ R = Cardinality(RaisedR)
  /\ W = Cardinality(RaisedW)
  /\ RQ <= 1
  /\ \A p \in Procs : Queued(p) => p \in RaisedRQ
  /\ \A p \in Procs : state[p] # "None" => pc[p] = "idle"
  /\ Writers \subseteq RaisedW /\ Readers \subseteq RaisedR
  /\ exists => Writers = RaisedW /\ Readers = RaisedR
  /\ Exclusion

(* While one process is queued behind the request semaphore nobody else is *)
(* granted the lock: a writer waits for the readers there are and for none *)
(* that comes later ("trys to prevent hogging", tsem2.cpp:30).             *)
NoOvertaking ==
  [][\A p, q \in Procs :
       p # q /\ Queued(p) /\ state[q] = "None" => state'[q] = "None"]_vars

(* Who asks for the lock gets it, gives up because the set is gone, or     *)
(* dies ("Processes may get hungry but they won't starve", tsem2.cpp:31).  *)
NotStarved ==
  \A p \in Procs : pc[p] \notin {"idle", "dead"} ~> pc[p] \in {"idle", "dead"}

(* The same as long as no signal interrupts a semop that sleeps, whoever   *)
(* dies with the lock, a request or neither.                               *)
UninterruptedServed == [](faults.interrupts = 0) => NotStarved
=============================================================================
