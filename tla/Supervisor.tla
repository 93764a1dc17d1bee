----------------------------- MODULE Supervisor -----------------------------
(***************************************************************************)
(* The parent process of an HTTPServer with {NoProcs} > 1 and no {Debug}:  *)
(* the loop of HTTPServer::CreateHandlers, with PIDList, _waitForChildren  *)
(* and _killChildren, utility/libs/http/src/httpserver.cpp:251-411.        *)
(*                                                                         *)
(* The children are seen here as the parent sees them: they run, end with  *)
(* an exit status or a signal, may be stopped and continued, and remain    *)
(* zombies until wait3 reports them.  HttpPrefork puts WaitForCall inside. *)
(***************************************************************************)
EXTENDS Integers, FiniteSets, Processes

CONSTANTS
  NoPid,            \* the pid_t 0, an empty element of PIDList
  Garbage,          \* what "new pid_t[noOf]" leaves in an element
  NoProcs,          \* {NoProcs} of the configuration file
  RestartCount,     \* {RestartCount}
  WaitChoices,      \* the values {WaitForChildren} may have
  ExitCodes,        \* what ServiceStart may return in a child
  MaxForkFailures,  \* bound: how often fork() fails with pids to spare
  MaxStops,         \* bound: how often a child is stopped (job control, ptrace)
  MaxCrashes        \* bound: how many children die of a signal

ASSUME SupervisorAssumption ==
  /\ NoProcs \in Nat /\ NoProcs > 1
  /\ RestartCount \in Nat
  /\ WaitChoices \subseteq BOOLEAN
  /\ ExitCodes \subseteq 0 .. 255
  /\ MaxForkFailures \in Nat /\ MaxStops \in Nat /\ MaxCrashes \in Nat
  /\ NoPid \notin Pids /\ Garbage \notin Pids /\ NoPid # Garbage

VARIABLES
  waitForChildren,  \* {WaitForChildren} of the configuration file
  outcome,          \* "looping", or why CreateHandlers returned
  list,             \* PIDList::list
  noProcs,          \* the member noProcs: slots taken to be in use
  childrenToOpen,   \* the pool size still aimed at
  restartCount,     \* restarts left before the next idle poll
  shutdown,         \* HTTPServer::shutdown in the parent
  child,            \* child[p]: the state of process p
  status,           \* status[p]: WEXITSTATUS of what wait3 would report of p
  signalled,        \* the values passed to kill(_, SIGUSR1)
  budget            \* the bounded failures that happened so far

parentVars == <<waitForChildren, outcome, list, noProcs, childrenToOpen,
                restartCount, shutdown>>
childVars  == <<child, status, budget>>
vars == <<parentVars, childVars, signalled>>

Slots == 0 .. NoProcs - 1

Outcomes == {"looping", "detached", "killed", "drained"}

(* "stopped" is not yet reported by wait3, "halted" is.                    *)
ChildStates == {"free", "running", "stopped", "halted", "zombie"}

TypeOK ==
  /\ waitForChildren \in BOOLEAN
  /\ outcome \in Outcomes
  /\ list \in [Slots -> Pids \cup {NoPid, Garbage}]
  /\ noProcs \in 0 .. NoProcs
  /\ childrenToOpen \in 0 .. NoProcs
  /\ restartCount \in 0 .. RestartCount
  /\ shutdown \in BOOLEAN
  /\ child \in [Pids -> ChildStates]
  /\ status \in [Pids -> 0 .. 255]
  /\ signalled \subseteq Pids \cup {Garbage}
  /\ budget \in [forks : 0 .. MaxForkFailures, stops : 0 .. MaxStops,
                 crashes : 0 .. MaxCrashes]

Init ==
  /\ waitForChildren \in WaitChoices
  /\ outcome = "looping"
  /\ list = [i \in Slots |-> Garbage]
  /\ noProcs = 0
  /\ childrenToOpen = NoProcs
  /\ restartCount = RestartCount
  /\ shutdown = FALSE
  /\ child = [p \in Pids |-> "free"]
  /\ status = [p \in Pids |-> 0]
  /\ signalled = {}
  /\ budget = [forks |-> 0, stops |-> 0, crashes |-> 0]

-----------------------------------------------------------------------------
(* The loop of CreateHandlers.                                             *)

PoolShort == outcome = "looping" /\ noProcs < childrenToOpen

(* fork() succeeds in the parent.                                          *)
Fork(p) ==
  /\ PoolShort
  /\ child[p] = "free"
  /\ child' = [child EXCEPT ![p] = "running"]
  /\ list' = [list EXCEPT ![noProcs] = p]
  /\ noProcs' = noProcs + 1
  /\ UNCHANGED <<waitForChildren, outcome, childrenToOpen, restartCount,
                 shutdown, status, signalled, budget>>

(* fork() fails: the pool is made smaller for good.                        *)
ForkFails ==
  /\ PoolShort
  /\ \/ budget.forks < MaxForkFailures
        /\ budget' = [budget EXCEPT !.forks = @ + 1]
     \/ (\A p \in Pids : child[p] # "free") /\ UNCHANGED budget
  /\ childrenToOpen' = childrenToOpen - 1
  /\ UNCHANGED <<waitForChildren, outcome, list, noProcs, restartCount,
                 shutdown, child, status, signalled>>

PoolFull == outcome = "looping" /\ noProcs >= childrenToOpen

(* "Not required to wait for children": the parent returns at once.        *)
Detach ==
  /\ PoolFull
  /\ ~waitForChildren
  /\ outcome' = "detached"
  /\ UNCHANGED <<waitForChildren, list, noProcs, childrenToOpen,
                 restartCount, shutdown, childVars, signalled>>

(* A slip the runs must notice: the return is missing.                     *)
KillChildrenStays ==
  /\ PoolFull
  /\ waitForChildren
  /\ shutdown
  /\ signalled' = {list[i] : i \in Slots} \ {NoPid}
  /\ UNCHANGED <<parentVars, childVars>>

(* "Required to kill child processes": _killChildren signals every word of *)
(* the list that is not zero, and the parent returns without waiting.      *)
KillChildren ==
  /\ PoolFull
  /\ waitForChildren
  /\ shutdown
  /\ signalled' = {list[i] : i \in Slots} \ {NoPid}
  /\ outcome' = "killed"
  /\ UNCHANGED <<waitForChildren, list, noProcs, childrenToOpen,
                 restartCount, shutdown, childVars>>

Polling == PoolFull /\ waitForChildren /\ ~shutdown

(* A slip the runs must notice: "< 0" for "== 0", which never holds.       *)
ReturnIfNegative ==
  outcome' = IF childrenToOpen' < 0 THEN "drained" ELSE outcome

(* The test that follows _waitForChildren: the parent is done once the     *)
(* pool is aimed at no child.                                              *)
ReturnIfDrained ==
  outcome' = IF childrenToOpen' = 0 THEN "drained" ELSE outcome

(* Slips the runs must notice: only the element itself is cleared, or it   *)
(* is left in the list.                                                    *)
Cleared(l, pid) == [i \in Slots |-> IF l[i] = pid THEN NoPid ELSE l[i]]
LeftIn(l, pid) == l

(* The element equal to pid is taken out, those behind it move one to the  *)
(* front and the last becomes zero.                                        *)
Removed(l, pid) ==
  IF \E i \in Slots : l[i] = pid
  THEN LET k == CHOOSE i \in Slots : l[i] = pid
       IN  [i \in Slots |-> IF i < k THEN l[i]
                            ELSE IF i < NoProcs - 1 THEN l[i + 1] ELSE NoPid]
  ELSE l

(* A slip the runs must notice: a child that failed keeps its slot.        *)
ReapKeepsSlot(p) ==
  /\ Polling
  /\ child[p] = "zombie"
  /\ child' = [child EXCEPT ![p] = "free"]
  /\ list' = Removed(list, p)
  /\ LET clean == status[p] = 0 /\ noProcs > 0
     IN  /\ noProcs' = IF clean THEN noProcs - 1 ELSE noProcs
         /\ childrenToOpen' = IF clean THEN childrenToOpen - 1 ELSE childrenToOpen
  /\ ReturnIfDrained
  /\ UNCHANGED <<waitForChildren, restartCount, shutdown, status, signalled,
                 budget>>

(* wait3(WNOHANG | WUNTRACED) reports p, ended or stopped.  A status other *)
(* than zero gives the slot back while restarts are left; zero makes the   *)
(* pool smaller.                                                           *)
Reap(p) ==
  /\ Polling
  /\ child[p] \in {"zombie", "stopped"}
  /\ child' = [child EXCEPT ![p] = IF @ = "zombie" THEN "free" ELSE "halted"]
  /\ list' = Removed(list, p)
  /\ LET restart == status[p] # 0 /\ restartCount > 0 /\ noProcs > 0
         clean   == status[p] = 0
     IN  /\ noProcs' = IF restart \/ (clean /\ noProcs > 0) THEN noProcs - 1
                       ELSE noProcs
         /\ restartCount' = IF restart THEN restartCount - 1 ELSE restartCount
         /\ childrenToOpen' = IF clean /\ childrenToOpen > 0
                              THEN childrenToOpen - 1 ELSE childrenToOpen
  /\ ReturnIfDrained
  /\ UNCHANGED <<waitForChildren, shutdown, status, signalled, budget>>

(* wait3 has nothing to report: the parent sleeps for 10 ms and has all    *)
(* its restarts again.                                                     *)
Nap ==
  /\ Polling
  /\ \A p \in Pids : child[p] \notin {"zombie", "stopped"}
  /\ restartCount' = IF childrenToOpen = 0 THEN restartCount ELSE RestartCount
  /\ childrenToOpen' = childrenToOpen
  /\ ReturnIfDrained
  /\ UNCHANGED <<waitForChildren, list, noProcs, shutdown, childVars,
                 signalled>>

(* SIGTERM or SIGUSR1 reaches the parent: ShutdownHandler.                 *)
ShutdownSignal ==
  /\ outcome = "looping"
  /\ ~shutdown
  /\ shutdown' = TRUE
  /\ UNCHANGED <<waitForChildren, outcome, list, noProcs, childrenToOpen,
                 restartCount, childVars, signalled>>

-----------------------------------------------------------------------------
(* The children.  Once the parent is gone init adopts and reaps them.      *)

EndedState == IF outcome = "looping" THEN "zombie" ELSE "free"

Alive(p) == child[p] \in {"running", "stopped", "halted"}

(* ServiceStartPid returns rc in the child, and so does CreateHandlers.    *)
ChildExit(p, rc) ==
  /\ child[p] = "running"
  /\ child' = [child EXCEPT ![p] = EndedState]
  /\ status' = [status EXCEPT ![p] = rc]
  /\ UNCHANGED <<parentVars, signalled, budget>>

(* The child dies of a signal.  WEXITSTATUS, which _waitForChildren takes  *)
(* without asking WIFEXITED, is zero for such a status.                    *)
ChildCrash(p) ==
  /\ Alive(p)
  /\ budget.crashes < MaxCrashes
  /\ budget' = [budget EXCEPT !.crashes = @ + 1]
  /\ child' = [child EXCEPT ![p] = EndedState]
  /\ status' = [status EXCEPT ![p] = 0]
  /\ UNCHANGED <<parentVars, signalled>>

(* The child is stopped; WEXITSTATUS of that report is the number of the   *)
(* stop signal (19, SIGSTOP).                                              *)
ChildStop(p) ==
  /\ child[p] = "running"
  /\ budget.stops < MaxStops
  /\ budget' = [budget EXCEPT !.stops = @ + 1]
  /\ child' = [child EXCEPT ![p] = "stopped"]
  /\ status' = [status EXCEPT ![p] = 19]
  /\ UNCHANGED <<parentVars, signalled>>

ChildContinue(p) ==
  /\ child[p] \in {"stopped", "halted"}
  /\ child' = [child EXCEPT ![p] = "running"]
  /\ UNCHANGED <<parentVars, status, signalled, budget>>

ParentStep ==
  \/ \E p \in Pids : Fork(p) \/ Reap(p)
  \/ ForkFails \/ Detach \/ KillChildren \/ Nap

Next ==
  \/ ParentStep
  \/ ShutdownSignal
  \/ \E p \in Pids :
       \/ \E rc \in ExitCodes : ChildExit(p, rc)
       \/ ChildCrash(p) \/ ChildStop(p) \/ ChildContinue(p)

Spec == Init /\ [][Next]_vars

(* The parent's loop is never blocked: fork, wait3(WNOHANG) and usleep all *)
(* return, so the scheduler runs it for ever.  Of the children nothing is  *)
(* assumed.                                                                *)
FairSpec == Spec /\ WF_vars(ParentStep)

-----------------------------------------------------------------------------
(* The children the parent has started and wait3 has not yet reported.     *)
Unreaped == {p \in Pids : child[p] \in {"running", "stopped", "zombie"}}

(* Every child not yet reported is in the part of the list that noProcs    *)
(* counts, so no later fork overwrites its entry, although the list is     *)
(* compacted, slots are given back and some are never given back.          *)
Tracked ==
  outcome = "looping" => \A p \in Unreaped : \E i \in 0 .. noProcs - 1 : list[i] = p

(* The strengthening that is inductive: behind the counted part there is   *)
(* no child at all, and no child has two entries.                          *)
ExactList ==
  /\ \A p \in Pids : child[p] \in {"free", "running", "zombie"}
  /\ outcome = "looping" =>
       /\ noProcs <= childrenToOpen
       /\ \A p \in Unreaped : \E i \in Slots : list[i] = p
       /\ \A i \in Slots : list[i] \in Pids => i < noProcs /\ list[i] \in Unreaped
       /\ \A i, j \in Slots : list[i] \in Pids /\ list[i] = list[j] => i = j

(* The list is exact until a child is stopped: wait3 reports a stopped     *)
(* child too (WUNTRACED), and _waitForChildren takes it for ended.         *)
TrackedInv == TypeOK /\ (budget.stops = 0 => ExactList)

(* When the parent has ended after a shutdown request, every child that    *)
(* still runs has been sent SIGUSR1 ("Required to kill child processes",   *)
(* httpserver.cpp:373), unless a child was stopped before.                 *)
KilledAll ==
  budget.stops = 0 /\ outcome = "killed"
    => \A p \in Pids : Alive(p) => p \in signalled

(* Only children are signalled, and no process that is gone, whose pid may *)
(* be a stranger's: where every fork has succeeded, so that every element  *)
(* of the list was assigned, and no child was stopped.  After a fork that  *)
(* fails, what was in an element never assigned is signalled too.          *)
FullPoolSignalsChildren ==
  [][budget.forks = 0 /\ budget.stops = 0 => signalled' \subseteq Unreaped]_signalled

(* A shutdown request ends the parent, or the last child has done so.      *)
ShutdownReturns == shutdown ~> outcome # "looping"

(* The parent does not poll for ever without children: it always has some  *)
(* again, or it ends ("No need to handle children amymore - terminating    *)
(* parent", httpserver.cpp:382).                                           *)
ServesOrReturns ==
  []<>(\E p \in Pids : child[p] # "free") \/ <>(outcome # "looping")

(* The same for a server that never uses its last restart.                 *)
RestartsServe == [](restartCount > 0) => ServesOrReturns
=============================================================================
