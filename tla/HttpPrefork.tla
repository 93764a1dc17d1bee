---------------------------- MODULE HttpPrefork ----------------------------
(***************************************************************************)
(* The whole server process group: the parent of Supervisor, which forks,  *)
(* reaps and signals, and the children of WaitForCall, which share the     *)
(* listening socket and its semaphore.  A step is a step of one of them,   *)
(* with its effect on the other: fork() starts a child in WaitForCall, the *)
(* end of a child undoes its semaphore operations, and kill() leaves a     *)
(* pending signal in every child of the list.                              *)
(***************************************************************************)
EXTENDS Supervisor, WaitForCall

CONSTANT
  MaxTerms          \* bound: how often an operator sends SIGTERM to one child

ASSUME HttpPreforkAssumption == MaxTerms \in Nat

VARIABLE
  terms             \* how often an operator sent SIGTERM to one child

serverVars == <<vars, poolVars, terms>>

ServerInit == Init /\ NoPool /\ terms = 0

ForkChild(p) ==
  Fork(p) /\ Spawn(p, shutdown) /\ UNCHANGED terms

SignalPool ==
  KillChildren /\ Signal(signalled') /\ UNCHANGED terms

(* The steps of the parent that the children do not notice.                *)
ParentAlone ==
  /\ ForkFails \/ Detach \/ Nap \/ \E p \in Pids : Reap(p)
  /\ UNCHANGED <<poolVars, terms>>

RequestShutdown ==
  ShutdownSignal /\ UNCHANGED <<poolVars, terms>>

ChildAlone(p) ==
  ChildStep(p) /\ UNCHANGED <<vars, terms>>

(* The process ends with the status ServiceStart returns; std::terminate   *)
(* ends it by SIGABRT, for which WEXITSTATUS is zero.                      *)
EndChild(p) ==
  /\ \/ loc[p] = "returned" /\ \E rc \in ExitCodes : ChildExit(p, rc)
     \/ loc[p] = "aborted" /\ ChildExit(p, 0)
  /\ End(p)
  /\ UNCHANGED terms

CrashChild(p) ==
  ChildCrash(p) /\ End(p) /\ UNCHANGED terms

ConnectClient(c) ==
  Connect(c) /\ UNCHANGED <<vars, terms>>

(* An operator stops one child, as for a rolling restart.                  *)
TermChild(p) ==
  /\ terms < MaxTerms
  /\ terms' = terms + 1
  /\ child[p] = "running"
  /\ Signal({p})
  /\ UNCHANGED vars

ParentGoesOn == SignalPool \/ ParentAlone \/ \E p \in Pids : ForkChild(p)

ServerNext ==
  \/ \E p \in Pids : \/ ForkChild(p) \/ ChildAlone(p) \/ EndChild(p)
                    \/ CrashChild(p) \/ TermChild(p)
  \/ SignalPool \/ ParentAlone \/ RequestShutdown
  \/ \E c \in Conns : ConnectClient(c)

ServerSpec == ServerInit /\ [][ServerNext]_serverVars

(* Every process goes on by itself: the parent's loop never blocks, the    *)
(* children as in WaitForCall, and a child that has left it ends.          *)
Fairness ==
  /\ WF_serverVars(ParentGoesOn)
  /\ \A p \in Pids :
       /\ WF_serverVars(Advance(p) /\ ChildAlone(p))
       /\ SF_serverVars(Semop(p) /\ ChildAlone(p))
       /\ WF_serverVars(Deliver(p) /\ ChildAlone(p))
       /\ WF_serverVars(EndChild(p))

FairServerSpec == ServerSpec /\ Fairness
-----------------------------------------------------------------------------
(* Between the start and the shutdown of the server, while no operator     *)
(* signals a child, the Mutex lets one child alone to the listening        *)
(* socket, whatever children fail, die with the semaphore held or are      *)
(* forked in their place.                                                  *)
OneAcceptorInService ==
  ~shutdown /\ terms = 0 => Cardinality(Acceptors) <= 1

(* When the parent has ended after a shutdown request, the request has     *)
(* reached every child that is left: those its list names by SIGUSR1, and  *)
(* those forked after the request because they inherit the flag.           *)
ShutdownReachesAll ==
  outcome = "killed" =>
    \A p \in Pids : child[p] = "running" => flag[p] \/ pending[p]

(* A client that connects is accepted in spite of children that fail,      *)
(* unless the server is shut down or has drained its pool, as long as      *)
(* restarts are left and no operator signals a child.                      *)
ClientAcceptedInService ==
  [](terms = 0 /\ restartCount > 0) =>
    \A c \in Conns :
      conn[c] = "queued" ~>
        (conn[c] # "queued" \/ shutdown \/ outcome # "looping")
=============================================================================
