---------------------------- MODULE WaitForCall ----------------------------
(***************************************************************************)
(* The children of an HTTPServer: every one of them runs                   *)
(* HTTPServer::WaitForCall (utility/libs/http/src/httpserver.cpp:108-207)  *)
(* on the listening socket they share, one at a time behind the semaphore  *)
(* of a Mutex.  Socket calls are those of tCBSockServer                    *)
(* (utility/libs/main/src/cbsocket.cpp, obsocket.cpp).                     *)
(*                                                                         *)
(* A child that WaitForCall has left, by return or by an exception, ends   *)
(* as a process: what ServiceStart does around the call is not in the      *)
(* repository.                                                             *)
(***************************************************************************)
EXTENDS Integers, FiniteSets, Processes

CONSTANTS
  Conns,           \* the clients, each of which connects once
  NoConn,          \* no connection
  HasTimeout,      \* {Timeout} is not zero: select in WaitConnect times out
  UninitResults,   \* what the uninitialised wResult of WaitConnect may hold
  MaxAcceptErrors, \* bound: how often accept() fails
  MaxHangups       \* bound: how often a client is gone before the response

ASSUME WaitForCallAssumption ==
  /\ HasTimeout \in BOOLEAN
  /\ UninitResults \in (SUBSET BOOLEAN) \ {{}}
  /\ MaxAcceptErrors \in Nat /\ MaxHangups \in Nat
  /\ NoConn \notin Conns

VARIABLES
  loc,             \* loc[p]: where child p stands in WaitForCall
  after,           \* after[p]: where it goes when its Mutex has released
  flag,            \* flag[p]: HTTPServer::shutdown in child p
  pending,         \* pending[p]: a SIGUSR1 or SIGTERM has been sent to p
  semval, semadj,  \* the semaphore of CreateHandlers, see SysVSem
  conn,            \* conn[c]: the connection of client c
  serving,         \* serving[p]: the connection p has accepted
  interrupted,     \* how many constructors of a Mutex a signal interrupted
  errors           \* the bounded errors that happened so far

Sem == INSTANCE SysVSem WITH Procs <- Pids

procVars == <<loc, after, flag, pending>>
semVars  == <<semval, semadj>>
connVars == <<conn, serving>>
poolVars == <<procVars, semVars, connVars, interrupted, errors>>

(* "test" the tests of shutdown (110, 115), "acquire" the constructor of   *)
(* the Mutex, "select" WaitConnect, "accept" Open, "release" the           *)
(* destructor, "serve" from readRequest to Close, "returned" WaitForCall   *)
(* is over, "aborted" std::terminate, "none" no process.                   *)
Locations == {"none", "test", "acquire", "select", "accept", "release",
              "serve", "returned", "aborted"}

Queued == {c \in Conns : conn[c] = "queued"}

PoolTypeOK ==
  /\ loc \in [Pids -> Locations]
  /\ after \in [Pids -> {"test", "serve", "returned"}]
  /\ flag \in [Pids -> BOOLEAN] /\ pending \in [Pids -> BOOLEAN]
  /\ Sem!SemTypeOK
  /\ conn \in [Conns -> {"absent", "queued", "open", "closed"}]
  /\ serving \in [Pids -> Conns \cup {NoConn}]
  /\ interrupted \in Nat
  /\ errors \in [accepts : 0 .. MaxAcceptErrors, hangups : 0 .. MaxHangups]

InitAt(l) ==
  /\ loc = [p \in Pids |-> l]
  /\ after = [p \in Pids |-> "test"]
  /\ flag = [p \in Pids |-> FALSE]
  /\ pending = [p \in Pids |-> FALSE]
  /\ Sem!SemInit
  /\ conn = [c \in Conns |-> "absent"]
  /\ serving = [p \in Pids |-> NoConn]
  /\ interrupted = 0
  /\ errors = [accepts |-> 0, hangups |-> 0]

(* Before the first fork.                                                  *)
NoPool == InitAt("none")

Goto(p, l) == loc' = [loc EXCEPT ![p] = l]

(* Out of the scope of the Mutex and then on to l.                         *)
ReleaseThen(p, l) == Goto(p, "release") /\ after' = [after EXCEPT ![p] = l]

-----------------------------------------------------------------------------
(* One iteration of WaitForCall.                                           *)

(* while (shutdown == false) ... if (shutdown == true) return;             *)
Test(p) ==
  /\ loc[p] = "test"
  /\ Goto(p, IF flag[p] THEN "returned" ELSE "acquire")
  /\ UNCHANGED <<after, flag, pending, semVars, connVars, interrupted, errors>>

(* A slip the runs must notice: the child does not wait for its turn.      *)
AcquireAtOnce(p) ==
  /\ loc[p] = "acquire"
  /\ semval' = semval + 1
  /\ semadj' = [semadj EXCEPT ![p] = @ - 1]
  /\ Goto(p, "select")
  /\ UNCHANGED <<after, flag, pending, connVars, interrupted, errors>>

(* Mutex wait(semaphore) gets the semaphore; it has no timeout.            *)
Acquire(p) ==
  /\ loc[p] = "acquire"
  /\ Sem!WaitZeroThenInc(p)
  /\ Goto(p, "select")
  /\ UNCHANGED <<after, flag, pending, connVars, interrupted, errors>>

(* WaitConnect: a client is in the queue of the listening socket.          *)
SelectReady(p) ==
  /\ loc[p] = "select"
  /\ Queued # {}
  /\ Goto(p, "accept")
  /\ UNCHANGED <<after, flag, pending, semVars, connVars, interrupted, errors>>

(* A slip the runs must notice: a timeout is taken for a client.           *)
TimeoutIsClient(p) ==
  /\ loc[p] = "select"
  /\ HasTimeout
  /\ Queued = {}
  /\ Goto(p, "accept")
  /\ UNCHANGED <<after, flag, pending, semVars, connVars, interrupted, errors>>

(* WaitConnect: select times out.  SockWaitServer has not assigned wResult *)
(* and WaitConnect returns it all the same; when it happens to be true the *)
(* child goes on to accept(), else it leaves the scope and loops.          *)
SelectTimeout(p) ==
  /\ loc[p] = "select"
  /\ HasTimeout
  /\ Queued = {}
  /\ \/ TRUE \in UninitResults /\ Goto(p, "accept") /\ UNCHANGED after
     \/ FALSE \in UninitResults
        /\ ReleaseThen(p, IF flag[p] THEN "returned" ELSE "test")
  /\ UNCHANGED <<flag, pending, semVars, connVars, interrupted, errors>>

(* Open: accept() returns a connection, or sleeps until there is one.      *)
Accept(p) ==
  /\ loc[p] = "accept"
  /\ \E c \in Queued :
       /\ conn' = [conn EXCEPT ![c] = "open"]
       /\ serving' = [serving EXCEPT ![p] = c]
  /\ ReleaseThen(p, "serve")
  /\ UNCHANGED <<flag, pending, semVars, interrupted, errors>>

(* Open throws: "SockSocket error 76" is tried again, any other exception  *)
(* leaves WaitForCall.                                                     *)
AcceptFails(p) ==
  /\ loc[p] = "accept"
  /\ errors.accepts < MaxAcceptErrors
  /\ errors' = [errors EXCEPT !.accepts = @ + 1]
  /\ \E next \in {"test", "returned"} : ReleaseThen(p, next)
  /\ UNCHANGED <<flag, pending, semVars, connVars, interrupted>>

(* A slip the runs must notice: the destructor does not release.           *)
ReleaseForgotten(p) ==
  /\ loc[p] = "release"
  /\ Goto(p, after[p])
  /\ UNCHANGED <<after, flag, pending, semVars, connVars, interrupted, errors>>

(* The destructor of the Mutex.                                            *)
Release(p) ==
  /\ loc[p] = "release"
  /\ Sem!Decrement(p)
  /\ Goto(p, after[p])
  /\ UNCHANGED <<after, flag, pending, connVars, interrupted, errors>>

(* A slip the runs must notice: the connection is not closed.              *)
ServeWithoutClose(p) ==
  /\ loc[p] = "serve"
  /\ serving' = [serving EXCEPT ![p] = NoConn]
  /\ Goto(p, "test")
  /\ UNCHANGED <<conn, after, flag, pending, semVars, interrupted, errors>>

(* readRequest, Interpret, ServiceClient and writeResponse, or an          *)
(* exception of theirs and writeError400; then Close, and the loop again.  *)
Serve(p) ==
  /\ loc[p] = "serve"
  /\ conn' = [conn EXCEPT ![serving[p]] = "closed"]
  /\ serving' = [serving EXCEPT ![p] = NoConn]
  /\ Goto(p, "test")
  /\ UNCHANGED <<after, flag, pending, semVars, interrupted, errors>>

(* The client is gone: writeResponse throws, and the writeError400 of the  *)
(* handler throws again, out of WaitForCall and past Close.                *)
ServeFails(p) ==
  /\ loc[p] = "serve"
  /\ errors.hangups < MaxHangups
  /\ errors' = [errors EXCEPT !.hangups = @ + 1]
  /\ Goto(p, "returned")
  /\ UNCHANGED <<after, flag, pending, semVars, connVars, interrupted>>

-----------------------------------------------------------------------------
(* Signals, clients, and the life of the process.                          *)

(* kill(p, SIGUSR1) for every p of ps that is a process.                   *)
Signal(ps) ==
  /\ pending' = [p \in Pids |-> pending[p] \/ (p \in ps /\ loc[p] # "none")]
  /\ UNCHANGED <<loc, after, flag, semVars, connVars, interrupted, errors>>

(* ShutdownHandler runs in p.  A semtimedop or a select that sleeps is     *)
(* interrupted; accept is restarted (signal() sets SA_RESTART), and a      *)
(* signal that comes just before the call interrupts nothing.              *)
Deliver(p) ==
  /\ pending[p]
  /\ pending' = [pending EXCEPT ![p] = FALSE]
  /\ flag' = [flag EXCEPT ![p] = TRUE]
  /\ \/ UNCHANGED <<loc, after, interrupted>>
     \/ /\ loc[p] = "acquire" /\ semval # 0        \* wait.failed: return
        /\ ReleaseThen(p, "returned")
        /\ interrupted' = interrupted + 1
     \/ /\ loc[p] = "select"                       \* rc == 0, shutdown: return
        /\ ReleaseThen(p, "returned")
        /\ UNCHANGED interrupted
     \/ /\ loc[p] = "release" /\ semval = 0        \* ~Mutex throws: terminate
        /\ Goto(p, "aborted")
        /\ UNCHANGED <<after, interrupted>>
  /\ UNCHANGED <<semVars, connVars, errors>>

(* fork(): the child inherits the shutdown flag of the parent.             *)
Spawn(p, inherited) ==
  /\ loc[p] = "none"
  /\ Goto(p, "test")
  /\ after' = [after EXCEPT ![p] = "test"]
  /\ flag' = [flag EXCEPT ![p] = inherited]
  /\ UNCHANGED <<pending, semVars, connVars, interrupted, errors>>

(* The process ends: the kernel closes its connection and undoes what it   *)
(* did to the semaphore.                                                   *)
End(p) ==
  /\ loc[p] # "none"
  /\ Goto(p, "none")
  /\ pending' = [pending EXCEPT ![p] = FALSE]
  /\ Sem!UndoAtExit(p)
  /\ conn' = [c \in Conns |-> IF c = serving[p] THEN "closed" ELSE conn[c]]
  /\ serving' = [serving EXCEPT ![p] = NoConn]
  /\ UNCHANGED <<after, flag, interrupted, errors>>

(* A client connects.                                                      *)
Connect(c) ==
  /\ conn[c] = "absent"
  /\ conn' = [conn EXCEPT ![c] = "queued"]
  /\ UNCHANGED <<procVars, semVars, serving, interrupted, errors>>

(* The steps a child takes when the scheduler lets it, and those it takes  *)
(* when the kernel completes its semtimedop.                               *)
Advance(p) ==
  Test(p) \/ SelectReady(p) \/ SelectTimeout(p) \/ Accept(p) \/ Serve(p)

Semop(p) == Acquire(p) \/ Release(p)

ChildStep(p) ==
  Advance(p) \/ Semop(p) \/ AcceptFails(p) \/ ServeFails(p) \/ Deliver(p)

(* What a child goes on doing by itself.  The kernel queues the sleepers   *)
(* of a semaphore and tries them whenever its value changes, so a child    *)
(* that is possible again and again, to raise or to lower it, is not       *)
(* passed over for ever; the request handler is taken to return.           *)
ChildFairness(p) ==
  WF_poolVars(Advance(p)) /\ SF_poolVars(Semop(p)) /\ WF_poolVars(Deliver(p))

(* A pool on its own, for the properties of the children: all of them have *)
(* been forked, nobody replaces them, and any of them may be signalled     *)
(* once and may die at any point.                                          *)
PoolInit == InitAt("test")

SignalOne(p) == ~pending[p] /\ ~flag[p] /\ loc[p] # "none" /\ Signal({p})

PoolNext ==
  \/ \E p \in Pids : ChildStep(p) \/ End(p) \/ SignalOne(p)
  \/ \E c \in Conns : Connect(c)

PoolSpec == PoolInit /\ [][PoolNext]_poolVars

EndReturned(p) == loc[p] \in {"returned", "aborted"} /\ End(p)

FairPoolSpec ==
  PoolSpec /\ \A p \in Pids : ChildFairness(p) /\ WF_poolVars(EndReturned(p))

-----------------------------------------------------------------------------
(* The children between the constructor and the destructor of their Mutex, *)
(* inside the part that only one of them should be in.                     *)
Acceptors == {p \in Pids : loc[p] \in {"select", "accept"}}

(* The children that hold the semaphore.                                   *)
Holders == {p \in Pids : loc[p] \in {"select", "accept", "release"}}

(* One child at most holds the semaphore, that child and no other would    *)
(* give it back by dying, and it is free when nobody holds it.             *)
Held ==
  /\ \A p \in Pids : semadj[p] = IF p \in Holders THEN -1 ELSE 0
  /\ \A p, q \in Holders : p = q
  /\ semval = IF Holders = {} THEN 0 ELSE 1

(* While no constructor was interrupted the semaphore is what the Mutex    *)
(* needs it to be, whatever the children do and wherever they die.         *)
UninterruptedInv == PoolTypeOK /\ (interrupted = 0 => Held)

(* A child calls accept() only for a client that is there, so that it      *)
(* never sleeps in accept() with the semaphore held.  It holds while no    *)
(* constructor was interrupted, where wResult is never true by accident.   *)
AcceptHasClient ==
  TRUE \notin UninitResults /\ interrupted = 0
    => \A p \in Pids : loc[p] = "accept" => Queued # {}

(* A connection that was accepted is open in exactly one child, which is   *)
(* on its way to serve it or has failed to.                                *)
OneServerPerClient ==
  \A c \in Conns :
    conn[c] = "open" =>
      \E p \in Pids :
        /\ serving[p] = c
        /\ \A q \in Pids : serving[q] = c => q = p
        /\ loc[p] \in {"serve", "returned", "aborted"}
             \/ (loc[p] = "release" /\ after[p] = "serve")

(* The semaphore is lost: it is raised, and nobody is left who would lower *)
(* it.  An interrupted constructor has given it back for its holder, the   *)
(* holder has died first (its undo stops at zero), and the undo of the     *)
(* other has raised it again.                                              *)
Lost == semval > 0 /\ Holders = {} /\ \A p \in Pids : semadj[p] >= 0

(* A client that connects is accepted, or no child is left that has not    *)
(* been told to stop, or the semaphore is lost.                            *)
ClientAccepted ==
  \A c \in Conns :
    conn[c] = "queued" ~>
      \/ conn[c] # "queued"
      \/ \A p \in Pids : loc[p] = "none" \/ flag[p]
      \/ Lost

(* An accepted connection is closed, by Close or by the end of its child,  *)
(* unless the child waits for ever for a semaphore it cannot lower.        *)
ClientReleased ==
  \A c \in Conns :
    conn[c] = "open" ~>
      (conn[c] = "closed" \/ \E p \in Pids : loc[p] = "release" /\ semval = 0)

(* A child told to stop ends, unless it reaches one of three ways to hang: *)
(* it stands in the destructor of an interrupted Mutex whose semaphore is  *)
(* zero, some child is in accept() without a client, or the semaphore is   *)
(* lost.                                                                   *)
StopOutcome ==
  \A p \in Pids :
    flag[p] ~> \/ loc[p] = "none"
               \/ loc[p] = "release" /\ semval = 0
               \/ Queued = {} /\ \E q \in Pids : loc[q] = "accept"
               \/ Lost
=============================================================================
