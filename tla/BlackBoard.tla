----------------------------- MODULE BlackBoard -----------------------------
(***************************************************************************)
(* struct TBlackBoard of utility/libs/main/src/blackboard.h (Windows): a   *)
(* ring of Count slots in a shared mapping, changed under a named mutex.   *)
(*                                                                         *)
(* The constructor sets a fresh board up without the mutex.  A process may *)
(* die between any two writes; the kernel then gives the mutex, abandoned, *)
(* to the next that waits.                                                 *)
(***************************************************************************)
EXTENDS Integers

CONSTANTS
  Procs,           \* the processes (one thread of each uses the board)
  NoOwner,         \* the owner of the free mutex
  Elements, NoElement,
  Count,           \* InCount, the same in every process
  RollOver,        \* RollOver[p]: InRollOver of the object of p, not zero
  MaxDeaths        \* bound: how many processes die inside an operation

ASSUME BlackBoardAssumption ==
  /\ NoOwner \notin Procs /\ NoElement \notin Elements
  /\ Count \in Nat /\ Count > 1
  /\ RollOver \in [Procs -> BOOLEAN]
  /\ MaxDeaths \in Nat

VARIABLES
  isSetup,         \* Store->Size and Store->Count are those of everybody
  head, tail,      \* Store->Head, Store->Tail
  slot,            \* the elements behind the Store
  mutex,           \* owner and depth; abandoned; died: an owner has ended
  loc,             \* where each process stands
  elem,            \* elem[p]: Element of Insert, the copy Retrieve makes
  newTail,         \* newTail[p]: the local of Insert
  out,             \* out[p]: what the last Retrieve of p gave its caller
  deaths,          \* how many processes died inside an operation
  intact           \* history: nobody died inside, nobody set the board up
                   \* while another was past its constructor

store == <<isSetup, head, tail, slot>>
locals == <<elem, newTail, out>>
vars == <<store, mutex, loc, locals, deaths, intact>>

Slots == 0 .. Count - 1
Values == Elements \cup {NoElement}

Constructing == {"setUp", "initHead", "initTail"}
InInsert == {"write", "roll", "putTail"}
InRetrieve == {"test", "incHead", "wrap"}
InReset == {"zeroHead", "zeroTail", "clearHead", "clearTail"}
Inside == InInsert \cup InRetrieve \cup InReset \cup {"leave"}
Locations == Constructing \cup Inside \cup {"out", "idle"}

FreeMutex == [owner |-> NoOwner, depth |-> 0,
              abandoned |-> FALSE, died |-> FALSE]

TypeOK ==
  /\ isSetup \in BOOLEAN /\ head \in Nat /\ tail \in Slots
  /\ slot \in [Slots -> Values]
  /\ mutex \in [owner : Procs \cup {NoOwner}, depth : Nat,
                abandoned : BOOLEAN, died : BOOLEAN]
  /\ loc \in [Procs -> Locations]
  /\ elem \in [Procs -> Values] /\ out \in [Procs -> Values]
  /\ newTail \in [Procs -> Slots]
  /\ deaths \in 0 .. MaxDeaths /\ intact \in BOOLEAN

Init ==
  /\ isSetup = FALSE /\ head = 0 /\ tail = 0
  /\ slot = [i \in Slots |-> NoElement]
  /\ mutex = FreeMutex
  /\ loc = [p \in Procs |-> "out"]
  /\ elem = [p \in Procs |-> NoElement] /\ out = [p \in Procs |-> NoElement]
  /\ newTail = [p \in Procs |-> 0]
  /\ deaths = 0 /\ intact = TRUE

Goto(p, l) == loc' = [loc EXCEPT ![p] = l]

(* One step round the ring.                                                *)
After(i) == IF i + 1 >= Count THEN 0 ELSE i + 1

-----------------------------------------------------------------------------
(* The constructor: a board of another size or count, or a fresh one, is   *)
(* set up word by word.  No mutex: it is created afterwards.               *)
Open(p) ==
  /\ loc[p] = "out"
  /\ IF isSetup
     THEN /\ Goto(p, "idle")
          /\ intact' = (intact /\ \A q \in Procs : loc[q] \notin Constructing)
     ELSE Goto(p, "setUp") /\ UNCHANGED intact
  /\ UNCHANGED <<store, mutex, locals, deaths>>

SetUp(p) ==
  /\ loc[p] = "setUp" /\ Goto(p, "initHead")
  /\ isSetup' = TRUE
  /\ UNCHANGED <<head, tail, slot, mutex, locals, deaths, intact>>

InitHead(p) ==
  /\ loc[p] = "initHead" /\ Goto(p, "initTail")
  /\ head' = 0
  /\ UNCHANGED <<isSetup, tail, slot, mutex, locals, deaths, intact>>

InitTail(p) ==
  /\ loc[p] = "initTail" /\ Goto(p, "idle")
  /\ tail' = 0
  /\ intact' = (intact /\ \A q \in Procs \ {p} : loc[q] \notin Constructing)
  /\ UNCHANGED <<isSetup, head, slot, mutex, locals, deaths>>

-----------------------------------------------------------------------------
(* "Wait Here(mutex)".  A time-out throws and changes nothing: it is the   *)
(* step that is not taken.                                                 *)
Wait(p) ==
  /\ loc[p] = "idle"
  /\ \/ mutex.owner = NoOwner /\ ~mutex.abandoned
     \/ mutex.owner = p
  /\ mutex' = [mutex EXCEPT !.owner = p, !.depth = @ + 1]

BeginInsert(p) ==
  /\ Wait(p) /\ Goto(p, "write")
  /\ \E e \in Elements : elem' = [elem EXCEPT ![p] = e]
  /\ UNCHANGED <<store, newTail, out, deaths, intact>>

BeginRetrieve(p) ==
  /\ Wait(p) /\ Goto(p, "test")
  /\ UNCHANGED <<store, locals, deaths, intact>>

BeginClear(p) ==
  /\ Wait(p) /\ Goto(p, "clearHead")
  /\ UNCHANGED <<store, locals, deaths, intact>>

(* A slip the runs must notice: the exception gives the mutex back.        *)
AbandonedReleased(p) ==
  /\ loc[p] = "idle" /\ mutex.owner = NoOwner /\ mutex.abandoned
  /\ mutex' = [mutex EXCEPT !.abandoned = FALSE]
  /\ UNCHANGED <<store, loc, locals, deaths, intact>>

(* WAIT_ABANDONED is not WAIT_OBJECT_0: the constructor of Here throws,    *)
(* with the mutex owned and no destructor to release it.                   *)
WaitAbandoned(p) ==
  /\ loc[p] = "idle" /\ mutex.owner = NoOwner /\ mutex.abandoned
  /\ mutex' = [mutex EXCEPT !.owner = p, !.depth = 1, !.abandoned = FALSE]
  /\ UNCHANGED <<store, loc, locals, deaths, intact>>

(* The destructor of Here.                                                 *)
Leave(p) ==
  /\ loc[p] = "leave" /\ Goto(p, "idle")
  /\ mutex' = [mutex EXCEPT !.depth = @ - 1,
                            !.owner = IF mutex.depth = 1 THEN NoOwner ELSE p]
  /\ elem' = [elem EXCEPT ![p] = NoElement]
  /\ newTail' = [newTail EXCEPT ![p] = 0]
  /\ UNCHANGED <<store, out, deaths, intact>>

-----------------------------------------------------------------------------
(* Insert: the slot at tail is written before the ring is found full.      *)
WriteSlot(p) ==
  /\ loc[p] = "write" /\ Goto(p, "roll")
  /\ slot' = [slot EXCEPT ![tail] = elem[p]]
  /\ newTail' = [newTail EXCEPT ![p] = After(tail)]
  /\ UNCHANGED <<isSetup, head, tail, mutex, elem, out, deaths, intact>>

(* A slip the runs must notice: a full ring is not told from an empty one. *)
RollUnchecked(p) ==
  /\ loc[p] = "roll" /\ Goto(p, "putTail")
  /\ UNCHANGED <<store, mutex, locals, deaths, intact>>

(* No room: an object that does not roll over throws eBBCircled.           *)
Roll(p) ==
  /\ loc[p] = "roll"
  /\ \/ newTail[p] # head /\ Goto(p, "putTail") /\ UNCHANGED head
     \/ newTail[p] = head /\ RollOver[p] /\ Goto(p, "putTail")
        /\ head' = After(head)
     \/ newTail[p] = head /\ ~RollOver[p] /\ Goto(p, "leave") /\ UNCHANGED head
  /\ UNCHANGED <<isSetup, tail, slot, mutex, locals, deaths, intact>>

PutTail(p) ==
  /\ loc[p] = "putTail" /\ Goto(p, "leave")
  /\ tail' = newTail[p]
  /\ UNCHANGED <<isSetup, head, slot, mutex, locals, deaths, intact>>

-----------------------------------------------------------------------------
(* Retrieve.  A head beyond the ring, which only a death leaves behind,    *)
(* reads what lies after the last slot: anything.                          *)
Test(p) ==
  /\ loc[p] = "test"
  /\ \/ /\ tail = head /\ Goto(p, "zeroHead")
        /\ UNCHANGED elem
     \/ /\ tail # head /\ Goto(p, "incHead")
        /\ \E e \in IF head \in Slots THEN {slot[head]} ELSE Values :
             elem' = [elem EXCEPT ![p] = e]
  /\ UNCHANGED <<store, mutex, newTail, out, deaths, intact>>

IncHead(p) ==
  /\ loc[p] = "incHead" /\ Goto(p, "wrap")
  /\ head' = head + 1
  /\ out' = [out EXCEPT ![p] = elem[p]]
  /\ UNCHANGED <<isSetup, tail, slot, mutex, elem, newTail, deaths, intact>>

(* A slip the runs must notice: off by one.                                *)
WrapLate(p) ==
  /\ loc[p] = "wrap" /\ Goto(p, "leave")
  /\ head' = IF head > Count THEN 0 ELSE head
  /\ UNCHANGED <<isSetup, tail, slot, mutex, locals, deaths, intact>>

Wrap(p) ==
  /\ loc[p] = "wrap" /\ Goto(p, "leave")
  /\ head' = IF head >= Count THEN 0 ELSE head
  /\ UNCHANGED <<isSetup, tail, slot, mutex, locals, deaths, intact>>

(* "tail = head = 0" of an empty Retrieve and of Clear.                    *)
ResetHead(p) ==
  /\ \/ loc[p] = "zeroHead" /\ Goto(p, "zeroTail")
        /\ out' = [out EXCEPT ![p] = NoElement]
     \/ loc[p] = "clearHead" /\ Goto(p, "clearTail") /\ UNCHANGED out
  /\ head' = 0
  /\ UNCHANGED <<isSetup, tail, slot, mutex, elem, newTail, deaths, intact>>

ResetTail(p) ==
  /\ loc[p] \in {"zeroTail", "clearTail"} /\ Goto(p, "leave")
  /\ tail' = 0
  /\ UNCHANGED <<isSetup, head, slot, mutex, locals, deaths, intact>>

-----------------------------------------------------------------------------
(* The end of a process, or its destructor: the kernel takes the mapping   *)
(* and the mutex away with the last handle to each, and notes that the     *)
(* owner of a mutex has ended.                                             *)
MutexAfter(p, ends) ==
  IF \A q \in Procs \ {p} : loc[q] \in Constructing \cup {"out"}
  THEN FreeMutex
  ELSE IF ends /\ mutex.owner = p
       THEN [owner |-> NoOwner, depth |-> 0, abandoned |-> TRUE, died |-> TRUE]
       ELSE mutex

BoardAfter(p) ==
  IF \A q \in Procs \ {p} : loc[q] = "out"
  THEN /\ isSetup' = FALSE /\ head' = 0 /\ tail' = 0
       /\ slot' = [i \in Slots |-> NoElement]
  ELSE UNCHANGED store

LastOut(p) == \A q \in Procs \ {p} : loc[q] = "out"

Close(p) ==
  /\ loc[p] = "idle" /\ Goto(p, "out")
  /\ mutex' = MutexAfter(p, FALSE)
  /\ BoardAfter(p)
  /\ intact' = (intact \/ LastOut(p))
  /\ UNCHANGED <<locals, deaths>>

Die(p) ==
  /\ loc[p] # "out" \/ mutex.owner = p
  /\ Goto(p, "out")
  /\ \/ loc[p] \in Inside /\ deaths < MaxDeaths /\ deaths' = deaths + 1
     \/ loc[p] \notin Inside /\ UNCHANGED deaths
  /\ mutex' = MutexAfter(p, TRUE)
  /\ BoardAfter(p)
  /\ intact' = (LastOut(p) \/ (intact /\ loc[p] \notin Inside))
  /\ elem' = [elem EXCEPT ![p] = NoElement]
  /\ newTail' = [newTail EXCEPT ![p] = 0]
  /\ UNCHANGED out

Operation(p) ==
  \/ BeginInsert(p) \/ BeginRetrieve(p) \/ BeginClear(p) \/ WaitAbandoned(p)
  \/ WriteSlot(p) \/ Roll(p) \/ PutTail(p)
  \/ Test(p) \/ IncHead(p) \/ Wrap(p) \/ ResetHead(p) \/ ResetTail(p)
  \/ Leave(p)

Constructor(p) == Open(p) \/ SetUp(p) \/ InitHead(p) \/ InitTail(p)

Next == \E p \in Procs :
          Constructor(p) \/ Operation(p) \/ Close(p) \/ Die(p)

Spec == Init /\ [][Next]_vars
-----------------------------------------------------------------------------
(* Properties.                                                             *)

(* One process at a time inside the mutex.                                 *)
Exclusion ==
  \A p \in Procs : loc[p] \in Inside => mutex.owner = p /\ mutex.depth > 0

(* While the board is intact its indices lie in the ring; head passes the  *)
(* end for the one write between its increment and its wrap.               *)
InRing ==
  intact => /\ head \in 0 .. Count
            /\ head = Count => \E p \in Procs : loc[p] = "wrap"

(* The inductive part: types, exclusion and indices together.              *)
RingInv == TypeOK /\ Exclusion /\ InRing

(* The ring as a queue.  Between the two writes of a reset it is empty.    *)
Size == IF tail >= head THEN tail - head ELSE tail - head + Count
Place(i) == IF head + i >= Count THEN head + i - Count ELSE head + i
Resetting == \E p \in Procs : loc[p] \in {"zeroTail", "clearTail"}
Content ==
  IF Resetting THEN <<>> ELSE [i \in 1 .. Size |-> slot[Place(i - 1)]]

Ring == INSTANCE FifoRing WITH content <- Content, Capacity <- Count - 1

(* The step of a Clear that empties the ring, or the end of the last user. *)
Emptied ==
  \/ \E p \in Procs : loc[p] = "clearHead" /\ loc'[p] = "clearTail"
  \/ \A p \in Procs : loc'[p] = "out"

(* As long as nobody dies inside an operation, and nobody sets the board   *)
(* up while another is at work, the board is a bounded queue: no element   *)
(* is lost except the oldest of a full ring that rolls over, none comes    *)
(* back, none is overtaken; an insertion that finds no room writes to a    *)
(* slot that nobody reads.  Only Clear empties it at a stroke.             *)
ImplementsRing ==
  [][intact /\ intact' => IF Emptied THEN Ring!Clear
                                     ELSE [Ring!Work]_<<Content, out>>]_vars

(* A death inside an operation costs the others the board: the mutex is    *)
(* abandoned, whoever is given it keeps it for good (Wait throws without   *)
(* a release), and so nobody else ever works on what the dead left behind, *)
(* until the last process has closed the mutex.                            *)
NeverHandedOn == mutex.died /\ mutex.owner = NoOwner => mutex.abandoned
=============================================================================
