# Verification of the runtime libraries

TLA+ models of the parts of this repository in which several processes share
state, or in which a peer or a signal decides what happens next: the scoped
semaphores `Mutex` and `AutoSemaphore`, the pre-forking `HTTPServer` with the
request it reads, the client of remote calls `UbiClient`, the boards in shared
memory `HeapQueue` and `BlackBoard`, the exclusive/shared lock `tSem2`, and the
conversions between UTF-8, UTF-16 and UTF-32, where every boundary counts. TLC
checks every model on small instances; TLAPS proves the safety properties and
the refinements of the locks, the heap and the ring for every number of
processes and every value of the bounds.

To repeat the checks: `tlc -config X.cfg MCModule.tla` for each run of the
table below, `tlapm ModuleProof.tla` for each module of proofs.

Paths below are relative to the root of the repository.

## 1. The system

The repository is a tool box: code generators (Java, Python), the C++ runtime
that the generated programs link with, database adapters, and vendored
libraries. The runtime (`utility/libs`) holds the logic that runs concurrently.

| Component | State it keeps | Operations | Interacts with |
|---|---|---|---|
| **Mutex** `main/src/mutex.{h,cpp}` | a System V semaphore (0 is free), the undo adjustments the kernel keeps of it, the member `failed` | constructor (`acquire`), destructor (`release`), `makePrivate`, `makeNamed`, `remove` | HTTPServer child, HeapQueue; the kernel (`semtimedop`, `SEM_UNDO`) |
| **HTTPServer parent** `http/src/httpserver.cpp:251-411` | `PIDList`, `noProcs`, `childrenToOpen`, `restartCount`, `shutdown` | the loop of `CreateHandlers`: fork, reap (`_waitForChildren`), kill (`_killChildren`); `ShutdownHandler` | forks and signals the children, learns their end from `wait3` |
| **HTTPServer child** `http/src/httpserver.cpp:108-207` | where it is in `WaitForCall`, `shutdown`, the connection | wait for the Mutex, `WaitConnect`, `Open`, serve, `Close` | siblings share the listening socket and the semaphore |
| **HeapQueue** `main/src/heapqueue.h` | `Store` (array and `heapSize`) in shared memory, a named Mutex | `Store::init`, `insert`, `retrieve` | processes that attach the same name |
| **tSem2** `ti/src/tsem2.{h,cpp}` | three semaphores Request, Reader, Writer; `m_state` of each object | `AquireEXCL`, `AquireSHR`, `Release`, `~tSem2` | processes that use the same key |
| **HTTPRequest** `http/src/httprequest.*` | a growing buffer, a pointer to the body in it, header and query fields, a digest cache | `readRequest` (`readData`, `loadHeaders`, the body loop, `getAuthorizedData`), the handlers that answer | called by the child between accept and Close |
| **Socket layer** `main/src/cbsocket.*`, `obsocket.*` | socket handles, time-outs | connect, accept, select, framed read and write | HTTPServer, HTTPRequest, UbiClient |
| **BlackBoard** `main/src/blackboard.h` | a ring in shared memory, a named mutex (Windows build) | constructor, `Insert`, `Retrieve`, `Clear`, destructor | processes that map the same name |
| **AutoSemaphore** `main/src/autosemaphore.*` | a named POSIX semaphore | the constructor (unlink, open, post), `Lock`, `Unlock` | processes that open the same name or are forked with the object |
| AThread, AMutex, AQueue `main/src/a*.{h,cpp}` | a thread, its mutex, condition and queue | start, stop, put, get, wait, signal | threads of one process |
| **UbiClient** `ubi/src` | a request and its answer, two buffers, the report of the last call; the metrics have a file of counters | `Call`, `RxFree`, `ErrFree`, destructors | the socket layer, a server |
| Containers `main/src/handles.h`, `addlist.h`, `appendlist.h`, `tbuffer.h`, `collection.h` | reference counts, growing arrays | copy, assign, append, index | everything |
| **UTF codecs** `utfpp/utf.{hpp,cpp}` | none | six conversions of arrays, wrappers that allocate | text users |
| Text, XML, date, configuration helpers | none that is shared | conversions, file input and output | everything |
| Legacy `ti` library | - | clients of a system that is not here | - |
| Code generators, database adapters, vendored libraries | - | - | - |

### Hard behaviours

* **Signals that interrupt a system call.** `Mutex::acquire` sets `failed` and
  returns when `semtimedop` gives `EINTR` (`mutex.cpp:17-21`); the object
  exists, so its destructor releases what it never acquired. The server's own
  way of shutting down, `SIGUSR1`, is what interrupts. `HeapQueue` does not ask
  `failed` and goes in without the lock.
* **Deaths at any point.** `SEM_UNDO` gives a semaphore back, once, whether the
  process held it, had released one too many, or was between the two semops of
  `tSem2`. It repairs the lock, not what the lock protects.
* **A parent that counts children in four places.** `PIDList`, `noProcs`,
  `childrenToOpen` and `restartCount` are changed by forks, failed forks, clean
  exits, failures, crashes and stops in any order.
* **`wait3` with `WUNTRACED`, and `WEXITSTATUS` without `WIFEXITED`.** A stopped
  child is taken for ended; a child killed by a signal for one that ended with 0.
* **Values never assigned.** The elements of `PIDList` (`new pid_t[]`), and the
  `wResult` that `WaitConnect` returns after a time-out (`cbsocket.cpp:389`).
* **A listening socket shared by several processes**, where `select` and
  `accept` are two steps.
* **A heap written word by word** in memory that outlives its writer.
* **A lock taken in two semops**, the first of which is not taken back when the
  second fails.
* **A name removed and created again in two steps** (`autosemaphore.cpp:69-75`),
  with other constructors in between, and a `sem_wait` whose `EINTR` is taken
  for success.
* **A mutex that is handed over as abandoned**, and an exception in the
  constructor that was given it (`blackboard.h:68`).
* **Streams.** `recv` returns any portion; the end of a request is told by a
  pause, and a reply by lengths that come with it, which nobody compares with
  each other (`ubiclient.cpp:206`); peers fall silent, close and reset at any
  point; a zero byte ends what `strlen` sees of a body.
* **Pointers into buffers that move or are freed** (`httprequest.cpp:153`,
  `ubiclient.cpp:211`).
* **Room for the last unit** of a conversion (`utf.hpp:101`).

### What makes each part correct

* Mutex: an exclusive lock; free when and only when unheld, through time-outs
  and deaths; who waits is served.
* Parent: the list holds exactly the children not reaped; the pool keeps its
  size; a shutdown ends the parent and reaches every child; only children are
  signalled; it never polls for ever for children that cannot come.
* Children: one at a time at the listening socket; never asleep in `accept`
  with the lock held; a connection in one child only and closed in the end; a
  client is accepted; a child told to stop ends.
* HeapQueue: a priority queue, whatever the interleaving, while its lock is
  one; a death costs little.
* tSem2: an exclusive holder is alone; no overtaking; no starvation.
* HTTPRequest: the body is the one that was sent, whatever the portions; what is
  returned is what came last, in order; every request comes to an end.
* UbiClient: an answer is whole and belongs to its request; a request reports
  the last call that returned; a buffer is freed once; a call that has sent its
  request ends.
* BlackBoard: a bounded queue, first in first out; after a death inside an
  operation nobody works on what is left.
* AutoSemaphore: an exclusive lock while nobody disturbs it, and otherwise as
  many processes inside as there are permits.
* UTF codecs: a text keeps its meaning, what is written reads back, and nothing
  is written past the room given.

## 2. The modules

| Module | Models | Uses |
|---|---|---|
| `SysVSem` | one System V semaphore, its two operation arrays in `mutex.cpp`, `SEM_UNDO` (kernel, external) | |
| `ExclusiveLock` | what `mutex.h:31-33` promises | |
| `SemMutex` | the Mutex: processes run scopes `{ Mutex here(sem); body }` | EXTENDS `SysVSem`, refines `ExclusiveLock` |
| `Processes` | the pids that parent and children have in common | |
| `Supervisor` | the parent of the pool, with children as it sees them | EXTENDS `Processes` |
| `WaitForCall` | the children, with the Mutex, the listening socket and signals | EXTENDS `Processes`, INSTANCE `SysVSem` |
| `HttpPrefork` | parent and children together | EXTENDS `Supervisor`, `WaitForCall` |
| `HttpRequest` | one connection of a child: the inside of `WaitForCall!Serve` | |
| `PriorityQueue` | what `heapqueue.h:4-8` promises | |
| `HeapQueue` | insert and retrieve write by write, under a Mutex that an interrupt leaves out | EXTENDS `SysVSem`, refines `PriorityQueue` |
| `TSem2` | the three-semaphore lock | |
| `FifoRing` | what `blackboard.h` offers: a bounded queue | |
| `BlackBoard` | the ring write by write, its mutex, its set-up | refines `FifoRing` |
| `AutoSemaphore` | objects of one name, their constructors and users | refines `ExclusiveLock`, once for each object |
| `UbiClient` | `Call` over a connection, a server and the network | |
| `Utf` | the conversions of one character | |
| `UtfConvert` | the conversions of arrays and their wrappers | EXTENDS `Utf` |
| `MC*` | sets of processes and values for TLC | the module of that name |
| `*Proof` (`SemMutex`, `HeapQueue`, `TSem2`, `BlackBoard`, `AutoSemaphore`, `UbiClient`, `UtfConvert`) | theorems | the component's module, `TLAPS` |
| `HttpServerProof` | theorems about the server, its two halves and its requests | `HttpPrefork`, `HttpRequest`, `TLAPS` |

An operator commented "a slip the runs must notice" is a plausible mistake in
the code, kept beside the operator it would replace; with it in place the
corresponding run fails. None of them is part of a specification.

### Correspondence with the code

**SemMutex.** `pc[p]` is where a process stands: in the constructor
(`acquire`), in the scope (`body`), in the destructor (`release`). `Acquired`,
`AcquireInterrupted` and `AcquireTimedOut` are the three ways out of the
`semtimedop` of `Mutex::acquire`: 0, `EINTR` (which sets `failed` and returns),
and an exception, after which no destructor runs. `Released` and
`ReleaseFailed` are those of `Mutex::release`; an exception that leaves a
destructor ends the process. `Die` may strike anywhere, and `UndoAtExit` is the
kernel's part. `Checkers` are the callers that test `failed`, as `WaitForCall`
does (`httpserver.cpp:118`) and `HeapQueue` does not.

**Supervisor.** One action for each turn the loop of `CreateHandlers` may take:
`Fork`, `ForkFails`, `Detach` (no `{WaitForChildren}`), `KillChildren`, `Reap`
(the whole of `_waitForChildren` for one report, the compaction of the list
included, and the test for zero that follows), `Nap` (nothing
to report: 10 ms of sleep, all restarts back). `ShutdownSignal` is
`ShutdownHandler`, between any two turns. The elements of a new `PIDList` are
`Garbage`. `child` and `status` are the kernel's view of the children; `Reap`
reads `status` as `WEXITSTATUS` would give it: 0 after death by a signal, the
number of the stop signal for a stopped child.

**WaitForCall.** `loc[p]` walks through the loop: `test`, `acquire` (the
constructor of the Mutex), `select` (`WaitConnect`), `accept` (`Open`),
`release` (the destructor, on the way to `after[p]`), `serve`. `Deliver` is the
signal handler: it sets the flag, and interrupts a `semtimedop` or a `select`
that sleeps, or comes just before the call and interrupts nothing. `accept` is
restarted, as `signal()` installs handlers with `SA_RESTART`. After a time-out
`WaitConnect` returns `wResult`, which nothing has assigned: `SelectTimeout`
picks any value of `UninitResults`. What happens to a request is one step that
ends (`Serve`) or leaves `WaitForCall` past `Close` (`ServeFails`: the
`writeError400` of the handler throws again). `PoolSpec` runs the children
alone, with deaths and signals.

**HttpPrefork.** Every action is an action of the parent or of a child together
with its effect on the other: `ForkChild` starts a child that inherits the
parent's `shutdown`; `EndChild` and `CrashChild` are what `wait3` reports and
what applies the child's undo; `SignalPool` leaves a pending signal in every
child the list names; `TermChild` is an operator's `SIGTERM` to one child. The
other steps (`ParentAlone`, `ChildAlone`, `RequestShutdown`, `ConnectClient`)
leave the other side as it is.

**HeapQueue.** `Grow`, `Place`, `SiftUp`, `PutUp` are the writes of `insert`,
`Take`, `SiftDown`, `PutDown` those of `retrieve`; a process may die between any
two, and its lock is freed while the heap stays as it is. `Enter` and `Leave` are
the constructor and the destructor of `Mutex here(mutex)` over the semaphore of
`SysVSem`. `EnterInterrupted` is the constructor that a signal ends without the
semaphore: no operation looks at `failed` (`heapqueue.h:179,194,199`), so it goes
in all the same, and its `Leave` lowers a semaphore that is another's, or sleeps
until there is one to lower; a signal in that sleep makes the destructor throw,
which ends the process (`LeaveInterrupted`). `raced` records that two processes
have been inside at once. They then write the same plain words, which is
undefined behaviour, and no step follows. `inserts`, `crashes`, `interrupts` and
`count` are not in the code: the first three carry the bounds, `count` is the
number of completed insertions less completed retrievals of an element.

**TSem2.** `Request` is the semop with `QR`, `Grant` the one with `AX` or `AS`,
`Release` the one with `RX` or `RS`; each array of operations is atomic, as
`semop(2)` is. `AquireThrows` is an interrupt of either semop, or the removal of
the set. `Destroy` is the destructor of the object that created the set.

**HttpRequest.** A request is a sequence of tokens: the two halves of its first
line, header lines by their kind, the blank line, pieces of the body, and zero
bytes (`"nul"`, anywhere but in the first line). The network (`Send`, `HangUp`)
delivers any portion at any time. `Text` is what `strlen`, `append` without a
length and the copy into a `string` see: what stands before a zero byte
(`TBuffer` says that it does not cater for one, `tbuffer.h:13`). `pc` and `phase`
say which of the three `readData` runs; `Receive`, `EndOfFile` and `RecvFails`
are the three results of its `recv`, `PauseMore` and `PauseOver` those of its
`WaitRead(10)`. `LoadHeaders` scans what has arrived, cut or whole, and decides
as `httprequest.cpp` does; `Loop` is the content-length loop. The buffer has
room for `Room` tokens and then moves: `bp` points to freed memory from there on,
which is the history variable `moved`, and the code may then do anything.

**BlackBoard.** One action for each write to the shared store, in the order of
the code: `WriteSlot`, `Roll`, `PutTail` of `Insert`, `Test`, `IncHead`, `Wrap`
of `Retrieve`, two writes of a reset. The constructor (`Open`, `SetUp`,
`InitHead`, `InitTail`) writes without the mutex. `MutexAfter` is the kernel at
the end of a process: a mutex that was owned becomes abandoned, and the last
handle takes it away. `WaitAbandoned` is the `Wait` that is then given it and
throws. `intact` is history: nobody died inside an operation, and nobody set the
board up while another was past its constructor.

**AutoSemaphore.** The constructor is three system calls, `Unlink`, `Open`,
`Post`, with the other constructors in between. Processes are forked with a copy
of a built object (`handle`). `Interrupted` is `EINTR`, after which the first
`sem_wait` of `Lock` returns as if it had succeeded. A `handle` of `SEM_FAILED`
is undefined behaviour for `sem_wait`: `Invalid` takes `EINVAL`, which leads to
the three attempts of the loop in `Lock`, or the end of the process. The name
those attempts use is freed memory: it may still be there, or be another name.
Nothing gives a semaphore back for the dead.

**UbiClient.** A message is a sequence of pieces that say whose reply they
belong to. `Serve`, `Deliver` and `HangUp` are the server and the network;
`Receive`, `PeerGone`, `TimesOut` and `Interrupted` are the ways in which one
turn of `_Socket_ReadAll` goes on. Each part that is whole is dealt with by an
action of its own (`HeaderLength`, `Header`, `BodyLength`, `Body`), and every
way out of `Call` closes the socket. The sizes in the header (`rx`, `e`), which
the buffers are made for, and the lengths on the wire (`rxWire`, `eWire`) are any
numbers, as nothing in `Call` compares them before the `memcpy`
(`ubiclient.cpp:206,235`): a body that is longer is copied past its buffer, which
is undefined behaviour, and the model ends there (`Overrun`). A shorter one is
unpacked by `RdcDecompress`, which is external: a server that packs wrongly is
not modelled. `Open` and `Write` may never happen: `mTimeout` bounds reads only,
not `connect` (`obsocket.cpp:200`) and the one blocking `send`
(`obsocket.cpp:624`). `heap` follows each buffer of each call:
live, freed, freed twice. `Throw` has the handler of the two body reads in it,
which deletes the buffer and leaves the pointer.

**Utf, UtfConvert.** `Utf` translates the conversions of one character as
functions between code points and units, with the exact bounds of the code; a
refused character is the empty sequence. A `uint32_t` at or above 2^31 is written
as the negative integer with the same bits. `UtfConvert` is the loop over an
array: `Reads` is what one turn takes from the source (a high surrogate takes
the next unit without a look at the end, so `Beyond` is what may lie there),
`Fits` is the test for room that the code makes, and `WrapperRoom` is what
`toWide` and `toNarrow` allocate.

## 3. The runs

| Run | Instance | States | What it shows |
|---|---|---|---|
| `semmutex` | 3 processes, time-outs, 2 interrupts, any deaths | 7 k | until the first interrupt the Mutex keeps its invariant (`IInv`), is `ExclusiveLock` (`ImplementsLock`) and serves who waits (`WaiterServed`); afterwards each interrupt admits one process too many at most (`BreachesCounted`) |
| `supervisor` | 3 pids, pool of 2, 2 restarts, with and without `{WaitForChildren}`, one failed fork, crash and stop each | 60 k | `TrackedInv`, `KilledAll`, `FullPoolSignalsChildren`, `ShutdownReturns`, `RestartsServe` |
| `waitforcall` | 3 children, 1 client, any signals and deaths, 1 failed accept, 1 hang-up | 111 k | `UninterruptedInv`, `AcceptHasClient`, `OneServerPerClient`, `ClientAccepted`, `ClientReleased`, `StopOutcome` |
| `prefork` | parent, pool of 2 on 2 pids, 1 client, any `wResult`, any exit status, one of each failure | 297 k | `OneAcceptorInService`, `ShutdownReachesAll`, `ClientAcceptedInService` |
| `heapqueue` | 2 processes, values -1 and 1, 4 insertions, any retrievals, 1 death, 1 interrupted constructor | 295 k | `ImplementsQueue` until a death or a race; `HeapInv`, part of which survives both; `OperationsEnd` through a death, without interrupts |
| `tsem2` | 3 processes, one of them a creator, 1 interrupt, 1 death | 1.5 k | `IInv`, `Exclusion`, `NoOvertaking`; `UninterruptedServed` |
| `blackboard` | 2 processes, one of which rolls over, 2 elements, a ring of 3 slots, 1 death inside | 314 k | `RingInv`; `ImplementsRing` while the board is intact; `NeverHandedOn` after a death |
| `httprequest` | 12 kinds of request, two of them with a zero byte, `recv` of 3 tokens, a buffer of 9, 1 interrupt | 13 k | `InputExact`, `InputInOrder`, `RequestEnds` |
| `utf` | six conversions, texts of two code points out of ten, sources of up to 4 bytes, 3 words or 2 code points at every edge, rooms of 1 to 3 and the wrappers' | 270 k | `RoomInv`, `TextKept`, `ReadsBack` |
| `utf_overrun` | the same with shorter texts | | **violation** of `StaysInRoom` |
| `ubiclient` | 3 calls, 7 replies (with and without bodies, packed, malformed, longer than they say), with and without a time-out | 542 k | `ReplyWhole`, `ReportsLastReturned`, `BuffersFreed`, `CallEnds` |
| `autosemaphore` | 2 objects of one name, 3 users, 1 interrupt, 1 failed `sem_open`, any deaths | 51 k | `PermitsCounted`, `ImplementsLock` |

A property that the code keeps only under a condition says so in its own text
(`interrupts = 0 => ...`, `budget.stops = 0 => ...`, `intact => ...`, `~moved`,
`~raced`),
and the run goes past the condition, so that the other properties see what is
left.

### The bounds, and why they are enough

* *Processes.* Every hazard above needs two actors, or three: one that holds,
  one that is interrupted, and one that is let in. The semaphore of `Lost`
  (below) needs three children and is not found with two. `prefork` has two
  children, since the parent, which forks again into the slots of the dead, is a
  third actor and pids are reused. `autosemaphore` has three users, two of which
  share an object, and the constructors of both objects as further actors.
* *Failures.* One of each kind (failed fork, crash, stop, failed accept,
  hang-up, operator's `SIGTERM`), two interrupts in `semmutex`, are enough for
  every order of two different failures. The supervisor has also been run with 4
  pids and a pool of 3 (1.58 million states, no error). Restarts are not counted
  by a bound: `restartCount` is the program's own limit and comes back with
  every nap.
* *Clients.* Each client connects once. One client is enough for two children
  to race for it, and for a child to be in `accept` after another took it.
* *Heap.* Four insertions reach a heap with two levels, a node with one child
  and one with two; retrieval passes through an empty, a one-element and a full
  heap; two values give ties and a negative element, with `Minimum` below both.
  `N` is larger than the number of insertions, as the code requires of callers.
  One interrupt is what it takes for a second process to come in, or for a
  destructor to release another's lock.
* *Ring.* Three slots hold two elements, so that the ring is empty, half full
  and full with `tail` on either side of `head`, and both indices wrap.
* *Requests.* The kinds differ in everything `loadHeaders` and the body loop
  branch on: verb, length, type, the two headers of the authorized path, a line
  too long, a blank line that has not come; one request is longer than the
  buffer; one has a zero byte in its body, one among its headers. A `recv` of
  three tokens cuts a request in the headers, at the blank
  line and in the body.
* *UTF.* The code points are the first and last of every length and the
  neighbours of the surrogates, so every comparison of the code is met on both
  sides; a text of two shows what the first leaves for the second.
* *Calls.* Three calls let a call throw between two that return, and a reply
  that is late meet the next call. `MaxSems` is four: one semaphore for each
  object, and two that are created by attempts to open again.
* *Deadlock* is checked in `semmutex` and `blackboard`, where a process can
  always go on. In `heapqueue` it cannot: the model ends at a race, and after an
  interrupt a destructor may be left asleep on a free semaphore with nobody else
  alive. In the other runs the system may stop legitimately
  (the parent has returned and the children ended; the set removed; the
  connection answered; the conversion done; the client deleted; every user
  asleep on a semaphore that a dead holder never gave back).

### Fairness

* A step a process can take by itself is weakly fair: the scheduler runs every
  process. For the parent it is the loop as a whole, which never blocks: `fork`,
  `wait3(WNOHANG)` and `usleep` return. For `HttpRequest` it is the child
  (`Server`), for `UbiClient` the inside of `Call` from the moment the request is
  sent (`InReply`), whose time-out is one of its steps. `connect` and `send`
  (`Sending`) have no time-out and no fairness: they may sleep for ever.
* A semaphore operation that may sleep is strongly fair: the kernel keeps the
  sleepers of a semaphore in a queue and tries them whenever the value changes.
  In `TSem2` the second semop needs weak fairness only, as nothing can come
  between.
* A delivered signal is weakly fair: the kernel delivers it when the process
  next runs. In `WaitForCall` a request is taken to come to its end;
  `HttpRequest` shows when it does.
* Nothing makes a process start a scope, die, fail, be interrupted, be signalled
  or stopped, a client connect, send or hang up, a server answer, or the network
  deliver.
* `BlackBoard`, `UtfConvert` and `AutoSemaphore` promise nothing that must
  happen: their specifications have no fairness. A `Wait` of the board may time
  out for ever, and an AutoSemaphore is lost with its holder.

### Disagreements between the code and what it says

`utf_overrun` is the run that shows one. `utf32To16` is to leave early when it
could overrun its destination (`utf.hpp:11`); its test, `begin + 1 > end`, is
never true inside the loop, and with room for one unit a surrogate pair is
written past the end. `RoomInv` shows how far that goes (`AtMostOnePast`): by one
unit, in no other direction, and never in the wrappers.

The other deviations are written into the properties, as the states in which a
promise ends:

1. *Interrupted constructors* (`IInv`, `UninterruptedInv`, `BreachesCounted`). An
   interrupted constructor of a Mutex is followed by a release, though
   `mutex.h:31-33` promises that the constructor acquires. The same in
   `AutoSemaphore::Lock` (`PermitsCounted`).
2. *A shutdown that hangs* (`StopOutcome`). A shutdown interrupts a child that
   waits for the Mutex; its destructor lowers the semaphore that its sibling
   holds, and the sibling's own destructor then waits for ever. The children
   outlive a shutdown that is "Required to kill child processes"
   (`httpserver.cpp:373`). The semaphore may also be *lost* (`WaitForCall!Lost`):
   an interrupted constructor has given it back, its holder dies, whose undo
   stops at zero, and the undo of the interrupted child raises it with nobody
   left to lower it.
3. *Elements never assigned* (`FullPoolSignalsChildren`). After a failed fork
   the last elements of the list were never assigned, and `_killChildren` passes
   them to `kill()`.
4. *Phantom slots* (`RestartsServe`). Once the restarts are used up a child that
   fails is reaped without giving its slot back; with all slots lost so the
   parent polls for ever without a child, although it means to end then
   (`httpserver.cpp:382`).
5. *Stopped children* (`TrackedInv`, `KilledAll`) leave the list and are
   replaced while they live.
6. *A time-out taken for a client* (`AcceptHasClient`). A child may sleep in
   `accept` with the Mutex held when `wResult` happens to be true.
7. *A heap without its lock* (`ImplementsQueue`, `HeapInv`, `OperationsEnd`). An
   operation whose Mutex constructor a signal interrupts runs unlocked. If that
   brings two processes inside at once, nothing is promised any more; even if the
   holder leaves first, the destructor of the interrupted operation then sleeps on
   the free semaphore until somebody else enters, and takes that one's lock away.
   *Torn heaps*. A death between two writes
   leaves a disordered heap to the next holder of the lock; `heapqueue.h:5`
   promises the smallest element. What is left (`BaseInv`): the sentinel and the
   walks of the loops behind it, and a size that is wrong by one element for each
   death at most.
8. *Starvation* (`UninterruptedServed`). When the second semop of `tSem2` is
   interrupted the request semaphore stays raised; `tsem2.cpp:31` says that
   processes do not starve.
9. *A body that spins* (`RequestEnds`, `Spins`). A client that closes before it
   has sent what it announced leaves the child in the content-length loop for
   ever. A zero byte in what it sends does so in `recv` (`Starves`): `strlen`
   never sees what follows it, and the child waits for more than was announced,
   until the client closes, and spins then.
   *A buffer that moves* (`moved`): the body loop then reads freed memory.
   *A pause in the headers* (`InputExact`, `InputInOrder`) ends them.
10. *Two frees* (`BuffersFreed`). The handler of a failed read of a body deletes
    the buffer and leaves the pointer, which `RxFree`, `ErrFree` or a destructor
    frees again; and `~UbiClient` frees the reply that `~UbiRPCClient` frees too.
    *A body longer than it says* (`Overrun`) is copied past its buffer. *A call
    that is never sent* (`CallEnds`): with a server that does not accept, or does
    not read a large request, `Call` sleeps in `connect` or `send` whatever
    `mTimeout` is.
11. *Two constructors of one name* (`PermitsCounted`, `ImplementsLock`). When
    both remove the name before either creates it, they post one semaphore
    twice.
12. *A set-up behind the mutex* (`intact`), and *an abandoned board*
    (`NeverHandedOn`): after a death inside an operation the process that is
    given the mutex keeps it, and the others time out.

## 4. The proofs

All theorems hold for any number of processes and any value of the bounds, under
the conditions that the properties themselves state (until the first interrupt,
until a race, for text without zero bytes, ...).

| Theorem | States | Assumes |
|---|---|---|
| `SemMutexProof!MutexInvariant` | `Spec => []IInv` | `SemMutexAssumption` |
| `SemMutexProof!MutexExclusion`, `MutexNeverLost`, `MutexImplementsLock` | `UninterruptedExclusion`, `FreeIffUnheld`, `ImplementsLock` | the same |
| `SemMutexProof!BreachesFew` | `[]BreachesCounted` | finitely many processes |
| `HttpServerProof!ListExact`, `ChildrenTracked` | `Spec => []TrackedInv`, and `Tracked` until a child is stopped | `SupervisorAssumption` |
| `HttpServerProof!ShutdownSignalsEveryChild` | `Spec => []KilledAll` | the same |
| `HttpServerProof!SignalsChildrenOnly` | `FullPoolSignalsChildren` | and `PidsToSpare`: no list shorter than the pool names every pid |
| `HttpServerProof!PoolSemaphore`, `OneAcceptor` | `PoolSpec => []UninterruptedInv`; one child at the socket | `WaitForCallAssumption` |
| `HttpServerProof!OneServer`, `ClientForAccept` | `[]OneServerPerClient`, `[]AcceptHasClient` | the same |
| `HttpServerProof!ServerList`, `ServerPool` | the invariants of parent and children, of `ServerSpec` | both |
| `HttpServerProof!OneAcceptorHolds`, `ShutdownReaches` | `ServerSpec => []OneAcceptorInService`, `[]ShutdownReachesAll` | both |
| `HttpServerProof!RequestInOrder`, `RequestExact` | `RequestSpec => []InputInOrder`, `[]InputExact` | `HttpRequestAssumption` (a length that is not 0 is said by a header, no zero byte in the first line) |
| `HeapQueueProof!HeapInvHolds`, `CrashCostHolds` | `[]HeapInv`; `[]CrashCost` | `HeapQueueAssumption` (insertions stay below `N`) |
| `HeapQueueProof!QueueImplemented` | `ImplementsQueue` | the same |
| `TSem2Proof!SemaphoresCount`, `ExclusiveAlone`, `QueuedNext` | `Spec => []IInv`, `[]Exclusion`, `NoOvertaking` | `TSem2Assumption` (finitely many processes) |
| `BlackBoardProof!RingInvHolds`, `NeverHandedOnHolds` | `[]RingInv`, `[]NeverHandedOn` | `BlackBoardAssumption` |
| `BlackBoardProof!RingImplemented` | `ImplementsRing` | the same |
| `AutoSemaphoreProof!PermitsCountedHolds`, `LockImplemented` | `[]PermitsCounted`, `ImplementsLock` | `AutoSemaphoreAssumption` (finitely many users) |
| `UbiClientProof!BuffersFreedHolds`, `ReportsHold` | `[]BuffersFreed`, `[]ReportsLastReturned` | `UbiClientAssumption` |
| `UbiClientProof!ReplyWholeHolds` | `[]ReplyWhole` | the same |
| `UtfConvertProof!RoomInvHolds`, `WrapperFitsHolds`, `ReadsBackHolds` | `[]RoomInv`, `[]WrapperFits`, `ReadsBack` | `UtfConvertAssumption` |
| `UtfConvertProof!TextKeptHolds` | `[]TextKept` | the same (`Encoded` lays the characters of a text one after the other) |

**SemMutex.** Mutual exclusion alone is not inductive: a step that releases
must know that nobody else is inside, and a death that its undo is exactly what
the process holds. `OneHolder` says that the one holder is the one process with
an adjustment (-1) and that the semaphore is 1 exactly when there is a holder.
It stands until `interrupts` is positive, which never becomes zero again. From
it `ReleaseFailed` cannot happen before an interrupt (`ReleaseNeverFails`), and
each action changes the set of holders in a known way (`HolderSteps`), which is
the refinement of `ExclusiveLock`. `BreachesCounted` has an invariant of its own
that needs no condition, `HolderBound`: the holders are no more than the value of
the semaphore and the interrupts together. A process that enters finds the value
zero, hence the bound of one and the interrupts; a death takes back one at most,
as an adjustment is never below -1, and nothing when the process is outside.

**The parent.** That every child not reaped is in the list is not inductive:
the fork that writes at `noProcs` must not overwrite one. `ExactList` adds that
the children in the list are in its counted part, that nobody else is, and that
no child is there twice; `RemovedShifts` states what the compaction in
`_waitForChildren` does to such a list. `ReapStep` needs both: the shift moves every later child by one and
`noProcs` falls by one, or stays (a restart that is not left), and then the
counted part only has an empty element more. `KilledAll` follows with
`TrackedInv` at the step that kills, and is kept since nobody forks afterwards.
That nothing else is signalled needs `Assigned`: words never assigned are behind
the counted part of the list, and only while it is filled for the first time; a
pool that is full has none, and the compaction brings none back. A fork that
fails for want of a pid would break it, hence `PidsToSpare`.

**The children.** The invariant is that of the Mutex, with the holders being the
children at `select`, `accept` and `release`; the death of a child at any
location is `EndStep`, the interrupts are `DeliverStep`. `OneServer` rests on
`ServingInv`, which says for every child and every client where the connection
is, and holds through interrupts. `ClientForAccept` adds `QueueKept`: a queued
client leaves the queue only by an `accept`, and the one child that may make it
is the holder.

**Parent and children.** Both halves were proved with steps wider than their own
(`AnyStep`: children end with any status; `PoolStep`: children may be spawned and
signalled at any time), and `ParentPart` and `PoolPart` show that every step of
the server is one of each, so `ServerList` and `ServerPool` carry the invariants
over. `OneAcceptorInService` then needs one fact that belongs to neither half,
`QuietInv`: before a shutdown, and while no operator signals a child, no child
has its flag set, a signal pending or an interrupt behind it, so that the
condition of `UninterruptedInv` is met. `ShutdownReachesAll` needs `Together`: the
processes that run for the parent are those that are somewhere in `WaitForCall`.
The parent returns in the step that signals every entry of the list, and
`ExactList` says that every child is an entry; with a child stopped, it would not
be, and nothing stops one in this composition.

**A request.** `StreamInv` says that the two buffers together are the tokens that
`recv` returned last, in order, and all of them until the 100-continue throws
away what came before; `FromTo` states it by positions, since a sequence is
easier to reason about where it stands than by what it was concatenated from
(`WindowNext`, `WindowEnd`). From it what `readRequest` returns is a window of
the request that ends at `got`, which is `InputInOrder`. `InputExact` needs that
the loop waited for the right number of tokens (`HeadInv`): headers that came
without a pause are read to their blank line, which is that of the request, and
the header that says the length is before it (`HeadersAre`, `LengthSeen`). Both
are about requests without a zero byte, of which `Text` takes nothing away.

**HeapQueue.** `LockInv` is the Mutex until the first interrupt, `AloneInv` what
`raced` records from there on: while nobody has raced, whoever is inside is
alone, with the lock or without it, which is all that the steps inside need. The
heap is in order except, inside an operation, at the one word
that is about to be written: `OrderedBut(heapSize, now)` compares the children of
that word with its parent, and the operation knows that its element would fit
there. Each write moves the hole or fills it (`SiftUpOrder`, `PutUpOrder` and
their fellows). That the root is a smallest element, which is what `retrieve`
takes, would go by induction along the path to the root; `RootLeast` takes the
least index whose element is smaller instead (`LeastElement`), whose parent would
be another. That needs no induction over data. `BaseInv` is what a death leaves:
the lock, the sentinel, which ends the one loop, the walks behind it, and the
size. For the refinement the bag of elements is counted cell by cell, the two
elements in the hands of `retrieve` and the one of `insert` included, and each
write is shown to keep the count, or to be the insertion or the retrieval.

**TSem2.** `IInv` counts: each semaphore is the cardinality of the set of
processes with that adjustment, the queued process is the one that raised
Request, and the holders are exactly those that raised Reader and Writer while
the set exists. It holds unconditionally, for every interrupt, death and removal.

**BlackBoard.** `RingInv` is inductive as it stands: types, exclusion and the
indices together. `Head` is behind the ring for the one write between its
increment and its wrap, and no other process is inside then (`HeadInRing`); a
death there ends `intact`. `NeverHandedOn` needs `OnceMore`: whoever is given an
abandoned mutex owns it once more than the scopes it is in, as the exception
left one level behind, and so no `Leave` of its later scopes frees it.
For the refinement `StartInv` says that nobody works on an intact board before
its set-up is complete, and `WorkInv` what the one process inside knows from its
earlier writes: its element is in the slot at `tail`, there is room behind it, or
the element it took was the first. `QueueOf` is the content of a ring from given
indices; its lemmas (`QueueAppend`, `QueueWraps`, `QueueFull`, `QueueEmpty`,
`QueueWrite`) are what each write does to it.

**AutoSemaphore.** `CountInv` says that the permits of a semaphore, those in its
value and those with processes inside, are no more than constructors posted and
interrupts made. The refinement adds `SettledInv`: as long as every `sem_open`
succeeds, a user has the semaphore its object was built with. An undisturbed
object then has one permit (`OneOwner`), and every step takes it or gives it back
(`OwnerSteps`).

**UbiClient.** `BufferInv` says that a pointer is to a live buffer of the last
call, or to one that a call which threw has freed, and that a live buffer of the
last call has its pointer. `ReportInv` says that `prev` is the greatest call that
returned. Both need `CallInv`, where the program stands in its calls. That a
reply is whole has the stream as its invariant: `LineInv` says that what is
read, what has arrived and what is still on its way follow each other in the
message of this call (`Flow`), and that nothing of an earlier call is on the
line, as every call opens a socket of its own. The lengths at the head of each
part then tell where the next one starts, and `ReplyInv` says what the call has
made of the parts it is through with, and that the others are untouched. Neither
compares a length on the wire with the size in the header; a call that copies a
body past its buffer stays where it is (`OverrunFlows`), so that only a call that
never did returns.

**UtfConvert.** The arithmetic is in lemmas about one character: what is shifted
out six bits at a time is what is put together again (`SixBits`, `ReadBack8`,
`ReadBack16`). `ReadUnits` bounds what a turn reads, and `RoomInv` counts the
room of a wrapper by the units read: four bytes for each, two words for a code
point, no more units than were read otherwise. For every room it bounds what is
written past it (`NextPast`): the loop goes on only below the end, and only
towards UTF-16 does it then write two units without a test. For texts, `TextInv`
says that
the loop stands between two characters of the text: the source is read up to
where the first `n` of them end and what is written is the target's encoding of
the same `n`. `CharacterAt` finds the next character in the source,
`ReadsCharacter` says that the code reads all of it and nothing else, and
`ScalarWritten` that it writes the same character. Where a character ends is a
function of positions that `LaidOut` constrains, one character from the one
before; the encoding of a text by recursion would have needed an induction over
it. TLC evaluates that assumption for the texts of the run, whose encodings are
built by flattening.

**Only model-checked.** Everything under fairness (`WaiterServed`,
`ShutdownReturns`, `RestartsServe`, `ClientAccepted`, `ClientReleased`,
`StopOutcome`, `ClientAcceptedInService`, `OperationsEnd`,
`UninterruptedServed`, `RequestEnds`, `CallEnds`): liveness is beyond the prover.
Every safety property of the runs has a theorem.

## 5. What is not modelled

* Of the Mutex: `makeNamed` (a file and `ftok`), `remove`, the Windows build.
* Of the server: `{Debug}` and pools of one (no fork), what `ServiceStart` and
  the service do around `WaitForCall` (they are not in the repository),
  `sockServer` after the parent has deleted it.
* Of HTTPRequest: the digest cache, percent decoding, the query, the text of the
  answers.
* Of the socket layer: SSL, `Transact` and `Call`, the C interface, Windows.
* Of HeapQueue: a full array (undefined behaviour; the model assumes the caller
  prevents it), processes that attach without initialising, `shm_unlink`, the
  bit fields of `PriorityQ`.
* Of BlackBoard: objects of one name with different counts, and the size of the
  mapping, which is computed from a pointer instead of what it points to
  (`blackboard.h:93`): the model has the slots that the code means to have.
* Of UbiClient: packing and unpacking, the two `ErrBuffer(...)` that allocate, a
  request of size 0, which is built past its allocation (`ubiclient.cpp:149-172`,
  undefined behaviour), and the metrics, a file of counters.
* AThread, AMutex, AQueue: thin wrappers of pthread and message queue calls;
  nothing in the repository starts a `tAThread`, so that a model of them would
  have to invent the program around it. (`tAThread::Start` tests a status that the
  new thread sets later, `athread.cpp:45`, and `WaitForExit` waits without a
  predicate.)
* The containers: sequential code, whose objects are not shared between
  processes; not yet.
* Text, XML, date and configuration helpers (sequential conversions), the legacy
  `ti` clients (of a system that is not here), the code generators (batch
  compilers), the database adapters (wrappers of vendor drivers) and the
  vendored libraries, which are most of the lines of the repository: left out
  for good.

## 6. Plan

Done, in this order: the Mutex; parent, children and their composition; the
heap; `tSem2`; the board; the request; the codecs; the client; the named
semaphore; and the theorems of section 4: first each component's invariant and
the refinements of the locks, then the heap and the ring as refinements, the
server as a whole, its requests, the replies of `UbiClient`, and the texts of the
codecs.

What remains, the most useful first:

1. `HeapQueue` with processes that attach without initialising and destructors
   that unlink.
2. `WaitForCall` with `HttpRequest` in place of `Serve`, for a pool in which a
   child spins; the reference-counted handle and the growing lists.
