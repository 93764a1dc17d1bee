------------------------------ MODULE UbiClient ------------------------------
(***************************************************************************)
(* UbiClient::Call (utility/libs/ubi/src/ubiclient.cpp) over the socket it *)
(* opens for every call (utility/libs/main/src/cbsocket.cpp, obsocket.cpp),*)
(* the buffers it leaves to its caller (ubirpcclient.h), and the report of *)
(* the previous call that every request carries.                           *)
(*                                                                         *)
(* A message is a sequence of pieces [call, part, of, reply]: the length   *)
(* of the header, the header, then the length and the body of the reply    *)
(* and of the error text, each when it is there.  The network delivers any *)
(* portion of them at any time.                                            *)
(*                                                                         *)
(* Nothing in Call compares the length of a body on the wire with the size *)
(* in the header its buffer was made for: a longer one is copied past the  *)
(* end of the buffer, and what the program does from there is undefined    *)
(* (Overrun).  A shorter one is what RdcCompress made of a body of that    *)
(* size; RdcDecompress is external and unpacks it.                         *)
(***************************************************************************)
EXTENDS Integers, Sequences, FiniteSetsExt

CONSTANTS
  Replies,         \* what a server answers: [code, header, rx, rxWire, e, eWire]
  HeaderLen,       \* sizeof(UbiRPCHeader), in pieces
  LengthLen,       \* sizeof(int32), in pieces
  MaxCalls         \* bound: how often the program calls

(* Where a server has not answered.                                        *)
NoReply == [code |-> "none", header |-> 0, rx |-> 0, rxWire |-> 0,
            e |-> 0, eWire |-> 0]

ASSUME UbiClientAssumption ==
  /\ HeaderLen \in Nat \ {0} /\ LengthLen \in Nat \ {0} /\ MaxCalls \in Nat
  /\ \A r \in Replies : /\ r.rx \in Nat /\ r.rxWire \in Nat
                        /\ r.e \in Nat /\ r.eWire \in Nat
  /\ NoReply \notin Replies

Calls == 1 .. MaxCalls
Parts == {"headerLen", "header", "rxLen", "rx", "errLen", "err"}
Bodies == {"rx", "err"}

VARIABLES
  timed,           \* mTimeout is not zero
  call,            \* how many times Call has been entered
  pc,              \* where the program stands
  part, want, in,  \* what _ReadAll reads, how much of it, and what it has
  code,            \* mHeader.ReturnCode, as the call whose reply it is from
  reply,           \* HostHeader
  ptr,             \* mRxBuffer and mErrBuffer: whose buffer, 0 for null
  heap,            \* each buffer: "none", "live", "freed" or "twice"
  holds,           \* the pieces copied or unpacked into the last buffers
  prev,            \* mHeader.PrevRpcReqID and the rest: which call they report
  outcome,         \* how each call ended
  socket,          \* the call whose connection is open, 0 for none
  peer,            \* the other end of that connection: "open" or "closed"
  line,            \* what has arrived on it and is not read
  flying,          \* what has been answered on it and has not arrived
  answer,          \* what the server of that connection answered
  received,        \* the calls whose request has reached a server
  report           \* the report each request carried

readVars == <<part, want, in>>
bufferVars == <<ptr, heap, holds>>
netVars == <<socket, peer, line, flying>>
serverVars == <<answer, received>>
sendVars == <<prev, report>>
vars == <<timed, call, pc, readVars, code, reply, bufferVars, sendVars,
          outcome, netVars, serverVars>>

(* The length of a part of reply r on the wire.                            *)
Extent(r) ==
  [headerLen |-> LengthLen, header |-> HeaderLen,
   rxLen |-> IF r.rx > 0 THEN LengthLen ELSE 0,
   rx |-> IF r.rx > 0 THEN r.rxWire ELSE 0,
   errLen |-> IF r.e > 0 THEN LengthLen ELSE 0,
   err |-> IF r.e > 0 THEN r.eWire ELSE 0]

Part(c, r, p) ==
  [i \in 1 .. Extent(r)[p] |-> [call |-> c, part |-> p, of |-> i, reply |-> r]]

Message(c, r) ==
  Part(c, r, "headerLen") \o Part(c, r, "header") \o Part(c, r, "rxLen")
    \o Part(c, r, "rx") \o Part(c, r, "errLen") \o Part(c, r, "err")

(* The length that the pieces in in say.                                   *)
Said == LET r == in[1].reply
        IN  [headerLen |-> r.header, rxLen |-> r.rxWire, errLen |-> r.eWire,
             header |-> 1, rx |-> 1, err |-> 1][in[1].part]

TypeOK ==
  /\ timed \in BOOLEAN /\ call \in 0 .. MaxCalls
  /\ pc \in {"idle", "open", "write", "read", "return", "deleted", "overrun"}
  /\ part \in Parts /\ want \in Nat
  /\ \A i \in 1 .. Len(in) : in[i].call \in Calls /\ in[i].part \in Parts
  /\ code \in 0 .. MaxCalls /\ reply \in Replies \cup {NoReply}
  /\ ptr \in [Bodies -> 0 .. MaxCalls]
  /\ heap \in [Bodies -> [Calls -> {"none", "live", "freed", "twice"}]]
  /\ prev \in 0 .. MaxCalls /\ report \in [Calls -> 0 .. MaxCalls]
  /\ outcome \in [Calls -> {"none", "returned", "threw"}]
  /\ socket \in 0 .. MaxCalls /\ peer \in {"open", "closed"}
  /\ received \subseteq Calls /\ answer \in Replies \cup {NoReply}

(* The constructor of UbiClient.                                           *)
Init ==
  /\ timed \in BOOLEAN /\ call = 0 /\ pc = "idle"
  /\ part = "headerLen" /\ want = 0 /\ in = <<>>
  /\ code = 0 /\ reply = NoReply
  /\ ptr = [b \in Bodies |-> 0]
  /\ heap = [b \in Bodies |-> [c \in Calls |-> "none"]]
  /\ holds = [b \in Bodies |-> <<>>]
  /\ prev = 0 /\ report = [c \in Calls |-> 0]
  /\ outcome = [c \in Calls |-> "none"]
  /\ socket = 0 /\ peer = "open" /\ line = <<>> /\ flying = <<>>
  /\ answer = NoReply /\ received = {}

-----------------------------------------------------------------------------
(* The server and the network.  A server answers a request once it has all *)
(* of it; what it answers to a client that has gone is dropped.            *)
Serve(r) ==
  /\ socket \in received /\ answer = NoReply
  /\ answer' = r /\ flying' = flying \o Message(socket, r)
  /\ UNCHANGED <<timed, call, pc, readVars, code, reply, bufferVars, sendVars,
                 outcome, socket, peer, line, received>>

Deliver ==
  /\ peer = "open" /\ flying # <<>>
  /\ \E n \in 1 .. Len(flying) :
       /\ line' = line \o SubSeq(flying, 1, n)
       /\ flying' = SubSeq(flying, n + 1, Len(flying))
  /\ UNCHANGED <<timed, call, pc, readVars, code, reply, bufferVars, sendVars,
                 outcome, socket, peer, serverVars>>

HangUp ==
  /\ socket # 0 /\ peer = "open"
  /\ peer' = "closed"
  /\ UNCHANGED <<timed, call, pc, readVars, code, reply, bufferVars, sendVars,
                 outcome, socket, line, flying, serverVars>>

-----------------------------------------------------------------------------
(* A slip the runs must notice: the connection is kept for the next call.  *)
CloseKeepsLine == UNCHANGED netVars

(* ~autoSockOpen, whichever way Call is left: what the other end sends     *)
(* afterwards is dropped.                                                  *)
Close == socket' = 0 /\ peer' = "open" /\ line' = <<>> /\ flying' = <<>>

(* delete [] and free.                                                     *)
Freed(h, b, c) ==
  [h EXCEPT ![b][c] = IF @ = "live" THEN "freed" ELSE "twice"]

(* Call throws: the handler around the read of a body frees its buffer and *)
(* leaves the pointer.                                                     *)
Throw ==
  /\ pc' = "idle"
  /\ outcome' = [outcome EXCEPT ![call] = "threw"]
  /\ heap' = IF part \in Bodies THEN Freed(heap, part, call) ELSE heap
  /\ Close
  /\ UNCHANGED <<timed, call, readVars, code, reply, ptr, holds, sendVars,
                 serverVars>>

ReadAll(p, n) == part' = p /\ want' = n /\ in' = <<>>

(* The first lines of Call: a buffer that is still there is lost.          *)
Call ==
  /\ pc = "idle" /\ call < MaxCalls
  /\ call' = call + 1 /\ pc' = "open"
  /\ ptr' = [b \in Bodies |-> 0] /\ holds' = [b \in Bodies |-> <<>>]
  /\ ReadAll("headerLen", LengthLen)
  /\ UNCHANGED <<timed, code, reply, heap, sendVars, outcome, netVars,
                 serverVars>>

(* connect has no timeout: it may never return.                            *)
Open ==
  /\ pc = "open"
  /\ socket' = call /\ peer' = "open" /\ answer' = NoReply /\ pc' = "write"
  /\ UNCHANGED <<timed, call, readVars, code, reply, bufferVars, sendVars,
                 outcome, line, flying, received>>

OpenFails == pc = "open" /\ Throw

(* One send for the whole request, without a timeout: while the server does*)
(* not read and the buffers of the connection are full it does not return. *)
Write ==
  /\ pc = "write"
  /\ pc' = "read" /\ received' = received \cup {call}
  /\ report' = [report EXCEPT ![call] = prev]
  /\ UNCHANGED <<timed, call, readVars, code, reply, bufferVars, prev, outcome,
                 netVars, answer>>

(* send takes a part of it, or nothing: the server never has a request.    *)
WriteFails == pc = "write" /\ Throw
-----------------------------------------------------------------------------
(* _Socket_ReadAll: recv returns what has arrived, at most what is missing.*)
Reading == pc = "read" /\ Len(in) < want

Receive ==
  /\ Reading /\ line # <<>>
  /\ LET n == Min({want - Len(in), Len(line)})
     IN  in' = in \o SubSeq(line, 1, n) /\ line' = SubSeq(line, n + 1, Len(line))
  /\ UNCHANGED <<timed, call, pc, part, want, code, reply, bufferVars, sendVars,
                 outcome, socket, peer, flying, serverVars>>

(* A slip the runs must notice: an end of file is taken for progress.      *)
PeerGoneSpins == Reading /\ peer = "closed" /\ line = <<>> /\ UNCHANGED vars

(* recv returns 0, or -1 after a reset, which also drops what had arrived. *)
PeerGone == Reading /\ peer = "closed" /\ Throw

(* select returns 0 after mTimeout, or a signal interrupts select or recv. *)
TimesOut == Reading /\ timed /\ line = <<>> /\ peer = "open" /\ Throw

Interrupted == Reading /\ line = <<>> /\ peer = "open" /\ Throw

-----------------------------------------------------------------------------
(* What Call does with each part when it is whole.                         *)
Whole(p) == pc = "read" /\ part = p /\ Len(in) = want

BadLength ==
  /\ \/ Whole("headerLen") /\ Said # HeaderLen
     \/ \E p \in {"rxLen", "errLen"} : Whole(p) /\ Said <= 0
  /\ Throw

HeaderLength ==
  /\ Whole("headerLen") /\ Said = HeaderLen
  /\ ReadAll("header", HeaderLen)
  /\ UNCHANGED <<timed, call, pc, code, reply, bufferVars, sendVars, outcome,
                 netVars, serverVars>>

AfterRx(r) ==
  \/ r.e > 0 /\ ReadAll("errLen", LengthLen) /\ UNCHANGED pc
  \/ r.e = 0 /\ pc' = "return" /\ UNCHANGED readVars

AfterHeader(r) ==
  \/ r.rx > 0 /\ ReadAll("rxLen", LengthLen) /\ UNCHANGED pc
  \/ r.rx = 0 /\ AfterRx(r)

(* A slip the runs must notice: the report is written with the header.     *)
HeaderReports ==
  /\ Whole("header")
  /\ reply' = in[1].reply /\ code' = in[1].call
  /\ prev' = call
  /\ AfterHeader(reply')
  /\ UNCHANGED <<timed, call, bufferVars, report, outcome, netVars, serverVars>>

Header ==
  /\ Whole("header")
  /\ reply' = in[1].reply /\ code' = in[1].call
  /\ AfterHeader(reply')
  /\ UNCHANGED <<timed, call, bufferVars, sendVars, outcome, netVars, serverVars>>

(* new char[] of the size in the header; the read is as long as the length *)
(* on the wire, which nothing compares with it.                            *)
BodyLength(p, b) ==
  /\ Whole(p) /\ Said > 0
  /\ ptr' = [ptr EXCEPT ![b] = call]
  /\ heap' = [heap EXCEPT ![b][call] = "live"]
  /\ ReadAll(b, Said)
  /\ UNCHANGED <<timed, call, pc, code, reply, holds, sendVars, outcome, netVars,
                 serverVars>>

(* The sizes in the header, which the buffers are made for.                *)
Size(r) == [rx |-> r.rx, err |-> r.e]

(* RdcDecompress of a body shorter than its buffer, memcpy of one as long. *)
Body(b) ==
  /\ Whole(b) /\ want <= Size(reply)[b]
  /\ holds' = [holds EXCEPT ![b] = in]
  /\ \/ b = "rx" /\ AfterRx(reply)
     \/ b = "err" /\ pc' = "return" /\ UNCHANGED readVars
  /\ UNCHANGED <<timed, call, code, reply, ptr, heap, sendVars, outcome, netVars,
                 serverVars>>

(* memcpy of a body longer than its buffer: undefined, the model ends.     *)
Overrun(b) ==
  /\ Whole(b) /\ want > Size(reply)[b]
  /\ pc' = "overrun"
  /\ UNCHANGED <<timed, call, readVars, code, reply, bufferVars, sendVars,
                 outcome, netVars, serverVars>>

Return ==
  /\ pc = "return"
  /\ pc' = "idle" /\ prev' = call
  /\ outcome' = [outcome EXCEPT ![call] = "returned"]
  /\ Close
  /\ UNCHANGED <<timed, call, readVars, code, reply, bufferVars, report,
                 serverVars>>

-----------------------------------------------------------------------------
(* A slip the runs must notice: the pointer is left as it is.              *)
FreeOnly(b) ==
  /\ pc = "idle" /\ ptr[b] # 0
  /\ heap' = Freed(heap, b, ptr[b])
  /\ UNCHANGED <<timed, call, pc, readVars, code, reply, ptr, holds, sendVars,
                 outcome, netVars, serverVars>>

(* RxFree and ErrFree, which the program may call.                         *)
Free(b) ==
  /\ pc = "idle" /\ ptr[b] # 0
  /\ heap' = Freed(heap, b, ptr[b])
  /\ ptr' = [ptr EXCEPT ![b] = 0]
  /\ UNCHANGED <<timed, call, pc, readVars, code, reply, holds, sendVars,
                 outcome, netVars, serverVars>>

(* ~UbiClient frees mRxBuffer, and ~UbiRPCClient calls RxFree and ErrFree. *)
Delete ==
  /\ pc = "idle" /\ pc' = "deleted"
  /\ LET own == IF ptr["rx"] = 0 THEN heap ELSE Freed(heap, "rx", ptr["rx"])
         rx  == IF ptr["rx"] = 0 THEN own ELSE Freed(own, "rx", ptr["rx"])
     IN  heap' = IF ptr["err"] = 0 THEN rx ELSE Freed(rx, "err", ptr["err"])
  /\ ptr' = [b \in Bodies |-> 0]
  /\ UNCHANGED <<timed, call, readVars, code, reply, holds, sendVars, outcome,
                 netVars, serverVars>>

-----------------------------------------------------------------------------
Sending == Open \/ Write

InReply ==
  \/ Receive \/ PeerGone \/ TimesOut \/ BadLength
  \/ HeaderLength \/ Header \/ BodyLength("rxLen", "rx")
  \/ BodyLength("errLen", "err") \/ (\E b \in Bodies : Body(b) \/ Overrun(b))
  \/ Return

Program == Call \/ Delete \/ \E b \in Bodies : Free(b)

Network ==
  \/ Deliver \/ HangUp \/ OpenFails \/ WriteFails \/ Interrupted
  \/ \E r \in Replies : Serve(r)

Next == Sending \/ InReply \/ Program \/ Network

(* Once its request is sent the program runs Call on; nothing is promised  *)
(* of connect and send, of servers and of the network.                     *)
Spec == Init /\ [][Next]_vars /\ WF_vars(InReply)

-----------------------------------------------------------------------------
(* A call that returns hands over the return code, the reply and the error *)
(* text of its own request, whole, in whatever portions they came and      *)
(* however late the answer to an earlier call, and each buffer it left is  *)
(* there until the program frees it.  A body longer than its header said   *)
(* has no call that returns: it has been copied past its buffer.           *)
ReplyWhole ==
  (pc = "idle" /\ call > 0 /\ outcome[call] = "returned") =>
    /\ answer # NoReply /\ reply = answer /\ code = call
    /\ \A b \in Bodies :
         /\ (heap[b][call] = "none") = (Size(reply)[b] = 0)
         /\ holds[b] = Part(call, reply, b)
         /\ ptr[b] # 0 => (ptr[b] = call /\ heap[b][call] = "live")

(* What a request reports is the last call before it that returned: every  *)
(* call that returns is reported by the next request, one that throws is   *)
(* never, and a report comes again only after a call that threw.           *)
ReportsLastReturned ==
  \A c \in received :
    report[c] = Max({d \in 1 .. c - 1 : outcome[d] = "returned"} \cup {0})

(* Who frees a buffer twice: the handler of a failed read, which leaves    *)
(* the pointer, with whoever frees next; and the two destructors, the      *)
(* reply that is still there.  A buffer is lost only by the next Call.     *)
BuffersFreed ==
  \A b \in Bodies, c \in Calls :
    /\ heap[b][c] = "twice" =>
         \/ outcome[c] = "threw"
         \/ b = "rx" /\ pc = "deleted" /\ c = call
    /\ (heap[b][c] = "live" /\ ptr[b] # c) => c < call

(* With a timeout, every call whose request has been sent ends, whatever   *)
(* the server and the network do, unless it copies past a buffer.          *)
CallEnds ==
  (timed /\ pc \in {"read", "return"}) ~> (pc \in {"idle", "deleted", "overrun"})
=============================================================================
