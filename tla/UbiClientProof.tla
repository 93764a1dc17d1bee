--------------------------- MODULE UbiClientProof ---------------------------
(***************************************************************************)
(* Proofs about UbiClient, for any replies, any lengths and any number of  *)
(* calls: who frees a buffer, what a request reports, and that a call      *)
(* that returns hands over the answer to its own request, in whatever      *)
(* portions it came.                                                       *)
(***************************************************************************)
EXTENDS UbiClient, SequenceTheorems, TLAPS

USE UbiClientAssumption

Places == {"idle", "open", "write", "read", "return", "deleted", "overrun"}
Busy == pc \in {"open", "write", "read", "return", "overrun"}
Outcomes == {"none", "returned", "threw"}
USE DEF Places
Heaps == [Bodies -> [Calls -> {"none", "live", "freed", "twice"}]]

(* Where a program stands in its calls.                                    *)
CallInv ==
  /\ call \in 0 .. MaxCalls /\ outcome \in [Calls -> Outcomes]
  /\ pc \in Places
  /\ \A c \in Calls : c > call => outcome[c] = "none"
  /\ Busy => call \in Calls /\ outcome[call] = "none"

(* A pointer is to a live buffer of the last call, or that call threw; and *)
(* a live buffer of the last call has its pointer.                         *)
BufferInv ==
  /\ heap \in Heaps /\ ptr \in [Bodies -> 0 .. MaxCalls]
  /\ part \in Parts
  /\ \A b \in Bodies : ptr[b] # 0 =>
       /\ ptr[b] = call
       /\ heap[b][call] = "live" \/ outcome[call] = "threw"
  /\ \A b \in Bodies, c \in Calls : heap[b][c] = "live" =>
       c <= call /\ (c = call => ptr[b] = call)
  /\ \A b \in Bodies, c \in Calls : heap[b][c] = "twice" =>
       outcome[c] = "threw" \/ (b = "rx" /\ pc = "deleted" /\ c = call)

(* prev is the last call that returned.                                    *)
Returned == {c \in Calls : outcome[c] = "returned"}
ReportInv ==
  /\ prev \in Returned \cup {0} /\ \A c \in Returned : c <= prev
  /\ received \subseteq 1 .. call /\ received \subseteq Calls
  /\ pc \in {"open", "write"} => call \notin received
  /\ report \in [Calls -> 0 .. MaxCalls]
  /\ \A c \in received :
       /\ report[c] < c /\ report[c] \in Returned \cup {0}
       /\ \A d \in Returned : d < c => d <= report[c]

Inv == CallInv /\ BufferInv /\ ReportInv

LEMMA InitInv == Init => Inv
<1> SUFFICES ASSUME Init
             PROVE  Inv
  OBVIOUS
<1>1. CallInv
  BY DEF Init, CallInv, Busy, Outcomes
<1>2. BufferInv
  BY DEF Init, BufferInv, Heaps, Parts
<1>3. ReportInv
  BY DEF Init, ReportInv, Returned
<1>. QED  BY <1>1, <1>2, <1>3 DEF Inv

-----------------------------------------------------------------------------
(* The steps that touch neither the buffers nor what is reported: those of *)
(* the network, and those of Call that read.                               *)
Quiet ==
  \/ Deliver \/ HangUp \/ (\E r \in Replies : Serve(r))
  \/ Open \/ Receive \/ HeaderLength \/ Header \/ (\E b \in Bodies : Body(b) \/ Overrun(b))

LEMMA QuietChanges ==
  ASSUME Inv, Quiet
  PROVE  /\ call' = call /\ outcome' = outcome /\ heap' = heap /\ ptr' = ptr
         /\ prev' = prev /\ received' = received /\ report' = report
         /\ part' \in Parts
         /\ pc' \in Places
         /\ pc' # pc => Busy /\ pc' \in {"write", "read", "return", "overrun"}
         /\ pc' = "write" => pc \in {"open", "write"}
         /\ pc' = "open" => pc = "open"
         /\ (pc = "deleted") = (pc' = "deleted")
<1> USE DEF Inv, CallInv, BufferInv, Parts, readVars, bufferVars, netVars,
            serverVars, sendVars
<1>1. CASE Deliver \/ HangUp \/ (\E r \in Replies : Serve(r))
  BY <1>1 DEF Deliver, HangUp, Serve
<1>2. CASE Open \/ Receive
  BY <1>2 DEF Open, Receive, Reading, Busy
<1>3. CASE HeaderLength \/ Header \/ (\E b \in Bodies : Body(b))
  BY <1>3 DEF HeaderLength, Header, Body, Whole, AfterHeader, AfterRx, ReadAll,
              Busy, Bodies
<1>4. CASE \E b \in Bodies : Overrun(b)
  BY <1>4 DEF Overrun, Whole, Busy
<1>. QED  BY <1>1, <1>2, <1>3, <1>4 DEF Quiet

LEMMA QuietStep ==
  ASSUME Inv, Quiet
  PROVE  Inv'
<1>1. CallInv'
  BY QuietChanges DEF Inv, CallInv, Busy
<1>2. BufferInv'
  BY QuietChanges DEF Inv, BufferInv
<1>3. ReportInv'
  <2>1. /\ UNCHANGED <<call, outcome, prev, received, report>>
        /\ pc' \in {"open", "write"} => pc \in {"open", "write"}
    BY QuietChanges
  <2>2. Returned' = Returned
    BY <2>1 DEF Returned
  <2>. QED  BY <2>1, <2>2 DEF Inv, ReportInv
<1>. QED  BY <1>1, <1>2, <1>3 DEF Inv

(* The first lines of Call drop the pointers.                              *)
LEMMA CallStep ==
  ASSUME Inv, Call
  PROVE  Inv'
<1> USE DEF Call, readVars, bufferVars, netVars, serverVars, sendVars
<1>0. call \in Nat /\ call < MaxCalls /\ call' = call + 1
  BY DEF Inv, CallInv
<1>1. CallInv'
  BY <1>0 DEF Inv, CallInv, Busy, Calls
<1>2. BufferInv'
  <2>1. ptr' = [b \in Bodies |-> 0] /\ heap' = heap /\ part' = "headerLen"
        /\ outcome' = outcome
    BY DEF ReadAll
  <2>2. \A b \in Bodies, c \in Calls : heap[b][c] = "live" => c < call'
    BY <1>0 DEF Inv, BufferInv, Calls
  <2>3. \A b \in Bodies, c \in Calls :
          heap[b][c] = "twice" => outcome[c] = "threw"
    BY DEF Inv, BufferInv
  <2>4. heap \in Heaps /\ ptr' \in [Bodies -> 0 .. MaxCalls]
    BY <2>1 DEF Inv, BufferInv
  <2>5. \A b \in Bodies, c \in Calls : heap[b][c] = "live" => c <= call' /\ c # call'
    BY <1>0, <2>2 DEF Calls
  <2>. QED  BY <2>1, <2>3, <2>4, <2>5 DEF BufferInv, Parts
<1>3. ReportInv'
  <2>1. call' \notin received /\ received \subseteq 1 .. call'
    BY <1>0 DEF Inv, ReportInv
  <2>. QED  BY <2>1 DEF Inv, ReportInv, Returned
<1>. QED  BY <1>1, <1>2, <1>3 DEF Inv

(* The ways in which Call throws.                                          *)
LEMMA FreedHeap ==
  ASSUME NEW h \in Heaps, NEW b \in Bodies, NEW c \in Calls
  PROVE  /\ Freed(h, b, c) \in Heaps
         /\ Freed(h, b, c)[b][c] = IF h[b][c] = "live" THEN "freed" ELSE "twice"
         /\ \A a \in Bodies, d \in Calls :
              (a # b \/ d # c) => Freed(h, b, c)[a][d] = h[a][d]
BY DEF Freed, Heaps

LEMMA ThrowStep ==
  ASSUME Inv, Busy, Throw
  PROVE  Inv'
<1> USE DEF Throw, readVars, bufferVars, netVars, serverVars, sendVars
<1>0. call \in Calls /\ call \in Nat /\ outcome[call] = "none" /\ pc # "deleted"
  BY DEF Inv, CallInv, Busy
<1>1. CallInv'
  BY <1>0 DEF Inv, CallInv, Busy, Outcomes
<1>2. BufferInv'
  <2>1. outcome' = [outcome EXCEPT ![call] = "threw"] /\ outcome'[call] = "threw"
    BY <1>0 DEF Inv, CallInv
  <2>2. /\ heap' \in Heaps
        /\ \A b \in Bodies, c \in Calls :
             heap'[b][c] = heap[b][c]
               \/ (c = call /\ heap'[b][c] \in {"freed", "twice"})
    <3>1. heap \in Heaps
      BY DEF Inv, BufferInv
    <3>2. CASE part \in Bodies
      <4>1. heap' = Freed(heap, part, call)
        BY <3>2
      <4>2. /\ Freed(heap, part, call) \in Heaps
            /\ Freed(heap, part, call)[part][call] \in {"freed", "twice"}
            /\ \A a \in Bodies, d \in Calls : (a # part \/ d # call) =>
                 Freed(heap, part, call)[a][d] = heap[a][d]
        BY <1>0, <3>1, <3>2, FreedHeap
      <4> HIDE DEF Throw
      <4>. QED  BY <1>0, <3>1, <3>2, <4>1, <4>2
    <3>3. CASE part \notin Bodies
      BY <3>1, <3>3
    <3>. QED  BY <3>2, <3>3
  <2>3. \A c \in Calls : outcome[c] = "threw" => outcome'[c] = "threw"
    BY <2>1 DEF Inv, CallInv
  <2>. QED  BY <1>0, <2>1, <2>2, <2>3 DEF Inv, BufferInv
<1>3. ReportInv'
  <2>1. Returned' = Returned
    BY <1>0 DEF Inv, CallInv, Returned
  <2>. QED  BY <2>1 DEF Inv, ReportInv
<1>. QED  BY <1>1, <1>2, <1>3 DEF Inv

LEMMA ThrowsBusy ==
  ASSUME OpenFails \/ WriteFails \/ PeerGone \/ TimesOut \/ Interrupted \/ BadLength
  PROVE  Busy /\ Throw
BY DEF OpenFails, WriteFails, PeerGone, TimesOut, Interrupted, BadLength,
       Reading, Whole, Busy

(* A buffer is allocated for what is to be read.                           *)
LEMMA BodyLengthStep ==
  ASSUME Inv, NEW p, NEW b \in Bodies, BodyLength(p, b)
  PROVE  Inv'
<1> USE DEF BodyLength, readVars, netVars, serverVars, sendVars
<1>0. call \in Calls /\ call \in Nat /\ pc' = pc /\ pc = "read"
      /\ outcome' = outcome /\ call' = call
  BY DEF Inv, CallInv, Busy, Whole
<1>1. CallInv'
  BY <1>0 DEF Inv, CallInv, Busy
<1>2. BufferInv'
  <2>1. part' \in Parts
    BY DEF ReadAll, Bodies, Parts
  <2>2. /\ ptr' \in [Bodies -> 0 .. MaxCalls] /\ ptr'[b] = call
        /\ \A a \in Bodies : a # b => ptr'[a] = ptr[a]
    BY <1>0 DEF Inv, BufferInv, CallInv
  <2>3. /\ heap' \in Heaps /\ heap'[b][call] = "live"
        /\ \A a \in Bodies, d \in Calls :
             (a # b \/ d # call) => heap'[a][d] = heap[a][d]
    BY <1>0 DEF Inv, BufferInv, Heaps
  <2>. QED  BY <1>0, <2>1, <2>2, <2>3 DEF Inv, BufferInv
<1>3. ReportInv'
  BY <1>0 DEF Inv, ReportInv, Returned
<1>. QED  BY <1>1, <1>2, <1>3 DEF Inv

(* RxFree and ErrFree.                                                     *)
LEMMA FreeStep ==
  ASSUME Inv, NEW b \in Bodies, Free(b)
  PROVE  Inv'
<1> USE DEF Free, readVars, netVars, serverVars, sendVars
<1>0. /\ ptr[b] \in Calls /\ ptr[b] = call /\ pc' = pc /\ pc # "deleted"
      /\ outcome' = outcome /\ call' = call /\ part' = part
  BY DEF Inv, BufferInv, Calls
<1>1. CallInv'
  BY <1>0 DEF Inv, CallInv, Busy
<1>2. BufferInv'
  <2>1. /\ ptr' \in [Bodies -> 0 .. MaxCalls] /\ ptr'[b] = 0
        /\ \A a \in Bodies : a # b => ptr'[a] = ptr[a]
    BY DEF Inv, BufferInv
  <2>2. /\ heap' \in Heaps
        /\ heap'[b][call] = IF heap[b][call] = "live" THEN "freed" ELSE "twice"
        /\ \A a \in Bodies, d \in Calls :
             (a # b \/ d # call) => heap'[a][d] = heap[a][d]
    BY <1>0, FreedHeap DEF Inv, BufferInv
  <2>3. heap[b][call] = "live" \/ outcome[call] = "threw"
    BY <1>0 DEF Inv, BufferInv
  <2>. QED  BY <1>0, <2>1, <2>2, <2>3 DEF Inv, BufferInv
<1>3. ReportInv'
  BY <1>0 DEF Inv, ReportInv, Returned
<1>. QED  BY <1>1, <1>2, <1>3 DEF Inv

(* The two destructors.                                                    *)
LEMMA DeleteStep ==
  ASSUME Inv, Delete
  PROVE  Inv'
<1> USE DEF readVars, netVars, serverVars, sendVars
<1>0. /\ pc' = "deleted" /\ outcome' = outcome /\ call' = call /\ part' = part
      /\ ptr' = [b \in Bodies |-> 0]
  BY DEF Delete
<1>1. CallInv'
  BY <1>0 DEF Inv, CallInv, Busy
<1>2. BufferInv'
  <2> DEFINE own == IF ptr["rx"] = 0 THEN heap ELSE Freed(heap, "rx", ptr["rx"])
             rx == IF ptr["rx"] = 0 THEN own ELSE Freed(own, "rx", ptr["rx"])
  <2>1. heap' = IF ptr["err"] = 0 THEN rx ELSE Freed(rx, "err", ptr["err"])
    BY DEF Delete
  <2>2. /\ "rx" \in Bodies /\ "err" \in Bodies /\ heap \in Heaps
        /\ \A b \in Bodies : ptr[b] # 0 => ptr[b] \in Calls /\ ptr[b] = call
    BY DEF Inv, BufferInv, Bodies, Calls
  <2>3. /\ own \in Heaps
        /\ \A b \in Bodies, c \in Calls :
             (b # "rx" \/ c # call) => own[b][c] = heap[b][c]
        /\ ptr["rx"] # 0 => own["rx"][call] # "live"
        /\ ptr["rx"] = 0 => own = heap
    <3>1. CASE ptr["rx"] = 0
      BY <2>2, <3>1
    <3>2. CASE ptr["rx"] # 0
      <4>1. own = Freed(heap, "rx", call) /\ call \in Calls
        BY <2>2, <3>2
      <4>2. /\ Freed(heap, "rx", call) \in Heaps
            /\ Freed(heap, "rx", call)["rx"][call] # "live"
            /\ \A b \in Bodies, c \in Calls : (b # "rx" \/ c # call) =>
                 Freed(heap, "rx", call)[b][c] = heap[b][c]
        BY <2>2, <4>1, FreedHeap
      <4> HIDE DEF own
      <4>. QED  BY <2>2, <3>2, <4>1, <4>2
    <3>. QED  BY <3>1, <3>2
  <2> HIDE DEF own
  <2>4. /\ rx \in Heaps
        /\ \A b \in Bodies, c \in Calls :
             (b # "rx" \/ c # call) => rx[b][c] = heap[b][c]
        /\ ptr["rx"] # 0 => rx["rx"][call] # "live"
        /\ ptr["rx"] = 0 => rx = heap
    <3>1. CASE ptr["rx"] = 0
      BY <2>3, <2>2, <3>1
    <3>2. CASE ptr["rx"] # 0
      <4>1. rx = Freed(own, "rx", call) /\ call \in Calls
        BY <2>2, <3>2
      <4>2. /\ Freed(own, "rx", call) \in Heaps
            /\ Freed(own, "rx", call)["rx"][call] # "live"
            /\ \A b \in Bodies, c \in Calls : (b # "rx" \/ c # call) =>
                 Freed(own, "rx", call)[b][c] = own[b][c]
        BY <2>2, <2>3, <4>1, FreedHeap
      <4> HIDE DEF rx
      <4>. QED  BY <2>3, <2>2, <3>2, <4>1, <4>2
    <3>. QED  BY <3>1, <3>2
  <2> HIDE DEF rx
  <2>5. /\ heap' \in Heaps
        /\ \A b \in Bodies, c \in Calls : c # call => heap'[b][c] = heap[b][c]
        /\ \A c \in Calls : heap'["rx"][c] = rx["rx"][c]
        /\ ptr["err"] = 0 => \A c \in Calls : heap'["err"][c] = heap["err"][c]
        /\ ptr["err"] # 0 =>
             heap'["err"][call] = IF heap["err"][call] = "live" THEN "freed"
                                                                ELSE "twice"
    BY <2>1, <2>2, <2>4, FreedHeap
  <2>6. \A b \in Bodies, c \in Calls : heap'[b][c] = "live" => c < call
    <3> SUFFICES ASSUME NEW b \in Bodies, NEW c \in Calls, heap'[b][c] = "live"
                 PROVE  c < call
      OBVIOUS
    <3>1. CASE c # call
      BY <2>5, <3>1 DEF Inv, BufferInv, CallInv, Calls
    <3>2. CASE c = call /\ b = "rx"
      <4>1. ptr["rx"] = 0 /\ heap["rx"][call] = "live"
        BY <2>4, <2>5, <3>2
      <4>. QED  BY <2>2, <3>2, <4>1 DEF Inv, BufferInv, Calls
    <3>3. CASE c = call /\ b = "err"
      <4>1. ptr["err"] = 0 /\ heap["err"][call] = "live"
        BY <2>5, <3>3
      <4>. QED  BY <2>2, <3>3, <4>1 DEF Inv, BufferInv, Calls
    <3>. QED  BY <3>1, <3>2, <3>3 DEF Bodies
  <2>7. \A b \in Bodies, c \in Calls : heap'[b][c] = "twice" =>
          outcome[c] = "threw" \/ (b = "rx" /\ c = call)
    <3> SUFFICES ASSUME NEW b \in Bodies, NEW c \in Calls, heap'[b][c] = "twice",
                        ~(b = "rx" /\ c = call)
                 PROVE  outcome[c] = "threw"
      OBVIOUS
    <3>0. pc # "deleted"
      BY DEF Delete
    <3>1. CASE c # call \/ ptr["err"] = 0
      <4>1. heap[b][c] = "twice"
        BY <2>5, <3>1 DEF Bodies
      <4>. QED  BY <3>0, <4>1 DEF Inv, BufferInv
    <3>2. CASE c = call /\ b = "err" /\ ptr["err"] # 0
      BY <2>2, <2>5, <3>2 DEF Inv, BufferInv
    <3>. QED  BY <3>1, <3>2 DEF Bodies
  <2>8. ptr' \in [Bodies -> 0 .. MaxCalls] /\ \A b \in Bodies : ptr'[b] = 0
    BY <1>0
  <2>9. \A c \in Calls : c < call => c <= call /\ c # call
    BY DEF Inv, CallInv, Calls
  <2>10. part' \in Parts
    BY <1>0 DEF Inv, BufferInv
  <2>. QED  BY <1>0, <2>5, <2>6, <2>7, <2>8, <2>9, <2>10 DEF BufferInv
<1>3. ReportInv'
  <2>1. prev' = prev /\ received' = received /\ report' = report
    BY DEF Delete
  <2>. QED  BY <1>0, <2>1 DEF Inv, ReportInv, Returned
<1>. QED  BY <1>1, <1>2, <1>3 DEF Inv

(* The request goes out with the report of the last call that returned.    *)
LEMMA WriteStep ==
  ASSUME Inv, Write
  PROVE  Inv'
<1> USE DEF Write, readVars, bufferVars, netVars, serverVars, sendVars
<1>0. call \in Calls /\ call \in 1 .. call /\ outcome[call] = "none"
      /\ outcome' = outcome /\ call' = call /\ call \notin received
  BY DEF Inv, CallInv, Busy, ReportInv, Calls
<1>1. CallInv'
  BY <1>0 DEF Inv, CallInv, Busy
<1>2. BufferInv'
  BY <1>0 DEF Inv, BufferInv
<1>3. ReportInv'
  <2>1. \A c \in Returned : c < call
    <3> SUFFICES ASSUME NEW c \in Calls, outcome[c] = "returned"
                 PROVE  c < call
      BY DEF Returned
    <3>1. c # call /\ ~(c > call)
      BY <1>0 DEF Inv, CallInv
    <3>. QED  BY <1>0, <3>1 DEF Calls
  <2>2. /\ report' \in [Calls -> 0 .. MaxCalls] /\ report'[call] = prev
        /\ \A c \in Calls : c # call => report'[c] = report[c]
    BY <1>0 DEF Inv, ReportInv, Returned, Calls
  <2>3. prev < call /\ \A d \in Returned : d <= prev
    BY <1>0, <2>1 DEF Inv, ReportInv, Calls
  <2>4. Returned' = Returned
    BY <1>0 DEF Returned
  <2>5. /\ received' = received \cup {call} /\ prev' = prev
        /\ received' \subseteq 1 .. call /\ received' \subseteq Calls
    BY <1>0 DEF Inv, ReportInv
  <2>6. \A c \in received' :
          /\ report'[c] < c /\ report'[c] \in Returned \cup {0}
          /\ \A d \in Returned : d < c => d <= report'[c]
    <3> SUFFICES ASSUME NEW c \in received'
                 PROVE  /\ report'[c] < c /\ report'[c] \in Returned \cup {0}
                        /\ \A d \in Returned : d < c => d <= report'[c]
      OBVIOUS
    <3>1. CASE c = call
      BY <2>2, <2>3, <3>1 DEF Inv, ReportInv
    <3>2. CASE c # call
      BY <2>2, <2>5, <3>2 DEF Inv, ReportInv
    <3>. QED  BY <3>1, <3>2
  <2>. QED  BY <1>0, <2>2, <2>4, <2>5, <2>6 DEF Inv, ReportInv
<1>. QED  BY <1>1, <1>2, <1>3 DEF Inv

LEMMA ReturnStep ==
  ASSUME Inv, Return
  PROVE  Inv'
<1> USE DEF Return, readVars, bufferVars, netVars, serverVars, sendVars
<1>0. call \in Calls /\ outcome[call] = "none" /\ call' = call
      /\ outcome' = [outcome EXCEPT ![call] = "returned"]
  BY DEF Inv, CallInv, Busy
<1>1. CallInv'
  BY <1>0 DEF Inv, CallInv, Busy, Outcomes
<1>2. BufferInv'
  <2>1. \A c \in Calls : outcome[c] = "threw" => outcome'[c] = "threw"
    BY <1>0 DEF Inv, CallInv
  <2>2. \A b \in Bodies : ptr[b] # 0 => ptr[b] = call /\ heap[b][call] = "live"
    BY <1>0 DEF Inv, BufferInv
  <2>3. \A b \in Bodies, c \in Calls :
          heap[b][c] = "twice" => outcome'[c] = "threw"
    BY <2>1 DEF Inv, BufferInv
  <2>. QED  BY <1>0, <2>2, <2>3 DEF Inv, BufferInv
<1>3. ReportInv'
  <2>1. Returned' = Returned \cup {call}
    BY <1>0 DEF Inv, CallInv, Returned
  <2>2. \A c \in received : c <= call
    BY <1>0 DEF Inv, ReportInv, Calls
  <2>3. \A c \in Returned : c <= call
    BY <1>0 DEF Inv, CallInv, Returned, Calls
  <2>4. prev' = call /\ received' = received /\ report' = report
    OBVIOUS
  <2>5. call <= call /\ \A c \in received : ~(call < c)
    BY <1>0, <2>2 DEF Inv, ReportInv, Calls
  <2>. QED  BY <1>0, <2>1, <2>3, <2>4, <2>5 DEF Inv, ReportInv
<1>. QED  BY <1>1, <1>2, <1>3 DEF Inv

LEMMA NextInv == Inv /\ [Next]_vars => Inv'
<1> SUFFICES ASSUME Inv, [Next]_vars
             PROVE  Inv'
  OBVIOUS
<1>1. CASE UNCHANGED vars
  BY <1>1 DEF vars, readVars, bufferVars, netVars, serverVars, sendVars, Inv,
              CallInv, Busy, BufferInv, ReportInv, Returned
<1>2. CASE Sending \/ InReply
  <2>1. CASE BodyLength("rxLen", "rx") \/ BodyLength("errLen", "err")
    BY <2>1, BodyLengthStep DEF Bodies
  <2>2. CASE PeerGone \/ TimesOut \/ BadLength
    BY <2>2, ThrowsBusy, ThrowStep
  <2>. QED  BY <1>2, <2>1, <2>2, QuietStep, WriteStep, ReturnStep DEF Sending, InReply, Quiet
<1>3. CASE Program
  BY <1>3, CallStep, DeleteStep, FreeStep DEF Program
<1>4. CASE Network
  <2>1. CASE OpenFails \/ WriteFails \/ Interrupted
    BY <2>1, ThrowsBusy, ThrowStep
  <2>. QED  BY <1>4, <2>1, QuietStep DEF Network, Quiet
<1>. QED  BY <1>1, <1>2, <1>3, <1>4 DEF Next

LEMMA InvHolds == Spec => []Inv
BY InitInv, NextInv, PTL DEF Spec

(* A buffer is freed twice in no other way than the two that are known,    *)
(* and none is lost but by the next Call.                                  *)
THEOREM BuffersFreedHolds == Spec => []BuffersFreed
<1>1. Inv => BuffersFreed
  BY DEF Inv, BufferInv, BuffersFreed, CallInv, Calls
<1>. QED  BY <1>1, InvHolds, PTL

(* Every request reports the last call before it that returned.            *)
THEOREM ReportsHold == Spec => []ReportsLastReturned
<1>1. Inv => ReportsLastReturned
  <2> SUFFICES ASSUME Inv, NEW c \in received
               PROVE  report[c] = Max({d \in 1 .. c - 1 : outcome[d] = "returned"}
                                      \cup {0})
    BY DEF ReportsLastReturned
  <2> DEFINE S == {d \in 1 .. c - 1 : outcome[d] = "returned"} \cup {0}
  <2>1. c \in Calls /\ c \in Nat /\ report[c] < c /\ report[c] \in 0 .. MaxCalls
    BY DEF Inv, ReportInv, Calls
  <2>2. report[c] \in S
    BY <2>1 DEF Inv, ReportInv, Returned, Calls
  <2>3. \A d \in S : d <= report[c] /\ d \in Int
    <3> SUFFICES ASSUME NEW d \in 1 .. c - 1, outcome[d] = "returned"
                 PROVE  d <= report[c]
      BY <2>1
    <3>1. d \in Returned /\ d < c
      BY <2>1 DEF Returned, Calls
    <3>. QED  BY <3>1 DEF Inv, ReportInv
  <2> HIDE DEF S
  <2>4. \A x \in S : (\A y \in S : x >= y) => x = report[c]
    BY <2>1, <2>2, <2>3
  <2>5. \A y \in S : report[c] >= y
    BY <2>1, <2>3
  <2>6. Max(S) = report[c]
    BY <2>2, <2>4, <2>5 DEF Max
  <2>. QED  BY <2>6 DEF S
<1>. QED  BY <1>1, InvHolds, PTL

-----------------------------------------------------------------------------
(* What arrives is the answer to the call that reads it.                   *)

Pieces == [call : Calls, part : Parts, of : Nat, reply : Replies]

(* Where each part begins in a message.                                    *)
HeaderEnd == LengthLen + HeaderLen
RxEnd(r) == HeaderEnd + Extent(r)["rxLen"] + Extent(r)["rx"]
Start(r) ==
  [headerLen |-> 0, header |-> LengthLen, rxLen |-> HeaderEnd,
   rx |-> HeaderEnd + Extent(r)["rxLen"],
   errLen |-> RxEnd(r), err |-> RxEnd(r) + Extent(r)["errLen"]]

(* What is read, what has arrived and what is on its way follow each other *)
(* in message m, after its first k pieces.                                 *)
Flow(m, k, s, l, f) ==
  /\ \A i \in 1 .. Len(s) : s[i] = m[k + i]
  /\ \A i \in 1 .. Len(l) : l[i] = m[k + Len(s) + i]
  /\ \A i \in 1 .. Len(f) : f[i] = m[k + Len(s) + Len(l) + i]

(* Nothing of an earlier call is on the line of this one.                  *)
LineInv ==
  /\ in \in Seq(Pieces) /\ line \in Seq(Pieces) /\ flying \in Seq(Pieces)
  /\ answer \in Replies \cup {NoReply}
  /\ pc \in {"idle", "open", "deleted"} =>
       socket = 0 /\ line = <<>> /\ flying = <<>>
  /\ pc \in {"write", "read", "return", "overrun"} => socket = call
  /\ pc \in {"open", "write"} \/ (socket # 0 /\ answer = NoReply) =>
       part = "headerLen" /\ want = LengthLen /\ in = <<>>
  /\ socket # 0 /\ answer = NoReply =>
       pc \in {"write", "read"} /\ line = <<>> /\ flying = <<>>
  /\ pc = "write" => answer = NoReply
  /\ pc = "read" /\ answer # NoReply =>
       /\ want = Extent(answer)[part]
       /\ Flow(Message(call, answer), Start(answer)[part], in, line, flying)

(* What the call has made of the parts it is through with.                 *)
Untouched(b) == heap[b][call] = "none" /\ holds[b] = <<>>
Allocated(b) == heap[b][call] # "none" /\ holds[b] = <<>>
HandedOver(b) ==
  /\ (heap[b][call] = "none") = (Size(answer)[b] = 0)
  /\ holds[b] = Part(call, answer, b)

HeaderKnown == answer # NoReply /\ reply = answer /\ code = call

ReplyInv ==
  /\ holds \in [Bodies -> Seq(Pieces)]
  /\ \A b \in Bodies, c \in Calls : c > call => heap[b][c] = "none"
  /\ pc \in {"open", "write"} => Untouched("rx") /\ Untouched("err")
  /\ pc = "read" =>
       /\ part \in {"rxLen", "rx", "errLen", "err"} => HeaderKnown
       /\ part \in {"rxLen", "rx"} => answer.rx > 0
       /\ part \in {"errLen", "err"} => answer.e > 0 /\ HandedOver("rx")
       /\ part \in {"headerLen", "header", "rxLen"} => Untouched("rx")
       /\ part = "rx" => Allocated("rx")
       /\ part # "err" => Untouched("err")
       /\ part = "err" => Allocated("err")
  /\ pc = "return" \/ (pc = "idle" /\ call > 0 /\ outcome[call] = "returned") =>
       HeaderKnown /\ HandedOver("rx") /\ HandedOver("err")

HIDE UbiClientAssumption

LEMMA Lengths ==
  ASSUME NEW r \in Replies
  PROVE  /\ Extent(r)["headerLen"] = LengthLen /\ Extent(r)["header"] = HeaderLen
         /\ Extent(r)["rxLen"] = IF r.rx > 0 THEN LengthLen ELSE 0
         /\ Extent(r)["rx"] = IF r.rx > 0 THEN r.rxWire ELSE 0
         /\ Extent(r)["errLen"] = IF r.e > 0 THEN LengthLen ELSE 0
         /\ Extent(r)["err"] = IF r.e > 0 THEN r.eWire ELSE 0
         /\ \A p \in Parts : Extent(r)[p] \in Nat
<1>1. /\ Extent(r)["headerLen"] = LengthLen /\ Extent(r)["header"] = HeaderLen
      /\ Extent(r)["rxLen"] = IF r.rx > 0 THEN LengthLen ELSE 0
      /\ Extent(r)["rx"] = IF r.rx > 0 THEN r.rxWire ELSE 0
      /\ Extent(r)["errLen"] = IF r.e > 0 THEN LengthLen ELSE 0
      /\ Extent(r)["err"] = IF r.e > 0 THEN r.eWire ELSE 0
  BY DEF Extent
<1>2. r.rxWire \in Nat /\ r.eWire \in Nat /\ LengthLen \in Nat /\ HeaderLen \in Nat
  BY UbiClientAssumption
<1>3. \A p \in Parts : Extent(r)[p] \in Nat
  BY <1>1, <1>2 DEF Parts
<1>. QED  BY <1>1, <1>3

LEMMA PartForm ==
  ASSUME NEW c \in Calls, NEW r \in Replies, NEW p \in Parts
  PROVE  /\ Part(c, r, p) \in Seq(Pieces) /\ Len(Part(c, r, p)) = Extent(r)[p]
         /\ \A i \in 1 .. Extent(r)[p] :
              Part(c, r, p)[i] = [call |-> c, part |-> p, of |-> i, reply |-> r]
<1>1. Extent(r)[p] \in Nat
  BY Lengths
<1>2. \A i \in 1 .. Extent(r)[p] :
        [call |-> c, part |-> p, of |-> i, reply |-> r] \in Pieces
  BY <1>1 DEF Pieces
<1>3. /\ Part(c, r, p) \in [1 .. Extent(r)[p] -> Pieces]
      /\ \A i \in 1 .. Extent(r)[p] :
           Part(c, r, p)[i] = [call |-> c, part |-> p, of |-> i, reply |-> r]
  BY <1>2 DEF Part
<1>. QED  BY <1>1, <1>3, SeqDef, LenProperties

(* Where the elements of a concatenation come from.                        *)
LEMMA ConcatAt ==
  ASSUME NEW S, NEW s \in Seq(S), NEW t \in Seq(S)
  PROVE  /\ s \o t \in Seq(S) /\ Len(s \o t) = Len(s) + Len(t)
         /\ \A i \in 1 .. Len(s) : (s \o t)[i] = s[i]
         /\ \A i \in 1 .. Len(t) : (s \o t)[Len(s) + i] = t[i]
<1>1. /\ s \o t \in Seq(S) /\ Len(s \o t) = Len(s) + Len(t)
      /\ \A i \in 1 .. Len(s) + Len(t) :
           (s \o t)[i] = IF i <= Len(s) THEN s[i] ELSE t[i - Len(s)]
  BY ConcatProperties
<1>2. Len(s) \in Nat /\ Len(t) \in Nat
  BY LenProperties
<1>3. \A i \in 1 .. Len(s) : (s \o t)[i] = s[i]
  BY <1>1, <1>2
<1>4. ASSUME NEW i \in 1 .. Len(t)
      PROVE  (s \o t)[Len(s) + i] = t[i]
  <2>1. /\ Len(s) + i \in 1 .. Len(s) + Len(t) /\ ~(Len(s) + i <= Len(s))
        /\ (Len(s) + i) - Len(s) = i
    BY <1>2
  <2>. QED  BY <1>1, <2>1
<1>. QED  BY <1>1, <1>3, <1>4

Joined(m, s, t) ==
  /\ m \in Seq(Pieces) /\ Len(m) = Len(s) + Len(t)
  /\ \A i \in 1 .. Len(s) : m[i] = s[i]
  /\ \A i \in 1 .. Len(t) : m[Len(s) + i] = t[i]

LEMMA Join ==
  ASSUME NEW s \in Seq(Pieces), NEW t \in Seq(Pieces)
  PROVE  Joined(s \o t, s, t)
BY ConcatAt DEF Joined

LEMMA Split ==
  ASSUME NEW S, NEW s \in Seq(S), NEW n \in 1 .. Len(s)
  PROVE  /\ SubSeq(s, 1, n) \in Seq(S) /\ Len(SubSeq(s, 1, n)) = n
         /\ \A i \in 1 .. n : SubSeq(s, 1, n)[i] = s[i]
         /\ SubSeq(s, n + 1, Len(s)) \in Seq(S)
         /\ Len(SubSeq(s, n + 1, Len(s))) = Len(s) - n
         /\ \A i \in 1 .. Len(s) - n : SubSeq(s, n + 1, Len(s))[i] = s[n + i]
<1>1. Len(s) \in Nat /\ n \in Nat /\ \A i \in 1 .. Len(s) : s[i] \in S
  BY LenProperties, ElementOfSeq
<1>2. /\ SubSeq(s, 1, n) \in Seq(S)
      /\ Len(SubSeq(s, 1, n)) = IF 1 <= n THEN n - 1 + 1 ELSE 0
      /\ \A i \in 1 .. n - 1 + 1 : SubSeq(s, 1, n)[i] = s[1 + i - 1]
  <2>1. \A i \in 1 .. n : s[i] \in S
    BY <1>1
  <2>. QED  BY <1>1, <2>1, SubSeqProperties
<1>3. /\ SubSeq(s, n + 1, Len(s)) \in Seq(S)
      /\ Len(SubSeq(s, n + 1, Len(s))) =
           IF n + 1 <= Len(s) THEN Len(s) - (n + 1) + 1 ELSE 0
      /\ \A i \in 1 .. Len(s) - (n + 1) + 1 :
           SubSeq(s, n + 1, Len(s))[i] = s[n + 1 + i - 1]
  <2>1. n + 1 \in Int /\ Len(s) \in Int /\ \A i \in n + 1 .. Len(s) : s[i] \in S
    BY <1>1
  <2>. QED  BY <2>1, SubSeqProperties
<1>4. /\ n - 1 + 1 = n /\ 1 <= n /\ Len(s) - (n + 1) + 1 = Len(s) - n
      /\ \A i \in Int : 1 + i - 1 = i /\ n + 1 + i - 1 = n + i
      /\ (IF n + 1 <= Len(s) THEN Len(s) - (n + 1) + 1 ELSE 0) = Len(s) - n
  BY <1>1
<1>5. ASSUME NEW i \in 1 .. n
      PROVE  SubSeq(s, 1, n)[i] = s[i]
  <2>1. i \in 1 .. n - 1 + 1 /\ 1 + i - 1 = i
    BY <1>1
  <2>2. SubSeq(s, 1, n)[i] = s[1 + i - 1]
    BY <1>2, <2>1
  <2>. QED  BY <2>1, <2>2
<1>6. ASSUME NEW i \in 1 .. Len(s) - n
      PROVE  SubSeq(s, n + 1, Len(s))[i] = s[n + i]
  <2>1. i \in 1 .. Len(s) - (n + 1) + 1 /\ n + 1 + i - 1 = n + i
    BY <1>1
  <2>2. SubSeq(s, n + 1, Len(s))[i] = s[n + 1 + i - 1]
    BY <1>3, <2>1
  <2>. QED  BY <2>1, <2>2
<1>. QED  BY <1>2, <1>3, <1>4, <1>5, <1>6

(* Each part of a message stands where Start says.                         *)
LEMMA MessageForm ==
  ASSUME NEW c \in Calls, NEW r \in Replies
  PROVE  /\ Message(c, r) \in Seq(Pieces)
         /\ \A p \in Parts : \A i \in 1 .. Extent(r)[p] :
              Message(c, r)[Start(r)[p] + i] = Part(c, r, p)[i]
<1> DEFINE P(p) == Part(c, r, p)
           L(p) == Extent(r)[p]
           m2 == P("headerLen") \o P("header")
           m3 == m2 \o P("rxLen")
           m4 == m3 \o P("rx")
           m5 == m4 \o P("errLen")
           m6 == m5 \o P("err")
<1>1. \A p \in Parts : P(p) \in Seq(Pieces) /\ Len(P(p)) = L(p) /\ L(p) \in Nat
  BY PartForm, Lengths
<1>2. Message(c, r) = m6
  BY DEF Message
<1>3. {"headerLen", "header", "rxLen", "rx", "errLen", "err"} = Parts
  BY DEF Parts
<1> HIDE DEF P, L
<1>4. /\ m2 \in Seq(Pieces) /\ Len(m2) = L("headerLen") + L("header")
      /\ \A i \in 1 .. L("headerLen") : m2[i] = P("headerLen")[i]
      /\ \A i \in 1 .. L("header") : m2[L("headerLen") + i] = P("header")[i]
  <2>1. /\ P("headerLen") \in Seq(Pieces) /\ Len(P("headerLen")) = L("headerLen")
        /\ P("header") \in Seq(Pieces) /\ Len(P("header")) = L("header")
    BY <1>1, <1>3
  <2>2. Joined(m2, P("headerLen"), P("header"))
    BY <2>1, Join
  <2> HIDE DEF m2
  <2>. QED  BY <2>1, <2>2 DEF Joined
<1> HIDE DEF m2
<1>5. /\ m3 \in Seq(Pieces) /\ Len(m3) = Len(m2) + L("rxLen")
      /\ \A i \in 1 .. Len(m2) : m3[i] = m2[i]
      /\ \A i \in 1 .. L("rxLen") : m3[Len(m2) + i] = P("rxLen")[i]
  <2>1. P("rxLen") \in Seq(Pieces) /\ Len(P("rxLen")) = L("rxLen")
    BY <1>1, <1>3
  <2>2. Joined(m3, m2, P("rxLen"))
    BY <1>4, <2>1, Join
  <2> HIDE DEF m3
  <2>. QED  BY <2>1, <2>2 DEF Joined
<1> HIDE DEF m3
<1>6. /\ m4 \in Seq(Pieces) /\ Len(m4) = Len(m3) + L("rx")
      /\ \A i \in 1 .. Len(m3) : m4[i] = m3[i]
      /\ \A i \in 1 .. L("rx") : m4[Len(m3) + i] = P("rx")[i]
  <2>1. P("rx") \in Seq(Pieces) /\ Len(P("rx")) = L("rx")
    BY <1>1, <1>3
  <2>2. Joined(m4, m3, P("rx"))
    BY <1>5, <2>1, Join
  <2> HIDE DEF m4
  <2>. QED  BY <2>1, <2>2 DEF Joined
<1> HIDE DEF m4
<1>7. /\ m5 \in Seq(Pieces) /\ Len(m5) = Len(m4) + L("errLen")
      /\ \A i \in 1 .. Len(m4) : m5[i] = m4[i]
      /\ \A i \in 1 .. L("errLen") : m5[Len(m4) + i] = P("errLen")[i]
  <2>1. P("errLen") \in Seq(Pieces) /\ Len(P("errLen")) = L("errLen")
    BY <1>1, <1>3
  <2>2. Joined(m5, m4, P("errLen"))
    BY <1>6, <2>1, Join
  <2> HIDE DEF m5
  <2>. QED  BY <2>1, <2>2 DEF Joined
<1> HIDE DEF m5
<1>8. /\ m6 \in Seq(Pieces) /\ Len(m6) = Len(m5) + L("err")
      /\ \A i \in 1 .. Len(m5) : m6[i] = m5[i]
      /\ \A i \in 1 .. L("err") : m6[Len(m5) + i] = P("err")[i]
  <2>1. P("err") \in Seq(Pieces) /\ Len(P("err")) = L("err")
    BY <1>1, <1>3
  <2>2. Joined(m6, m5, P("err"))
    BY <1>7, <2>1, Join
  <2> HIDE DEF m6
  <2>. QED  BY <2>1, <2>2 DEF Joined
<1> HIDE DEF m6
<1>9. /\ L("headerLen") \in Nat /\ L("header") \in Nat /\ L("rxLen") \in Nat
      /\ L("rx") \in Nat /\ L("errLen") \in Nat /\ L("err") \in Nat
  BY <1>1, <1>3
<1>10. /\ L("headerLen") = LengthLen /\ L("header") = HeaderLen
       /\ Start(r)["headerLen"] = 0 /\ Start(r)["header"] = L("headerLen")
       /\ Start(r)["rxLen"] = Len(m2) /\ Start(r)["rx"] = Len(m3)
       /\ Start(r)["errLen"] = Len(m4) /\ Start(r)["err"] = Len(m5)
  <2>1. L("headerLen") = LengthLen /\ L("header") = HeaderLen
    BY Lengths DEF L
  <2>2. /\ Start(r)["headerLen"] = 0 /\ Start(r)["header"] = LengthLen
        /\ Start(r)["rxLen"] = HeaderEnd
        /\ Start(r)["rx"] = HeaderEnd + L("rxLen")
        /\ Start(r)["errLen"] = HeaderEnd + L("rxLen") + L("rx")
        /\ Start(r)["err"] = HeaderEnd + L("rxLen") + L("rx") + L("errLen")
    BY DEF Start, RxEnd, L
  <2>3. Len(m2) = HeaderEnd
    BY <1>4, <2>1 DEF HeaderEnd
  <2>. QED  BY <1>5, <1>6, <1>7, <2>1, <2>2, <2>3
<1>11. /\ Len(m2) \in Nat /\ Len(m3) \in Nat /\ Len(m4) \in Nat /\ Len(m5) \in Nat
       /\ Len(m2) <= Len(m3) /\ Len(m3) <= Len(m4) /\ Len(m4) <= Len(m5)
  <2>1. /\ Len(m2) = L("headerLen") + L("header") /\ Len(m3) = Len(m2) + L("rxLen")
        /\ Len(m4) = Len(m3) + L("rx") /\ Len(m5) = Len(m4) + L("errLen")
    BY <1>4, <1>5, <1>6, <1>7
  <2>2. Len(m2) \in Nat /\ Len(m3) \in Nat /\ Len(m4) \in Nat /\ Len(m5) \in Nat
    BY <1>4, <1>5, <1>6, <1>7, LenProperties
  <2>3. Len(m2) <= Len(m3)
    BY <1>9, <2>1, <2>2
  <2>4. Len(m3) <= Len(m4)
    BY <1>9, <2>1, <2>2
  <2>5. Len(m4) <= Len(m5)
    BY <1>9, <2>1, <2>2
  <2>. QED  BY <2>2, <2>3, <2>4, <2>5
<1>12. /\ \A i \in 1 .. Len(m4) : m6[i] = m4[i]
       /\ \A i \in 1 .. Len(m3) : m6[i] = m3[i]
       /\ \A i \in 1 .. Len(m2) : m6[i] = m2[i]
  <2>1. \A i \in 1 .. Len(m4) : m6[i] = m4[i]
    <3>1. \A i \in 1 .. Len(m4) : i \in 1 .. Len(m5)
      BY <1>11
    <3>. QED  BY <1>7, <1>8, <3>1
  <2>2. \A i \in 1 .. Len(m3) : m6[i] = m3[i]
    <3>1. \A i \in 1 .. Len(m3) : i \in 1 .. Len(m4)
      BY <1>11
    <3>. QED  BY <1>6, <2>1, <3>1
  <2>3. \A i \in 1 .. Len(m2) : m6[i] = m2[i]
    <3>1. \A i \in 1 .. Len(m2) : i \in 1 .. Len(m3)
      BY <1>11
    <3>. QED  BY <1>5, <2>2, <3>1
  <2>. QED  BY <2>1, <2>2, <2>3
<1>13. \A i \in 1 .. L("headerLen") : m6[0 + i] = P("headerLen")[i]
  <2>1. \A i \in 1 .. L("headerLen") : i \in 1 .. Len(m2) /\ 0 + i = i
    BY <1>4, <1>9
  <2>. QED  BY <1>4, <1>12, <2>1
<1>14. \A i \in 1 .. L("header") : m6[L("headerLen") + i] = P("header")[i]
  <2>1. \A i \in 1 .. L("header") : L("headerLen") + i \in 1 .. Len(m2)
    BY <1>4, <1>9
  <2>. QED  BY <1>4, <1>12, <2>1
<1>15. \A i \in 1 .. L("rxLen") : m6[Len(m2) + i] = P("rxLen")[i]
  <2>1. \A i \in 1 .. L("rxLen") : Len(m2) + i \in 1 .. Len(m3)
    BY <1>5, <1>9, <1>11
  <2>. QED  BY <1>5, <1>12, <2>1
<1>16. \A i \in 1 .. L("rx") : m6[Len(m3) + i] = P("rx")[i]
  <2>1. \A i \in 1 .. L("rx") : Len(m3) + i \in 1 .. Len(m4)
    BY <1>6, <1>9, <1>11
  <2>. QED  BY <1>6, <1>12, <2>1
<1>17. \A i \in 1 .. L("errLen") : m6[Len(m4) + i] = P("errLen")[i]
  <2>1. \A i \in 1 .. L("errLen") : Len(m4) + i \in 1 .. Len(m5)
    BY <1>7, <1>9, <1>11
  <2>. QED  BY <1>7, <1>8, <2>1
<1>18. ASSUME NEW p \in Parts, NEW i \in 1 .. L(p)
       PROVE  m6[Start(r)[p] + i] = P(p)[i]
  <2>1. CASE p \in {"headerLen", "header"}
    BY <1>10, <1>13, <1>14, <2>1
  <2>2. CASE p \in {"rxLen", "rx"}
    BY <1>10, <1>15, <1>16, <2>2
  <2>3. CASE p \in {"errLen", "err"}
    BY <1>8, <1>10, <1>17, <2>3
  <2>. QED  BY <2>1, <2>2, <2>3 DEF Parts
<1>. QED  BY <1>2, <1>8, <1>18 DEF P, L

-----------------------------------------------------------------------------
(* How the message moves on.                                               *)

LEMMA FlowStarts ==
  ASSUME NEW m \in Seq(Pieces)
  PROVE  Flow(m, 0, <<>>, <<>>, <<>> \o m)
<1>1. <<>> \o m = m /\ Len(m) \in Nat /\ Len(<<>>) = 0
  BY ConcatEmptySeq, LenProperties, EmptySeq
<1>. QED  BY <1>1 DEF Flow

LEMMA FlowOn ==
  ASSUME NEW m, NEW k \in Nat, NEW s \in Seq(Pieces), NEW l \in Seq(Pieces),
         NEW f \in Seq(Pieces), Flow(m, k, s, l, f)
  PROVE  Flow(m, k + Len(s), <<>>, l, f)
<1>1. Len(<<>>) = 0 /\ Len(s) \in Nat /\ Len(l) \in Nat /\ Len(f) \in Nat
  BY LenProperties, EmptySeq
<1>2. k + Len(s) + 0 = k + Len(s)
  BY <1>1
<1>. QED  BY <1>1, <1>2 DEF Flow

LEMMA FlowArrives ==
  ASSUME NEW m, NEW k \in Nat, NEW s \in Seq(Pieces), NEW l \in Seq(Pieces),
         NEW f \in Seq(Pieces), Flow(m, k, s, l, f), NEW n \in 1 .. Len(f)
  PROVE  Flow(m, k, s, l \o SubSeq(f, 1, n), SubSeq(f, n + 1, Len(f)))
<1> DEFINE a == SubSeq(f, 1, n)
           b == SubSeq(f, n + 1, Len(f))
<1>1. /\ a \in Seq(Pieces) /\ Len(a) = n /\ \A i \in 1 .. n : a[i] = f[i]
      /\ Len(b) = Len(f) - n /\ \A i \in 1 .. Len(f) - n : b[i] = f[n + i]
  BY Split
<1> HIDE DEF a, b
<1>2. /\ Len(l \o a) = Len(l) + n
      /\ \A i \in 1 .. Len(l) : (l \o a)[i] = l[i]
      /\ \A i \in 1 .. n : (l \o a)[Len(l) + i] = a[i]
  BY <1>1, ConcatAt
<1>3. Len(s) \in Nat /\ Len(l) \in Nat /\ Len(f) \in Nat /\ n \in Nat
  BY LenProperties
<1>4. \A i \in 1 .. Len(l) + n : (l \o a)[i] = m[k + Len(s) + i]
  <2> SUFFICES ASSUME NEW i \in 1 .. Len(l) + n
               PROVE  (l \o a)[i] = m[k + Len(s) + i]
    OBVIOUS
  <2>1. CASE i <= Len(l)
    <3>1. i \in 1 .. Len(l)
      BY <1>3, <2>1
    <3>. QED  BY <1>2, <3>1 DEF Flow
  <2>2. CASE ~(i <= Len(l))
    <3>1. /\ i - Len(l) \in 1 .. n /\ i - Len(l) \in 1 .. Len(f)
          /\ Len(l) + (i - Len(l)) = i
          /\ k + Len(s) + Len(l) + (i - Len(l)) = k + Len(s) + i
      BY <1>3, <2>2
    <3>2. (l \o a)[Len(l) + (i - Len(l))] = f[i - Len(l)]
      BY <1>1, <1>2, <3>1
    <3>3. f[i - Len(l)] = m[k + Len(s) + Len(l) + (i - Len(l))]
      BY <3>1 DEF Flow
    <3>. QED  BY <3>1, <3>2, <3>3
  <2>. QED  BY <2>1, <2>2
<1>5. \A i \in 1 .. Len(f) - n : b[i] = m[k + Len(s) + (Len(l) + n) + i]
  <2> SUFFICES ASSUME NEW i \in 1 .. Len(f) - n
               PROVE  b[i] = m[k + Len(s) + (Len(l) + n) + i]
    OBVIOUS
  <2>1. /\ n + i \in 1 .. Len(f)
        /\ k + Len(s) + (Len(l) + n) + i = k + Len(s) + Len(l) + (n + i)
    BY <1>3
  <2>2. f[n + i] = m[k + Len(s) + Len(l) + (n + i)]
    BY <2>1 DEF Flow
  <2>. QED  BY <1>1, <2>1, <2>2
<1>. QED  BY <1>1, <1>2, <1>4, <1>5 DEF Flow, a, b

LEMMA FlowRead ==
  ASSUME NEW m, NEW k \in Nat, NEW s \in Seq(Pieces), NEW l \in Seq(Pieces),
         NEW f \in Seq(Pieces), Flow(m, k, s, l, f), NEW n \in 1 .. Len(l)
  PROVE  Flow(m, k, s \o SubSeq(l, 1, n), SubSeq(l, n + 1, Len(l)), f)
<1> DEFINE a == SubSeq(l, 1, n)
           b == SubSeq(l, n + 1, Len(l))
<1>1. /\ a \in Seq(Pieces) /\ Len(a) = n /\ \A i \in 1 .. n : a[i] = l[i]
      /\ Len(b) = Len(l) - n /\ \A i \in 1 .. Len(l) - n : b[i] = l[n + i]
  BY Split
<1> HIDE DEF a, b
<1>2. /\ Len(s \o a) = Len(s) + n
      /\ \A i \in 1 .. Len(s) : (s \o a)[i] = s[i]
      /\ \A i \in 1 .. n : (s \o a)[Len(s) + i] = a[i]
  BY <1>1, ConcatAt
<1>3. Len(s) \in Nat /\ Len(l) \in Nat /\ Len(f) \in Nat /\ n \in Nat
  BY LenProperties
<1>4. \A i \in 1 .. Len(s) + n : (s \o a)[i] = m[k + i]
  <2> SUFFICES ASSUME NEW i \in 1 .. Len(s) + n
               PROVE  (s \o a)[i] = m[k + i]
    OBVIOUS
  <2>1. CASE i <= Len(s)
    <3>1. i \in 1 .. Len(s)
      BY <1>3, <2>1
    <3>. QED  BY <1>2, <3>1 DEF Flow
  <2>2. CASE ~(i <= Len(s))
    <3>1. /\ i - Len(s) \in 1 .. n /\ i - Len(s) \in 1 .. Len(l)
          /\ Len(s) + (i - Len(s)) = i
          /\ k + Len(s) + (i - Len(s)) = k + i
      BY <1>3, <2>2
    <3>2. (s \o a)[Len(s) + (i - Len(s))] = l[i - Len(s)]
      BY <1>1, <1>2, <3>1
    <3>3. l[i - Len(s)] = m[k + Len(s) + (i - Len(s))]
      BY <3>1 DEF Flow
    <3>. QED  BY <3>1, <3>2, <3>3
  <2>. QED  BY <2>1, <2>2
<1>5. \A i \in 1 .. Len(l) - n : b[i] = m[k + (Len(s) + n) + i]
  <2> SUFFICES ASSUME NEW i \in 1 .. Len(l) - n
               PROVE  b[i] = m[k + (Len(s) + n) + i]
    OBVIOUS
  <2>1. /\ n + i \in 1 .. Len(l)
        /\ k + (Len(s) + n) + i = k + Len(s) + (n + i)
    BY <1>3
  <2>2. l[n + i] = m[k + Len(s) + (n + i)]
    BY <2>1 DEF Flow
  <2>. QED  BY <1>1, <2>1, <2>2
<1>6. \A i \in 1 .. Len(f) :
        f[i] = m[k + (Len(s) + n) + (Len(l) - n) + i]
  <2>1. k + (Len(s) + n) + (Len(l) - n) = k + Len(s) + Len(l)
    BY <1>3
  <2>. QED  BY <2>1 DEF Flow
<1>. QED  BY <1>1, <1>2, <1>4, <1>5, <1>6 DEF Flow, a, b

(* A part that has been read whole is the part of the answer it should be. *)
LEMMA WholePart ==
  ASSUME LineInv, call \in Calls, NEW p \in Parts, Whole(p)
  PROVE  /\ answer \in Replies /\ want = Extent(answer)[p] /\ Len(in) = want
         /\ in = Part(call, answer, p)
         /\ want > 0 => in[1] = [call |-> call, part |-> p, of |-> 1, reply |-> answer]
<1>1. pc = "read" /\ part = p /\ Len(in) = want /\ in \in Seq(Pieces) /\ socket # 0
  BY DEF Whole, LineInv, Calls
<1>2. answer \in Replies /\ answer # NoReply
  <2>1. CASE answer = NoReply
    <3>1. in = <<>> /\ want = LengthLen /\ Len(<<>>) = 0 /\ LengthLen # 0
      BY <1>1, <2>1, UbiClientAssumption DEF LineInv
    <3>. QED  BY <1>1, <3>1
  <2>. QED  BY <2>1, UbiClientAssumption DEF LineInv
<1>3. want = Extent(answer)[p]
      /\ Flow(Message(call, answer), Start(answer)[p], in, line, flying)
  BY <1>1, <1>2 DEF LineInv
<1>4. \A i \in 1 .. Len(in) : in[i] = Part(call, answer, p)[i]
  BY <1>1, <1>2, <1>3, MessageForm DEF Flow
<1>5. /\ Part(call, answer, p) \in Seq(Pieces) /\ Len(Part(call, answer, p)) = Len(in)
      /\ \A i \in 1 .. Len(in) : Part(call, answer, p)[i] =
           [call |-> call, part |-> p, of |-> i, reply |-> answer]
  BY <1>1, <1>2, <1>3, PartForm
<1>6. in = Part(call, answer, p)
  BY <1>1, <1>4, <1>5, SeqEqual
<1>7. Len(in) \in Nat
  BY <1>1, LenProperties
<1>. QED  BY <1>1, <1>2, <1>3, <1>5, <1>6, <1>7

LEMMA Starts ==
  ASSUME NEW r \in Replies
  PROVE  /\ Start(r)["headerLen"] = 0
         /\ Start(r)["header"] = Start(r)["headerLen"] + Extent(r)["headerLen"]
         /\ Start(r)["rxLen"] = Start(r)["header"] + Extent(r)["header"]
         /\ Start(r)["rx"] = Start(r)["rxLen"] + Extent(r)["rxLen"]
         /\ Start(r)["errLen"] = Start(r)["rx"] + Extent(r)["rx"]
         /\ Start(r)["err"] = Start(r)["errLen"] + Extent(r)["errLen"]
         /\ r.rx = 0 => Start(r)["errLen"] = Start(r)["rxLen"]
         /\ \A p \in Parts : Start(r)[p] \in Nat
<1> DEFINE L(p) == Extent(r)[p]
<1>1. /\ L("headerLen") = LengthLen /\ L("header") = HeaderLen
      /\ r.rx = 0 => L("rxLen") = 0 /\ L("rx") = 0
  BY Lengths, UbiClientAssumption
<1>2. /\ L("headerLen") \in Nat /\ L("header") \in Nat /\ L("rxLen") \in Nat
      /\ L("rx") \in Nat /\ L("errLen") \in Nat /\ L("err") \in Nat
  BY Lengths DEF Parts
<1>3. /\ Start(r)["headerLen"] = 0 /\ Start(r)["header"] = LengthLen
      /\ Start(r)["rxLen"] = LengthLen + HeaderLen
      /\ Start(r)["rx"] = LengthLen + HeaderLen + L("rxLen")
      /\ Start(r)["errLen"] = LengthLen + HeaderLen + L("rxLen") + L("rx")
      /\ Start(r)["err"] =
           LengthLen + HeaderLen + L("rxLen") + L("rx") + L("errLen")
  BY DEF Start, RxEnd, HeaderEnd
<1> HIDE DEF L
<1>4. \A p \in Parts : Start(r)[p] \in Nat
  BY <1>1, <1>2, <1>3 DEF Parts
<1>5. Start(r)["header"] = Start(r)["headerLen"] + L("headerLen")
  BY <1>1, <1>2, <1>3
<1>6. Start(r)["rxLen"] = Start(r)["header"] + L("header")
  BY <1>1, <1>2, <1>3
<1>7. /\ Start(r)["rx"] = Start(r)["rxLen"] + L("rxLen")
      /\ Start(r)["errLen"] = Start(r)["rx"] + L("rx")
      /\ Start(r)["err"] = Start(r)["errLen"] + L("errLen")
  BY <1>3
<1>8. r.rx = 0 => Start(r)["errLen"] = Start(r)["rxLen"]
  BY <1>1, <1>2, <1>3
<1>. QED  BY <1>3, <1>4, <1>5, <1>6, <1>7, <1>8 DEF L

(* Call goes on to read part q, which follows part p.                      *)
LEMMA ReadOn ==
  ASSUME LineInv, call \in Calls, NEW p \in Parts, NEW q \in Parts, Whole(p),
         Start(answer)[q] = Start(answer)[p] + Extent(answer)[p],
         ReadAll(q, Extent(answer)[q]), pc' = pc,
         UNCHANGED <<call, socket, line, flying, answer>>
  PROVE  LineInv'
<1>1. /\ answer \in Replies /\ answer # NoReply /\ want = Extent(answer)[p]
      /\ Len(in) = want /\ pc = "read" /\ part = p
  BY WholePart, UbiClientAssumption DEF Whole
<1>2. /\ in \in Seq(Pieces) /\ line \in Seq(Pieces) /\ flying \in Seq(Pieces)
      /\ Flow(Message(call, answer), Start(answer)[p], in, line, flying)
      /\ socket = call
  BY <1>1 DEF LineInv
<1>3. Start(answer)[p] \in Nat
  BY <1>1, Starts
<1>4. Flow(Message(call, answer), Start(answer)[p] + Len(in), <<>>, line, flying)
  BY <1>2, <1>3, FlowOn
<1>5. Flow(Message(call, answer), Start(answer)[q], <<>>, line, flying)
  BY <1>1, <1>4
<1>6. part' = q /\ want' = Extent(answer)[q] /\ in' = <<>> /\ <<>> \in Seq(Pieces)
  BY EmptySeq DEF ReadAll
<1>. QED  BY <1>1, <1>2, <1>5, <1>6 DEF LineInv

(* What an absent part is.                                                 *)
LEMMA NoPart ==
  ASSUME NEW c \in Calls, NEW r \in Replies, NEW p \in Parts, Extent(r)[p] = 0
  PROVE  Part(c, r, p) = <<>>
<1>1. Part(c, r, p) \in Seq(Pieces) /\ Len(Part(c, r, p)) = 0
  BY PartForm
<1>. QED  BY <1>1, EmptySeq

-----------------------------------------------------------------------------
(* The server, the network and recv.                                       *)

LEMMA ServeFlows ==
  ASSUME Inv, LineInv, ReplyInv, NEW r \in Replies, Serve(r)
  PROVE  LineInv' /\ ReplyInv'
<1>1. /\ socket # 0 /\ pc = "read" /\ socket = call /\ call \in Calls
      /\ line = <<>> /\ flying = <<>>
      /\ part = "headerLen" /\ want = LengthLen /\ in = <<>>
  <2>1. socket \in received /\ answer = NoReply /\ socket \in Calls /\ socket # 0
    BY DEF Serve, Inv, ReportInv, Calls
  <2>2. pc \in {"write", "read"} /\ socket = call
    BY <2>1 DEF LineInv
  <2>3. pc # "write"
    BY <2>1, <2>2 DEF Inv, ReportInv
  <2>. QED  BY <2>1, <2>2, <2>3 DEF LineInv
<1>2. /\ answer' = r /\ flying' = <<>> \o Message(call, r) /\ line' = line
      /\ UNCHANGED <<pc, call, socket, part, want, in>>
  BY <1>1 DEF Serve, readVars
<1>3. /\ Message(call, r) \in Seq(Pieces)
      /\ <<>> \o Message(call, r) = Message(call, r)
  BY <1>1, MessageForm, ConcatEmptySeq
<1>4. Flow(Message(call, r), 0, <<>>, <<>>, <<>> \o Message(call, r))
  BY <1>3, FlowStarts
<1>5. Start(r)["headerLen"] = 0 /\ Extent(r)["headerLen"] = LengthLen
  BY Starts, Lengths
<1>6. LineInv'
  <2>1. in' \in Seq(Pieces) /\ line' \in Seq(Pieces) /\ flying' \in Seq(Pieces)
    BY <1>1, <1>2, <1>3 DEF LineInv
  <2>2. r # NoReply /\ answer' \in Replies \cup {NoReply}
    BY <1>2, UbiClientAssumption
  <2>3. /\ want' = Extent(answer')[part']
        /\ Flow(Message(call', answer'), Start(answer')[part'], in', line', flying')
    BY <1>1, <1>2, <1>4, <1>5
  <2>. QED  BY <1>1, <1>2, <2>1, <2>2, <2>3 DEF LineInv
<1>7. ReplyInv'
  <2>1. UNCHANGED <<pc, call, part, heap, holds>>
    BY DEF Serve, readVars, bufferVars
  <2>. QED  BY <1>1, <2>1 DEF ReplyInv, Untouched
<1>. QED  BY <1>6, <1>7

LEMMA DeliverFlows ==
  ASSUME Inv, LineInv, ReplyInv, Deliver
  PROVE  LineInv' /\ ReplyInv'
<1>1. PICK n \in 1 .. Len(flying) :
        /\ line' = line \o SubSeq(flying, 1, n)
        /\ flying' = SubSeq(flying, n + 1, Len(flying))
  BY DEF Deliver
<1>2. /\ flying # <<>> /\ UNCHANGED <<call, pc, part, want, in, code, reply>>
      /\ UNCHANGED <<heap, holds, outcome, socket, answer>>
  BY DEF Deliver, readVars, bufferVars, serverVars
<1>3. /\ in \in Seq(Pieces) /\ line \in Seq(Pieces) /\ flying \in Seq(Pieces)
      /\ pc \in {"read", "return", "overrun"} /\ socket = call /\ answer # NoReply
  <2>1. in \in Seq(Pieces) /\ line \in Seq(Pieces) /\ flying \in Seq(Pieces)
    BY DEF LineInv
  <2>2. pc \in {"write", "read", "return", "overrun"} /\ socket = call
    BY <1>2 DEF LineInv, Inv, CallInv
  <2>3. call # 0
    BY <2>2 DEF Inv, CallInv, Busy, Calls
  <2>. QED  BY <1>2, <2>1, <2>2, <2>3 DEF LineInv
<1>4. line' \in Seq(Pieces) /\ flying' \in Seq(Pieces)
  <2>1. /\ SubSeq(flying, 1, n) \in Seq(Pieces)
        /\ SubSeq(flying, n + 1, Len(flying)) \in Seq(Pieces)
    BY <1>3, Split
  <2>. QED  BY <1>1, <1>3, <2>1, ConcatAt
<1>5. pc = "read" =>
        Flow(Message(call, answer), Start(answer)[part], in, line', flying')
  <2> SUFFICES ASSUME pc = "read"
               PROVE  Flow(Message(call, answer), Start(answer)[part], in, line', flying')
    OBVIOUS
  <2>1. Flow(Message(call, answer), Start(answer)[part], in, line, flying)
    BY <1>3 DEF LineInv
  <2>2. Start(answer)[part] \in Nat
    BY <1>3, Starts DEF LineInv, Inv, BufferInv
  <2>. QED  BY <1>1, <1>3, <2>1, <2>2, FlowArrives
<1>6. LineInv'
  BY <1>2, <1>3, <1>4, <1>5 DEF LineInv
<1>7. ReplyInv'
  BY <1>2 DEF ReplyInv, Untouched, Allocated, HandedOver, HeaderKnown
<1>. QED  BY <1>6, <1>7

LEMMA ReceiveFlows ==
  ASSUME Inv, LineInv, ReplyInv, Receive
  PROVE  LineInv' /\ ReplyInv'
<1> DEFINE n == Min({want - Len(in), Len(line)})
<1>1. /\ in' = in \o SubSeq(line, 1, n) /\ line' = SubSeq(line, n + 1, Len(line))
      /\ line # <<>> /\ pc = "read" /\ Len(in) < want
      /\ UNCHANGED <<call, pc, part, want, code, reply, heap, holds, outcome>>
      /\ UNCHANGED <<socket, flying, answer>>
  BY DEF Receive, Reading, bufferVars, serverVars
<1>2. /\ in \in Seq(Pieces) /\ line \in Seq(Pieces) /\ flying \in Seq(Pieces)
      /\ socket = call /\ answer # NoReply /\ answer \in Replies /\ part \in Parts
  <2>1. call # 0
    BY <1>1 DEF Inv, CallInv, Busy, Calls
  <2>. QED  BY <1>1, <2>1 DEF LineInv, Inv, BufferInv
<1>3. /\ want = Extent(answer)[part] /\ Start(answer)[part] \in Nat
      /\ Flow(Message(call, answer), Start(answer)[part], in, line, flying)
  BY <1>1, <1>2, Starts DEF LineInv
<1>4. n \in 1 .. Len(line)
  <2>1. want \in Nat /\ Len(in) \in Nat /\ Len(line) \in Nat
    BY <1>2, <1>3, Lengths, LenProperties
  <2>2. Len(line) # 0
    BY <1>1, <1>2, EmptySeq
  <2>3. \A a \in Nat \ {0}, b \in Nat \ {0} : Min({a, b}) \in 1 .. b
    <3> SUFFICES ASSUME NEW a \in Nat \ {0}, NEW b \in Nat \ {0}
                 PROVE  Min({a, b}) \in 1 .. b
      OBVIOUS
    <3>1. \E x \in {a, b} : \A y \in {a, b} : x <= y
      OBVIOUS
    <3>2. Min({a, b}) \in {a, b} /\ \A y \in {a, b} : Min({a, b}) <= y
      BY <3>1 DEF Min
    <3>. QED  BY <3>2
  <2>4. want - Len(in) \in Nat \ {0} /\ Len(line) \in Nat \ {0}
    BY <1>1, <2>1, <2>2
  <2>. QED  BY <2>3, <2>4
<1> HIDE DEF n
<1>5. in' \in Seq(Pieces) /\ line' \in Seq(Pieces)
  <2>1. SubSeq(line, 1, n) \in Seq(Pieces) /\ SubSeq(line, n + 1, Len(line)) \in Seq(Pieces)
    BY <1>2, <1>4, Split
  <2>. QED  BY <1>1, <1>2, <2>1, ConcatAt
<1>6. Flow(Message(call, answer), Start(answer)[part], in', line', flying)
  BY <1>1, <1>2, <1>3, <1>4, FlowRead
<1>7. LineInv'
  BY <1>1, <1>2, <1>3, <1>5, <1>6 DEF LineInv
<1>8. ReplyInv'
  BY <1>1 DEF ReplyInv, Untouched, Allocated, HandedOver, HeaderKnown
<1>. QED  BY <1>7, <1>8

-----------------------------------------------------------------------------
(* The steps of Call before it reads, and those by which it is left.       *)

LEMMA HangUpFlows ==
  ASSUME LineInv, ReplyInv, HangUp
  PROVE  LineInv' /\ ReplyInv'
<1>1. /\ UNCHANGED <<call, pc, part, want, in, code, reply, heap, holds>>
      /\ UNCHANGED <<outcome, socket, line, flying, answer>>
  BY DEF HangUp, readVars, bufferVars, serverVars
<1>2. LineInv'
  BY <1>1 DEF LineInv
<1>3. ReplyInv'
  BY <1>1 DEF ReplyInv, Untouched, Allocated, HandedOver, HeaderKnown
<1>. QED  BY <1>2, <1>3

LEMMA ThrowFlows ==
  ASSUME Inv, LineInv, ReplyInv, Busy, Throw
  PROVE  LineInv' /\ ReplyInv'
<1>1. /\ pc' = "idle" /\ socket' = 0 /\ line' = <<>> /\ flying' = <<>>
      /\ outcome' = [outcome EXCEPT ![call] = "threw"]
      /\ UNCHANGED <<call, part, want, in, code, reply, holds, answer>>
  BY DEF Throw, Close, readVars, serverVars
<1>2. call \in Calls /\ outcome'[call] = "threw"
  BY <1>1 DEF Inv, CallInv
<1>3. LineInv'
  <2>1. /\ line' \in Seq(Pieces) /\ flying' \in Seq(Pieces) /\ in' \in Seq(Pieces)
        /\ answer' \in Replies \cup {NoReply}
    BY <1>1, EmptySeq DEF LineInv
  <2>. QED  BY <1>1, <2>1 DEF LineInv
<1>4. \A b \in Bodies, c \in Calls : c > call => heap'[b][c] = heap[b][c]
  <2>1. CASE part \in Bodies
    <3>1. heap' = Freed(heap, part, call) /\ heap \in Heaps
      BY <2>1 DEF Throw, Inv, BufferInv
    <3>2. \A b \in Bodies, c \in Calls :
            (b # part \/ c # call) => Freed(heap, part, call)[b][c] = heap[b][c]
      BY <1>2, <2>1, <3>1, FreedHeap
    <3>3. \A c \in Calls : c > call => c # call
      BY <1>2 DEF Calls
    <3>. QED  BY <3>1, <3>2, <3>3
  <2>2. CASE part \notin Bodies
    BY <2>2 DEF Throw
  <2>. QED  BY <2>1, <2>2
<1>5. ReplyInv'
  BY <1>1, <1>2, <1>4 DEF ReplyInv
<1>. QED  BY <1>3, <1>5

LEMMA CallFlows ==
  ASSUME Inv, LineInv, ReplyInv, Call
  PROVE  LineInv' /\ ReplyInv'
<1>1. /\ pc = "idle" /\ pc' = "open" /\ call' = call + 1 /\ call < MaxCalls
      /\ holds' = [b \in Bodies |-> <<>>] /\ heap' = heap
      /\ part' = "headerLen" /\ want' = LengthLen /\ in' = <<>>
      /\ UNCHANGED <<socket, line, flying, answer>>
  BY DEF Call, ReadAll, netVars, serverVars
<1>2. LineInv'
  BY <1>1, EmptySeq DEF LineInv
<1>3. ReplyInv'
  <2>1. call' \in Calls /\ call' > call /\ \A c \in Calls : c > call' => c > call
    BY <1>1, UbiClientAssumption DEF Inv, CallInv, Calls
  <2>2. \A b \in Bodies, c \in Calls : c > call => heap'[b][c] = "none"
    BY <1>1 DEF ReplyInv
  <2>3. \A b \in Bodies, c \in Calls : c > call' => heap'[b][c] = "none"
    BY <2>1, <2>2
  <2>4. \A b \in Bodies : heap'[b][call'] = "none" /\ holds'[b] = <<>>
    BY <1>1, <2>1, <2>2
  <2>5. (Untouched("rx") /\ Untouched("err"))'
    BY <2>4 DEF Untouched, Bodies
  <2>6. holds' \in [Bodies -> Seq(Pieces)]
    BY <1>1, EmptySeq
  <2>. QED  BY <1>1, <2>3, <2>5, <2>6 DEF ReplyInv
<1>. QED  BY <1>2, <1>3

LEMMA OpenFlows ==
  ASSUME Inv, LineInv, ReplyInv, Open
  PROVE  LineInv' /\ ReplyInv'
<1>1. /\ pc = "open" /\ pc' = "write" /\ socket' = call /\ answer' = NoReply
      /\ UNCHANGED <<call, part, want, in, code, reply, heap, holds, outcome>>
      /\ UNCHANGED <<line, flying>>
  BY DEF Open, readVars, bufferVars
<1>2. LineInv'
  BY <1>1 DEF LineInv
<1>3. ReplyInv'
  BY <1>1 DEF ReplyInv, Untouched
<1>. QED  BY <1>2, <1>3

LEMMA WriteFlows ==
  ASSUME Inv, LineInv, ReplyInv, Write
  PROVE  LineInv' /\ ReplyInv'
<1>1. /\ pc = "write" /\ pc' = "read"
      /\ UNCHANGED <<call, part, want, in, code, reply, heap, holds, outcome>>
      /\ UNCHANGED <<socket, line, flying, answer>>
  BY DEF Write, readVars, bufferVars, netVars
<1>2. part = "headerLen" /\ want = LengthLen /\ in = <<>> /\ answer = NoReply
      /\ socket = call /\ call # 0
  BY <1>1 DEF LineInv, Inv, CallInv, Busy, Calls
<1>3. LineInv'
  BY <1>1, <1>2 DEF LineInv
<1>4. ReplyInv'
  BY <1>1, <1>2 DEF ReplyInv, Untouched
<1>. QED  BY <1>3, <1>4

LEMMA ReturnFlows ==
  ASSUME Inv, LineInv, ReplyInv, Return
  PROVE  LineInv' /\ ReplyInv'
<1>1. /\ pc = "return" /\ pc' = "idle"
      /\ socket' = 0 /\ line' = <<>> /\ flying' = <<>>
      /\ UNCHANGED <<call, part, want, in, code, reply, heap, holds, answer>>
  BY DEF Return, Close, readVars, bufferVars, serverVars
<1>2. LineInv'
  <2>1. /\ line' \in Seq(Pieces) /\ flying' \in Seq(Pieces) /\ in' \in Seq(Pieces)
        /\ answer' \in Replies \cup {NoReply}
    BY <1>1, EmptySeq DEF LineInv
  <2>. QED  BY <1>1, <2>1 DEF LineInv
<1>3. ReplyInv'
  <2>1. /\ (HeaderKnown /\ HandedOver("rx") /\ HandedOver("err"))'
        /\ holds' \in [Bodies -> Seq(Pieces)]
        /\ \A b \in Bodies, c \in Calls : c > call' => heap'[b][c] = "none"
    BY <1>1 DEF ReplyInv, HandedOver, HeaderKnown
  <2>. QED  BY <1>1, <2>1 DEF ReplyInv
<1>. QED  BY <1>2, <1>3

LEMMA FreeFlows ==
  ASSUME Inv, LineInv, ReplyInv, NEW b \in Bodies, Free(b)
  PROVE  LineInv' /\ ReplyInv'
<1>1. /\ pc = "idle" /\ ptr[b] # 0 /\ heap' = Freed(heap, b, ptr[b])
      /\ UNCHANGED <<call, pc, part, want, in, code, reply, holds, outcome>>
      /\ UNCHANGED <<socket, line, flying, answer>>
  BY DEF Free, readVars, netVars, serverVars
<1>2. /\ ptr[b] = call /\ call \in Calls /\ heap \in Heaps
      /\ heap[b][call] = "live" \/ outcome[call] = "threw"
  BY <1>1 DEF Inv, BufferInv, Calls
<1>3. /\ \A a \in Bodies, c \in Calls :
           (a # b \/ c # call) => heap'[a][c] = heap[a][c]
      /\ heap'[b][call] \in {"freed", "twice"}
  BY <1>1, <1>2, FreedHeap
<1>4. LineInv'
  BY <1>1 DEF LineInv
<1>5. ReplyInv'
  <2>1. \A a \in Bodies, c \in Calls : c > call => heap'[a][c] = "none"
    <3>1. \A c \in Calls : c > call => c # call
      BY <1>2 DEF Calls
    <3>. QED  BY <1>3, <3>1 DEF ReplyInv
  <2>2. ASSUME outcome[call] = "returned", NEW a \in Bodies, HandedOver(a)
        PROVE  HandedOver(a)'
    <3>1. (heap'[a][call] = "none") = (heap[a][call] = "none")
      BY <1>2, <1>3, <2>2
    <3>. QED  BY <1>1, <2>2, <3>1 DEF HandedOver
  <2>3. "rx" \in Bodies /\ "err" \in Bodies
    BY DEF Bodies
  <2>4. outcome[call] = "returned" =>
          (HeaderKnown /\ HandedOver("rx") /\ HandedOver("err"))'
    BY <1>1, <1>2, <2>2, <2>3 DEF ReplyInv, HeaderKnown, Calls
  <2>5. holds' \in [Bodies -> Seq(Pieces)] /\ pc' = "idle"
    BY <1>1 DEF ReplyInv
  <2>. QED  BY <1>1, <2>1, <2>4, <2>5 DEF ReplyInv
<1>. QED  BY <1>4, <1>5

LEMMA DeleteFlows ==
  ASSUME Inv, LineInv, ReplyInv, Delete
  PROVE  LineInv' /\ ReplyInv'
<1>1. /\ pc = "idle" /\ pc' = "deleted"
      /\ UNCHANGED <<call, part, want, in, code, reply, holds, outcome>>
      /\ UNCHANGED <<socket, line, flying, answer>>
  BY DEF Delete, readVars, netVars, serverVars
<1>2. LineInv'
  BY <1>1 DEF LineInv
<1>3. \A b \in Bodies, c \in Calls : c > call => heap'[b][c] = heap[b][c]
  <2> DEFINE own == IF ptr["rx"] = 0 THEN heap ELSE Freed(heap, "rx", ptr["rx"])
             rx == IF ptr["rx"] = 0 THEN own ELSE Freed(own, "rx", ptr["rx"])
             Same(h, g) == \A b \in Bodies, c \in Calls : c > call => h[b][c] = g[b][c]
  <2>1. heap' = IF ptr["err"] = 0 THEN rx ELSE Freed(rx, "err", ptr["err"])
    BY DEF Delete
  <2>2. /\ "rx" \in Bodies /\ "err" \in Bodies /\ heap \in Heaps
        /\ \A b \in Bodies : ptr[b] # 0 => ptr[b] \in Calls /\ ptr[b] = call
    BY DEF Inv, BufferInv, Bodies, Calls
  <2>3. ASSUME NEW h \in Heaps, NEW b \in Bodies, ptr[b] # 0
        PROVE  Freed(h, b, ptr[b]) \in Heaps /\ Same(Freed(h, b, ptr[b]), h)
    <3>1. ptr[b] \in Calls /\ ptr[b] = call
      BY <2>2, <2>3
    <3>2. /\ Freed(h, b, ptr[b]) \in Heaps
          /\ \A a \in Bodies, c \in Calls :
               (a # b \/ c # ptr[b]) => Freed(h, b, ptr[b])[a][c] = h[a][c]
      BY <2>3, <3>1, FreedHeap
    <3>3. \A c \in Calls : c > call => c # ptr[b]
      BY <3>1 DEF Calls
    <3>. QED  BY <3>2, <3>3
  <2>4. own \in Heaps /\ Same(own, heap)
    BY <2>2, <2>3
  <2> HIDE DEF own
  <2>5. rx \in Heaps /\ Same(rx, heap)
    BY <2>2, <2>3, <2>4
  <2> HIDE DEF rx
  <2>. QED  BY <2>1, <2>2, <2>3, <2>5
<1>4. ReplyInv'
  BY <1>1, <1>3 DEF ReplyInv
<1>. QED  BY <1>2, <1>4

-----------------------------------------------------------------------------
(* What Call does with the parts.                                          *)

LEMMA HeaderLengthFlows ==
  ASSUME Inv, LineInv, ReplyInv, HeaderLength
  PROVE  LineInv' /\ ReplyInv'
<1>1. /\ Whole("headerLen") /\ ReadAll("header", HeaderLen)
      /\ UNCHANGED <<call, pc, code, reply, heap, holds, outcome>>
      /\ UNCHANGED <<socket, line, flying, answer>>
      /\ "headerLen" \in Parts /\ "header" \in Parts
  BY DEF HeaderLength, bufferVars, netVars, serverVars, Parts
<1>2. pc = "read" /\ part = "headerLen" /\ part' = "header" /\ call \in Calls
  BY <1>1 DEF Whole, ReadAll, Inv, CallInv, Busy
<1>3. answer \in Replies
  BY <1>1, <1>2, WholePart
<1>4. /\ Start(answer)["header"] = Start(answer)["headerLen"] + Extent(answer)["headerLen"]
      /\ Extent(answer)["header"] = HeaderLen
  BY <1>3, Starts, Lengths
<1>5. LineInv'
  BY <1>1, <1>2, <1>4, ReadOn
<1>6. ReplyInv'
  BY <1>1, <1>2 DEF ReplyInv, Untouched
<1>. QED  BY <1>5, <1>6

(* What follows the header, and what follows the reply.                    *)
LEMMA AfterRxFlows ==
  ASSUME Inv, LineInv, call \in Calls, NEW p \in Parts, Whole(p),
         Start(answer)["errLen"] = Start(answer)[p] + Extent(answer)[p],
         AfterRx(answer),
         holds' \in [Bodies -> Seq(Pieces)],
         \A b \in Bodies, c \in Calls : c > call => heap[b][c] = "none",
         HeaderKnown', HandedOver("rx")', Untouched("err")',
         UNCHANGED <<call, heap, socket, line, flying, answer>>
  PROVE  LineInv' /\ ReplyInv'
<1>1. answer \in Replies /\ pc = "read" /\ answer.e \in Nat
  <2>1. answer \in Replies /\ pc = "read"
    BY WholePart DEF Whole
  <2>. QED  BY <2>1, UbiClientAssumption
<1>2. CASE answer.e > 0
  <2>1. ReadAll("errLen", LengthLen) /\ pc' = pc
    BY <1>1, <1>2 DEF AfterRx
  <2>2. Extent(answer)["errLen"] = LengthLen /\ "errLen" \in Parts
    BY <1>1, <1>2, Lengths DEF Parts
  <2>3. LineInv'
    BY <2>1, <2>2, ReadOn
  <2>4. pc' = "read" /\ part' = "errLen"
    BY <1>1, <2>1 DEF ReadAll
  <2>5. ReplyInv'
    BY <1>2, <2>4 DEF ReplyInv
  <2>. QED  BY <2>3, <2>5
<1>3. CASE answer.e = 0
  <2>1. pc' = "return" /\ UNCHANGED <<part, want, in>>
    BY <1>1, <1>3 DEF AfterRx, readVars
  <2>2. LineInv'
    BY <1>1, <2>1, UbiClientAssumption DEF LineInv
  <2>3. HandedOver("err")'
    <3>1. Extent(answer)["err"] = 0 /\ Size(answer)["err"] = 0
      BY <1>1, <1>3, Lengths DEF Size
    <3>2. Part(call, answer, "err") = <<>>
      BY <1>1, <3>1, NoPart DEF Parts
    <3>. QED  BY <3>1, <3>2 DEF HandedOver, Untouched
  <2>4. ReplyInv'
    BY <2>1, <2>3 DEF ReplyInv
  <2>. QED  BY <2>2, <2>4
<1>. QED  BY <1>1, <1>2, <1>3

LEMMA HeaderFlows ==
  ASSUME Inv, LineInv, ReplyInv, Header
  PROVE  LineInv' /\ ReplyInv'
<1>1. /\ Whole("header") /\ reply' = in[1].reply /\ code' = in[1].call
      /\ AfterHeader(reply')
      /\ UNCHANGED <<call, heap, holds, outcome, socket, line, flying, answer>>
      /\ "header" \in Parts
  BY DEF Header, bufferVars, netVars, serverVars, Parts
<1>2. pc = "read" /\ part = "header" /\ call \in Calls
  BY <1>1 DEF Whole, Inv, CallInv, Busy
<1>3. /\ answer \in Replies /\ answer # NoReply
      /\ in[1] = [call |-> call, part |-> "header", of |-> 1, reply |-> answer]
  <2>1. answer \in Replies /\ want = HeaderLen
    BY <1>1, <1>2, WholePart, Lengths
  <2>. QED  BY <1>1, <1>2, <2>1, WholePart, UbiClientAssumption
<1>4. reply' = answer /\ code' = call
  BY <1>1, <1>3
<1>5. HeaderKnown'
  BY <1>1, <1>3, <1>4 DEF HeaderKnown
<1>6. /\ Untouched("rx")' /\ Untouched("err")' /\ holds' \in [Bodies -> Seq(Pieces)]
      /\ \A b \in Bodies, c \in Calls : c > call => heap[b][c] = "none"
  BY <1>1, <1>2 DEF ReplyInv, Untouched
<1>7. answer.rx \in Nat
  BY <1>3, UbiClientAssumption
<1>8. CASE answer.rx > 0
  <2>1. ReadAll("rxLen", LengthLen) /\ pc' = pc
    BY <1>1, <1>4, <1>7, <1>8 DEF AfterHeader
  <2>2. Extent(answer)["rxLen"] = LengthLen /\ "rxLen" \in Parts
        /\ Start(answer)["rxLen"] = Start(answer)["header"] + Extent(answer)["header"]
    BY <1>3, <1>8, Lengths, Starts DEF Parts
  <2>3. LineInv'
    BY <1>1, <1>2, <2>1, <2>2, ReadOn
  <2>4. pc' = "read" /\ part' = "rxLen"
    BY <1>2, <2>1 DEF ReadAll
  <2>5. ReplyInv'
    BY <1>1, <1>5, <1>6, <1>8, <2>4 DEF ReplyInv
  <2>. QED  BY <2>3, <2>5
<1>9. CASE answer.rx = 0
  <2>1. AfterRx(answer)
    BY <1>1, <1>4, <1>7, <1>9 DEF AfterHeader
  <2>2. Start(answer)["errLen"] = Start(answer)["header"] + Extent(answer)["header"]
    BY <1>3, <1>9, Starts
  <2>3. HandedOver("rx")'
    <3>1. Extent(answer)["rx"] = 0 /\ Size(answer)["rx"] = 0
      BY <1>3, <1>7, <1>9, Lengths DEF Size
    <3>2. Part(call, answer, "rx") = <<>>
      BY <1>2, <1>3, <3>1, NoPart DEF Parts
    <3>. QED  BY <1>1, <1>6, <3>1, <3>2 DEF HandedOver, Untouched
  <2>. QED  BY <1>1, <1>2, <1>5, <1>6, <2>1, <2>2, <2>3, AfterRxFlows
<1>. QED  BY <1>7, <1>8, <1>9

(* The length of a body, which the pieces of the length say.               *)
LEMMA SaidLength ==
  ASSUME Inv, LineInv, ReplyInv, NEW p \in {"rxLen", "errLen"}, Whole(p)
  PROVE  /\ pc = "read" /\ part = p /\ call \in Calls
         /\ answer \in Replies /\ answer # NoReply
         /\ Said = Extent(answer)[IF p = "rxLen" THEN "rx" ELSE "err"]
<1>1. pc = "read" /\ part = p /\ call \in Calls /\ p \in Parts
  BY DEF Whole, Inv, CallInv, Busy, Parts
<1>2. answer \in Replies /\ answer # NoReply /\ want = Extent(answer)[p]
  BY <1>1, WholePart, UbiClientAssumption
<1>3. /\ p = "rxLen" => answer.rx > 0
      /\ p = "errLen" => answer.e > 0
      /\ Extent(answer)[p] = LengthLen /\ LengthLen > 0
  <2>1. p = "rxLen" => answer.rx > 0
    BY <1>1 DEF ReplyInv
  <2>2. p = "errLen" => answer.e > 0
    BY <1>1 DEF ReplyInv
  <2>. QED  BY <1>2, <2>1, <2>2, Lengths, UbiClientAssumption
<1>4. in[1] = [call |-> call, part |-> p, of |-> 1, reply |-> answer]
  BY <1>1, <1>2, <1>3, WholePart
<1>5. in[1].reply = answer /\ in[1].part = p
  BY <1>4
<1>6. Said = IF p = "rxLen" THEN answer.rxWire ELSE answer.eWire
  BY <1>5 DEF Said
<1>. QED  BY <1>1, <1>2, <1>3, <1>6, Lengths

LEMMA BodyLengthFlows ==
  ASSUME Inv, LineInv, ReplyInv,
         NEW p, NEW b,
         (p = "rxLen" /\ b = "rx") \/ (p = "errLen" /\ b = "err"),
         BodyLength(p, b)
  PROVE  LineInv' /\ ReplyInv'
<1>1. /\ Whole(p) /\ ReadAll(b, Said) /\ heap' = [heap EXCEPT ![b][call] = "live"]
      /\ UNCHANGED <<call, pc, code, reply, holds, outcome>>
      /\ UNCHANGED <<socket, line, flying, answer>>
      /\ p \in {"rxLen", "errLen"} /\ p \in Parts /\ b \in Parts /\ b \in Bodies
  BY DEF BodyLength, netVars, serverVars, Parts, Bodies
<1>2. /\ pc = "read" /\ part = p /\ call \in Calls
      /\ answer \in Replies /\ answer # NoReply /\ Said = Extent(answer)[b]
  BY <1>1, SaidLength
<1>3. Start(answer)[b] = Start(answer)[p] + Extent(answer)[p]
  BY <1>2, Starts
<1>4. LineInv'
  BY <1>1, <1>2, <1>3, ReadOn
<1>5. /\ heap'[b][call] = "live"
      /\ \A a \in Bodies, c \in Calls :
           (a # b \/ c # call) => heap'[a][c] = heap[a][c]
  BY <1>1, <1>2 DEF Inv, BufferInv, Heaps
<1>6. ReplyInv'
  <2>1. \A a \in Bodies, c \in Calls : c > call => heap'[a][c] = "none"
    <3>1. \A c \in Calls : c > call => c # call
      BY <1>2 DEF Calls
    <3>. QED  BY <1>5, <3>1 DEF ReplyInv
  <2>2. pc' = "read" /\ part' = b
    BY <1>1, <1>2 DEF ReadAll
  <2>3. holds[b] = <<>> /\ HeaderKnown
    BY <1>1, <1>2 DEF ReplyInv, Untouched
  <2>4. Allocated(b)'
    BY <1>1, <1>5, <2>3 DEF Allocated
  <2>5. holds' \in [Bodies -> Seq(Pieces)] /\ HeaderKnown'
    BY <1>1, <2>3 DEF ReplyInv, HeaderKnown
  <2>6. CASE b = "rx"
    <3>1. answer.rx > 0 /\ Untouched("err")
      BY <1>2, <2>6 DEF ReplyInv
    <3>2. Untouched("err")'
      BY <1>1, <1>2, <1>5, <2>6, <3>1 DEF Untouched, Bodies
    <3>. QED  BY <1>1, <2>1, <2>2, <2>4, <2>5, <2>6, <3>1, <3>2 DEF ReplyInv
  <2>7. CASE b = "err"
    <3>1. answer.e > 0 /\ HandedOver("rx")
      BY <1>2, <2>7 DEF ReplyInv
    <3>2. HandedOver("rx")'
      BY <1>1, <1>2, <1>5, <2>7, <3>1 DEF HandedOver, Bodies
    <3>. QED  BY <1>1, <2>1, <2>2, <2>4, <2>5, <2>7, <3>1, <3>2 DEF ReplyInv
  <2>. QED  BY <2>6, <2>7
<1>. QED  BY <1>4, <1>6

LEMMA BodyFlows ==
  ASSUME Inv, LineInv, ReplyInv, NEW b \in Bodies, Body(b)
  PROVE  LineInv' /\ ReplyInv'
<1>1. /\ Whole(b) /\ holds' = [holds EXCEPT ![b] = in]
      /\ UNCHANGED <<call, code, reply, heap, outcome>>
      /\ UNCHANGED <<socket, line, flying, answer>>
      /\ b \in Parts
  BY DEF Body, netVars, serverVars, Parts, Bodies
<1>2. pc = "read" /\ part = b /\ call \in Calls
  BY <1>1 DEF Whole, Inv, CallInv, Busy
<1>3. /\ answer \in Replies /\ answer # NoReply /\ in = Part(call, answer, b)
  BY <1>1, <1>2, WholePart, UbiClientAssumption
<1>4. /\ holds'[b] = Part(call, answer, b)
      /\ \A a \in Bodies : a # b => holds'[a] = holds[a]
      /\ holds' \in [Bodies -> Seq(Pieces)]
  BY <1>1, <1>3 DEF ReplyInv, LineInv
<1>5. HeaderKnown /\ Allocated(b) /\ HeaderKnown'
  BY <1>1, <1>2 DEF ReplyInv, HeaderKnown, Bodies
<1>6. Size(answer)[b] > 0
  <2>1. b = "rx" => answer.rx > 0
    BY <1>2 DEF ReplyInv
  <2>2. b = "err" => answer.e > 0
    BY <1>2 DEF ReplyInv
  <2>. QED  BY <2>1, <2>2 DEF Size, Bodies
<1>7. HandedOver(b)'
  BY <1>1, <1>4, <1>5, <1>6 DEF HandedOver, Allocated
<1>8. \A a \in Bodies, c \in Calls : c > call => heap[a][c] = "none"
  BY DEF ReplyInv
<1>9. CASE b = "rx"
  <2>1. Start(answer)["errLen"] = Start(answer)["rx"] + Extent(answer)["rx"]
    BY <1>3, Starts
  <2>2. AfterRx(answer)
    BY <1>5, <1>9 DEF Body, HeaderKnown
  <2>3. Untouched("err")'
    BY <1>1, <1>2, <1>4, <1>9 DEF ReplyInv, Untouched, Bodies
  <2>. QED  BY <1>1, <1>2, <1>4, <1>5, <1>7, <1>8, <1>9, <2>1, <2>2, <2>3, AfterRxFlows
<1>10. CASE b = "err"
  <2>1. pc' = "return" /\ UNCHANGED <<part, want, in>>
    BY <1>10 DEF Body, readVars
  <2>2. LineInv'
    BY <1>1, <1>2, <1>3, <2>1 DEF LineInv
  <2>3. HandedOver("rx")'
    BY <1>1, <1>2, <1>4, <1>10 DEF ReplyInv, HandedOver, Bodies
  <2>4. ReplyInv'
    BY <1>1, <1>4, <1>5, <1>7, <1>8, <1>10, <2>1, <2>3 DEF ReplyInv
  <2>. QED  BY <2>2, <2>4
<1>. QED  BY <1>9, <1>10 DEF Bodies

(* A body past its buffer: nothing else changes.                           *)
LEMMA OverrunFlows ==
  ASSUME Inv, LineInv, ReplyInv, NEW b \in Bodies, Overrun(b)
  PROVE  LineInv' /\ ReplyInv'
<1>1. /\ pc = "read" /\ pc' = "overrun"
      /\ UNCHANGED <<call, part, want, in, code, reply, heap, holds, outcome>>
      /\ UNCHANGED <<socket, line, flying, answer>>
  BY DEF Overrun, Whole, readVars, bufferVars, netVars, serverVars
<1>2. LineInv'
  <2>1. part = b
    BY DEF Overrun, Whole
  <2>2. answer # NoReply
    BY <1>1, <2>1 DEF Bodies, ReplyInv, HeaderKnown
  <2>. QED  BY <1>1, <2>2 DEF LineInv
<1>3. ReplyInv'
  BY <1>1 DEF ReplyInv
<1>. QED  BY <1>2, <1>3

-----------------------------------------------------------------------------
Answered == LineInv /\ ReplyInv

LEMMA InitAnswered == Init => Answered
<1> SUFFICES ASSUME Init
             PROVE  Answered
  OBVIOUS
<1>1. LineInv
  BY EmptySeq DEF Init, LineInv
<1>2. ReplyInv
  BY EmptySeq DEF Init, ReplyInv
<1>. QED  BY <1>1, <1>2 DEF Answered

LEMMA NextAnswered == Inv /\ Answered /\ [Next]_vars => Answered'
<1> SUFFICES ASSUME Inv, LineInv, ReplyInv, [Next]_vars
             PROVE  LineInv' /\ ReplyInv'
  BY DEF Answered
<1>1. CASE UNCHANGED vars
  <2>1. /\ UNCHANGED <<call, pc, part, want, in, code, reply, heap, holds>>
        /\ UNCHANGED <<outcome, socket, line, flying, answer>>
    BY <1>1 DEF vars, readVars, bufferVars, netVars, serverVars
  <2>2. LineInv'
    BY <2>1 DEF LineInv
  <2>3. ReplyInv'
    BY <2>1 DEF ReplyInv, Untouched, Allocated, HandedOver, HeaderKnown
  <2>. QED  BY <2>2, <2>3
<1>2. CASE Sending \/ InReply
  <2>1. CASE BodyLength("rxLen", "rx") \/ BodyLength("errLen", "err")
    <3>1. CASE BodyLength("rxLen", "rx")
      BY <3>1, BodyLengthFlows
    <3>2. CASE BodyLength("errLen", "err")
      BY <3>2, BodyLengthFlows
    <3>. QED  BY <2>1, <3>1, <3>2
  <2>2. CASE PeerGone \/ TimesOut \/ BadLength
    BY <2>2, ThrowsBusy, ThrowFlows
  <2>3. CASE Open \/ Write \/ Receive \/ Return
    BY <2>3, OpenFlows, WriteFlows, ReceiveFlows, ReturnFlows
  <2>4. CASE HeaderLength \/ Header \/ \E b \in Bodies : Body(b) \/ Overrun(b)
    BY <2>4, HeaderLengthFlows, HeaderFlows, BodyFlows, OverrunFlows
  <2>. QED  BY <1>2, <2>1, <2>2, <2>3, <2>4 DEF Sending, InReply
<1>3. CASE Program
  BY <1>3, CallFlows, DeleteFlows, FreeFlows DEF Program
<1>4. CASE Network
  <2>1. CASE OpenFails \/ WriteFails \/ Interrupted
    BY <2>1, ThrowsBusy, ThrowFlows
  <2>. QED  BY <1>4, <2>1, DeliverFlows, HangUpFlows, ServeFlows DEF Network
<1>. QED  BY <1>1, <1>2, <1>3, <1>4 DEF Next

(* A call that returns hands over the answer to its own request, whole.    *)
THEOREM ReplyWholeHolds == Spec => []ReplyWhole
<1>1. Spec => [](Inv /\ Answered)
  BY InitAnswered, NextAnswered, InvHolds, PTL DEF Spec
<1>2. Inv /\ Answered => ReplyWhole
  <2> SUFFICES ASSUME Inv, LineInv, ReplyInv, pc = "idle", call > 0,
                      outcome[call] = "returned"
               PROVE  /\ answer # NoReply /\ reply = answer /\ code = call
                      /\ \A b \in Bodies :
                           /\ (heap[b][call] = "none") = (Size(reply)[b] = 0)
                           /\ holds[b] = Part(call, reply, b)
                           /\ ptr[b] # 0 => ptr[b] = call /\ heap[b][call] = "live"
    BY DEF ReplyWhole, Answered
  <2>1. HeaderKnown /\ \A b \in Bodies : HandedOver(b)
    BY DEF ReplyInv, Bodies
  <2>2. \A b \in Bodies : ptr[b] # 0 => ptr[b] = call /\ heap[b][call] = "live"
    BY DEF Inv, BufferInv
  <2>. QED  BY <2>1, <2>2 DEF HeaderKnown, HandedOver
<1>. QED  BY <1>1, <1>2, PTL
=============================================================================
