----------------------------- MODULE HttpRequest -----------------------------
(***************************************************************************)
(* One connection of a child of the HTTPServer: HTTPRequest::readRequest   *)
(* (utility/libs/http/src/httprequest.cpp) over the stream calls of        *)
(* tCBSockClient (utility/libs/main/src/cbsocket.cpp, obsocket.cpp), and   *)
(* the handlers of WaitForCall that answer (httpserver.cpp:146-204).       *)
(*                                                                         *)
(* A request is a sequence of tokens: the two halves of the request line,  *)
(* header lines by their kind, the blank line, the pieces of the body, and *)
(* zero bytes, which end a string for strlen and its like.  The network    *)
(* cuts it anywhere between two tokens and pauses at will.                 *)
(***************************************************************************)
EXTENDS Integers, Sequences, FiniteSets, FiniteSetsExt

CONSTANTS
  Requests,        \* [tokens : sequence, length : the Content-Length it says]
  Chunk,           \* what one recv takes at most (8192)
  Room,            \* what the buffer holds before it has to move (256K)
  MaxInterrupts    \* bound: how many signals interrupt a select

HeaderKinds == {"json", "text", "length", "auth", "expect", "long", "other"}

Bodies == {"b1", "b2", "b3", "b4", "b5"}
TokenKinds ==
  HeaderKinds \cup Bodies \cup {"verb", "badverb", "line", "blank", "nul"}

(* A length other than 0 is one that a header of the request says; there   *)
(* is no zero byte in the request line.                                    *)
ASSUME HttpRequestAssumption ==
  /\ \A r \in Requests :
       /\ r.tokens \in Seq(TokenKinds) /\ r.tokens # <<>>
       /\ Len(r.tokens) < 2 * Room /\ r.length \in Nat
       /\ \A j \in 1 .. Len(r.tokens) : r.tokens[j] = "nul" => j > 2
       /\ r.length > 0 => \E j \in 3 .. Len(r.tokens) :
            /\ r.tokens[j] = "length"
            /\ \A i \in 1 .. j : r.tokens[i] # "blank"
  /\ Chunk \in Nat \ {0} /\ Room \in Nat \ {0} /\ MaxInterrupts \in Nat

VARIABLES
  request,         \* the request of this connection
  sent,            \* how many of its tokens have reached the server's socket
  peer,            \* "open", "closed" (end of file) or "reset"
  continued,       \* the server has written 100-continue
  pc,              \* where readRequest stands
  phase,           \* whose readData it is: "first", "body" or "authorized"
  got,             \* how many tokens recv has returned
  buffer, added,   \* the buffers of readRequest and of the body loop
  bp,              \* where the body starts in buffer, 0 for a null pointer
  contentLength,   \* content_length
  moved,           \* the buffer has moved, bp points to freed memory
  input,           \* what readRequest returned
  answer,          \* the status written to the client
  interrupts       \* how many signals have interrupted a select

peerVars == <<request, sent, peer>>
readVars == <<phase, got, buffer, added>>
headVars == <<bp, contentLength, moved>>
doneVars == <<input, answer>>
requestVars == <<peerVars, continued, pc, readVars, headVars, doneVars, interrupts>>

Tokens == request.tokens

RequestTypeOK ==
  /\ request \in Requests
  /\ sent \in 0 .. Len(Tokens) /\ got \in 0 .. sent
  /\ peer \in {"open", "closed", "reset"} /\ continued \in BOOLEAN
  /\ pc \in {"wait", "recv", "pause", "headers", "loop", "continue",
             "waitBody", "returned", "threw", "crashed", "answered"}
  /\ phase \in {"first", "body", "authorized"}
  /\ buffer \in Seq(TokenKinds) /\ added \in Seq(TokenKinds)
  /\ bp \in 0 .. Len(Tokens) + 1 /\ contentLength \in Nat
  /\ moved \in BOOLEAN
  /\ input \in Seq(TokenKinds) /\ answer \in {"none", "200", "400"}
  /\ interrupts \in 0 .. MaxInterrupts

RequestInit ==
  /\ request \in Requests
  /\ sent = 0 /\ peer = "open" /\ continued = FALSE
  /\ pc = "wait" /\ phase = "first" /\ got = 0
  /\ buffer = <<>> /\ added = <<>>
  /\ bp = 0 /\ contentLength = 0 /\ moved = FALSE
  /\ input = <<>> /\ answer = "none"
  /\ interrupts = 0

(* What who follows a char pointer sees of the bytes s behind it, and of   *)
(* the bytes in b from the k-th on.                                        *)
Text(s) ==
  SubSeq(s, 1, Min({j \in 1 .. Len(s) : s[j] = "nul"} \cup {Len(s) + 1}) - 1)
TextFrom(b, k) == Text(SubSeq(b, k, Len(b)))

(* strlen(bp) of the body loop.                                            *)
Arrived == Len(TextFrom(buffer, bp))

Readable == got < sent \/ peer # "open"

-----------------------------------------------------------------------------
(* The client and the network.                                             *)
Send ==
  /\ peer = "open" /\ sent < Len(Tokens)
  /\ \E n \in sent + 1 .. Len(Tokens) : sent' = n
  /\ UNCHANGED <<request, peer, continued, pc, readVars, headVars, doneVars,
                 interrupts>>

HangUp ==
  /\ peer = "open" /\ answer = "none"
  /\ peer' \in {"closed", "reset"}
  /\ UNCHANGED <<request, sent, continued, pc, readVars, headVars, doneVars,
                 interrupts>>

-----------------------------------------------------------------------------
(* readData: what it has read goes to buffer, or to added in the body loop.*)
Into(more) ==
  IF phase = "body" THEN added' = added \o more /\ UNCHANGED buffer
                    ELSE buffer' = buffer \o more /\ UNCHANGED added

(* The end of readData, by what called it.  The body loop appends what     *)
(* stands before a zero byte; an append beyond the room of the buffer      *)
(* moves the buffer, and bp stays behind.                                  *)
EndOfReadData ==
  \/ /\ phase = "first"
     /\ pc' = IF buffer = <<>> THEN "threw" ELSE "headers"
     /\ UNCHANGED <<buffer, added, moved, input>>
  \/ /\ phase = "body" /\ pc' = "loop"
     /\ buffer' = buffer \o Text(added) /\ added' = <<>>
     /\ moved' = (moved \/ (Len(buffer) < Room /\ Len(buffer') >= Room))
     /\ UNCHANGED input
  \/ /\ phase = "authorized" /\ pc' = "returned"
     /\ input' = Text(buffer)
     /\ UNCHANGED <<buffer, added, moved>>

(* A slip the runs must notice: the last token of a full chunk is dropped. *)
ReceiveShort ==
  /\ pc = "recv" /\ got < sent
  /\ LET n == Min({sent - got, Chunk})
     IN  got' = got + n
         /\ Into(SubSeq(Tokens, got + 1, got + Min({n, Chunk - 1})))
  /\ pc' = "pause"
  /\ UNCHANGED <<peerVars, continued, phase, headVars, doneVars, interrupts>>

(* recv gives what has arrived, up to Chunk; it waits for that without a   *)
(* time-out, since the loop ignores what WaitRead said.                    *)
Receive ==
  /\ pc = "recv" /\ got < sent
  /\ LET n == Min({sent - got, Chunk})
     IN  got' = got + n /\ Into(SubSeq(Tokens, got + 1, got + n))
  /\ pc' = "pause"
  /\ UNCHANGED <<peerVars, continued, phase, headVars, doneVars, interrupts>>

EndOfFile ==
  /\ pc = "recv" /\ got = sent /\ peer = "closed"
  /\ EndOfReadData
  /\ UNCHANGED <<peerVars, continued, phase, got, bp, contentLength, answer,
                 interrupts>>

(* recv fails and returns -1, which readData takes for a length: append    *)
(* copies 4 GB out of an array of 8192 bytes, or finds no memory for it.   *)
RecvFails ==
  /\ pc = "recv" /\ peer = "reset"
  /\ pc' \in {"crashed", "threw"}
  /\ UNCHANGED <<peerVars, continued, readVars, headVars, doneVars, interrupts>>

(* WaitRead(10) between two calls of recv: more, or the end of readData.   *)
PauseMore ==
  /\ pc = "pause" /\ Readable /\ pc' = "recv"
  /\ UNCHANGED <<peerVars, continued, readVars, headVars, doneVars, interrupts>>

PauseOver ==
  /\ pc = "pause" /\ ~Readable
  /\ EndOfReadData
  /\ UNCHANGED <<peerVars, continued, phase, got, bp, contentLength, answer,
                 interrupts>>

(* WaitRead(10000), for the request and for the body after 100-continue.   *)
WaitOver ==
  /\ pc \in {"wait", "waitBody"}
  /\ pc' = IF Readable THEN "recv" ELSE "threw"
  /\ UNCHANGED <<peerVars, continued, readVars, headVars, doneVars, interrupts>>

(* A signal ends select with EINTR, and WaitRead throws.                   *)
Interrupted ==
  /\ \/ pc \in {"wait", "pause", "waitBody"}
     \/ pc = "loop" /\ (moved \/ Arrived < contentLength)
  /\ interrupts < MaxInterrupts
  /\ interrupts' = interrupts + 1 /\ pc' = "threw"
  /\ UNCHANGED <<peerVars, continued, readVars, headVars, doneVars>>

-----------------------------------------------------------------------------
(* loadHeaders.  A zero byte and the end of the buffer look like the blank *)
(* line, and are not passed over as that is.                               *)
Stop ==
  Min({j \in 3 .. Len(buffer) : buffer[j] \in {"blank", "nul", "long", "text"}}
      \cup {Len(buffer) + 1})
Seen == {buffer[j] : j \in 3 .. Stop - 1}
StopsAt(kind) == Stop <= Len(buffer) /\ buffer[Stop] = kind
Authorized == {"auth", "expect"} \subseteq Seen

(* No blank, or only one, in what has arrived of the request line: strchr  *)
(* gives a null pointer that the next calls follow, unless a bad verb is   *)
(* noticed first.                                                          *)
HalfRequestLine ==
  /\ Len(buffer) = 1
  /\ pc' \in IF buffer[1] = "badverb" THEN {"crashed", "threw"} ELSE {"crashed"}
  /\ UNCHANGED <<bp, contentLength, phase, input>>

Refused ==
  /\ Len(buffer) > 1
  /\ buffer[1] = "badverb" \/ StopsAt("text")
  /\ pc' = "threw"
  /\ UNCHANGED <<bp, contentLength, phase, input>>

(* A header line that does not fit makes _getline return a null pointer.   *)
LineTooLong ==
  /\ Len(buffer) > 1 /\ buffer[1] # "badverb" /\ StopsAt("long")
  /\ contentLength' = IF "length" \in Seen THEN request.length ELSE 0
  /\ pc' = IF contentLength' > 0 /\ "expect" \notin Seen THEN "crashed"
           ELSE IF Authorized THEN "continue" ELSE "threw"
  /\ UNCHANGED <<bp, phase, input>>

(* The body is waited for when there is a length and no Expect.            *)
HeadersEnd ==
  /\ Len(buffer) > 1 /\ buffer[1] # "badverb"
  /\ StopsAt("blank") \/ StopsAt("nul") \/ Stop > Len(buffer)
  /\ contentLength' = IF "length" \in Seen THEN request.length ELSE 0
  /\ bp' = IF StopsAt("blank") THEN Stop + 1 ELSE Stop
  /\ \/ /\ contentLength' > 0 /\ "expect" \notin Seen
        /\ pc' = "loop" /\ phase' = "body" /\ UNCHANGED input
     \/ /\ contentLength' = 0 \/ "expect" \in Seen
        /\ Authorized
        /\ pc' = "continue" /\ UNCHANGED <<phase, input>>
     \/ /\ contentLength' = 0 \/ "expect" \in Seen
        /\ ~Authorized
        /\ pc' = "returned" /\ UNCHANGED phase
        /\ input' = TextFrom(buffer, bp')

LoadHeaders ==
  /\ pc = "headers"
  /\ HalfRequestLine \/ Refused \/ LineTooLong \/ HeadersEnd
  /\ UNCHANGED <<peerVars, continued, got, buffer, added, moved, answer,
                 interrupts>>

(* A slip the runs must notice: the first burst is taken for all of it.    *)
LoopOnce ==
  /\ pc = "loop"
  /\ pc' = "returned" /\ input' = TextFrom(buffer, bp)
  /\ UNCHANGED <<peerVars, continued, readVars, headVars, answer, interrupts>>

(* A slip the runs must notice: one token more is waited for.              *)
LoopPastEnd ==
  /\ pc = "loop"
  /\ \/ Arrived <= contentLength /\ pc' = "recv" /\ UNCHANGED input
     \/ /\ Arrived > contentLength
        /\ pc' = "returned"
        /\ input' = TextFrom(buffer, bp)
  /\ UNCHANGED <<peerVars, continued, readVars, headVars, answer, interrupts>>

(* The body loop: another WaitRead(100) and readData, or the end.  Of      *)
(* freed memory strlen and the copy give anything.                         *)
Loop ==
  /\ pc = "loop"
  /\ \/ /\ moved \/ Arrived < contentLength
        /\ pc' = "recv" /\ UNCHANGED input
     \/ /\ moved \/ Arrived >= contentLength
        /\ pc' = "returned"
        /\ input' = TextFrom(buffer, bp)
     \/ /\ moved
        /\ pc' \in {"returned", "crashed"} /\ input' = <<"other">>
  /\ UNCHANGED <<peerVars, continued, readVars, headVars, answer, interrupts>>

(* getAuthorizedData: 100-continue, and one readData for all of the body.  *)
WriteContinue ==
  /\ pc = "continue"
  /\ \/ peer # "reset" /\ continued' = TRUE /\ pc' = "waitBody"
        /\ phase' = "authorized" /\ buffer' = <<>>
     \/ peer # "open" /\ pc' = "threw" /\ UNCHANGED <<continued, phase, buffer>>
  /\ UNCHANGED <<peerVars, got, added, headVars, doneVars, interrupts>>

(* The service answers, or throws; so does what readRequest threw.         *)
Answer ==
  /\ \/ pc = "returned" /\ answer' \in {"200", "400"}
     \/ pc = "threw" /\ answer' = "400"
  /\ pc' = "answered"
  /\ UNCHANGED <<peerVars, continued, readVars, headVars, input, interrupts>>

Server ==
  \/ WaitOver \/ Receive \/ EndOfFile \/ RecvFails \/ PauseMore \/ PauseOver
  \/ LoadHeaders \/ Loop \/ WriteContinue \/ Answer

RequestNext == Server \/ Interrupted \/ Send \/ HangUp

RequestSpec == RequestInit /\ [][RequestNext]_requestVars

(* The child runs; nothing makes a client send, hang up, or a signal come. *)
FairRequestSpec == RequestSpec /\ WF_requestVars(Server)
-----------------------------------------------------------------------------
(* Properties.                                                             *)

BlankAt == Min({j \in 1 .. Len(Tokens) : Tokens[j] = "blank"}
               \cup {Len(Tokens) + 1})
Body == SubSeq(Tokens, BlankAt + 1, Len(Tokens))
Kinds == {Tokens[j] : j \in 1 .. Len(Tokens)}

(* Whatever the portions in which a body arrives, and however long the     *)
(* pauses between them, readRequest returns it whole and in order: when    *)
(* the headers came without a pause (bp stands behind the blank line), the *)
(* client does not say Expect, no byte is zero (for which tbuffer.h:13 is  *)
(* not made), and the buffer has not moved.                                *)
InputExact ==
  /\ pc = "returned" /\ ~moved
  /\ bp = BlankAt + 1 /\ {"expect", "nul"} \cap Kinds = {}
  /\ request.length = Len(Body)
  => input = Body

(* Headers that are cut, a client that does not wait for 100-continue, and *)
(* any other cut may cost the request its body or put headers into it: but *)
(* of a text what is returned is what was read last, nothing left out or   *)
(* twice.                                                                  *)
InputInOrder ==
  pc = "returned" /\ ~moved /\ "nul" \notin Kinds =>
    /\ Len(input) <= got
    /\ input = SubSeq(Tokens, got - Len(input) + 1, got)

Ended == pc \in {"answered", "crashed"}

(* The length that the body loop waits for is not there yet when it has    *)
(* appended all that has been read.                                        *)
LengthMissing ==
  phase = "body" /\ Len(TextFrom(buffer \o Text(added), bp)) < contentLength

(* The body loop at the end of the file: select says readable, recv gives  *)
(* nothing, and the length is never reached.                               *)
Spins == LengthMissing /\ peer = "closed" /\ got = sent

(* The body loop after a zero byte, which hides what follows it from       *)
(* strlen: recv waits for more than the client has announced.              *)
Starves ==
  /\ LengthMissing /\ pc = "recv" /\ peer = "open" /\ got = sent
  /\ \E j \in 1 .. got : Tokens[j] = "nul"

(* A client that has sent all it announced is answered, and one that has   *)
(* gone is let go, except in two ways: a child spins for ever on a         *)
(* connection that its client has closed early, and it waits for ever for  *)
(* the rest of a body with a zero byte in it.                              *)
RequestEnds ==
  (sent = Len(Tokens) /\ request.length <= Len(Body)) \/ peer # "open"
     ~> Ended \/ Spins \/ Starves \/ moved
=============================================================================
