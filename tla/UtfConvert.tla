----------------------------- MODULE UtfConvert -----------------------------
(***************************************************************************)
(* The conversions of arrays of utility/libs/utfpp/utf.hpp and what        *)
(* utf.cpp wraps them in: one character per turn of the loop, until the    *)
(* source is used up or the destination is full.                           *)
(***************************************************************************)
EXTENDS Utf, SequencesExt

CONSTANTS
  Texts,           \* texts of scalar values, whose encodings are sources
  Encoded,         \* Encoded[e][t]: the units of text t in encoding e
  Sources,         \* Sources[e]: other sources in encoding e, of any units
  Unknown,         \* the text of such a source
  Rooms,           \* what a destination may hold, besides what utf.cpp allows
  Beyond           \* the units that may lie behind the end of a source

(* s is the characters of t one after the other: at[i] is where those of   *)
(* the first i end.                                                        *)
LaidOut(e, t, s, at) ==
  /\ at[0] = 0 /\ at[Len(t)] = Len(s)
  /\ \A i \in 1 .. Len(t) :
       /\ at[i] = at[i - 1] + Len(Encode(e, t[i]))
       /\ SubSeq(s, at[i - 1] + 1, at[i]) = Encode(e, t[i])

ASSUME UtfConvertAssumption ==
  /\ \A t \in Texts : /\ t \in Seq(0 .. maxUtf32)
                    /\ \A i \in 1 .. Len(t) : t[i] \notin Surrogates
  /\ \A e \in Encodings : \A t \in Texts :
       /\ Encoded[e][t] \in Seq(Units(e))
       /\ \E at \in [0 .. Len(t) -> 0 .. Len(Encoded[e][t])] :
            LaidOut(e, t, Encoded[e][t], at)
  /\ \A e \in Encodings : \A s \in Sources[e] : s \in Seq(Units(e))
  /\ Unknown \notin Texts
  /\ Rooms \subseteq Nat
  /\ Beyond \subseteq Units(16)

VARIABLES
  from, to,        \* which of the six conversions
  src, room,       \* srcBegin to srcEnd; dstEnd - dstBegin
  text,            \* history: the text that src encodes, or Unknown
  pos,             \* src - srcBegin: how many units are read
  dst,             \* what is written
  code,            \* the code point in between
  pc               \* "loop", "done", or what was thrown: "illegal", "range"

call == <<from, to, src, room, text>>
vars == <<call, pos, dst, code, pc>>

TypeOK ==
  /\ from \in Encodings /\ to \in Encodings \ {from}
  /\ src \in Seq(Units(from)) /\ room \in Nat
  /\ pos \in 0 .. Len(src) + 1
  /\ dst \in Seq(Units(to)) /\ code \in Int
  /\ pc \in {"loop", "done", "illegal", "range"}

(* A slip the runs must notice: the narrow units of two for every wide one.*)
WrapperRoomShort(length) ==
  IF to = 8 \/ <<from, to>> = <<32, 16>> THEN 2 * length ELSE length

(* What toWide and toNarrow allocate for a source of that many units.      *)
WrapperRoom(length) ==
  IF to = 8 \/ <<from, to>> = <<32, 16>> THEN 4 * length ELSE length

Init ==
  /\ from \in Encodings /\ to \in Encodings \ {from}
  /\ \/ text \in Texts /\ src = Encoded[from][text]
     \/ text = Unknown /\ src \in Sources[from]
  /\ src \in Seq(Units(from))
  /\ room \in Rooms \cup {WrapperRoom(Len(src))}
  /\ pos = 0 /\ dst = <<>> /\ code = 0
  /\ pc = "loop"

Inside == pc = "loop" /\ pos < Len(src) /\ Len(dst) < room

-----------------------------------------------------------------------------
(* The units of the character at pos, or Illegal.  A high surrogate takes  *)
(* a second unit without a look at the end of the source.                  *)
Reads32 == {SubSeq(src, pos + 1, pos + 1)}

Reads16 ==
  LET c1 == src[pos + 1]
      behind == IF pos + 1 < Len(src) THEN {src[pos + 2]} ELSE Beyond
  IN  IF High(c1)
      THEN {IF Low(c2) THEN <<c1, c2>> ELSE Illegal : c2 \in behind}
      ELSE {IF Low(c1) THEN Illegal ELSE <<c1>>}

Reads8 ==
  LET bytes == Trailing(src[pos + 1])
  IN  {IF pos + bytes >= Len(src) \/ bytes > 3
       THEN Illegal
       ELSE SubSeq(src, pos + 1, pos + 1 + bytes)}

Reads == IF from = 8 THEN Reads8 ELSE IF from = 16 THEN Reads16 ELSE Reads32

(* "begin + bytes > end" of utf32To8, and "begin + 1 > end" of utf32To16,  *)
(* which is never so inside the loop; nothing else asks for room.          *)
Fits(units) == to = 8 => Len(dst) + Len(units) <= room

Throw(what) ==
  /\ pc' = what
  /\ UNCHANGED <<call, pos, dst, code>>

IllegalSource == Inside /\ Illegal \in Reads /\ Throw("illegal")

IllegalCode ==
  /\ Inside
  /\ \E units \in Reads \ {Illegal} :
       Encode(to, Value(from, units)) = Illegal
  /\ Throw("illegal")

NoRoom ==
  /\ Inside
  /\ \E units \in Reads \ {Illegal} :
       ~Fits(Encode(to, Value(from, units)))
  /\ Throw("range")

Convert ==
  /\ Inside
  /\ \E units \in Reads \ {Illegal} :
       LET c == Value(from, units)
           written == Encode(to, c)
       IN  /\ written # Illegal /\ Fits(written)
           /\ pos' = pos + Len(units)
           /\ dst' = dst \o written
           /\ code' = c
  /\ UNCHANGED <<call, pc>>

Return ==
  /\ pc = "loop" /\ (pos >= Len(src) \/ Len(dst) >= room)
  /\ pc' = "done"
  /\ UNCHANGED <<call, pos, dst, code>>

Next == IllegalSource \/ IllegalCode \/ NoRoom \/ Convert \/ Return

Spec == Init /\ [][Next]_vars
-----------------------------------------------------------------------------
(* Properties.                                                             *)

(* The assertions of test.cpp, for each of the six pairs: a source that    *)
(* encodes a text of scalar values is never refused; what is written is    *)
(* the encoding of that text, or the characters of it for which there was  *)
(* room; and BufferRangeError means that the rest does not fit.            *)
TextKept ==
  text # Unknown =>
    LET whole == Encoded[to][text]
    IN  /\ IsPrefix(dst, whole)
        /\ pc # "illegal"
        /\ pc = "done" => dst = whole \/ Len(dst) >= room
        /\ pc = "range" => Len(whole) > room

(* How far a conversion writes, whatever the room: a pair that the loop    *)
(* over UTF-16 does not ask about is one unit past the end, and nothing is *)
(* towards UTF-8 and UTF-32.                                               *)
AtMostOnePast == Len(dst) <= room + 1 /\ (to # 16 => Len(dst) <= room)

(* The types, the limit of every room, and, which makes the next property  *)
(* inductive, that a wrapper has written at most its share of the room for *)
(* every unit it has read.                                                 *)
RoomInv ==
  /\ TypeOK
  /\ AtMostOnePast
  /\ room = WrapperRoom(Len(src)) =>
       /\ Len(dst) <= room /\ Len(dst) <= WrapperRoom(pos)
       /\ pc # "range"
       /\ pc = "done" => pos >= Len(src)

(* Whatever the units of the source, the memory that a wrapper allocates   *)
(* for the result is enough: all of the source is converted or refused,    *)
(* and nothing is written behind the end, although the loop over UTF-16    *)
(* does not ask whether a pair still fits.                                 *)
WrapperFits ==
  room = WrapperRoom(Len(src)) =>
    /\ Len(dst) <= room
    /\ pc # "range"
    /\ pc = "done" => pos >= Len(src)

(* Every character written, of a well-formed source or not, reads back as  *)
(* the code point that was read, except the low surrogates above the first *)
(* that utf32To16 lets through.                                            *)
Written == SubSeq(dst', Len(dst) + 1, Len(dst'))
ReadsBack ==
  [][dst' # dst =>
       \/ Readable(to, Written) /\ Value(to, Written) = code'
       \/ to = 16 /\ Low(code')]_vars

(* utf.hpp, line 11: "The low level functions will exit early if they      *)
(* could overrun their destination buffer."                                *)
StaysInRoom == Len(dst) <= room
=============================================================================
