--------------------------------- MODULE Utf ---------------------------------
(***************************************************************************)
(* The conversions of one character of utility/libs/utfpp/utf.hpp, with    *)
(* strict on, as every caller in the library has it: checkStrict throws.   *)
(*                                                                         *)
(* A uint32_t is written as the integer with the same 32 bits: what is at  *)
(* or above 2^31 is negative here, so that a difference that wraps is just *)
(* below zero.  A character that throws is written as no units at all.     *)
(***************************************************************************)
EXTENDS Integers, Sequences

maxUtf32 == 1114111             \* 0x0010FFFF
maxbmp == 65535                 \* 0x0000FFFF
highBegin == 55296              \* 0xD800
highEnd == 56319                \* 0xDBFF
lowBegin == 56320               \* 0xDC00
lowEnd == 57343                 \* 0xDFFF
base == 65536                   \* 0x00010000

Encodings == {8, 16, 32}
Units(encoding) == IF encoding = 8 THEN 0 .. 255
                   ELSE IF encoding = 16 THEN 0 .. maxbmp ELSE Int

Surrogates == highBegin .. lowEnd

Illegal == <<>>

-----------------------------------------------------------------------------
(* utf32To16.  Of the low surrogates the first alone is refused.           *)
To16(c) ==
  IF c < 0 \/ c > maxUtf32 THEN Illegal
  ELSE IF c > maxbmp
  THEN <<(c - base) \div 1024 + highBegin, ((c - base) % 1024) + lowBegin>>
  ELSE IF c >= highBegin /\ c <= lowBegin THEN Illegal ELSE <<c>>

(* "bytes", how many bytes utf32To8 writes; 0 when it throws.              *)
Bytes8(c) == IF c < 0 \/ c > maxUtf32 THEN 0
             ELSE IF c < 128 THEN 1
             ELSE IF c < 2048 THEN 2
             ELSE IF c <= maxbmp THEN 3 ELSE 4

(* (c | bytemark) & bytemask                                               *)
Continuation(c) == 128 + (c % 64)

(* c >>= 6                                                                 *)
Shift(c) == c \div 64

(* A slip the runs must notice: a shift too few before the lead byte.      *)
To8Unshifted(c) ==
  CASE Bytes8(c) = 0 -> Illegal
    [] Bytes8(c) = 1 -> <<c>>
    [] Bytes8(c) = 2 -> <<192 + Shift(c), Continuation(c)>>
    [] Bytes8(c) = 3 -> <<224 + (Shift(c) % 16),
                          Continuation(Shift(c)), Continuation(c)>>
    [] Bytes8(c) = 4 -> <<240 + Shift(Shift(Shift(c))),
                          Continuation(Shift(Shift(c))),
                          Continuation(Shift(c)), Continuation(c)>>

(* utf32To8: from the last byte to the first, six bits each; the surrogates*)
(* are written like any other.                                             *)
To8(c) ==
  LET bytes == Bytes8(c)
      a == Shift(c)
      b == Shift(a)
  IN  IF bytes = 0 THEN Illegal
      ELSE IF bytes = 1 THEN <<c>>
      ELSE IF bytes = 2 THEN <<192 + a, Continuation(c)>>
      ELSE IF bytes = 3 THEN <<224 + b, Continuation(a), Continuation(c)>>
      ELSE <<240 + Shift(b), Continuation(b), Continuation(a), Continuation(c)>>

Encode(encoding, c) == IF encoding = 8 THEN To8(c)
                       ELSE IF encoding = 16 THEN To16(c) ELSE <<c>>

-----------------------------------------------------------------------------
(* utf16To32, of a unit or a pair.                                         *)
High(c1) == c1 >= highBegin /\ c1 <= highEnd
Low(c2) == c2 >= lowBegin /\ c2 <= lowEnd
Value16(s) ==
  IF Len(s) = 1 THEN s[1]
  ELSE (s[1] - highBegin) * 1024 + (s[2] - lowBegin) + base

(* UTF8_BYTES: how many bytes follow the lead byte.                        *)
Trailing(b) == IF b < 192 THEN 0 ELSE IF b < 224 THEN 1
               ELSE IF b < 240 THEN 2 ELSE IF b < 248 THEN 3
               ELSE IF b < 252 THEN 4 ELSE 5

(* A slip the runs must notice: the offset of two bytes taken for three.   *)
Value8SameOffset(s) ==
  CASE Len(s) = 1 -> s[1]
    [] Len(s) = 2 -> s[1] * 64 + s[2] - 12416
    [] Len(s) = 3 -> (s[1] * 64 + s[2]) * 64 + s[3] - 12416
    [] Len(s) = 4 -> ((s[1] * 64 + s[2]) * 64 + s[3]) * 64 + s[4] - 63447168

(* utf8To32: the sum of the bytes less UTF8_OFFSETS.  That the bytes that  *)
(* follow are continuation bytes is not checked, nor that there are not    *)
(* more of them than the code point needs.                                 *)
Value8(s) ==
  IF Len(s) = 1 THEN s[1]
  ELSE IF Len(s) = 2 THEN s[1] * 64 + s[2] - 12416
  ELSE IF Len(s) = 3 THEN (s[1] * 64 + s[2]) * 64 + s[3] - 925824
  ELSE ((s[1] * 64 + s[2]) * 64 + s[3]) * 64 + s[4] - 63447168

(* Whether the units s are read as one character, and its code point.      *)
Readable(encoding, s) ==
  /\ encoding = 8 => Trailing(s[1]) < 4 /\ Len(s) = Trailing(s[1]) + 1
  /\ encoding = 16 => \/ Len(s) = 2 /\ High(s[1]) /\ Low(s[2])
                      \/ Len(s) = 1 /\ ~High(s[1]) /\ ~Low(s[1])
  /\ encoding = 32 => Len(s) = 1

Value(encoding, s) == IF encoding = 8 THEN Value8(s)
                      ELSE IF encoding = 16 THEN Value16(s) ELSE s[1]
=============================================================================
