-------------------------- MODULE UtfConvertProof --------------------------
(* Proofs about UtfConvert.                                                *)
EXTENDS UtfConvert, SequenceTheorems, TLAPS

(* What is shifted out of a code point, six bits at a time.                *)
LEMMA SixBits ==
  ASSUME NEW c \in Nat
  PROVE  /\ Shift(c) \in Nat /\ Continuation(c) \in 128 .. 191
         /\ c = 64 * Shift(c) + (Continuation(c) - 128)
BY DEF Shift, Continuation

LEMMA BytesOf ==
  ASSUME NEW c \in Int
  PROVE  /\ Bytes8(c) \in 0 .. 4
         /\ Bytes8(c) = 1 => c \in Nat /\ c < 128
         /\ Bytes8(c) = 2 => c \in Nat /\ c >= 128 /\ c < 2048
         /\ Bytes8(c) = 3 => c \in Nat /\ c >= 2048 /\ c < base
         /\ Bytes8(c) = 4 => c \in Nat /\ c >= base /\ c <= maxUtf32
BY DEF Bytes8, base, maxbmp, maxUtf32

(* Every code point of 0 .. 0x10FFFF is written in UTF-8 so that it reads  *)
(* back as itself (utf32To8, utf8To32), the surrogates included.           *)
LEMMA ReadBack8 ==
  ASSUME NEW c \in Int, NEW s, s = To8(c), s # Illegal
  PROVE  /\ s \in Seq(Units(8)) /\ Len(s) \in 1 .. 4
         /\ Trailing(s[1]) < 4 /\ Len(s) = Trailing(s[1]) + 1
         /\ Value8(s) = c
<1> DEFINE a == Shift(c)  b == Shift(a)  d == Shift(b)
           x == Continuation(c)  y == Continuation(a)  z == Continuation(b)
<1>1. CASE Bytes8(c) = 1
  <2>1. s = <<c>>
    BY <1>1 DEF To8
  <2>2. s[1] = c /\ Len(s) = 1 /\ s \in Seq(Units(8)) /\ c < 128 /\ c \in Nat
    BY <1>1, <2>1, BytesOf DEF Units
  <2> QED
    BY <2>2 DEF Value8, Trailing
<1>2. CASE Bytes8(c) = 2
  <2>1. s = <<192 + a, x>>
    BY <1>2 DEF To8
  <2>2. c \in Nat /\ c >= 128 /\ c < 2048
    BY <1>2, BytesOf
  <2>3. a \in Nat /\ x \in 128 .. 191 /\ c = 64 * a + (x - 128)
    BY <2>2, SixBits
  <2> HIDE DEF a, x
  <2>4. a \in 2 .. 31
    BY <2>2, <2>3
  <2>5. s[1] = 192 + a /\ s[2] = x /\ Len(s) = 2 /\ s \in Seq(Units(8))
    BY <2>1, <2>3, <2>4 DEF Units
  <2> QED
    <3>1. Trailing(s[1]) = 1
      BY <2>4, <2>5 DEF Trailing
    <3>2. Value8(s) = s[1] * 64 + s[2] - 12416
      BY <2>5 DEF Value8
    <3>3. Value8(s) = (192 + a) * 64 + x - 12416
      BY <2>5, <3>2
    <3>4. Value8(s) = c
      BY <2>3, <3>3
    <3> QED
      BY <2>5, <3>1, <3>4
<1>3. CASE Bytes8(c) = 3
  <2>1. s = <<224 + b, y, x>>
    BY <1>3 DEF To8
  <2>2. c \in Nat /\ c >= 2048 /\ c < 65536
    BY <1>3, BytesOf DEF base
  <2>3. a \in Nat /\ x \in 128 .. 191 /\ c = 64 * a + (x - 128)
    BY <2>2, SixBits
  <2>4. b \in Nat /\ y \in 128 .. 191 /\ a = 64 * b + (y - 128)
    BY <2>3, SixBits
  <2> HIDE DEF a, b, x, y
  <2>5. b \in 0 .. 15
    BY <2>2, <2>3, <2>4
  <2>6. /\ s[1] = 224 + b /\ s[2] = y /\ s[3] = x /\ Len(s) = 3
        /\ s \in Seq(Units(8))
    BY <2>1, <2>3, <2>4, <2>5 DEF Units
  <2>7. Trailing(s[1]) = 2
    BY <2>5, <2>6 DEF Trailing
  <2>8. Value8(s) = (s[1] * 64 + s[2]) * 64 + s[3] - 925824
    BY <2>6 DEF Value8
  <2>9. Value8(s) = ((224 + b) * 64 + y) * 64 + x - 925824
    BY <2>6, <2>8
  <2>10. Value8(s) = c
    BY <2>3, <2>4, <2>5, <2>9
  <2> QED
    BY <2>6, <2>7, <2>10
<1>4. CASE Bytes8(c) = 4
  <2>1. s = <<240 + d, z, y, x>>
    BY <1>4 DEF To8
  <2>2. c \in Nat /\ c >= 65536 /\ c <= 1114111
    BY <1>4, BytesOf DEF base, maxUtf32
  <2>3. a \in Nat /\ x \in 128 .. 191 /\ c = 64 * a + (x - 128)
    BY <2>2, SixBits
  <2>4. b \in Nat /\ y \in 128 .. 191 /\ a = 64 * b + (y - 128)
    BY <2>3, SixBits
  <2>5. d \in Nat /\ z \in 128 .. 191 /\ b = 64 * d + (z - 128)
    BY <2>4, SixBits
  <2> HIDE DEF a, b, d, x, y, z
  <2>6. d \in 0 .. 4
    BY <2>2, <2>3, <2>4, <2>5
  <2>7. /\ s[1] = 240 + d /\ s[2] = z /\ s[3] = y /\ s[4] = x /\ Len(s) = 4
        /\ s \in Seq(Units(8))
    BY <2>1, <2>3, <2>4, <2>5, <2>6 DEF Units
  <2>8. Trailing(s[1]) = 3
    BY <2>6, <2>7 DEF Trailing
  <2>9. Value8(s) =
          ((s[1] * 64 + s[2]) * 64 + s[3]) * 64 + s[4] - 63447168
    BY <2>7 DEF Value8
  <2>10. Value8(s) = (((240 + d) * 64 + z) * 64 + y) * 64 + x - 63447168
    BY <2>7, <2>9
  <2>11. Value8(s) = c
    BY <2>3, <2>4, <2>5, <2>6, <2>10
  <2> QED
    BY <2>7, <2>8, <2>11
<1>5. Bytes8(c) # 0
  BY DEF To8
<1> QED
  BY <1>1, <1>2, <1>3, <1>4, <1>5, BytesOf

LEMMA UnitsOf ==
  /\ Units(8) = 0 .. 255
  /\ Units(16) = 0 .. maxbmp
  /\ Units(32) = Int
  /\ maxbmp \in Nat
BY DEF Units, maxbmp

(* And in UTF-16 every one but the surrogates (utf32To16, utf16To32).      *)
LEMMA ReadBack16 ==
  ASSUME NEW c \in Int, NEW s, s = To16(c), s # Illegal
  PROVE  /\ s \in Seq(Units(16)) /\ Len(s) \in 1 .. 4 /\ Len(s) <= 2
         /\ Len(s) = 2 => c > maxbmp
         /\ ~Low(c) => /\ \/ Len(s) = 2 /\ High(s[1]) /\ Low(s[2])
                          \/ Len(s) = 1 /\ ~High(s[1]) /\ ~Low(s[1])
                       /\ Value16(s) = c
<1> DEFINE k == c - 65536  h == k \div 1024  l == k % 1024
<1>1. CASE c >= 0 /\ c <= 65535
  <2>1. s = <<c>> /\ ~(c >= highBegin /\ c <= lowBegin)
    BY <1>1 DEF To16, maxbmp, maxUtf32
  <2>a. c >= 0 /\ c <= maxbmp
    BY <1>1 DEF maxbmp
  <2>2. s[1] = c /\ Len(s) = 1 /\ s \in Seq(Units(16))
    BY <2>1, <2>a, UnitsOf
  <2> QED
    BY <2>1, <2>2 DEF Value16, Low, High, highBegin, highEnd, lowBegin
<1>2. CASE c > 65535 /\ c <= 1114111
  <2>1. s = <<h + 55296, l + 56320>>
    BY <1>2 DEF To16, base, maxbmp, maxUtf32, highBegin, lowBegin
  <2>2. k \in Nat /\ k <= 1048575 /\ c = 65536 + k
    BY <1>2
  <2> HIDE DEF k
  <2>3. h \in Nat /\ l \in 0 .. 1023 /\ k = 1024 * h + l
    BY <2>2
  <2>4. h <= 1023
    BY <2>2, <2>3
  <2> HIDE DEF h, l
  <2>5. s[1] = h + 55296 /\ s[2] = l + 56320 /\ Len(s) = 2
    BY <2>1
  <2>6. h + 55296 \in Units(16) /\ l + 56320 \in Units(16)
    <3>1. /\ h + 55296 >= 0 /\ h + 55296 <= maxbmp
          /\ l + 56320 >= 0 /\ l + 56320 <= maxbmp
      BY <2>3, <2>4 DEF maxbmp
    <3> QED
      BY <2>3, <3>1, UnitsOf
  <2>7. s \in Seq(Units(16))
    BY <2>1, <2>6
  <2>8. High(s[1]) /\ Low(s[2])
    BY <2>3, <2>4, <2>5 DEF High, Low, highBegin, highEnd, lowBegin, lowEnd
  <2>9. Value16(s) = (s[1] - 55296) * 1024 + (s[2] - 56320) + 65536
    BY <2>5 DEF Value16, highBegin, lowBegin, base
  <2>10. Value16(s) = c
    BY <2>2, <2>3, <2>5, <2>9
  <2>11. c > maxbmp
    BY <1>2 DEF maxbmp
  <2> QED
    BY <2>5, <2>7, <2>8, <2>10, <2>11
<1>3. CASE ~(c >= 0 /\ c <= 1114111)
  <2>1. To16(c) = Illegal
    BY <1>3 DEF To16, maxUtf32
  <2> QED
    BY <2>1
<1> QED
  BY <1>1, <1>2, <1>3

-----------------------------------------------------------------------------
(* One turn of the loop: what is written, by the encoding it is in.        *)
LEMMA WrittenUnits ==
  ASSUME NEW e \in Encodings, NEW c \in Int, NEW s,
         s = Encode(e, c), s # Illegal
  PROVE  /\ s \in Seq(Units(e)) /\ Len(s) \in 1 .. 4
         /\ e = 16 => Len(s) <= 2 /\ (Len(s) = 2 => c > maxbmp)
         /\ e = 32 => Len(s) = 1
         /\ \/ Readable(e, s) /\ Value(e, s) = c
            \/ e = 16 /\ Low(c)
<1>1. CASE e = 8
  <2>1. s = To8(c)
    BY <1>1 DEF Encode
  <2>2. Readable(8, s) /\ Value(8, s) = c
    BY <2>1, ReadBack8 DEF Readable, Value
  <2> QED
    BY <1>1, <2>1, <2>2, ReadBack8
<1>2. CASE e = 16
  <2>1. s = To16(c)
    BY <1>2 DEF Encode
  <2>2. ~Low(c) => Readable(16, s) /\ Value(16, s) = c
    BY <2>1, ReadBack16 DEF Readable, Value
  <2>3. /\ s \in Seq(Units(16)) /\ Len(s) \in 1 .. 4 /\ Len(s) <= 2
        /\ Len(s) = 2 => c > maxbmp
    BY <2>1, ReadBack16
  <2>4. e # 32
    BY <1>2
  <2> QED
    BY <1>2, <2>2, <2>3, <2>4, Zenon
<1>3. CASE e = 32
  <2>1. s = <<c>>
    BY <1>3 DEF Encode
  <2>2. s \in Seq(Int) /\ Len(s) = 1 /\ s[1] = c
    BY <2>1
  <2> QED
    BY <1>3, <2>2, UnitsOf DEF Readable, Value
<1> QED
  BY <1>1, <1>2, <1>3 DEF Encodings

(* And what is read: at least one unit, at most one behind the end of the  *)
(* source, and that in UTF-16 only.                                        *)
LEMMA ReadUnits ==
  ASSUME TypeOK, Inside, NEW units \in Reads, units # Illegal
  PROVE  /\ units \in Seq(Units(from)) /\ Len(units) \in 1 .. 4
         /\ pos + Len(units) <= Len(src) + 1
         /\ from = 8 => pos + Len(units) <= Len(src)
         /\ Value(from, units) \in Int
         /\ from = 8 /\ Len(units) = 1 => Value(from, units) <= maxbmp
<1>1. /\ pos \in Nat /\ pos < Len(src) /\ Len(src) \in Nat
      /\ pos + 1 \in 1 .. Len(src) /\ src[pos + 1] \in Units(from)
  BY DEF TypeOK, Inside
<1>0. from \in Encodings /\ \A i \in 1 .. Len(src) : src[i] \in Units(from)
  BY DEF TypeOK
<1>2. CASE from = 32
  <2>1. units = SubSeq(src, pos + 1, pos + 1)
    BY <1>2 DEF Reads, Reads32
  <2>2. units \in Seq(Int) /\ Len(units) = 1
    <3>1. \A i \in pos + 1 .. pos + 1 : src[i] \in Int
      BY <1>1, <1>2, UnitsOf
    <3>2. pos + 1 \in Int /\ (pos + 1) - (pos + 1) + 1 = 1
      BY <1>1
    <3> QED
      BY <2>1, <3>1, <3>2, SubSeqProperties
  <2>3. units[1] \in Int
    BY <2>2, ElementOfSeq
  <2> QED
    BY <1>1, <1>2, <2>2, <2>3, UnitsOf DEF Value
<1>3. CASE from = 16
  <2> DEFINE c1 == src[pos + 1]
             behind == IF pos + 1 < Len(src) THEN {src[pos + 2]} ELSE Beyond
  <2>1. behind \subseteq Units(16)
    BY <1>0, <1>1, <1>3, UtfConvertAssumption
  <2>2. c1 \in Units(16)
    BY <1>1, <1>3
  <2>3. \/ units = <<c1>>
        \/ \E c2 \in behind : units = <<c1, c2>>
    <3>1. units \in Reads16
      BY <1>3 DEF Reads
    <3>2. Reads16 = IF High(c1)
                    THEN {IF Low(c2) THEN <<c1, c2>> ELSE Illegal :
                            c2 \in behind}
                    ELSE {IF Low(c1) THEN Illegal ELSE <<c1>>}
      BY DEF Reads16
    <3> HIDE DEF behind, c1
    <3> QED
      BY <3>1, <3>2
  <2> HIDE DEF behind, c1
  <2>4. CASE units = <<c1>>
    <3>1. units \in Seq(Units(16)) /\ Len(units) = 1 /\ units[1] \in Int
      BY <2>2, <2>4, UnitsOf
    <3> QED
      BY <1>1, <1>3, <3>1 DEF Value, Value16
  <2>5. CASE \E c2 \in behind : units = <<c1, c2>>
    <3>1. /\ units \in Seq(Units(16)) /\ Len(units) = 2
          /\ units[1] \in Int /\ units[2] \in Int
      BY <2>1, <2>2, <2>5, UnitsOf
    <3>2. Value(16, units) \in Int
      BY <3>1 DEF Value, Value16, highBegin, lowBegin, base
    <3> QED
      BY <1>1, <1>3, <3>1, <3>2
  <2> QED
    BY <2>3, <2>4, <2>5
<1>4. CASE from = 8
  <2> DEFINE bytes == Trailing(src[pos + 1])
  <2>1. units = SubSeq(src, pos + 1, pos + 1 + bytes)
    BY <1>4 DEF Reads, Reads8
  <2>2. pos + bytes < Len(src) /\ bytes <= 3 /\ bytes \in Nat
    <3>1. bytes \in Nat
      BY DEF Trailing
    <3>2. ~(pos + bytes >= Len(src) \/ bytes > 3)
      BY <1>4 DEF Reads, Reads8
    <3> HIDE DEF bytes
    <3> QED
      BY <1>1, <3>1, <3>2
  <2> HIDE DEF bytes
  <2>3. /\ units \in Seq(Units(8)) /\ Len(units) = bytes + 1
    <3>1. \A i \in pos + 1 .. pos + 1 + bytes : src[i] \in Units(8)
      BY <1>0, <1>1, <1>4, <2>2
    <3>2. /\ pos + 1 \in Int /\ pos + 1 + bytes \in Int
          /\ pos + 1 <= pos + 1 + bytes
          /\ (pos + 1 + bytes) - (pos + 1) + 1 = bytes + 1
      BY <1>1, <2>2
    <3> QED
      BY <2>1, <3>1, <3>2, SubSeqProperties
  <2>4. \A i \in 1 .. Len(units) : units[i] \in Int /\ units[i] <= 255
    <3>1. \A n \in 0 .. 255 : n \in Int /\ n <= 255
      OBVIOUS
    <3>2. \A i \in 1 .. Len(units) : units[i] \in Units(8)
      BY <2>3, ElementOfSeq
    <3> QED
      BY <3>1, <3>2, UnitsOf, Zenon
  <2>5. Value8(units) \in Int
    <3>1. CASE bytes = 0
      BY <2>3, <2>4, <3>1 DEF Value8
    <3>2. CASE bytes = 1
      BY <2>3, <2>4, <3>2 DEF Value8
    <3>3. CASE bytes = 2
      BY <2>3, <2>4, <3>3 DEF Value8
    <3>4. CASE bytes = 3
      <4>1. Len(units) = 4
        BY <2>3, <3>4
      <4>2. /\ units[1] \in Int /\ units[2] \in Int
            /\ units[3] \in Int /\ units[4] \in Int
        BY <2>4, <4>1
      <4> QED
        BY <4>1, <4>2, SMT DEF Value8
    <3> QED
      BY <2>2, <3>1, <3>2, <3>3, <3>4
  <2>6. Len(units) = 1 => Value8(units) <= maxbmp
    <3> SUFFICES ASSUME Len(units) = 1 PROVE Value8(units) <= maxbmp
      OBVIOUS
    <3>1. Value8(units) = units[1] /\ units[1] \in Int /\ units[1] <= 255
      BY <2>4 DEF Value8
    <3> QED
      BY <3>1 DEF maxbmp
  <2> QED
    <3>1. Value(from, units) = Value8(units)
      BY <1>4 DEF Value
    <3>2. Len(units) \in 1 .. 4 /\ pos + Len(units) <= Len(src)
      BY <1>1, <2>2, <2>3
    <3> QED
      BY <1>1, <1>4, <2>3, <2>5, <2>6, <3>1, <3>2
<1> QED
  BY <1>0, <1>2, <1>3, <1>4 DEF Encodings

-----------------------------------------------------------------------------
(* What a wrapper allocates, in units for each unit of the source.         *)
Share == IF to = 8 \/ <<from, to>> = <<32, 16>> THEN 4 ELSE 1

(* The part of RoomInv that says how much has been written.                *)
RoomKept ==
  room = WrapperRoom(Len(src)) =>
    /\ Len(dst) <= room /\ Len(dst) <= WrapperRoom(pos)
    /\ pc # "range"
    /\ pc = "done" => pos >= Len(src)

LEMMA ShareOf ==
  ASSUME NEW n \in Nat
  PROVE  WrapperRoom(n) = Share * n /\ Share \in {1, 4}
BY DEF WrapperRoom, Share

(* Init establishes it, and every step keeps it.                           *)
LEMMA InitRoom == Init => RoomInv
<1> SUFFICES ASSUME Init PROVE RoomInv
  OBVIOUS
<1>1. TypeOK
  BY UtfConvertAssumption DEF Init, TypeOK, WrapperRoom
<1>2. Len(src) \in Nat /\ Len(dst) = 0 /\ pos = 0 /\ pc = "loop" /\ room \in Nat
  BY <1>1 DEF Init, TypeOK
<1>3. AtMostOnePast
  BY <1>2 DEF AtMostOnePast
<1> QED
  BY <1>1, <1>2, <1>3, ShareOf DEF RoomInv

(* One turn of the loop, that writes what it has read.                     *)
LEMMA ConvertStep ==
  ASSUME TypeOK, Convert
  PROVE  /\ TypeOK'
         /\ \E s \in Seq(Units(to)) :
              /\ dst' = dst \o s /\ Len(dst') = Len(dst) + Len(s)
              /\ Written = s
              /\ \/ Readable(to, s) /\ Value(to, s) = code'
                 \/ to = 16 /\ Low(code')
              /\ Len(s) >= 1 /\ Len(s) <= 4
              /\ to = 32 => Len(s) = 1
              /\ to = 16 => Len(s) <= 2
              /\ to = 8 => Len(dst') <= room
              /\ from = 8 => Len(s) <= pos' - pos /\ pos' <= Len(src)
         /\ pos' > pos /\ pos < Len(src) /\ pos' \in Nat
<1>1. PICK units \in Reads \ {Illegal} :
        LET c == Value(from, units)
            written == Encode(to, c)
        IN  /\ written # Illegal /\ Fits(written)
            /\ pos' = pos + Len(units)
            /\ dst' = dst \o written
            /\ code' = c
  BY DEF Convert
<1> DEFINE s == Encode(to, code')
<1>2. Inside /\ UNCHANGED <<from, to, src, room, text, pc>>
  BY DEF Convert, call
<1>3. /\ units \in Seq(Units(from)) /\ Len(units) \in 1 .. 4
      /\ pos + Len(units) <= Len(src) + 1
      /\ from = 8 => pos + Len(units) <= Len(src)
      /\ Value(from, units) \in Int
      /\ from = 8 /\ Len(units) = 1 => Value(from, units) <= maxbmp
  BY <1>1, <1>2, ReadUnits
<1>4. /\ code' \in Int /\ s # Illegal /\ Fits(s)
      /\ pos' = pos + Len(units) /\ dst' = dst \o s
      /\ code' = Value(from, units)
  BY <1>1, <1>3
<1> HIDE DEF s
<1>5. to \in Encodings /\ from \in Encodings /\ from # to
  BY DEF TypeOK
<1>6. /\ s \in Seq(Units(to)) /\ Len(s) \in 1 .. 4
      /\ to = 16 => Len(s) <= 2 /\ (Len(s) = 2 => code' > maxbmp)
      /\ to = 32 => Len(s) = 1
      /\ \/ Readable(to, s) /\ Value(to, s) = code'
         \/ to = 16 /\ Low(code')
  BY <1>4, <1>5, WrittenUnits DEF s
<1> DEFINE n == Len(s)  m == Len(units)
<1>n. n \in Nat /\ n >= 1 /\ n <= 4 /\ m \in Nat /\ m >= 1
  <2>1. \A i \in 1 .. 4 : i \in Nat /\ i >= 1 /\ i <= 4
    OBVIOUS
  <2> QED
    BY <1>3, <1>6, <2>1
<1>7. dst \in Seq(Units(to)) /\ pos \in Nat /\ Len(src) \in Nat /\ room \in Nat
  BY DEF TypeOK
<1>8. dst' \in Seq(Units(to)) /\ Len(dst') = Len(dst) + Len(s)
  BY <1>4, <1>6, <1>7, ConcatProperties
<1>9. Written = s
  BY <1>4, <1>6, <1>7
  DEF Written
<1>10. pos' > pos /\ pos < Len(src) /\ pos' \in Nat /\ pos' <= Len(src) + 1
  <2>1. pos' = pos + m /\ pos + m <= Len(src) + 1
    BY <1>3, <1>4
  <2>2. pos < Len(src)
    BY <1>2 DEF Inside
  <2> HIDE DEF m
  <2> QED
    BY <1>7, <1>n, <2>1, <2>2
<1>11. from = 8 => Len(s) <= pos' - pos /\ pos' <= Len(src)
  <2> SUFFICES ASSUME from = 8
               PROVE  n <= m /\ pos' <= Len(src)
    BY <1>4, <1>7, <1>n
  <2>1. to = 16 \/ to = 32
    BY <1>5 DEF Encodings
  <2>2. n = 1 \/ (n = 2 /\ code' > maxbmp)
    <3>1. CASE to = 16
      <4>1. n <= 2 /\ (n = 2 => code' > maxbmp)
        BY <1>6, <3>1
      <4> HIDE DEF n
      <4> QED
        BY <1>n, <4>1
    <3>2. CASE to = 32
      BY <1>6, <3>2
    <3> QED
      BY <2>1, <3>1, <3>2
  <2>3. m = 1 => code' <= maxbmp
    BY <1>3, <1>4
  <2>4. pos' <= Len(src)
    BY <1>3, <1>4
  <2> HIDE DEF m, n
  <2>5. ~(code' > maxbmp /\ code' <= maxbmp)
    BY <1>4, UnitsOf
  <2> QED
    BY <1>n, <2>2, <2>3, <2>4, <2>5
<1>12. to = 8 => Len(dst') <= room
  BY <1>4, <1>8 DEF Fits
<1>13. TypeOK'
  <2>1. pos' \in 0 .. Len(src) + 1
    BY <1>7, <1>10
  <2> QED
    BY <1>2, <1>4, <1>8, <2>1 DEF TypeOK
<1> QED
  BY <1>4, <1>6, <1>n, <1>8, <1>9, <1>10, <1>11, <1>12, <1>13

(* Only towards UTF-16 more than one unit is written without a test, and   *)
(* then two, where there was room for one.                                 *)
LEMMA NextPast ==
  ASSUME TypeOK, AtMostOnePast, [Next]_vars
  PROVE  AtMostOnePast'
<1>1. CASE Convert
  <2>1. to' = to /\ room' = room /\ Len(dst) < room
    BY <1>1 DEF Convert, call, Inside
  <2>2. Len(dst) \in Nat /\ room \in Nat /\ to \in Encodings
    BY DEF TypeOK
  <2>3. PICK n \in Nat :
          /\ Len(dst') = Len(dst) + n
          /\ to = 32 => n = 1
          /\ to = 16 => n <= 2
          /\ to = 8 => Len(dst') <= room
    BY <1>1, ConvertStep, LenProperties
  <2> DEFINE D == Len(dst)  E == Len(dst')
  <2>4. D \in Nat /\ D < room /\ E = D + n
    BY <2>1, <2>2, <2>3
  <2>5. CASE to = 8
    BY <2>1, <2>2, <2>3, <2>5 DEF AtMostOnePast
  <2>6. CASE to = 32
    <3>1. n = 1 /\ E <= room
      <4>1. n = 1
        BY <2>3, <2>6
      <4> HIDE DEF D, E
      <4> QED
        BY <2>2, <2>4, <4>1
    <3> QED
      BY <2>1, <2>2, <2>4, <3>1 DEF AtMostOnePast
  <2>7. CASE to = 16
    <3>1. E <= room + 1
      <4>1. n <= 2
        BY <2>3, <2>7
      <4> HIDE DEF D, E
      <4> QED
        BY <2>2, <2>4, <4>1
    <3> QED
      BY <2>1, <2>7, <3>1 DEF AtMostOnePast
  <2> QED
    BY <2>2, <2>5, <2>6, <2>7 DEF Encodings
<1>2. CASE ~Convert
  <2>1. UNCHANGED <<to, room, dst>>
    BY <1>2 DEF Next, IllegalSource, IllegalCode, NoRoom, Return, Throw, call, vars
  <2> QED
    BY <2>1 DEF AtMostOnePast
<1> QED
  BY <1>1, <1>2

LEMMA NextRoom ==
  ASSUME RoomInv, [Next]_vars
  PROVE  RoomInv'
<1>1. TypeOK /\ RoomKept
  BY DEF RoomInv, RoomKept
<1>0. AtMostOnePast'
  BY NextPast DEF RoomInv
<1>2. /\ Len(src) \in Nat /\ Len(dst) \in Nat /\ pos \in Nat /\ room \in Nat
      /\ from \in Encodings /\ to \in Encodings /\ from # to
  BY <1>1 DEF TypeOK
<1>3. CASE Convert
  <2>1. /\ UNCHANGED <<from, to, src, room, pc>> /\ pc = "loop"
        /\ Len(dst) < room
    BY <1>3 DEF Convert, call, Inside
  <2>2. PICK n \in Nat :
          /\ n >= 1 /\ n <= 4 /\ Len(dst') = Len(dst) + n
          /\ to = 32 => n = 1
          /\ from = 8 => n <= pos' - pos /\ pos' <= Len(src)
    BY <1>1, <1>3, ConvertStep, LenProperties
  <2>3. TypeOK' /\ pos' > pos /\ pos < Len(src) /\ pos' \in Nat
    BY <1>1, <1>3, ConvertStep
  <2>4. SUFFICES ASSUME room = Share * Len(src)
                 PROVE  Len(dst') <= room /\ Len(dst') <= Share * pos'
    <3>1. Share' = Share
      BY <2>1 DEF Share
    <3>2. /\ WrapperRoom(Len(src)) = Share * Len(src)
          /\ WrapperRoom(Len(src))' = Share * Len(src)
          /\ WrapperRoom(pos)' = Share * pos'
      BY <1>2, <2>1, <2>3, ShareOf DEF WrapperRoom, Share
    <3> QED
      BY <1>0, <2>1, <2>3, <3>2 DEF RoomInv
  <2>5. Len(dst) <= Share * pos
    BY <1>1, <1>2, <2>4, ShareOf DEF RoomKept
  <2>6. CASE from = 8
    <3>1. Share = 1
      BY <1>2, <2>6 DEF Share, Encodings
    <3>2. room = Len(src) /\ Len(dst) <= pos
      BY <1>2, <2>4, <2>5, <3>1
    <3>3. n <= pos' - pos /\ pos' <= Len(src) /\ Len(dst') = Len(dst) + n
      BY <2>2, <2>6
    <3>4. pos' \in Nat
      BY <2>3
    <3> DEFINE L == Len(src)  D == Len(dst)  E == Len(dst')  q == pos'
    <3>5. L \in Nat /\ D \in Nat /\ pos \in Nat /\ room = L /\ D <= pos
      BY <1>2, <3>2
    <3>6. n <= q - pos /\ q <= L /\ q \in Nat /\ E = D + n
      BY <3>3, <3>4
    <3> HIDE DEF L, D, E, q
    <3>7. E <= q /\ E <= room
      BY <3>5, <3>6
    <3> QED
      BY <3>1, <3>4, <3>7 DEF E, q
  <2>7. CASE from # 8
    <3>1. CASE Share = 1
      <4>1. n = 1
        BY <1>2, <2>2, <2>7, <3>1 DEF Share, Encodings
      <4> QED
        BY <1>2, <2>2, <2>3, <2>4, <2>5, <3>1, <4>1
    <3>2. CASE Share = 4
      <4>1. room = 4 * Len(src) /\ Len(dst) <= 4 * pos
        BY <1>2, <2>4, <2>5, <3>2
      <4>2. Len(dst') <= 4 * pos' /\ Len(dst') <= room
        <5>1. n <= 4 /\ Len(dst') = Len(dst) + n
          BY <2>2
        <5>2. pos' > pos /\ pos < Len(src) /\ pos' \in Nat
          BY <2>3
        <5> DEFINE L == Len(src)  D == Len(dst)  E == Len(dst')  q == pos'
        <5>3. /\ L \in Nat /\ D \in Nat /\ pos \in Nat
              /\ room = 4 * L /\ D <= 4 * pos
          BY <1>2, <4>1
        <5>4. pos < L /\ q > pos /\ q \in Nat /\ n <= 4 /\ E = D + n
          BY <5>1, <5>2
        <5> HIDE DEF L, D, E, q
        <5>5. E <= 4 * q /\ E <= room
          BY <5>3, <5>4
        <5> QED
          BY <5>5 DEF E, q
      <4> QED
        BY <2>3, <3>2, <4>2
    <3> QED
      BY <3>1, <3>2 DEF Share
  <2> QED
    BY <2>6, <2>7
<1> DEFINE same == UNCHANGED <<from, to, src, room, text, pos, dst, code>>
<1>4. ASSUME same, pc' \in {"illegal", "range", "done", pc},
             room = WrapperRoom(Len(src)) => pc' # "range",
             pc' = "done" => pc = "done" \/ pos >= Len(src) \/ Len(dst) >= room
      PROVE  RoomInv'
  <2>1. TypeOK'
    BY <1>1, <1>4 DEF TypeOK
  <2>2. ASSUME room = WrapperRoom(Len(src)), pc' = "done"
        PROVE  pos >= Len(src)
    <3>1. CASE pc = "done"
      BY <1>1, <2>2, <3>1 DEF RoomKept
    <3>2. CASE Len(dst) >= room
      <4>1. /\ Len(dst) <= Share * pos /\ room = Share * Len(src)
            /\ Share = 1 \/ Share = 4
        BY <1>1, <1>2, <2>2, ShareOf DEF RoomKept
      <4>2. Share * Len(src) <= Share * pos
        BY <1>2, <3>2, <4>1
      <4> QED
        BY <1>2, <4>1, <4>2
    <3> QED
      BY <1>4, <2>2, <3>1, <3>2
  <2>3. /\ WrapperRoom(Len(src))' = WrapperRoom(Len(src))
        /\ WrapperRoom(pos)' = WrapperRoom(pos)
    BY <1>4 DEF WrapperRoom
  <2> QED
    BY <1>0, <1>1, <1>4, <2>1, <2>2, <2>3 DEF RoomInv, RoomKept
<1>5. CASE NoRoom
  <2>1. PICK units \in Reads \ {Illegal} :
          ~Fits(Encode(to, Value(from, units)))
    BY <1>5 DEF NoRoom
  <2>2. Inside /\ same /\ pc' = "range"
    BY <1>5 DEF NoRoom, Throw, call
  <2> DEFINE s == Encode(to, Value(from, units))  n == Len(s)
  <2>3. to = 8 /\ ~(Len(dst) + n <= room)
    BY <2>1 DEF Fits
  <2>4. n \in Nat /\ n <= 4
    <3>1. CASE s = Illegal
      BY <3>1 DEF Illegal
    <3>2. CASE s # Illegal
      <4>1. Value(from, units) \in Int
        BY <1>1, <2>1, <2>2, ReadUnits
      <4>2. s \in Seq(Units(to)) /\ Len(s) \in 1 .. 4
        BY <1>2, <3>2, <4>1, WrittenUnits
      <4>3. \A i \in 1 .. 4 : i \in Nat /\ i <= 4
        OBVIOUS
      <4> QED
        BY <4>2, <4>3
    <3> QED
      BY <3>1, <3>2
  <2> HIDE DEF s, n
  <2>5. room # WrapperRoom(Len(src))
    <3> SUFFICES ASSUME room = WrapperRoom(Len(src))
                 PROVE  Len(dst) + n <= room
      BY <2>3
    <3>1. Share = 4
      BY <2>3 DEF Share
    <3>2. Len(dst) <= 4 * pos /\ room = 4 * Len(src)
      BY <1>1, <1>2, <3>1, ShareOf DEF RoomKept
    <3>3. pos < Len(src)
      BY <2>2 DEF Inside
    <3> QED
      BY <1>2, <2>4, <3>2, <3>3
  <2> QED
    BY <1>4, <2>2, <2>5
<1>6. CASE IllegalSource \/ IllegalCode
  <2>1. same /\ pc' = "illegal"
    BY <1>6 DEF IllegalSource, IllegalCode, Throw, call
  <2> QED
    BY <1>4, <2>1
<1>7. CASE Return
  <2>1. same /\ pc' = "done" /\ (pos >= Len(src) \/ Len(dst) >= room)
    BY <1>7 DEF Return, call
  <2> QED
    BY <1>4, <2>1
<1>8. CASE UNCHANGED vars
  <2>1. same /\ pc' = pc
    BY <1>8 DEF vars, call
  <2>2. room = WrapperRoom(Len(src)) => pc' # "range"
    BY <1>1, <2>1 DEF RoomKept
  <2> QED
    BY <1>4, <2>1, <2>2
<1> QED
  BY <1>3, <1>5, <1>6, <1>7, <1>8 DEF Next

(* The types, at most one unit past any room, none past it towards UTF-8   *)
(* and UTF-32, and the share of a wrapper's room, in every state.          *)
THEOREM RoomInvHolds == Spec => []RoomInv
BY InitRoom, NextRoom, PTL DEF Spec

(* toWide and toNarrow of utf.cpp allocate enough for any source at all.   *)
THEOREM WrapperFitsHolds == Spec => []WrapperFits
<1>1. RoomInv => WrapperFits
  BY DEF RoomInv, WrapperFits
<1> QED
  BY <1>1, RoomInvHolds, PTL

(* Every character that is written reads back as the code point that was   *)
(* read, for every source, every code point and each of the six            *)
(* conversions.                                                            *)
THEOREM ReadsBackHolds == Spec => ReadsBack
<1>1. ASSUME RoomInv, [Next]_vars
      PROVE  [dst' # dst =>
                \/ Readable(to, Written) /\ Value(to, Written) = code'
                \/ to = 16 /\ Low(code')]_vars
  <2>1. CASE Convert
    <3>1. TypeOK
      BY <1>1 DEF RoomInv
    <3>2. \/ Readable(to, Written) /\ Value(to, Written) = code'
          \/ to = 16 /\ Low(code')
      BY <2>1, <3>1, ConvertStep, Zenon
    <3> QED
      BY <3>2
  <2>2. CASE ~Convert
    <3>1. dst' = dst
      BY <1>1, <2>2 DEF Next, IllegalSource, IllegalCode, NoRoom, Return, Throw,
                        vars
    <3> QED
      BY <3>1
  <2> QED
    BY <2>1, <2>2
<1> QED
  BY <1>1, RoomInvHolds, PTL DEF Spec, ReadsBack
-----------------------------------------------------------------------------
(* A text of scalar values.                                                *)

(* Where the units of each character of t end.                             *)
Ends(e, t) == CHOOSE at \in [0 .. Len(t) -> 0 .. Len(Encoded[e][t])] :
                LaidOut(e, t, Encoded[e][t], at)

LEMMA TextType ==
  ASSUME NEW t \in Texts
  PROVE  /\ t \in Seq(0 .. maxUtf32) /\ Len(t) \in Nat
         /\ \A i \in 1 .. Len(t) : t[i] \in Int /\ 0 <= t[i] /\ t[i] <= maxUtf32
                                   /\ t[i] \notin Surrogates
<1>1. t \in Seq(0 .. maxUtf32) /\ \A i \in 1 .. Len(t) : t[i] \notin Surrogates
  BY UtfConvertAssumption
<1>2. \A i \in 1 .. Len(t) : t[i] \in 0 .. maxUtf32
  BY <1>1, ElementOfSeq
<1>3. maxUtf32 \in Int
  BY SMT DEF maxUtf32
<1> QED
  BY <1>1, <1>2, <1>3, LenProperties

(* A scalar value is never refused, and reads back.                        *)
LEMMA ScalarWritten ==
  ASSUME NEW e \in Encodings, NEW c \in Int, 0 <= c, c <= maxUtf32, c \notin Surrogates
  PROVE  /\ Encode(e, c) \in Seq(Units(e)) /\ Len(Encode(e, c)) \in 1 .. 4
         /\ Encode(e, c) # Illegal
         /\ Readable(e, Encode(e, c)) /\ Value(e, Encode(e, c)) = c
<1>1. ~Low(c)
  BY SMT DEF Low, Surrogates, highBegin, lowBegin, lowEnd
<1>0. maxUtf32 \in Int /\ base \in Int /\ lowBegin \in Int /\ highBegin \in Int
  BY SMT DEF maxUtf32, base, lowBegin, highBegin
<1>2. Encode(e, c) # Illegal
  <2>1. CASE e = 8
    <3>1. Bytes8(c) # 0
      BY <1>0, SMT DEF Bytes8
    <3> QED
      BY <2>1, <3>1 DEF Encode, To8, Illegal
  <2>2. CASE e = 16
    <3>1. ~(c < 0 \/ c > maxUtf32)
      BY <1>0
    <3>2. ~(c >= highBegin /\ c <= lowBegin)
      BY SMT DEF Surrogates, highBegin, lowBegin, lowEnd
    <3> QED
      BY <2>2, <3>1, <3>2 DEF Encode, To16, Illegal
  <2>3. CASE e = 32
    BY <2>3 DEF Encode, Illegal
  <2> QED
    BY <2>1, <2>2, <2>3 DEF Encodings
<1> DEFINE s == Encode(e, c)
<1>3. s # Illegal /\ s = Encode(e, c)
  BY <1>2
<1> HIDE DEF s
<1>4. /\ s \in Seq(Units(e)) /\ Len(s) \in 1 .. 4
      /\ Readable(e, s) /\ Value(e, s) = c
  BY <1>1, <1>3, WrittenUnits
<1> QED
  BY <1>3, <1>4

(* The units of a text from the end of one character to that of the next.  *)
LEMMA EndsAre ==
  ASSUME NEW e \in Encodings, NEW t \in Texts
  PROVE  /\ Encoded[e][t] \in Seq(Units(e)) /\ Len(Encoded[e][t]) \in Nat
         /\ Ends(e, t)[0] = 0 /\ Ends(e, t)[Len(t)] = Len(Encoded[e][t])
         /\ \A n \in 0 .. Len(t) : Ends(e, t)[n] \in 0 .. Len(Encoded[e][t])
         /\ \A n \in 0 .. Len(t) : n # Len(t) =>
              /\ n + 1 \in 1 .. Len(t)
              /\ Ends(e, t)[n + 1] = Ends(e, t)[n] + Len(Encode(e, t[n + 1]))
              /\ SubSeq(Encoded[e][t], Ends(e, t)[n] + 1, Ends(e, t)[n + 1])
                   = Encode(e, t[n + 1])
<1> DEFINE s == Encoded[e][t]  at == Ends(e, t)
<1>1. s \in Seq(Units(e)) /\ \E f \in [0 .. Len(t) -> 0 .. Len(s)] : LaidOut(e, t, s, f)
  BY UtfConvertAssumption
<1>2. at \in [0 .. Len(t) -> 0 .. Len(s)] /\ LaidOut(e, t, s, at)
  BY <1>1 DEF Ends
<1>3. Len(s) \in Nat /\ Len(t) \in Nat
  BY <1>1, TextType, LenProperties
<1> HIDE DEF s, at
<1>4. ASSUME NEW n \in 0 .. Len(t), n # Len(t)
      PROVE  /\ n + 1 \in 1 .. Len(t)
             /\ at[n + 1] = at[n] + Len(Encode(e, t[n + 1]))
             /\ SubSeq(s, at[n] + 1, at[n + 1]) = Encode(e, t[n + 1])
  <2>1. n + 1 \in 1 .. Len(t) /\ (n + 1) - 1 = n
    BY <1>3, <1>4
  <2> QED
    BY <1>2, <2>1 DEF LaidOut
<1>5. at[0] = 0 /\ at[Len(t)] = Len(s) /\ \A n \in 0 .. Len(t) : at[n] \in 0 .. Len(s)
  BY <1>2 DEF LaidOut
<1> QED
  BY <1>1, <1>3, <1>4, <1>5 DEF s, at

(* The same with the units one by one.                                     *)
StandsAt(c, e, point, s, a) ==
  /\ c # Illegal /\ Readable(e, c) /\ Value(e, c) = point
  /\ c \in Seq(Units(e)) /\ Len(c) \in 1 .. 4
  /\ a \in Nat /\ a + Len(c) <= Len(s)
  /\ SubSeq(s, a + 1, a + Len(c)) = c
  /\ \A j \in 1 .. Len(c) : s[a + j] = c[j]

LEMMA CharacterAt ==
  ASSUME NEW e \in Encodings, NEW t \in Texts, NEW n \in 0 .. Len(t), n # Len(t),
         NEW c, c = Encode(e, t[n + 1])
  PROVE  /\ StandsAt(c, e, t[n + 1], Encoded[e][t], Ends(e, t)[n])
         /\ Ends(e, t)[n + 1] = Ends(e, t)[n] + Len(c)
<1> DEFINE s == Encoded[e][t]  a == Ends(e, t)[n]  b == Ends(e, t)[n + 1]
<1>1. /\ n + 1 \in 1 .. Len(t) /\ b = a + Len(c) /\ SubSeq(s, a + 1, b) = c
      /\ s \in Seq(Units(e)) /\ Len(s) \in Nat /\ a \in 0 .. Len(s)
  BY EndsAre
<1>2. n + 1 \in 0 .. Len(t)
  BY <1>1, TextType
<1>3. b \in 0 .. Len(s)
  BY <1>2, EndsAre
<1>4. /\ t[n + 1] \in Int /\ 0 <= t[n + 1] /\ t[n + 1] <= maxUtf32
      /\ t[n + 1] \notin Surrogates
  BY <1>1, TextType
<1>5. /\ c \in Seq(Units(e)) /\ Len(c) \in 1 .. 4 /\ c # Illegal
      /\ Readable(e, c) /\ Value(e, c) = t[n + 1]
  BY <1>4, ScalarWritten
<1> HIDE DEF s, a, b
<1>6. /\ a \in Nat /\ a + Len(c) <= Len(s) /\ SubSeq(s, a + 1, a + Len(c)) = c
  <2>1. a \in Nat /\ b <= Len(s)
    BY <1>1, <1>3
  <2>2. b = a + Len(c) /\ SubSeq(s, a + 1, b) = c
    BY <1>1
  <2> QED
    BY <2>1, <2>2
<1>7. \A j \in 1 .. Len(c) : s[a + j] = c[j]
  <2> DEFINE x == a + 1  y == a + Len(c)
  <2>1. x \in Int /\ y \in Int /\ x <= y /\ y - x + 1 = Len(c) /\ y <= Len(s) /\ x >= 1
    <3> DEFINE m == Len(c)  k == Len(s)
    <3>1. m \in Nat /\ m >= 1 /\ a \in Nat /\ k \in Nat /\ a + m <= k
      <4>1. m \in Nat /\ m >= 1
        <5>1. \A i \in 1 .. 4 : i \in Nat /\ i >= 1
          OBVIOUS
        <5>2. m \in 1 .. 4
          BY <1>5
        <5> HIDE DEF m
        <5> QED
          BY <5>1, <5>2
      <4>2. k \in Nat
        BY <1>1
      <4> QED
        BY <1>6, <4>1, <4>2
    <3> HIDE DEF m, k
    <3>2. /\ a + 1 \in Int /\ a + m \in Int /\ a + 1 <= a + m
          /\ (a + m) - (a + 1) + 1 = m /\ a + m <= k /\ a + 1 >= 1
      BY <3>1
    <3> QED
      BY <3>2 DEF m, k
  <2>2. \A i \in 1 .. Len(s) : s[i] \in Units(e)
    BY <1>1, ElementOfSeq
  <2>3. \A j \in 1 .. Len(c) : x + j - 1 = a + j
    BY <1>5, <1>6
  <2>4. SubSeq(s, x, y) = c
    BY <1>6
  <2> HIDE DEF x, y
  <2>5. \A i \in x .. y : s[i] \in Units(e)
    BY <1>1, <2>1, <2>2
  <2>6. \A j \in 1 .. y - x + 1 : SubSeq(s, x, y)[j] = s[x + j - 1]
    BY <2>1, <2>5, SubSeqProperties
  <2> QED
    BY <2>1, <2>3, <2>4, <2>6
<1> QED
  BY <1>1, <1>5, <1>6, <1>7 DEF StandsAt, s, a, b

(* What a turn reads is the next character of the text.                    *)
LEMMA ReadsCharacter ==
  ASSUME TypeOK, Inside, text \in Texts, src = Encoded[from][text],
         NEW n \in 0 .. Len(text), n # Len(text), pos = Ends(from, text)[n]
  PROVE  Reads = {Encode(from, text[n + 1])}
<1> DEFINE c == Encode(from, text[n + 1])
<1>1. c = Encode(from, text[n + 1]) /\ from \in Encodings
  BY DEF TypeOK
<1> HIDE DEF c
<1>2. /\ c # Illegal /\ Readable(from, c) /\ Value(from, c) = text[n + 1]
      /\ c \in Seq(Units(from)) /\ Len(c) \in 1 .. 4
      /\ pos \in Nat /\ pos + Len(c) <= Len(src)
      /\ SubSeq(src, pos + 1, pos + Len(c)) = c
      /\ \A j \in 1 .. Len(c) : src[pos + j] = c[j]
  <2>1. StandsAt(c, from, text[n + 1], src, pos)
    BY <1>1, CharacterAt
  <2> QED
    BY <2>1 DEF StandsAt
<1>3. Len(src) \in Nat /\ src[pos + 1] = c[1]
  <2>1. Len(src) \in Nat
    BY DEF TypeOK
  <2>2. 1 \in 1 .. Len(c)
    BY <1>2
  <2> QED
    BY <1>2, <2>1, <2>2
<1>4. pos \in Nat /\ Len(src) \in Nat
  BY <1>2, <1>3
<1>5. Reads = {c}
  <2>1. CASE from = 32
    <3>1. Len(c) = 1
      BY <1>2, <2>1 DEF Readable
    <3> QED
      BY <1>2, <2>1, <3>1 DEF Reads, Reads32
  <2>2. CASE from = 16
    <3>1. CASE Len(c) = 2 /\ High(c[1]) /\ Low(c[2])
      <4>1. pos + 1 < Len(src) /\ src[pos + 2] = c[2]
        <5>1. 2 \in 1 .. Len(c) /\ pos + 2 <= Len(src)
          BY <1>2, <3>1
        <5>2. src[pos + 2] = c[2]
          BY <1>2, <5>1
        <5>3. pos + 1 < Len(src)
          BY <1>4, <5>1
        <5> QED
          BY <5>2, <5>3
      <4>2. c = <<c[1], c[2]>>
        <5>1. c \in Seq(Units(from)) /\ Len(c) = 2
          BY <1>2, <3>1, SMT
        <5> QED
          BY <5>1
      <4>3. Reads16 = {IF Low(c2) THEN <<c[1], c2>> ELSE Illegal : c2 \in {c[2]}}
        BY <1>3, <3>1, <4>1 DEF Reads16
      <4>4. Reads16 = {<<c[1], c[2]>>}
        BY <3>1, <4>3
      <4> QED
        BY <2>2, <4>2, <4>4 DEF Reads
    <3>2. CASE Len(c) = 1 /\ ~High(c[1]) /\ ~Low(c[1])
      <4>1. c = <<c[1]>>
        <5>1. c \in Seq(Units(from)) /\ Len(c) = 1
          BY <1>2, <3>2
        <5> QED
          BY <5>1
      <4>2. Reads16 = {<<c[1]>>}
        BY <1>3, <3>2 DEF Reads16
      <4> QED
        BY <2>2, <4>1, <4>2 DEF Reads
    <3> QED
      BY <1>2, <2>2, <3>1, <3>2 DEF Readable
  <2>3. CASE from = 8
    <3> DEFINE bytes == Trailing(src[pos + 1])
    <3>1. bytes < 4 /\ Len(c) = bytes + 1 /\ bytes \in Nat
      <4>1. bytes \in Nat
        BY DEF Trailing
      <4>2. Trailing(c[1]) < 4 /\ Len(c) = Trailing(c[1]) + 1
        BY <1>2, <2>3 DEF Readable
      <4> QED
        BY <1>3, <4>1, <4>2
    <3>2. Reads8 = {IF pos + bytes >= Len(src) \/ bytes > 3
                    THEN Illegal ELSE SubSeq(src, pos + 1, pos + 1 + bytes)}
      BY DEF Reads8
    <3> HIDE DEF bytes
    <3>3. ~(pos + bytes >= Len(src) \/ bytes > 3) /\ pos + 1 + bytes = pos + Len(c)
      <4>1. pos \in Nat /\ Len(src) \in Nat /\ pos + (bytes + 1) <= Len(src)
        BY <1>2, <1>3, <3>1
      <4>2. pos + 1 + bytes = pos + (bytes + 1)
        <5>1. pos \in Nat /\ bytes \in Nat
          BY <3>1, <4>1
        <5> QED
          BY <5>1
      <4>3. ~(pos + bytes >= Len(src))
        <5> DEFINE k == Len(src)
        <5>1. k \in Nat /\ pos + (bytes + 1) <= k /\ pos \in Nat /\ bytes \in Nat
          BY <3>1, <4>1
        <5> HIDE DEF k
        <5>2. ~(pos + bytes >= k)
          BY <5>1
        <5> QED
          BY <5>2 DEF k
      <4>4. ~(bytes > 3)
        BY <3>1
      <4> QED
        BY <3>1, <4>2, <4>3, <4>4
    <3> QED
      BY <1>2, <2>3, <3>2, <3>3 DEF Reads
  <2> QED
    BY <1>1, <2>1, <2>2, <2>3 DEF Encodings
<1> QED
  BY <1>1, <1>5

(* After n characters: their units are read, and those of their encoding   *)
(* in the other form are written.                                          *)
AtCharacter(n) ==
  /\ pos = Ends(from, text)[n]
  /\ Len(dst) = Ends(to, text)[n]
  /\ \A i \in 1 .. Len(dst) : dst[i] = Encoded[to][text][i]
  /\ pc # "illegal"
  /\ pc = "done" => n = Len(text) \/ Len(dst) >= room
  /\ pc = "range" => Len(Encoded[to][text]) > room

TextInv ==
  text # Unknown =>
    /\ text \in Texts /\ src = Encoded[from][text]
    /\ \E n \in 0 .. Len(text) : AtCharacter(n)

LEMMA InitText == Init => TextInv
<1> SUFFICES ASSUME Init, text # Unknown
             PROVE  /\ text \in Texts /\ src = Encoded[from][text]
                    /\ \E n \in 0 .. Len(text) : AtCharacter(n)
  BY DEF TextInv
<1>1. text \in Texts /\ src = Encoded[from][text] /\ from \in Encodings /\ to \in Encodings
  BY DEF Init
<1>2. pos = 0 /\ dst = <<>> /\ Len(dst) = 0 /\ pc = "loop"
  BY DEF Init
<1>3. Ends(from, text)[0] = 0 /\ Ends(to, text)[0] = 0 /\ 0 \in 0 .. Len(text)
  BY <1>1, EndsAre, TextType
<1>4. AtCharacter(0)
  BY <1>2, <1>3 DEF AtCharacter
<1> QED
  BY <1>1, <1>3, <1>4

(* A turn takes the next character of the text, and no other way out.      *)
LEMMA TurnIs ==
  ASSUME TypeOK, Inside, text \in Texts, src = Encoded[from][text],
         NEW n \in 0 .. Len(text), AtCharacter(n)
  PROVE  /\ n # Len(text)
         /\ Reads = {Encode(from, text[n + 1])}
         /\ Encode(from, text[n + 1]) # Illegal
         /\ Value(from, Encode(from, text[n + 1])) = text[n + 1]
         /\ Encode(to, text[n + 1]) # Illegal
<1>1. from \in Encodings /\ to \in Encodings /\ pos = Ends(from, text)[n]
  BY DEF TypeOK, AtCharacter
<1>2. n # Len(text)
  <2>1. pos < Len(src) /\ pos \in Nat /\ Len(src) \in Nat
    BY DEF TypeOK, Inside
  <2>2. Ends(from, text)[Len(text)] = Len(src)
    BY <1>1, EndsAre
  <2> QED
    BY <1>1, <2>1, <2>2
<1>3. Reads = {Encode(from, text[n + 1])}
  BY <1>1, <1>2, ReadsCharacter
<1>4. /\ Encode(from, text[n + 1]) # Illegal
      /\ Value(from, Encode(from, text[n + 1])) = text[n + 1]
      /\ Encode(to, text[n + 1]) # Illegal
  BY <1>1, <1>2, CharacterAt DEF StandsAt
<1> QED
  BY <1>2, <1>3, <1>4

LEMMA ConvertText ==
  ASSUME TypeOK, Convert, text \in Texts, src = Encoded[from][text],
         NEW n \in 0 .. Len(text), AtCharacter(n)
  PROVE  n + 1 \in 0 .. Len(text) /\ AtCharacter(n + 1)'
<1>1. Inside /\ UNCHANGED <<from, to, src, room, text, pc>> /\ pc = "loop"
  BY DEF Convert, call, Inside
<1> DEFINE r == Encode(from, text[n + 1])  w == Encode(to, text[n + 1])
<1>2. n # Len(text) /\ Reads = {r} /\ r # Illegal /\ Value(from, r) = text[n + 1]
  BY <1>1, TurnIs
<1>3. pos' = pos + Len(r) /\ dst' = dst \o w
  BY <1>2 DEF Convert
<1>4. r = Encode(from, text[n + 1]) /\ w = Encode(to, text[n + 1])
  OBVIOUS
<1>5. /\ from \in Encodings /\ to \in Encodings /\ dst \in Seq(Units(to))
      /\ Len(dst) \in Nat
  BY LenProperties DEF TypeOK
<1> HIDE DEF r, w
<1>6. Ends(from, text)[n + 1] = Ends(from, text)[n] + Len(r)
  BY <1>2, <1>4, <1>5, CharacterAt
<1>7. /\ w \in Seq(Units(to)) /\ Len(w) \in Nat
      /\ Ends(to, text)[n + 1] = Ends(to, text)[n] + Len(w)
      /\ \A j \in 1 .. Len(w) : Encoded[to][text][Ends(to, text)[n] + j] = w[j]
  <2>1. /\ StandsAt(w, to, text[n + 1], Encoded[to][text], Ends(to, text)[n])
        /\ Ends(to, text)[n + 1] = Ends(to, text)[n] + Len(w)
    BY <1>2, <1>4, <1>5, CharacterAt
  <2> QED
    BY <2>1, LenProperties DEF StandsAt
<1>8. /\ pos = Ends(from, text)[n] /\ Len(dst) = Ends(to, text)[n]
      /\ \A i \in 1 .. Len(dst) : dst[i] = Encoded[to][text][i]
  BY DEF AtCharacter
<1>9. /\ Len(dst') = Len(dst) + Len(w)
      /\ \A i \in 1 .. Len(dst) + Len(w) :
           dst'[i] = IF i <= Len(dst) THEN dst[i] ELSE w[i - Len(dst)]
  BY <1>3, <1>5, <1>7, ConcatProperties
<1>10. ASSUME NEW i \in 1 .. Len(dst) + Len(w)
       PROVE  dst'[i] = Encoded[to][text][i]
  <2>1. CASE i <= Len(dst)
    <3>1. i \in 1 .. Len(dst)
      BY <1>5, <1>7, <2>1
    <3> QED
      BY <1>8, <1>9, <2>1, <3>1
  <2>2. CASE ~(i <= Len(dst))
    <3>1. i - Len(dst) \in 1 .. Len(w) /\ Len(dst) + (i - Len(dst)) = i
      BY <1>5, <1>7, <2>2
    <3>2. dst'[i] = w[i - Len(dst)]
      BY <1>9, <2>2
    <3>3. Encoded[to][text][Len(dst) + (i - Len(dst))] = w[i - Len(dst)]
      BY <1>7, <1>8, <3>1
    <3> QED
      BY <3>1, <3>2, <3>3
  <2> QED
    BY <2>1, <2>2
<1>11. n + 1 \in 0 .. Len(text)
  BY <1>2, TextType
<1>12. AtCharacter(n + 1)'
  <2>1. pos' = Ends(from', text')[n + 1] /\ Len(dst') = Ends(to', text')[n + 1]
    BY <1>1, <1>3, <1>6, <1>7, <1>8, <1>9
  <2>2. \A i \in 1 .. Len(dst') : dst'[i] = Encoded[to'][text'][i]
    BY <1>1, <1>9, <1>10
  <2> QED
    BY <1>1, <2>1, <2>2 DEF AtCharacter
<1> QED
  BY <1>11, <1>12

LEMMA NextText == TypeOK /\ TextInv /\ [Next]_vars => TextInv'
<1> SUFFICES ASSUME TypeOK, TextInv, [Next]_vars, text' # Unknown
             PROVE  /\ text' \in Texts /\ src' = Encoded[from'][text']
                    /\ \E n \in 0 .. Len(text') : AtCharacter(n)'
  BY DEF TextInv
<1>1. UNCHANGED <<from, to, src, room, text>>
  BY DEF Next, IllegalSource, IllegalCode, NoRoom, Convert, Return, Throw, vars, call
<1>2. text \in Texts /\ src = Encoded[from][text]
  BY <1>1 DEF TextInv
<1>3. PICK n \in 0 .. Len(text) : AtCharacter(n)
  BY <1>1 DEF TextInv
<1>4. SUFFICES \E m \in 0 .. Len(text) : AtCharacter(m)'
  BY <1>1, <1>2
<1>5. CASE Convert
  BY <1>2, <1>3, <1>5, ConvertText
<1>6. ASSUME UNCHANGED <<pos, dst>>, pc' # "illegal",
             pc' = "done" => n = Len(text) \/ Len(dst) >= room,
             pc' = "range" => Len(Encoded[to][text]) > room
      PROVE  AtCharacter(n)'
  BY <1>1, <1>3, <1>6 DEF AtCharacter
<1>7. ~IllegalSource
  <2> SUFFICES ASSUME IllegalSource PROVE FALSE
    OBVIOUS
  <2>1. Inside /\ Illegal \in Reads
    BY DEF IllegalSource
  <2> QED
    BY <1>2, <1>3, <2>1, TurnIs
<1>8. ~IllegalCode
  <2> SUFFICES ASSUME IllegalCode PROVE FALSE
    OBVIOUS
  <2>1. Inside /\ \E units \in Reads \ {Illegal} : Encode(to, Value(from, units)) = Illegal
    BY DEF IllegalCode
  <2> QED
    BY <1>2, <1>3, <2>1, TurnIs
<1>9. CASE NoRoom
  <2>1. Inside /\ UNCHANGED <<pos, dst>> /\ pc' = "range"
    BY <1>9 DEF NoRoom, Throw
  <2> DEFINE w == Encode(to, text[n + 1])
  <2>2. n # Len(text) /\ ~Fits(w)
    BY <1>2, <1>3, <1>9, <2>1, TurnIs DEF NoRoom
  <2>3. w = Encode(to, text[n + 1]) /\ ~(Len(dst) + Len(w) <= room)
    BY <2>2 DEF Fits
  <2> HIDE DEF w
  <2>4. to \in Encodings /\ room \in Nat
    BY DEF TypeOK
  <2>5. /\ Ends(to, text)[n] \in Nat /\ Len(w) \in 1 .. 4
        /\ Ends(to, text)[n] + Len(w) <= Len(Encoded[to][text])
        /\ Len(Encoded[to][text]) \in Nat
    <3>1. StandsAt(w, to, text[n + 1], Encoded[to][text], Ends(to, text)[n])
      BY <1>2, <2>2, <2>3, <2>4, CharacterAt
    <3>2. Len(Encoded[to][text]) \in Nat
      BY <1>2, <2>4, EndsAre
    <3> QED
      BY <3>1, <3>2 DEF StandsAt
  <2>6. Len(dst) = Ends(to, text)[n]
    BY <1>3 DEF AtCharacter
  <2>7. Len(Encoded[to][text]) > room
    BY <2>3, <2>4, <2>5, <2>6
  <2> QED
    BY <1>6, <2>1, <2>7
<1>10. CASE Return
  <2>1. UNCHANGED <<pos, dst>> /\ pc' = "done" /\ (pos >= Len(src) \/ Len(dst) >= room)
    BY <1>10 DEF Return
  <2>2. pos >= Len(src) => n = Len(text)
    <3> SUFFICES ASSUME n # Len(text) PROVE ~(pos >= Len(src))
      OBVIOUS
    <3>1. from \in Encodings /\ pos \in Nat /\ Len(src) \in Nat
      BY DEF TypeOK
    <3> DEFINE m == Len(Encode(from, text[n + 1]))
    <3>2. m \in 1 .. 4 /\ Ends(from, text)[n] + m <= Len(src)
      BY <1>2, <3>1, CharacterAt DEF StandsAt
    <3>3. pos = Ends(from, text)[n]
      BY <1>3 DEF AtCharacter
    <3> HIDE DEF m
    <3> QED
      BY <3>1, <3>2, <3>3
  <2> QED
    BY <1>6, <2>1, <2>2
<1>11. CASE UNCHANGED vars
  <2>1. UNCHANGED <<pos, dst, pc>>
    BY <1>11 DEF vars
  <2> QED
    BY <1>3, <1>6, <2>1 DEF AtCharacter
<1> QED
  BY <1>5, <1>7, <1>8, <1>9, <1>10, <1>11 DEF Next

(* A text of scalar values keeps its meaning, in each of the six           *)
(* conversions: it is never refused, and what is written is its encoding,  *)
(* or as many characters of it as there was room for.                      *)
THEOREM TextKeptHolds == Spec => []TextKept
<1>1. TypeOK /\ TextInv => TextKept
  <2> SUFFICES ASSUME TypeOK, TextInv, text # Unknown
               PROVE  LET whole == Encoded[to][text]
                      IN  /\ IsPrefix(dst, whole)
                          /\ pc # "illegal"
                          /\ pc = "done" => dst = whole \/ Len(dst) >= room
                          /\ pc = "range" => Len(whole) > room
    BY DEF TextKept
  <2> DEFINE whole == Encoded[to][text]
  <2>1. text \in Texts /\ to \in Encodings /\ dst \in Seq(Units(to)) /\ Len(dst) \in Nat
    BY LenProperties DEF TextInv, TypeOK
  <2>2. PICK n \in 0 .. Len(text) : AtCharacter(n)
    BY DEF TextInv
  <2>3. /\ whole \in Seq(Units(to)) /\ Len(whole) \in Nat
        /\ Ends(to, text)[n] \in 0 .. Len(whole)
        /\ Ends(to, text)[Len(text)] = Len(whole)
    BY <2>1, EndsAre
  <2>4. /\ Len(dst) = Ends(to, text)[n]
        /\ \A i \in 1 .. Len(dst) : dst[i] = whole[i]
        /\ pc # "illegal"
        /\ pc = "done" => n = Len(text) \/ Len(dst) >= room
        /\ pc = "range" => Len(whole) > room
    BY <2>2 DEF AtCharacter
  <2> HIDE DEF whole
  <2>5. IsPrefix(dst, whole)
    <3>1. Len(dst) <= Len(whole)
      BY <2>1, <2>3, <2>4
    <3> DEFINE k == Len(dst)
    <3>2. k \in Nat /\ k <= Len(whole) /\ k = Len(dst)
      BY <2>1, <3>1
    <3> HIDE DEF k
    <3>3. SubSeq(dst, 1, k) = SubSeq(whole, 1, k)
      <4>1. \A i \in 1 .. k : dst[i] = whole[i]
        BY <2>4, <3>2
      <4>2. /\ \A i \in 1 .. k : dst[i] \in Units(to)
            /\ \A i \in 1 .. k : whole[i] \in Units(to)
        BY <2>1, <3>2, <4>1, ElementOfSeq
      <4>3. k - 1 + 1 = k /\ 1 \in Int /\ k \in Int /\ \A i \in 1 .. k : 1 + i - 1 = i
        BY <3>2
      <4>4. /\ SubSeq(dst, 1, k) \in Seq(Units(to))
            /\ Len(SubSeq(dst, 1, k)) = IF 1 <= k THEN k - 1 + 1 ELSE 0
            /\ \A i \in 1 .. k - 1 + 1 : SubSeq(dst, 1, k)[i] = dst[1 + i - 1]
        BY <4>2, <4>3, SubSeqProperties
      <4>5. /\ SubSeq(whole, 1, k) \in Seq(Units(to))
            /\ Len(SubSeq(whole, 1, k)) = IF 1 <= k THEN k - 1 + 1 ELSE 0
            /\ \A i \in 1 .. k - 1 + 1 : SubSeq(whole, 1, k)[i] = whole[1 + i - 1]
        BY <4>2, <4>3, SubSeqProperties
      <4>6. (IF 1 <= k THEN k - 1 + 1 ELSE 0) = k
        BY <3>2
      <4> DEFINE x == SubSeq(dst, 1, k)  y == SubSeq(whole, 1, k)
      <4>7. /\ x \in Seq(Units(to)) /\ y \in Seq(Units(to))
            /\ Len(x) = k /\ Len(y) = k /\ \A i \in 1 .. k : x[i] = y[i]
        BY <4>1, <4>3, <4>4, <4>5, <4>6
      <4> HIDE DEF x, y
      <4>8. x = y
        BY <4>7, SeqEqual
      <4> QED
        BY <4>8 DEF x, y
    <3> QED
      BY <3>2, <3>3 DEF IsPrefix
  <2>6. ASSUME n = Len(text)
        PROVE  dst = whole
    <3>1. Len(dst) = Len(whole)
      BY <2>3, <2>4, <2>6
    <3> QED
      BY <2>1, <2>3, <2>4, <3>1, SeqEqual
  <2> QED
    BY <2>4, <2>5, <2>6 DEF whole
<1>2. RoomInv => TypeOK
  BY DEF RoomInv
<1> QED
  BY <1>1, <1>2, InitText, NextText, RoomInvHolds, PTL DEF Spec
=============================================================================
