---------------------------- MODULE MCUtfConvert ----------------------------
(* Instances of UtfConvert for TLC.                                        *)
EXTENDS UtfConvert

CONSTANTS MaxText, MaxBytes, MaxWords

(* Bytes, units and code points at the edges of what is told apart; of the *)
(* bytes that follow, anything goes.                                       *)
Bytes == {65, 128, 191, 195, 224, 239, 240, 247, 248, 255}
Words == {65, 55296, 56319, 56320, 57343, 65535}
Points == {0, 55296, 56320, 56321, 65535, 65536, 1114111, 1114112, -1}
AnyWord == {65, 56320}

(* The first and last code points of every length, and the surrogates'     *)
(* neighbours.                                                             *)
Edges == {0, 127, 128, 2047, 2048, 55295, 57344, 65535, 65536, 1114111}

EdgeTexts == UNION {[1 .. n -> Edges] : n \in 0 .. MaxText}

EncodedEdges ==
  [e \in Encodings |->
     [t \in EdgeTexts |->
        FlattenSeq([i \in 1 .. Len(t) |-> Encode(e, t[i])])]]

EdgeSources ==
  [e \in Encodings |->
     CASE e = 8 -> UNION {[1 .. n -> Bytes] : n \in 1 .. MaxBytes}
       [] e = 16 -> UNION {[1 .. n -> Words] : n \in 1 .. MaxWords}
       [] e = 32 -> UNION {[1 .. n -> Points] : n \in 1 .. 2}]
=============================================================================
