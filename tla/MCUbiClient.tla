----------------------------- MODULE MCUbiClient -----------------------------
(***************************************************************************)
(* A client that calls three times.  The replies: no body; a body of two   *)
(* pieces packed into one with an error text; an error text alone, not     *)
(* packed; a header of the wrong length; a body of which nothing is sent;  *)
(* a body longer, and an error text longer, than the header says.          *)
(***************************************************************************)
EXTENDS UbiClient

Answer(header, rx, rxWire, e, eWire) ==
  [code |-> "given", header |-> header, rx |-> rx, rxWire |-> rxWire,
   e |-> e, eWire |-> eWire]

ThreeCalls == 3

SomeReplies ==
  {Answer(2, 0, 0, 0, 0), Answer(2, 3, 2, 1, 1), Answer(2, 0, 0, 2, 2),
   Answer(1, 0, 0, 0, 0), Answer(2, 1, 0, 0, 0), Answer(2, 1, 2, 0, 0),
   Answer(2, 0, 0, 1, 2)}
=============================================================================
