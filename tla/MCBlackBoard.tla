---------------------------- MODULE MCBlackBoard ----------------------------
(* Instances of BlackBoard for TLC.                                        *)
EXTENDS BlackBoard

CONSTANTS b1, b2, e1, e2

TwoProcs == {b1, b2}
TwoElements == {e1, e2}
FirstRollsOver == [p \in TwoProcs |-> p = b1]
=============================================================================
