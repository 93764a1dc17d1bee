------------------------------ MODULE MCTSem2 ------------------------------
(* Instances of TSem2 for TLC.                                             *)
EXTENDS TSem2

CONSTANTS p1, p2, p3

ThreeProcs == {p1, p2, p3}
NoCreator == {}
OneCreator == {p1}
=============================================================================
