---------------------------- MODULE MCSupervisor ----------------------------
(* Instances of Supervisor for TLC.                                        *)
EXTENDS Supervisor

CONSTANTS c1, c2, c3

ThreePids == {c1, c2, c3}

CleanExit == {0}
FailedExit == {1}
AnyExit == {0, 1}

Waits == {TRUE}
WaitsOrNot == {TRUE, FALSE}
=============================================================================
