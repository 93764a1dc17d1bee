--------------------------- MODULE MCWaitForCall ---------------------------
(* Instances of WaitForCall for TLC: a fixed pool of children.             *)
EXTENDS WaitForCall

CONSTANTS k1, k2, k3, a

ThreePids == {k1, k2, k3}
OneConn == {a}

ZeroedStack == {FALSE}
=============================================================================
