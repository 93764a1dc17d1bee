--------------------------- MODULE MCHttpPrefork ---------------------------
(* Instances of HttpPrefork for TLC: a pool of two children, one client.   *)
EXTENDS HttpPrefork

CONSTANTS c1, c2, a

TwoPids == {c1, c2}
OneConn == {a}

FailedExit == {1}
AnyExit == {0, 1}
ZeroedStack == {FALSE}
AnyStack == {FALSE, TRUE}
Waits == {TRUE}
WaitsOrNot == {TRUE, FALSE}
=============================================================================
