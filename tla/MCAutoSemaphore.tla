--------------------------- MODULE MCAutoSemaphore ---------------------------
(***************************************************************************)
(* Two objects of one name, the first one shared by two processes.         *)
(***************************************************************************)
EXTENDS AutoSemaphore, TLC

CONSTANTS first, second, u1, u2, u3

Shared == u1 :> first @@ u2 :> first @@ u3 :> second
=============================================================================
