----------------------------- MODULE Processes -----------------------------
(***************************************************************************)
(* What Supervisor and WaitForCall share when HttpPrefork puts them        *)
(* together: the children that the one counts are those the other runs.    *)
(***************************************************************************)
CONSTANT
  Pids              \* process ids; the kernel reuses those that are free
=============================================================================
