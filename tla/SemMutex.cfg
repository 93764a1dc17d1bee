CONSTANTS
  p1 = p1
  p2 = p2
  p3 = p3
  NoOwner = NoOwner
  Procs <- MCProcs
  Checkers <- MCProcs
  Timed = TRUE
  MaxInterrupts = 2
SPECIFICATION LiveSpec
INVARIANTS
  IInv
  BreachesCounted
PROPERTIES
  ImplementsLock
  WaiterServed
