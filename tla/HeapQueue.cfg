CONSTANTS
  p1 = p1
  p2 = p2
  NoValue = NoValue
  Procs <- TwoProcs
  Values <- TwoValues
  Minimum <- Below
  N = 5
  MaxInserts = 4
  MaxCrashes = 1
  MaxInterrupts = 1
SPECIFICATION FairSpec
INVARIANTS
  HeapInv
PROPERTIES
  ImplementsQueue
  OperationsEnd
CHECK_DEADLOCK FALSE
