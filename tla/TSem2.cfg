CONSTANTS
  p1 = p1
  p2 = p2
  p3 = p3
  Procs <- ThreeProcs
  Creators <- OneCreator
  MaxInterrupts = 1
  MaxCrashes = 1
SPECIFICATION FairSpec
CHECK_DEADLOCK FALSE
INVARIANTS
  IInv
  Exclusion
PROPERTIES
  NoOvertaking
  UninterruptedServed
