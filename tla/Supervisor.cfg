CONSTANTS
  c1 = c1
  c2 = c2
  c3 = c3
  NoPid = NoPid
  Garbage = Garbage
  Pids <- ThreePids
  NoProcs = 2
  RestartCount = 2
  WaitChoices <- WaitsOrNot
  ExitCodes <- AnyExit
  MaxForkFailures = 1
  MaxStops = 1
  MaxCrashes = 1
SPECIFICATION FairSpec
CHECK_DEADLOCK FALSE
INVARIANTS
  TrackedInv
  KilledAll
PROPERTIES
  FullPoolSignalsChildren
  ShutdownReturns
  RestartsServe
