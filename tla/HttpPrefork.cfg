CONSTANTS
  c1 = c1
  c2 = c2
  a = a
  NoPid = NoPid
  Garbage = Garbage
  NoConn = NoConn
  Pids <- TwoPids
  NoProcs = 2
  RestartCount = 2
  WaitChoices <- WaitsOrNot
  ExitCodes <- AnyExit
  MaxForkFailures = 1
  MaxStops = 0
  MaxCrashes = 1
  Conns <- OneConn
  HasTimeout = TRUE
  UninitResults <- AnyStack
  MaxAcceptErrors = 1
  MaxHangups = 0
  MaxTerms = 1
SPECIFICATION FairServerSpec
CHECK_DEADLOCK FALSE
INVARIANTS
  OneAcceptorInService
  ShutdownReachesAll
PROPERTY ClientAcceptedInService
