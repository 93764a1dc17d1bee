CONSTANTS
  k1 = k1
  k2 = k2
  k3 = k3
  a = a
  NoConn = NoConn
  Pids <- ThreePids
  Conns <- OneConn
  HasTimeout = TRUE
  UninitResults <- ZeroedStack
  MaxAcceptErrors = 1
  MaxHangups = 1
SPECIFICATION FairPoolSpec
CHECK_DEADLOCK FALSE
INVARIANTS
  UninterruptedInv
  AcceptHasClient
  OneServerPerClient
PROPERTIES
  ClientAccepted
  ClientReleased
  StopOutcome
