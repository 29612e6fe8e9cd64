CONSTANTS
  Conn = {c1, c2}
  MAX_PEERS = 1
  INT_MAX = 2
  MaxFd = 1
SPECIFICATION FairSpec
INVARIANT TypeOK
PROPERTIES
  CommandReturns
  HandlerEnds
  ExitCompletesOnConnection
CHECK_DEADLOCK FALSE
