CONSTANTS
  Conn = {c1, c2}
  MAX_PEERS = 1
  INT_MAX = 3
  MaxFd = 1
SPECIFICATION FairSpec

PROPERTY ExitTerminates
CHECK_DEADLOCK FALSE
