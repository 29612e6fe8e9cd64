CONSTANTS
  Conn = {c1, c2}
  MAX_PEERS = 2
  INT_MAX = 3
  MaxFd = 2
SPECIFICATION Spec
SYMMETRY Symmetry
INVARIANT ListedConnectionIsLive
CHECK_DEADLOCK FALSE
