CONSTANTS
  Conn = {c1, c2}
  MAX_PEERS = 2
  INT_MAX = 3
  MaxFd = 3
SPECIFICATION Spec
SYMMETRY Symmetry
INVARIANTS
  MutualExclusion
  IdNamesOneConnection
  CancelledNotListed
  NoDescriptorLeak
  SweepIsFinal
PROPERTY RegistrySpec
CHECK_DEADLOCK FALSE
