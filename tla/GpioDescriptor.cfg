CONSTANTS
  Node = {led}
  User = {u1, u2}
SPECIFICATION Spec
INVARIANTS
  TypeOK
  ListedIsAllocated
  SoleDeviceLeavesNothing
  SelfUnregistered
  NoFileWhenRemoved
