CONSTANT BUFFER_SIZE = 2
SPECIFICATION Spec
INVARIANTS
  TypeOK
  OneAtATray
  SemaphoresCountSlots
  SearchSucceeds
  StatusWasTrue
PROPERTY TraysSpec
