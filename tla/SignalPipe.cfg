CONSTANTS
  ReadSize = 64
  MaxPipe = 70
SPECIFICATION FairSpec
INVARIANTS
  TypeOK
  LoopOutlivesThread
PROPERTIES
  TermEndsProgram
  LineEchoed
CHECK_DEADLOCK FALSE
