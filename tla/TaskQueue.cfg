CONSTANTS
  Worker = {w1, w2}
  Dispatcher = {d1, d2, d3}
  MAX_MESSAGES = 2
  MAX_PRIO = 1
  Typed <- MCTyped
  UINT_RANGE = 8
  MaxQueues = 2
SPECIFICATION FairSpec
INVARIANTS
  TypeOK
  TaskInOnePlace
  NameHasReader
PROPERTIES
  TaskServed
CHECK_DEADLOCK FALSE
