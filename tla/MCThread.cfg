CONSTANTS
  Threads = {o1, o2}
  Names = {n1, n2}
  UNKNOW = UNKNOW
  EMPTY = EMPTY
  Namers = {o2}
SPECIFICATION Spec
INVARIANTS
  TypeOK
  NoUseAfterDestruction
  ReapedOnce
PROPERTY CallsReturn
CHECK_DEADLOCK FALSE
