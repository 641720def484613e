CONSTANTS
  Threads = {t1, t2, t3}
  NULL = NULL
SPECIFICATION LocksSpec
INVARIANTS
  GuardOwnsTheLock
PROPERTIES
  UsesTheLock
  SomeoneEnters
  IsALock
