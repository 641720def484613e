CONSTANTS
  Threads = {t1, t2}
  MaxClock = 3
  MaxFiles = 3
SPECIFICATION Spec
INVARIANTS
  TypeOK
  LostOnlyWithinTheSecond
  ReopenRecovers
