CONSTANTS
  Threads = {t1, t2}
  Subs = {f1, f2}
  NULL = NULL
SPECIFICATION Spec
INVARIANTS
  TypeOK
  
  CurrentFiberIsRunning
  NoStackUseAfterFree
  
  TotalFibersExact
  OnlySuspendedLeak
PROPERTY BackToMain
CHECK_DEADLOCK FALSE
