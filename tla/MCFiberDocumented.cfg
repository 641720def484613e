CONSTANTS
  Threads = {t1, t2}
  Subs = {f1}
  NULL = NULL
SPECIFICATION Spec
INVARIANT OneThreadPerStack
CHECK_DEADLOCK FALSE
