CONSTANTS
  root = root
  system = system
  f0 = f0
  f1 = f1
  r1 = r1
  r2 = r2
  t1 = t1
  u1 = u1
  u2 = u2
  Reloaders = {r1, r2}
  Threads = {t1}
  Users = {u1, u2}
  Programs <- MCPrograms
  Names = {root, system}
  Root = root
  Configs <- MCConfigs
  Formatters = {f0, f1}
  DefaultFmt = f0
  BAD = BAD
  NULL = NULL
SPECIFICATION Spec
INVARIANTS
  TypeOK
  NoNullFormatter
  InheritedFormatter
  IterationUndisturbed
  ConfigurationApplied
CHECK_DEADLOCK FALSE
