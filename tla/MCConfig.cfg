CONSTANTS
  Threads = {t1, t2}
  Loaders = {l1}
  Names <- MCNames
  Types = {"int", "string"}
  Default = "default"
  Documents <- Docs
  NULL = NULL
SPECIFICATION Spec
INVARIANTS
  TypeOK
  OneVariablePerName
  VisitIsASnapshot
  LoadReachesAll
  NoCircularWait
SYMMETRY Symmetry
