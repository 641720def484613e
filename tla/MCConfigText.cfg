CONSTANTS
  f0 = f0
  f1 = f1
  BAD = BAD
  LogTexts <- MCLogTexts
  Texts <- MCTexts
  Values <- MCValues
  Formatters = {f0, f1}
  DefaultFmt = f0
  EMPTY = EMPTY
  NULL = NULL
SPECIFICATION Spec
INVARIANTS
  TypeOK
  ExportReimports
  ToStringRereads
  ReadIsStable
CHECK_DEADLOCK FALSE
