CONSTANTS
  Setters = {}
  Listeners = {l1, l2}
  Vars = {v1, v2}
  Vals = {x0}
  Default = x0
  Cbs = {c1, c2}
  Throwing = {}
  NULL = NULL
SPECIFICATION Spec
INVARIANT IdNamesItsListener
