CONSTANTS
  Setters = {s1, s2}
  Listeners = {l1, l2}
  Vars = {v1}
  Vals = {x0, x1, x2}
  Default = x0
  Cbs = {c1, c2}
  Throwing = {c2}
  NULL = NULL
SPECIFICATION Spec
SYMMETRY ThreadSymmetry
INVARIANTS
  TypeOK
  IterationStable
  IdNamesItsListener
  HeardUnlessRaced
