SPECIFICATION Spec
CONSTANTS
  f1 = f1
  f2 = f2
  p1 = p1
  p2 = p2
  c1 = c1
  c2 = c2
  c3 = c3
  x1 = x1
  v1 = v1
  v2 = v2
  NoFw = NoFw
  NoValue = NoValue
  Field = {x1}
  Value = {v1}
  Fw = {f1, f2}
  Policy = {p1}
  Call = {c1}
  MaxRestarts = 1
SYMMETRY Symmetry
INVARIANTS
  PendingOwned
  NoServerLeak
CHECK_DEADLOCK FALSE
