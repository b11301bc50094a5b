CONSTANTS
  e1 = e1
  e2 = e2
  c1 = c1
  c2 = c2
  w = w
  Exec = {e1, e2}
  Isolation = {w}
  Conn = {c1, c2}
  MaxLock = 1
  MaxDelete = 1
SPECIFICATION Spec
SYMMETRY Symmetry
CHECK_DEADLOCK FALSE
INVARIANTS
  ConnectionsAccounted
  NothingOutlives
  KeepsTogether
