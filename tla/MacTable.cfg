SPECIFICATION Spec
CONSTANTS
  c1 = c1
  c2 = c2
  c3 = c3
  c4 = c4
  v1 = v1
  v2 = v2
  k1 = k1
  k2 = k2
  k3 = k3
  Cell = {c1, c2, c3}
  Base = Base
  NULL = NULL
  Key = {k1, k2}
  Value = {v1, v2}
  Free = Free
  ReplacesEqual = FALSE
SYMMETRY Symmetry
INVARIANTS NothingLeaks WalksEnd UndisturbedWalkPrintsTable
PROPERTIES ImplementsAtomicTable
