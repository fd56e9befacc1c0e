SPECIFICATION Spec
CONSTANTS
  c1 = c1
  c2 = c2
  c3 = c3
  c4 = c4
  c5 = c5
  Cell = {c1, c2, c3, c4, c5}
  Base = Base
  NULL = NULL
  Priority <- MCPriority
INVARIANTS TypeOK WellLinked
PROPERTIES ImplementsListSequence PriorityKeepsSorted
