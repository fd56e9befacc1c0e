SPECIFICATION Spec
CONSTANTS
  Thread = {shell, receiver}
  Interface = {i1, i2}
  Packet = {p1, p2}
  Zero = Zero
  None = None
  MaxCalls = 3
SYMMETRY Symmetry
INVARIANTS TypeOK WholeUnlessOverlapped
CHECK_DEADLOCK FALSE
