SPECIFICATION Spec
CONSTANTS
  Servers = {s1, s2}
  Bodies = {b1}
  MaxDeliveries = 2
  MaxFaults = 1
  None = None
SYMMETRY Symmetry
INVARIANTS
  AcceptedHasEvidence
CHECK_DEADLOCK FALSE
