SPECIFICATION Spec
CONSTANTS
  Sessions = {s1, s2}
  Keys = {k1, k2}
  Requests = {publish}
  Locking = {}
  Once = {publish}
  Unstorable = {}
  MaxCalls = 2
  MaxFaults = 0
  None = None
SYMMETRY Symmetry
INVARIANTS
  TransitionsOnce
CHECK_DEADLOCK FALSE
