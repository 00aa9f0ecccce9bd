SPECIFICATION Spec
CONSTANTS
  Sessions = {s1, s2}
  Keys = {k1}
  Requests = {propose}
  Locking = {propose}
  Once = {propose}
  Unstorable = {}
  MaxCalls = 2
  MaxFaults = 0
  None = None
SYMMETRY Symmetry
INVARIANTS
  RetryGetsOriginal
CHECK_DEADLOCK FALSE
