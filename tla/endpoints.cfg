SPECIFICATION Spec
CONSTANTS
  Admins = {a1, a2, a3}
  Deliveries = {d1}
  Lifetime = 3
  Overlap = 2
  Skew = 1
  MaxTime = 4
  Nothing = Nothing
SYMMETRY Symmetry
INVARIANTS
  IndInv
  HandoverHasNoGap
  IssuedKeyWorks
CHECK_DEADLOCK FALSE
