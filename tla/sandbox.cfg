SPECIFICATION Spec
CONSTANTS
  ApprovalKeys = {k1, k2}
  e1 = e1
  Receipts <- MCReceipts
  MaxFaults = 1
  Nothing = Nothing
  Torn = Torn
SYMMETRY Symmetry
INVARIANTS
  IndInv
  ToldStaysTrue
PROPERTIES
  FeesAreFinal
CHECK_DEADLOCK FALSE
