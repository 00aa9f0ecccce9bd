SPECIFICATION Spec
CONSTANTS
  u1 = u1
  p1 = p1
  q1 = q1
  q2 = q2
  Uploads <- MCUploads
  ReplayCalls <- MCReplayCalls
  ReconcileCalls <- MCReconcileCalls
  Bodies <- MCBodies
  Jobs <- MCJobs
  Keys = {k1}
  Kinds = {d1}
  None = None
  PageSize = 1
  MaxAttempts = 2
  MaxFaults = 1
INVARIANTS
  IndInv
  OrphansHadNoRow
  SummaryIsOneExecution
SYMMETRY Symmetry
CHECK_DEADLOCK FALSE
