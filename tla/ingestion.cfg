SPECIFICATION FairSpec
CONSTANTS
  Servers = {s1, s2, s3}
  Bodies = {b1, b2}
  MaxDeliveries = 4
  MaxFaults = 3
  None = None
INVARIANTS
  IndInv
  AcceptedAgree
  ConflictsAreReal
  EvidenceMatchesReceipt
  OrphansNeedStorageFaults
PROPERTIES
  EveryDeliveryEnds
  ImplementsReceiving
CHECK_DEADLOCK FALSE
