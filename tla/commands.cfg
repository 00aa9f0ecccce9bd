SPECIFICATION FairSpec
CONSTANTS
  Sessions = {s1, s2, s3}
  Keys = {k1, k2}
  Requests = {create, propose, publish, bind}
  Locking = {propose, bind}
  Once = {propose, publish}
  Unstorable = {bind}
  MaxCalls = 3
  MaxFaults = 1
  None = None
INVARIANTS
  IndInv
  AnswersAgree
  LockedTransitionsOnce
PROPERTIES
  EveryCallEnds
  ImplementsKeyedCommands
CHECK_DEADLOCK FALSE
