SPECIFICATION Spec
CONSTANTS
  Rules <- MCRules
  TypeOrder <- MCTypeOrder
  EvaluationWindow = 2
  FinalizationWindow = 1
  Occurrences <- MCOccurrences
  MaxTime = 4
  MaxReceived = 3
INVARIANTS
  EvaluatorInv
  OrderDoesNotMatter
  FinalVerdictsHold
CHECK_DEADLOCK FALSE
