SPECIFICATION Spec
CONSTANTS
  Sessions = {s1, s2}
  ContractIds = {c1}
  RuleVersions = {q1}
  Roles = {buyer, seller}
  Principals = {p1, p2}
  MaxVersions = 2
  MaxChanges = 3
  None = None
SYMMETRY Symmetry
INVARIANTS
  IndInv
  StateMatchesVersions
  ActiveWasAccepted
  MatchedVersionHolds
PROPERTIES
  HistoryIsImmutable
  ImplementsAgreements
