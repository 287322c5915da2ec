SPECIFICATION MCSpec
CONSTANTS
  None = None
  Claim = {c1, c2}
  Question = {p1}
  Query = {q1}
  Chunk = {k1}
  Source = {semantic}
  Score = {1}
  Step = {}
  ParentId = parent
  Verdict = {consistent, contradictory}
  MaxEvents = 2
  MaxTotal = 8
SYMMETRY Symmetry
INVARIANTS
  EvidenceChain
  AuditTrailComplete
PROPERTIES
  UpstreamFrozen
  NothingWithdrawn
CHECK_DEADLOCK FALSE
