SPECIFICATION RunnerSpec
CONSTANTS
  None = None
  Claim = {c1}
  Question = {q1}
  Chunk = {k1, k2}
  Score = {0, 1}
  ParentId = parent
  MaxAtomicClaims = 1
  TopK = 2
  TopKFused = 1
  RequireEntailment = FALSE
  rule_config <- MCRuleConfig
INVARIANTS
  NeverCrashes
CHECK_DEADLOCK FALSE
