SPECIFICATION RunnerFairSpec
CONSTANTS
  None = None
  Claim = {c1, c2}
  Question = {q1}
  Chunk = {k1, k2}
  Score = {0, 1}
  ParentId = parent
  MaxAtomicClaims = 2
  TopK = 1
  TopKFused = 1
  RequireEntailment = TRUE
  rule_config <- MCRuleConfig
INVARIANTS
  EvidenceServesItsClaim
  TraceAgreesWithVerdict
  PartialLedgerOfFailure
  GraphAndRunnerAgree
PROPERTIES
  ImplementsVerdictService
  Termination
CHECK_DEADLOCK FALSE
