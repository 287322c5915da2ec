SPECIFICATION Spec
CONSTANTS
  None = None
  Malformed = Malformed
  Rejected = Rejected
  Unsaved = Unsaved
  QuotesIn <- MCQuotesIn
  RawLabel <- MCRawLabel
  Alias <- MCAlias
  Sessions <- MCSessions
  Rows <- MCRows
  Data <- MCData
  ValidExtraction = {"extraction"}
  Evidence <- MCEvidence
  MaxRetries <- MCMaxRetries
  MaxSessions = 3
INVARIANTS
  SessionsAreReplayable
  OwnAnswersOnly
  JudgementsCiteEvidence
CHECK_DEADLOCK FALSE
