SPECIFICATION FairSpec
CONSTANTS
  None = None
  Malformed = Malformed
  Failed = Failed
  r1 = r1
  r2 = r2
  baseline = baseline
  with_graph = with_graph
  rows <- MCRows
  Condition <- MCCondition
  Completion = {good1, good2, bad}
  Parsable = {good1, good2}
  Mode = {llm, cross_encoder}
  MaxRetries = 1
  MaxProcesses = 2
INVARIANTS
  TypeOK
  EachRowRecordedOnce
  PaidCompletionsAreReused
  ConditionsComparable
  OwnVerifierOnly
  ReportMatchesCheckpoint
PROPERTIES
  EachProcessEnds
CHECK_DEADLOCK FALSE
