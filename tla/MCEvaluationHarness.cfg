SPECIFICATION Spec
CONSTANTS
  None = None
  examples <- MCExamples
  Settings = {"all", "semantic"}
  PipelineConfig = {strict}
  LedgerBody <- MCLedgerBody
  VariantLists <- MCVariantLists
  k_cutoffs = {1, 2}
  MaxSessions = 2
INVARIANTS
  SavedReportsAreBacked
  DeltasCompareWithFull
  MetricsAddUp
CHECK_DEADLOCK FALSE
