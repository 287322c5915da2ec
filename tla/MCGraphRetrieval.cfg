SPECIFICATION Spec
CONSTANTS
  None = None
  Texts <- MCTexts
  Quotes <- MCQuotes
  _SMART_CHAR_MAP <- MCSmart
  Letters <- MCLetters
  Capitals <- MCCapitals
  WordCharacters <- MCLetters
  Lower <- MCLower
  _STOPWORDS <- MCStopwords
  MIN_CHAPTERS = 3
  MAX_EXTRACTION_TOKENS = 10
  FALLBACK_WINDOW_TOKENS = 8
  WINDOW_OVERLAP_TOKENS = 5
  SNAP_RADIUS = 8
  BREAK_LENGTH = 2
  chunk_size = 16
  overlap = 10
  FuzzyOverlap = 50
  FuzzyMargin = 3
  min_entity_token_length = 2
  LoadedGraphs <- MCLoadedGraphs
  QueryTexts <- MCQueryTexts
  max_hops = 2
  top_k = 3
  Unit = 6
  Rankings <- MCRankings
  rrf_k = 60
  top_k_fused = 4
  ScoreUnit = 238266
INVARIANTS
  WindowsWithinBudget
  PassagesStayWhole
  EvidenceIsWhereQuoted
  NamesAreReachable
  ScoresFollowDistance
  FusionRewardsAgreement
CHECK_DEADLOCK FALSE
