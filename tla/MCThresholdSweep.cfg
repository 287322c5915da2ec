SPECIFICATION SweepSpec
CONSTANTS
  Claim = {c1, c2}
  Chunk = {k1, k2}
  Score = {0, 1, 2}
SYMMETRY Symmetry
INVARIANTS
  ContradictionDominates
  SweepMatchesStrictEngine
PROPERTIES
  RaisingContradictionThresholdNeverCondemns
