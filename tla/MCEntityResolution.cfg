SPECIFICATION Spec
CONSTANTS
  MentionCount = 4
  Fact <- CoreFacts
  SurfaceOrder <- Surfaces
  TagOrder <- Tags
  Title <- Titles
  GenericToken = {"he", "the"}
  Particle = {"de"}
  MaleJunior = {"vicomte"}
  MaleSenior = {"baron"}
  FemaleUnmarried = {"miss"}
  FemaleMarried = {"madame"}
  MaleNeutral = {"captain"}
INVARIANTS
  ComponentsAreExact
  ContrastNeedsSecondKey
  GenericStandsAlone
  AgreeingMentionsMerge
CHECK_DEADLOCK FALSE
