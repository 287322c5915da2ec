SPECIFICATION Spec
CONSTANTS
  MentionCount = 2
  Fact <- Facts
  SurfaceOrder <- Surfaces
  TagOrder <- Tags
  Title <- Titles
  GenericToken = {"he", "the"}
  Particle = {"de"}
  MaleJunior = {"vicomte"}
  MaleSenior = {"baron"}
  FemaleUnmarried = {"miss"}
  FemaleMarried = {"madame"}
  MaleNeutral = {"captain"}
INVARIANTS
  GenericMentionsStayApart
CHECK_DEADLOCK FALSE
