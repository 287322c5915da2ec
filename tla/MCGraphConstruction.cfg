SPECIFICATION Spec
CONSTANTS
  None = None
  WindowCount = 2
  EntityId = {A, B}
  Extraction <- Answers
  RelationOrder <- Types
CHECK_DEADLOCK FALSE
INVARIANTS
  GraphGrounded
  RelationsAccounted
  EventsComplete
  EdgesCoverRelations
