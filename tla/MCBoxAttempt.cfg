CONSTANTS
  b1 = b1
  b2 = b2
  r1 = r1
  r2 = r2
  r3 = r3
  Boxes = {b1, b2}
  Roles = {r1, r2, r3}
  Pinned = {r1, r2}
  Templates <- MCTemplates
  MaxLives = 2
  None = None
  Faults = {"kill", "openlog"}
SPECIFICATION Spec
INVARIANTS AgentsSafe AttemptsApart
PROPERTY CancelEnds
CHECK_DEADLOCK FALSE
