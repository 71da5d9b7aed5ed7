\* One session whose user waits for the page to settle before acting again.
SPECIFICATION FairSpec
CONSTANTS
  c1 = c1
  c2 = c2
  c3 = c3
  Concepts = {c1, c2, c3}
  FirstConcept = c1
  Directions <- MCDirections
  Strengths <- MCStrengths
  FirstStrength = "low"
  Calibrated <- MCCalibrated
  FirstDirection <- MCFirstDirection
  Executable <- MCExecutable
  Prompts = {p1, p2}
  EmptyBox = EmptyBox
  None = None
  MaxTurns = 2
  MaxPending = 1
  Patient = TRUE
  Moves = {"card", "direction", "strength", "type", "send", "compare", "language"}
INVARIANTS TypeOK NoStaleReply NoStaleComparison PanelsFollowConcept
PROPERTIES ImplementsChatSession PageSettles
