\* Sends and comparisons overlap; the setting stays.
SPECIFICATION Spec
CONSTANTS
  c1 = c1
  c2 = c2
  c3 = c3
  Concepts = {c1, c2, c3}
  FirstConcept = c1
  Directions <- MCDirections
  Strengths <- MCStrengths
  FirstStrength = "low"
  Calibrated <- MCCalibrated
  FirstDirection <- MCFirstDirection
  Executable <- MCExecutable
  Prompts = {p1, p2}
  EmptyBox = EmptyBox
  None = None
  MaxTurns = 2
  MaxPending = 3
  Patient = FALSE
  Moves = {"type", "send", "compare"}
INVARIANTS ReusedComparisonRepeatsAReply
PROPERTIES ConversationOnlyGrowsOrResets
