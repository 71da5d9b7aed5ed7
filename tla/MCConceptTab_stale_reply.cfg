\* A strength change while a Send is in flight.
SPECIFICATION Spec
CONSTANTS
  c1 = c1
  c2 = c2
  c3 = c3
  Concepts = {c1, c2, c3}
  FirstConcept = c1
  Directions <- MCDirections
  Strengths <- MCStrengths
  FirstStrength = "low"
  Calibrated <- MCCalibrated
  FirstDirection <- MCFirstDirection
  Executable <- MCExecutable
  Prompts = {p1}
  EmptyBox = EmptyBox
  None = None
  MaxTurns = 2
  MaxPending = 2
  Patient = FALSE
  Moves = {"strength", "type", "send"}
INVARIANTS NoStaleReply
