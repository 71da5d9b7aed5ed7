SPECIFICATION Spec
CONSTANTS
  Strengths <- MCStrengths
  Directions <- MCDirections
  Sources = {}
  Feature <- MCFeature
  None = None
INVARIANTS SameExecutionSameClamp
