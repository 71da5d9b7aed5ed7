SPECIFICATION Spec
CONSTANTS
  Strengths <- MCStrengths
  Directions <- MCDirections
  Sources <- MCSources
  Feature <- MCFeature
  None = None
INVARIANTS TypeOK NothingTruncated GuardAgreesWithPreflight OrderIsUnobservable
