\* Any preflight and launch, with one change of a slot and one of the registry meanwhile.
SPECIFICATION DemoSpec
CONSTANTS
  Types <- MCTypes
  Escaping = {}
  Contents <- MCContents
  Prefixes = {"p1"}
  Prefix <- MCPrefix
  TypeField <- MCTypeField
  Canonical <- MCCanonical
  Valid <- MCContents
  References <- MCReferences
  Trees <- MCTrees
  MaxEdits = 1
  CommandLines <- MCCommandLines
  Tabs <- MCTabs
  Acceptance <- MCAcceptance
  Entries <- MCEntries
  Decodable <- MCDecodable
  Info <- MCInfo
  Place <- MCPlace
  Shipped <- MCShipped
  Stageable <- MCStageable
  SlotEdits = 1
CHECK_DEADLOCK FALSE
INVARIANTS DemoTypeOK PreflightPredictsLaunch ReleaseShowsVerified ShownLayersAccepted InMemoryAnswersAlike
PROPERTIES DevAlwaysServes NoEditGoesUnnoticed
