CONSTANTS
  Paths <- MCPaths
  Contents <- MCContents
  Names <- MCNames
  Segments <- MCSegments
  Segment <- MCSegment
  Commits <- MCCommits
  OwnCommits <- MCOwnCommits
  Blob <- MCBlob
  Manifests <- MCManifests
  Trees <- MCTrees
  Inventory = "inventory"
  Runner = "runner"
  Vectors = "vectors"
  Package = "schema"
  Surface <- MCSurface
  Broken <- MCBroken
  Listed <- MCListed
  Conforming <- MCConforming
  None = None
  MaxEdits = 1
SPECIFICATION Spec
INVARIANTS OkMeansEveryVerdictClean
CHECK_DEADLOCK FALSE
