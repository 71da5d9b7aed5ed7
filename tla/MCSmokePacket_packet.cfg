\* Every packet with at most two failures that the model gives no reason for.
SPECIFICATION PacketSpec
CONSTANTS
  Loaders <- MCLoaders
  Overlap = FALSE
  Requests <- MCRequests
  Lookups <- MCLookups
  Optional = {"config.json"}
  Real = Real
  MaxFailures = 2
CHECK_DEADLOCK FALSE
INVARIANTS PacketTypeOK PassedIsComplete WrittenIsComplete OneModelAtATime RestoredBetweenLoads ProvenanceIsTrue ValidatedFilesAreItsOwn
PROPERTIES PacketEnds
