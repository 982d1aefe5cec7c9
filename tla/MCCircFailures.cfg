\* One request fails; a cycle starts when the one before has left nothing running.
CONSTANTS
  Members = {m1}
  MaxAmount = 1
  MaxMined = 3
  MaxReorgDepth = 0
  MaxFailures = 1
  Runs = {r1}
  OverlappingReorgOffset = 0
  LogsFetchChunkSize = 9
  OtherTokens = {steth}
  None = None
SPECIFICATION FairSpec
INVARIANTS TypeOK CalculatedCoversMembers
PROPERTIES IsTrueFeed ScansAreScans SaveKeepsTruth EventuallyServesHead CycleTerminates
CHECK_DEADLOCK FALSE
