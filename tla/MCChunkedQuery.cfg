\* Two permits for three calls of three, two and three chunks: six workers.
CONSTANTS
  members = members
  burns = burns
  stray = stray
  Calls = {members, burns, stray}
  ChunkCount <- MCChunkCount
  LogsFetchConcurrency = 2
SPECIFICATION FairSpec
INVARIANTS TypeOK PermitsAreCounted NoIdlePermit ResolvedIsComplete ChunksClaimedOnce
PROPERTIES NoQueryAfterFailure EveryCallDrains CallsAreQuerySets
CHECK_DEADLOCK FALSE
