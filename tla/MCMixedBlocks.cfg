\* The overlap of the scans covers the whole chain, so no event is missed;
\* a fetch of vestings outlives its failed cycle.
CONSTANTS
  Members = {m1}
  MaxAmount = 1
  MaxMined = 3
  MaxReorgDepth = 0
  MaxFailures = 1
  Runs = {r1, r2}
  OverlappingReorgOffset = 9
  LogsFetchChunkSize = 9
  OtherTokens = {}
  None = None
SPECIFICATION OneInitSpec
INVARIANTS SavedSupplyIsTrue
CHECK_DEADLOCK FALSE
