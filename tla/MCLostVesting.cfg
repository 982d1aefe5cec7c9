\* A cycle fails after its scan of the members has moved the cursor; four blocks.
CONSTANTS
  Members = {m1}
  MaxAmount = 1
  MaxMined = 4
  MaxReorgDepth = 0
  MaxFailures = 1
  Runs = {r1}
  OverlappingReorgOffset = 1
  LogsFetchChunkSize = 9
  OtherTokens = {}
  None = None
SPECIFICATION Spec
INVARIANTS SavedSupplyIsTrue
CHECK_DEADLOCK FALSE
