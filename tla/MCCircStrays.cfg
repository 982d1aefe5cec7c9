\* One request fails, and what its cycle started runs on beside the next cycle.
CONSTANTS
  Members = {m1}
  MaxAmount = 1
  MaxMined = 3
  MaxReorgDepth = 0
  MaxFailures = 1
  Runs = {r1, r2}
  OverlappingReorgOffset = 0
  LogsFetchChunkSize = 9
  OtherTokens = {}
  None = None
SYMMETRY Symmetry
SPECIFICATION Spec
INVARIANTS CalculatedCoversMembers CurrentCycleHasBalances
CHECK_DEADLOCK FALSE
