\* Reorganisations of one block, within the overlap of the scans.
CONSTANTS
  Members = {m1}
  MaxAmount = 1
  MaxMined = 5
  MaxReorgDepth = 1
  MaxFailures = 0
  Runs = {r1}
  OverlappingReorgOffset = 1
  LogsFetchChunkSize = 9
  OtherTokens = {}
  None = None
SPECIFICATION FairSpec
INVARIANTS CalculatedCoversMembers TrueUnlessVestingDropped
PROPERTIES EventuallyServesHead
CHECK_DEADLOCK FALSE
