\* A request outlives its failed cycle and answers after the next one.
CONSTANTS
  Members = {m1}
  MaxAmount = 1
  MaxMined = 3
  MaxReorgDepth = 0
  MaxFailures = 1
  Runs = {r1, r2}
  OverlappingReorgOffset = 1
  LogsFetchChunkSize = 9
  OtherTokens = {steth}
  None = None
SPECIFICATION Spec
PROPERTIES ServedNeverOlder
CHECK_DEADLOCK FALSE
