\* Two overlapping calls and reorganisations one block deeper than the overlap,
\* the deepest the assumption on the constants admits.
CONSTANTS
  Addresses = {a1}
  Filters = {Burn}
  Runs = {r1, r2}
  OverlappingReorgOffset = 1
  LogsFetchChunkSize = 2
  MaxReorgDepth = 2
  MaxBlock = 5
  NoNumber = NoNumber
SYMMETRY Symmetry
SPECIFICATION Spec
INVARIANTS TypeOK Coverage ScanInv
CHECK_DEADLOCK FALSE
