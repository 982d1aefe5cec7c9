\* Two members with up to two vestings each, every start, cliff and end.
CONSTANTS
  Members = {m1, m2}
  Amounts = {3}
  Balances = {1, 4}
  MaxTime = 2
  MaxVestings = 2
SYMMETRY Symmetry
SPECIFICATION Spec
INVARIANTS LockedWithinGrants LockedIsLinear BurnsAreSubtracted
PROPERTIES LockedNeverIncreases
CHECK_DEADLOCK FALSE
