SPECIFICATION Spec
CONSTANTS
  Runs = {"r1", "r2"}
  Plan <- MCOneTarget
  Packets <- MCFourPackets
  TableFirst = FALSE
  StaleTaps = {}
  MaxSent = 0
  Faults = {}
INVARIANT FilterHolds
CHECK_DEADLOCK FALSE
