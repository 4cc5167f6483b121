SPECIFICATION Spec
CONSTANTS
  Runs = {"r1", "r2"}
  Plan <- MCOneTarget
  Packets <- MCFourPackets
  TableFirst = TRUE
  StaleTaps <- MCStale
  MaxSent = 0
  Faults <- MCNoListFaults
INVARIANTS FilterHolds ReleasedIsGone
PROPERTIES OnlyOwnDeleted ImplementsContract
CHECK_DEADLOCK FALSE
