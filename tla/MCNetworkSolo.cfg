SPECIFICATION Spec
CONSTANTS
  Runs = {"r1"}
  Plan <- MCThreeTargets
  Packets <- MCPackets
  TableFirst = FALSE
  StaleTaps = {}
  MaxSent = 3
  Faults <- MCFaults
INVARIANTS TypeOK HostIsRestored HitsTellTraffic
PROPERTY ImplementsContract
CHECK_DEADLOCK FALSE
