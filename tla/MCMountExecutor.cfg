SPECIFICATION MountSpec
CONSTANTS
  NMounts = 6
  ReadOnly <- MCReadOnly
  MountFaults <- MCAllFaults
INVARIANTS NoHoles RollbackIsExact AppliedPlanIsComplete
CHECK_DEADLOCK FALSE
