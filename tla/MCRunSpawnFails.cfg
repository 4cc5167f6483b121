SPECIFICATION Spec
CONSTANTS
  NMounts = 2
  ReadOnly <- MCReadOnly
  MountFaults = {}
  MaxRules = 2
  Timeout = 2
  Faults = {"spawn"}
INVARIANT FailedLaunchUnmounts
CHECK_DEADLOCK FALSE
