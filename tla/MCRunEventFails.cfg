SPECIFICATION Spec
CONSTANTS
  NMounts = 2
  ReadOnly <- MCReadOnly
  MountFaults = {}
  MaxRules = 2
  Timeout = 2
  Faults = {"write"}
INVARIANT NoNetworkResidue
CHECK_DEADLOCK FALSE
