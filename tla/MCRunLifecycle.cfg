SPECIFICATION Spec
CONSTANTS
  NMounts = 2
  ReadOnly <- MCReadOnly
  MountFaults <- MCMountFaults
  MaxRules = 2
  Timeout = 2
  Faults <- MCFaults
INVARIANTS
  TypeOK
  SuccessIsComplete
  ReportIsOfReleasedRun
  HandleIsLive
  LeakIsAccounted
  EventsInStageOrder
  OnceEvents
  EventsAreTrue
  FailureIsRecorded
  ReleaseErrorIsExact
PROPERTIES
  ImplementsContract
  Termination
CHECK_DEADLOCK FALSE
