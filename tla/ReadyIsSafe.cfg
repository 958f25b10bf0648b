SPECIFICATION FairSpec
CONSTANTS
  Contents <- CycleOnly
  Lifecycles = {"none"}
  NoLifecycle = "none"
  MaxEdits = 1
  MaxFaults = 1
  FaultKinds = {"crash"}
PROPERTY
  ReadyIsSafe
CHECK_DEADLOCK FALSE
