SPECIFICATION Spec
CONSTANTS
  Contents <- RefusedContents
  Lifecycles = {"none", "override"}
  NoLifecycle = "none"
  MaxEdits = 1
  MaxFaults = 1
  FaultKinds = {"error", "crash"}
INVARIANTS
  TypeOK
  TeamIsRendered
  MirrorIsTrue
PROPERTIES
  ReadyIsEarned
CHECK_DEADLOCK FALSE
