SPECIFICATION FairSpec
CONSTANTS
  Contents <- SomeContents
  Lifecycles = {"none", "override"}
  NoLifecycle = "none"
  MaxEdits = 1
  MaxFaults = 1
  FaultKinds = {"error", "crash"}
INVARIANTS
  TeamIsRendered
  MirrorIsTrue
PROPERTIES
  ReadyIsEarned
  ReadySettles
  WaitingRunProceeds
  ValidTeamEnds
CHECK_DEADLOCK FALSE
