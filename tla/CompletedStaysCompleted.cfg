SPECIFICATION Spec
CONSTANTS
  Contents <- SomeContents
  Lifecycles = {"none"}
  NoLifecycle = "none"
  MaxEdits = 1
  MaxFaults = 1
  FaultKinds = {"crash"}
PROPERTY
  CompletedStaysCompleted
CHECK_DEADLOCK FALSE
