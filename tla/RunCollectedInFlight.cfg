SPECIFICATION Spec
CONSTANTS
  Fires <- TwoWindows
  Floor = 1
  HistoryLimit = 1
  MaxTime = 3
  MaxFaults = 1
  FaultKinds = {"template"}
PROPERTIES
  GCNeverInFlight
