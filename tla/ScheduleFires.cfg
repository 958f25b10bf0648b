SPECIFICATION Spec
CONSTANTS
  Fires <- TwoWindows
  Floor = 1
  HistoryLimit = 1
  MaxTime = 3
  MaxFaults = 1
  FaultKinds = {"error", "crash"}
INVARIANTS
  FiresOncePerWindow
  NoOrphanRuns
  HistorySorted
  ActiveRunIsNewest
PROPERTIES
  FirePointerAdvances
  GCNeverInFlight
