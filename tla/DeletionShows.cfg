SPECIFICATION FairSpec
CONSTANTS
  Namespaces = {"n1", "n2"}
  Renderings = {"a", "b"}
  Pages <- AllPages
  MaxChanges = 3
  MaxFaults = 1
  FaultKinds = {"error", "drop", "crash"}
PROPERTY
  DeletionShows
CHECK_DEADLOCK FALSE
