SPECIFICATION Spec
CONSTANTS
  Namespaces = {"n1", "n2"}
  Renderings = {"a", "b"}
  Pages <- AllPages
  MaxChanges = 3
  MaxFaults = 1
  FaultKinds = {"error", "drop", "crash"}
INVARIANT
  ScopeKept
CHECK_DEADLOCK FALSE
