SPECIFICATION Spec
CONSTANTS
  Requests = {"q1", "q2"}
  Policies <- AllPolicies
  DefectSets <- GoodOrBad
  InjectPayload = TRUE
  HistoryLimit = 1
  MaxTime = 1
  MaxFaults = 1
  FaultKinds = {"template"}
PROPERTY
  ActiveRunKeptThroughout
