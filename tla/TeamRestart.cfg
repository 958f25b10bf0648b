SPECIFICATION Spec
CONSTANTS
  Order <- OneMate
  DependsOn <- NoNames1
  InputsFrom <- NoNames1
  Producers = {"t1"}
  Stages <- NoStages
  Gates = {}
  MaxRestarts = 1
  Timeout = 0
  Rate = 1
  BudgetLimit = 0
  OnComplete = "none"
  Coding = FALSE
  HasOutput = FALSE
  MaxStart = 0
  MaxFaults = 1
  FaultKinds = {"crash", "error", "evict"}
  Counted = {"teammate.error"}
  MaxCount = 1
INVARIANTS
  RecordedMeansSent
  TypeOK
PROPERTIES
  PhaseGraph
  StatusOnlyGrows
CHECK_DEADLOCK FALSE
