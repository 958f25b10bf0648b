SPECIFICATION Spec
CONSTANTS
  Order <- OneMate
  DependsOn <- NoNames1
  InputsFrom <- NoNames1
  Producers = {}
  Stages <- NoStages
  Gates = {}
  MaxRestarts = 0
  Timeout = 0
  Rate = 1
  BudgetLimit = 0
  OnComplete = "none"
  Coding = FALSE
  HasOutput = FALSE
  MaxStart = 0
  MaxFaults = 1
  FaultKinds = {"evict"}
  Counted = {"teammate.error"}
  MaxCount = 1
INVARIANTS
  FailureAnnounced
CHECK_DEADLOCK FALSE
