SPECIFICATION Spec
CONSTANTS
  Order <- OneMate
  DependsOn <- NoNames1
  InputsFrom <- NoNames1
  Producers = {}
  Stages <- NoStages
  Gates = {"t1"}
  MaxRestarts = 0
  Timeout = 0
  Rate = 1
  BudgetLimit = 0
  OnComplete = "none"
  Coding = FALSE
  HasOutput = FALSE
  MaxStart = 0
  MaxFaults = 1
  FaultKinds = {"error"}
  Counted = {}
  MaxCount = 2
INVARIANTS
  NothingPendingWhenCompleted
CHECK_DEADLOCK FALSE
