SPECIFICATION Spec
CONSTANTS
  Order <- OneMate
  DependsOn <- NoNames1
  InputsFrom <- NoNames1
  Producers = {}
  Stages <- NoStages
  Gates = {"t1"}
  MaxRestarts = 0
  Timeout = 3
  Rate = 2
  BudgetLimit = 5
  OnComplete = "none"
  Coding = FALSE
  HasOutput = FALSE
  MaxStart = 0
  MaxFaults = 0
  FaultKinds = {"crash", "error", "evict"}
  Counted = {"budget.warning"}
  MaxCount = 2
INVARIANTS
  BudgetWarningOnce
CHECK_DEADLOCK FALSE
