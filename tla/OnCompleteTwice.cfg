SPECIFICATION Spec
CONSTANTS
  Order <- OneMate
  DependsOn <- NoNames1
  InputsFrom <- NoNames1
  Producers = {}
  Stages <- NoStages
  Gates = {}
  MaxRestarts = 0
  Timeout = 0
  Rate = 1
  BudgetLimit = 0
  OnComplete = "deliver"
  Coding = FALSE
  HasOutput = FALSE
  MaxStart = 0
  MaxFaults = 0
  FaultKinds = {"crash", "error", "evict"}
  Counted = {"onComplete"}
  MaxCount = 2
INVARIANTS
  OnCompleteOnce
CHECK_DEADLOCK FALSE
