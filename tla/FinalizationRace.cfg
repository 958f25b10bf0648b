SPECIFICATION Spec
CONSTANTS
  Order <- OneMate
  DependsOn <- NoNames1
  InputsFrom <- NoNames1
  Producers = {}
  Stages <- NoStages
  Gates = {}
  MaxRestarts = 0
  Timeout = 0
  Rate = 1
  BudgetLimit = 0
  OnComplete = "push-branch"
  Coding = TRUE
  HasOutput = FALSE
  MaxStart = 0
  MaxFaults = 0
  FaultKinds = {"crash", "error", "evict"}
  Counted = {}
  MaxCount = 2
INVARIANTS
  FinalizationFailureIsTerminal
CHECK_DEADLOCK FALSE
