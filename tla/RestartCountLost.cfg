SPECIFICATION Spec
CONSTANTS
  Order <- OneMate
  DependsOn <- NoNames1
  InputsFrom <- NoNames1
  Producers = {}
  Stages <- NoStages
  Gates = {}
  MaxRestarts = 1
  Timeout = 0
  Rate = 1
  BudgetLimit = 0
  OnComplete = "none"
  Coding = FALSE
  HasOutput = FALSE
  MaxStart = 0
  MaxFaults = 0
  FaultKinds = {"crash", "error", "evict"}
  Counted = {"spawn"}
  MaxCount = 2
INVARIANTS
  RespawnsBounded
CHECK_DEADLOCK FALSE
