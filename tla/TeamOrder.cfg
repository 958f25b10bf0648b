SPECIFICATION Spec
CONSTANTS
  Order <- TwoMates
  DependsOn <- NoNames2
  InputsFrom <- FirstReadsSecond
  Producers = {}
  Stages <- NoStages
  Gates = {"t1", "t2"}
  MaxRestarts = 0
  Timeout = 0
  Rate = 1
  BudgetLimit = 0
  OnComplete = "none"
  Coding = FALSE
  HasOutput = FALSE
  MaxStart = 0
  MaxFaults = 0
  FaultKinds = {"crash", "error", "evict"}
  Counted = {}
  MaxCount = 2
INVARIANTS
  DependencyOrder
PROPERTIES
  ImplementsLifecycle
CHECK_DEADLOCK FALSE
