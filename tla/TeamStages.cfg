SPECIFICATION Spec
CONSTANTS
  Order <- TwoMates
  DependsOn <- NoNames2
  InputsFrom <- NoNames2
  Producers = {}
  Stages <- GatedStages
  Gates = {}
  MaxRestarts = 0
  Timeout <- NoTimeout
  Rate = 1
  BudgetLimit = 0
  OnComplete = "none"
  Coding = FALSE
  HasOutput = FALSE
  MaxStart = 0
  MaxFaults = 1
  FaultKinds = {"crash"}
  Counted = {}
  MaxCount = 2
INVARIANTS
  StageOrder
  ApprovalBeforeSpawn
  StageStatusIsTrue
PROPERTIES
  StageRollup
CHECK_DEADLOCK FALSE
