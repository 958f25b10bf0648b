SPECIFICATION Spec
CONSTANTS
  Order <- OneMate
  DependsOn <- NoNames1
  InputsFrom <- NoNames1
  Producers = {}
  Stages <- NoStages
  Gates = {}
  MaxRestarts = 0
  Timeout = 2
  Rate = 4
  BudgetLimit = 5
  OnComplete = "create-pr"
  Coding = TRUE
  HasOutput = TRUE
  MaxStart = 0
  MaxFaults = 1
  FaultKinds = {"crash", "error"}
  Counted = {"budget.warning", "onComplete"}
  MaxCount = 1
INVARIANTS
  ProvisionedBeforePods
  CompletedMeansDone
  FailureHasCause
  WarnedBeforeExceeded
  RecordedMeansSent
CHECK_DEADLOCK FALSE
