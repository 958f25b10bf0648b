SPECIFICATION FairSpec
CONSTANTS
  Order <- OneMate
  DependsOn <- NoNames1
  InputsFrom <- NoNames1
  Producers = {}
  Stages <- NoStages
  Gates = {}
  MaxRestarts = 0
  Timeout = 0
  Rate = 1
  BudgetLimit = 0
  OnComplete = "none"
  Coding = FALSE
  HasOutput = FALSE
  MaxStart = 0
  MaxFaults = 1
  FaultKinds = {"crash","evict"}
  Counted = {}
  MaxCount = 2
PROPERTIES
  EventuallyTerminal
  EventuallyCleanedUp
CHECK_DEADLOCK FALSE
