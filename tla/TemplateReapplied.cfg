SPECIFICATION FairSpec
CONSTANTS
  Fires <- OneWindow
  Floor = 1
  HistoryLimit = 1
  MaxTime = 1
  MaxFaults = 1
  FaultKinds = {"template"}
PROPERTIES
  ReappliedTemplateHeals
