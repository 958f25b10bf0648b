SPECIFICATION FairSpec
CONSTANTS
  Fires <- OneWindow
  Floor = 1
  HistoryLimit = 1
  MaxTime = 2
  MaxFaults = 1
  FaultKinds = {"crash", "template"}
PROPERTIES
  DueWindowFires
  EndIsMirrored
