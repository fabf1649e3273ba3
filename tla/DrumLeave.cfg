CONSTANTS
  Tabs = {1}
  MaxEdits <- OneTabTwo
  MaxLoads = 1
  MaxExports <- NoExports
  FaultKinds = {}
  MaxFaults = 0
SPECIFICATION FairDrumSpec
CHECK_DEADLOCK FALSE
INVARIANT LeavingLosesNothing
