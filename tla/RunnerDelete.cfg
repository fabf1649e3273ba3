CONSTANTS
  Agents = {a1}
  Stems <- OneStem
  Analysis = "analysis"
  Notes = {}
  MaxFailures = 1
  FaultKinds = {}
  MaxFaults = 0
SPECIFICATION FairRunnerSpec
CHECK_DEADLOCK FALSE
INVARIANT DeletedStaysDeleted
