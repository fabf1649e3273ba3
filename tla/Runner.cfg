CONSTANTS
  Agents = {a1, a2}
  Stems <- TwoStems
  Analysis = "analysis"
  Notes = {}
  MaxFailures = 2
  FaultKinds = {"net", "silence", "hang", "tool", "crash", "url"}
  MaxFaults = 2
SPECIFICATION FairRunnerSpec
CHECK_DEADLOCK FALSE
 
PROPERTIES LostWorkStops JobIsServed
