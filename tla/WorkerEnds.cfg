CONSTANTS
  Jobs = {j1, j2}
  Workers = {w1}
  Slots = {s1}
  Resumer = resumer
  LocalDemucs = FALSE
  SharedKey = key
  None = None
  FaultKinds = {"crash", "stop", "db", "session", "late"}
  MaxFaults = 2
  Key <- OneKey
SPECIFICATION FairWorkerSpec
CHECK_DEADLOCK FALSE
PROPERTIES EveryJobEnds
