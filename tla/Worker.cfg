CONSTANTS
  Jobs = {j1, j2}
  Workers = {w1, w2}
  Slots = {s1}
  Resumer = resumer
  LocalDemucs = TRUE
  SharedKey = key
  None = None
  FaultKinds = {"crash", "stop", "db"}
  MaxFaults = 2
  Key <- OneKey
SPECIFICATION WorkerSpec
SYMMETRY Symmetry
CHECK_DEADLOCK FALSE
INVARIANTS WorkerTypeOK OneDriver IntakeOwnsItsJob
PROPERTIES StagesInOrder
