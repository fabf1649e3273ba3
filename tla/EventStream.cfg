CONSTANTS
  Clients = {c1}
  Writers = {w1, w2}
  MaxId = 4
  FaultKinds = {"rollback", "listen", "db", "drop", "restart"}
  MaxFaults = 3
SPECIFICATION FairStreamSpec
CHECK_DEADLOCK FALSE
INVARIANTS StreamInv
PROPERTIES IsAFeed EndIsHeard
