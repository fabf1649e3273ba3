CONSTANTS
  Jobs = {j1}
  Runners = {r1}
  Leases = {l1, l2}
  Calls = {c1}
  Sweeper = sweeper
  Watchers = {w1}
  MaxFailures = 2
  MaxFaults = 1
  FaultKinds = {"db", "crash"}
  Fractions = {50}
  None = None
  CanRun <- AnyRunner
SPECIFICATION FairWaitSpec
CHECK_DEADLOCK FALSE
INVARIANTS WaitTypeOK
PROPERTIES WaitingJobsMove LeasesOfEndedJobsClose
